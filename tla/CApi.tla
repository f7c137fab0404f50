-------------------------------- MODULE CApi --------------------------------
(***************************************************************************)
(* The C interface (src/src/c_api/c_api_vesal.cc, c_api_cypher.cc) with the *)
(* factories behind it (codec.cc, qat_codec.cc, sw_codec.cc, cypher.cc): a  *)
(* program that fills in options, starts the library, creates a channel of  *)
(* each kind, uses and destroys them.  The C program is correct: it uses a  *)
(* handle only between a create that returned VESAL_OK and its destroy.     *)
(*                                                                          *)
(* The channels themselves are the subject of other modules; here they hold *)
(* requests and answer them in order.  Options keep C's numbers.            *)
(***************************************************************************)
EXTENDS Integers, Sequences, FiniteSets, SequencesExt, Functions, TLC

CONSTANTS
    Wanted,     \* values the program gives to flags
    Chosen,     \* sets of flags that it sets at once
    Names,      \* lengths of the section's name
    StrSize,    \* sizeof(vesal_codec_qat_section_name)
    Engines, Modes, Algorithms, Checksums, KeyLens,   \* what the program passes
    SgNums,     \* numbers of source blocks
    SgLimit,    \* VESAL_MAX_SGL_NUM
    MaxReq,     \* bound: requests
    MaxInit     \* bound: calls of vesal_init

VARIABLES
    svm,      \* QatUnit::SvmEnabled, fixed
    flags,    \* the FLAGS_ variables
    given,    \* history: the flags the program asked for when it called vesal_init
    inits,    \* calls of vesal_init
    lib,      \* [up, qat, cypher, flag]: g_vesal_inited, what has QAT units, the flags at start
    chan,     \* kind -> the channel of the program's handle, or None
    alive,    \* channel objects that were not deleted: [kind, unit]
    reqs,     \* requests accepted
    got,      \* the requests whose result the program was given, with their ctx
    lost,     \* requests whose result the program cannot be given any more
    left,     \* requests that a destroyed shared channel left to its worker
    aborted   \* a VESAL_CHECK failed

vars == <<svm, flags, given, inits, lib, chan, alive, reqs, got, lost, left, aborted>>

Kinds == {"codec", "cypher"}
None == [st |-> "none"]
Channel(engine, mode) == [st |-> "open", engine |-> engine, mode |-> mode, hw |-> <<>>, ready |-> <<>>]

\* The FLAGS_ variables, without vesal_ and the name of their part; booleans are 0 or 1 as in
\* C, and of the section's name only the length is kept.
DefaultFlags ==
    [max_in_qat_num |-> 8190, sample_rate |-> 255, disable_poller_metrics |-> 0,
     section_name |-> 0, console_output |-> 0, log_level |-> 2,
     min_counting_time_window_us |-> 50, sliding_time_window_sec |-> 60,
     trigger_error_num |-> 5, poller_op_process_num |-> 16, poller_num |-> 2,
     poller_sleep_time_us |-> 0]

Init ==
    /\ svm \in BOOLEAN
    /\ flags \in {[DefaultFlags EXCEPT !.section_name = n] : n \in Names}
    /\ given = flags /\ inits = 0
    /\ lib = [up |-> FALSE, qat |-> FALSE, cypher |-> FALSE, flag |-> flags]
    /\ chan = [k \in Kinds |-> None] /\ alive = {}
    /\ reqs = 0 /\ got = <<>> /\ lost = {} /\ left = {} /\ aborted = FALSE

Startup == <<flags, given, inits, lib>>
Requests == <<reqs, got, lost, left>>

-----------------------------------------------------------------------------
(* Start and stop *)

\* default_vesal_flags: of a name as long as the array, the end is written behind it and
\* then overwritten, so that it is read back with up to one byte more.
default_vesal_flags ==
    LET names == IF flags.section_name < StrSize THEN {flags.section_name} ELSE {StrSize, StrSize + 1}
    IN  {[max_in_qat_num |-> flags.max_in_qat_num,
          sample_rate |-> flags.sample_rate,
          disable_poller_metrics |-> flags.disable_poller_metrics,
          section_name |-> n,
          console_output |-> flags.console_output,
          log_level |-> flags.log_level,
          min_counting_time_window_us |-> flags.min_counting_time_window_us,
          sliding_time_window_sec |-> flags.sliding_time_window_sec,
          trigger_error_num |-> flags.trigger_error_num,
          poller_op_process_num |-> flags.poller_op_process_num,
          poller_num |-> flags.poller_num,
          poller_sleep_time_us |-> flags.poller_sleep_time_us] : n \in names}

\* The options before the program looks at them; which flags it finds in them depends on
\* what default_vesal_flags could read.
default_vesal_init_options ==
    {[flag |-> f, qat |-> TRUE, cypher |-> TRUE, pool |-> TRUE] : f \in default_vesal_flags}

\* The program sets flags, and switches parts off.
Edit(o, set, off) ==
    [x \in DOMAIN o |-> IF x = "flag" THEN set @@ o.flag ELSE o[x] /\ x \notin off]

\* Mutant: one flag is given the value of its neighbour.
translate_flags_neighbour(f) ==
    [f EXCEPT !.sliding_time_window_sec = f.min_counting_time_window_us]

\* static_cast<bool>
Bool(x) == IF x = 0 THEN 0 ELSE 1

translate_flags(f) ==
    [max_in_qat_num |-> f.max_in_qat_num,
     sample_rate |-> f.sample_rate,
     disable_poller_metrics |-> Bool(f.disable_poller_metrics),
     section_name |-> f.section_name,
     console_output |-> Bool(f.console_output),
     log_level |-> f.log_level,
     min_counting_time_window_us |-> f.min_counting_time_window_us,
     sliding_time_window_sec |-> f.sliding_time_window_sec,
     trigger_error_num |-> f.trigger_error_num,
     poller_op_process_num |-> f.poller_op_process_num,
     poller_num |-> f.poller_num,
     poller_sleep_time_us |-> f.poller_sleep_time_us]

\* vesal_init.  The flags change even when the library already runs.
vesal_init ==
    /\ ~aborted /\ inits < MaxInit /\ inits' = inits + 1
    /\ \E o \in default_vesal_init_options, set \in {Restrict(Wanted, F) : F \in Chosen},
          off \in SUBSET {"qat", "cypher", "pool"} :
        LET opts == Edit(o, set, off)
        IN  /\ given' = set @@ flags
            /\ flags' = translate_flags(opts.flag)
            /\ \/ lib' = lib
               \/ /\ ~lib.up /\ (opts.pool \/ ~(opts.qat \/ opts.cypher))
                  /\ lib' = [up |-> TRUE, qat |-> opts.qat, cypher |-> opts.cypher, flag |-> flags']
    /\ UNCHANGED <<svm, chan, alive, aborted>> /\ UNCHANGED Requests

\* "Should be called after all other vesal APIs."
vesal_uninit ==
    /\ ~aborted /\ \A k \in Kinds : chan[k] = None
    /\ lib' = [lib EXCEPT !.up = FALSE, !.qat = FALSE, !.cypher = FALSE]
    /\ UNCHANGED <<svm, flags, given, inits, chan, alive, aborted>> /\ UNCHANGED Requests

-----------------------------------------------------------------------------
(* Channels.  The cast to an enumeration of one byte keeps the low byte.      *)

Byte(x) == x % 256
kSoftware == 1
kQat == 2
kDedicated == 1
kShared == 2
kAES_XTS == 1

\* ValidateChannelOption: only the kNum of each enumeration is refused.
Valid(o) == Byte(o.mode) # 3 /\ Byte(o.comp_algorithm) # 5 /\ Byte(o.checksum_type) # 3

\* QatCodec::CreateCodecChannel: Init may find no unit or no session.
QatCreate(o) ==
    IF ~Valid(o) \/ Byte(o.mode) \notin {kDedicated, kShared} THEN {"kInvalidArgument"}
    ELSE {"kOk", "kResourceBusy"}

\* SwCodecChannel::Init: what the channel can do, and the one allocation it looks at.
SwInit(o) ==
    IF Byte(o.checksum_type) \notin {1, 2} \/ Byte(o.comp_algorithm) \notin {1, 3, 4}
    THEN {"kNotSupported"}
    ELSE {"kOk"} \cup (IF Byte(o.comp_algorithm) = 1 THEN {"kChannelError"} ELSE {})

\* SwCodec::CreateCodecChannel
SwCreate(o) ==
    IF Byte(o.mode) # kDedicated THEN {"kNotSupported"} ELSE SwInit(o)

\* CodecChannel::CreateCodecChannel; kKae is not built in.
CreateCodecChannel(o) ==
    CASE Byte(o.engine_type) = kQat /\ lib.qat -> QatCreate(o)
      [] Byte(o.engine_type) = kSoftware /\ lib.up -> SwCreate(o)
      [] OTHER -> {"kNotSupported"}

\* CypherChannel::CreateCypherChannel, Cypher::CreateCypherChannel: a manager that was not
\* started has no unit to give.
CreateCypherChannel(o) ==
    CASE Byte(o.engine_type) = kSoftware /\ lib.up ->
            IF Byte(o.algorithm) \in {1, 2} THEN {"kOk"} ELSE {"kNotSupported"}
      [] Byte(o.engine_type) = kQat /\ lib.up ->
            {"kResourceBusy"} \cup (IF lib.cypher THEN {"kOk"} ELSE {})
      [] OTHER -> {"kNotSupported"}

\* Mutant: the handle's object is taken out of the pair before the status is looked at.
HandOutFirst(k, status, c) ==
    /\ alive' = alive \cup {[kind |-> k, unit |-> c.engine = kQat /\ c.mode = kDedicated /\ status = "kOk"]}
    /\ chan' = [chan EXCEPT ![k] = IF status = "kOk" THEN c ELSE None]

\* The channel is released to the handle, or deleted with the pair when its Init failed.
HandOut(k, status, c) ==
    IF status # "kOk" THEN UNCHANGED <<alive, chan>>
    ELSE /\ alive' = alive \cup {[kind |-> k, unit |-> c.engine = kQat /\ c.mode = kDedicated]}
         /\ chan' = [chan EXCEPT ![k] = c]

vesal_create_codec_channel ==
    /\ ~aborted /\ chan["codec"] = None
    /\ \E o \in [engine_type : Engines, mode : Modes, comp_algorithm : Algorithms,
                 checksum_type : Checksums] :
        \E status \in CreateCodecChannel(o) :
            HandOut("codec", status, Channel(Byte(o.engine_type), Byte(o.mode)))
    /\ UNCHANGED <<svm, aborted>> /\ UNCHANGED Startup /\ UNCHANGED Requests

\* AES keys of 16 or 32 bytes
KeyOk(o) == Byte(o.algorithm) = kAES_XTS => o.key_len \in {16, 32}

vesal_create_cypher_channel ==
    /\ ~aborted /\ chan["cypher"] = None
    /\ \E o \in [engine_type : Engines, algorithm : Algorithms, key_len : KeyLens] :
        \E status \in IF KeyOk(o) THEN CreateCypherChannel(o) ELSE {"kInvalidArgument"} :
            HandOut("cypher", status, Channel(Byte(o.engine_type), kDedicated))
    /\ UNCHANGED <<svm, aborted>> /\ UNCHANGED Startup /\ UNCHANGED Requests

\* The channel may close only once the hardware has none of its requests; deleting one that
\* did not close aborts.  A shared channel leaves its requests to the worker.
vesal_destroy_channel(k) ==
    LET c == chan[k]
    IN  /\ ~aborted /\ c # None
        /\ IF c.engine = kQat /\ c.mode = kDedicated /\ c.hw # <<>>
           THEN aborted' = TRUE /\ UNCHANGED <<chan, alive, lost, left>>
           ELSE /\ chan' = [chan EXCEPT ![k] = None]
                /\ alive' = {a \in alive : a.kind # k}
                /\ lost' = lost \cup {r.id : r \in Range(c.ready)}
                /\ left' = left \cup {r.id : r \in Range(c.hw)}
                /\ aborted' = aborted
        /\ UNCHANGED <<svm, reqs, got>> /\ UNCHANGED Startup

-----------------------------------------------------------------------------
(* Requests.  src says whether what the hardware reads lives as long as the   *)
(* request: the caller's memory or a buffer of the channel, but not the copy  *)
(* that dies when the call returns.                                           *)

\* Mutant: the pieces are joined in memory of the pool, which needs no second copy.
ReadFromPool(n) == IF n > SgLimit THEN "dead" ELSE "alive"

\* A block that is not DMA memory is copied by the channel, unless there is SVM
\* (QatBuf::FillOneBuffer).
ReadFrom(n) == IF n > SgLimit /\ svm THEN "dead" ELSE "alive"

\* Request id enters the channel of handle k: a software channel has worked at once.
Enter(k, id, src) ==
    LET c == chan[k]
        r == [id |-> id, src |-> src]
    IN  chan' = [chan EXCEPT ![k] = IF c.engine = kSoftware THEN [c EXCEPT !.ready = Append(@, r)]
                                    ELSE [c EXCEPT !.hw = Append(@, r)]]

\* vesal_codec_{compress,decompress}_async and their sgl forms: the channel refuses no block
\* and too many.
vesal_codec_async(n) ==
    /\ ~aborted /\ chan["codec"] # None /\ reqs < MaxReq /\ n \in 1 .. SgLimit
    /\ reqs' = reqs + 1 /\ Enter("codec", reqs + 1, "alive")
    /\ UNCHANGED <<svm, alive, got, lost, left, aborted>> /\ UNCHANGED Startup

\* vesal_cypher_submit, vesal_cypher_submit_sgl: too many blocks are joined.  The software
\* channel returns the result itself.
vesal_cypher_submit(n) ==
    /\ ~aborted /\ chan["cypher"] # None /\ reqs < MaxReq /\ n > 0
    /\ reqs' = reqs + 1
    /\ IF chan["cypher"].engine = kSoftware THEN got' = Append(got, reqs + 1) /\ chan' = chan
       ELSE got' = got /\ Enter("cypher", reqs + 1, ReadFrom(n))
    /\ UNCHANGED <<svm, alive, lost, left, aborted>> /\ UNCHANGED Startup

\* The hardware answers; a shared channel's worker calls back at once.
answer(k) ==
    LET c == chan[k]
    IN  /\ ~aborted /\ c # None /\ c.hw # <<>>
        /\ IF c.mode = kShared
           THEN /\ chan' = [chan EXCEPT ![k].hw = Tail(@)] /\ got' = Append(got, Head(c.hw).id)
           ELSE /\ chan' = [chan EXCEPT ![k].hw = Tail(@), ![k].ready = Append(@, Head(c.hw))]
                /\ got' = got
        /\ UNCHANGED <<svm, alive, reqs, lost, left, aborted>> /\ UNCHANGED Startup

\* The worker calls back after the channel is gone.
late_callback ==
    /\ ~aborted
    /\ \E r \in left : left' = left \ {r} /\ got' = Append(got, r)
    /\ UNCHANGED <<svm, chan, alive, reqs, lost, aborted>> /\ UNCHANGED Startup

\* vesal_codec_poll, vesal_cypher_poll: the results are the channel's own array.
poll(k) ==
    LET c == chan[k]
    IN  /\ ~aborted /\ c # None
        /\ IF c.mode = kShared THEN aborted' = TRUE /\ UNCHANGED <<chan, got>>
           ELSE /\ c.ready # <<>>
                /\ \E n \in 1 .. Len(c.ready) :
                    /\ got' = got \o [i \in 1 .. n |-> c.ready[i].id]
                    /\ chan' = [chan EXCEPT ![k].ready = SubSeq(@, n + 1, Len(@))]
                /\ aborted' = aborted
        /\ UNCHANGED <<svm, alive, reqs, lost, left>> /\ UNCHANGED Startup

\* vesal_codec_compress, vesal_codec_decompress: convert_codec_result drops the ctx.  A
\* dedicated QAT channel gives the next result it has, which may be another request's; a
\* call that gets its own result changes nothing here.
compress ==
    LET c == chan["codec"]
        queue == IF c = None THEN <<>> ELSE c.ready \o c.hw
    IN  /\ ~aborted /\ c # None /\ c.engine = kQat /\ c.mode = kDedicated /\ queue # <<>>
        /\ reqs < MaxReq
        /\ reqs' = reqs + 1
        /\ lost' = lost \cup {Head(queue).id}
        /\ LET own == [id |-> reqs + 1, src |-> "alive"]
           IN  chan' = [chan EXCEPT !["codec"] =
                   IF c.ready # <<>> THEN [c EXCEPT !.ready = Tail(@), !.hw = Append(@, own)]
                   ELSE [c EXCEPT !.hw = Append(Tail(@), own)]]
        /\ UNCHANGED <<svm, alive, got, left, aborted>> /\ UNCHANGED Startup

-----------------------------------------------------------------------------

Next ==
    \/ vesal_init \/ vesal_uninit \/ vesal_create_codec_channel \/ vesal_create_cypher_channel
    \/ compress \/ late_callback
    \/ \E k \in Kinds : vesal_destroy_channel(k) \/ answer(k) \/ poll(k)
    \/ \E n \in SgNums : vesal_codec_async(n) \/ vesal_cypher_submit(n)

Spec == Init /\ [][Next]_vars

-----------------------------------------------------------------------------

\* After vesal_init each flag has the value the program set or else the one it had before: all
\* twelve go into the options and back out (default_vesal_flags, translate_flags).  A name
\* that does not fit is left out.
FlagsAsAsked == given.section_name < StrSize => flags = given

\* The channels that exist are those the program has a handle for, and each holds a unit if
\* it needs one: nothing is left of a create that failed or after a destroy.
ChannelsAccounted ==
    /\ {k \in Kinds : chan[k] # None} = {a.kind : a \in alive}
    /\ \A a \in alive : a.unit <=> chan[a.kind].engine = kQat /\ chan[a.kind].mode = kDedicated

\* Whatever numbers C passes, a channel has an engine that is up, in a mode it supports.
ChannelsKnown ==
    \A k \in Kinds : chan[k] # None =>
        /\ lib.up /\ chan[k].engine \in {kSoftware, kQat}
        /\ (chan[k].mode = kDedicated \/ (chan[k].mode = kShared /\ chan[k].engine = kQat))
        /\ chan[k].engine = kQat => IF k = "codec" THEN lib.qat ELSE lib.cypher

\* Every accepted request is somewhere, once: with the program, in a channel, with the worker
\* of a channel that is gone, or lost to a destroy or to a synchronous call.
ResultsOnce ==
    LET at(k) == IF chan[k] = None THEN <<>> ELSE chan[k].ready \o chan[k].hw
        ids(k) == [i \in DOMAIN at(k) |-> at(k)[i].id]
        all == got \o ids("codec") \o ids("cypher") \o SetToSeq(lost) \o SetToSeq(left)
    IN  IsInjective(all) /\ Range(all) = 1 .. reqs

\* Without SVM the hardware reads no source that is gone: the joined copy of
\* vesal_cypher_submit_sgl dies with the call, but is not DMA memory and is copied again.
SourceAlive ==
    ~svm => \A k \in Kinds : chan[k] # None => \A r \in Range(chan[k].hw) : r.src # "dead"

\* The flags of a running library are those it was started with; vesal_init changes them
\* before it finds out that the library runs (c_api_vesal.cc:177, vesal.cc:81).
FlagsOfStart == lib.up => flags = lib.flag

\* With SVM as well (c_api_cypher.cc:147)
SourceAlwaysAlive ==
    \A k \in Kinds : chan[k] # None => \A r \in Range(chan[k].hw) : r.src # "dead"

\* "Poll has no effect on shared channel" (qat_codec_shared_channel.h:89), and a destroy with
\* requests in the hardware (c_api_vesal.cc:247): neither ends the process.
NeverAborts == ~aborted
=============================================================================
