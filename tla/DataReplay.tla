----------------------------- MODULE DataReplay -----------------------------
(***************************************************************************)
(* The tool that replays recorded requests (src/perf/codec/data_replay.cc). *)
(* Each file has a worker with a dedicated channel, or one worker replays   *)
(* the records of all files in the order of their timestamps.  A request is *)
(* entered in a table of Slots crash records before it is submitted and     *)
(* struck out when its result has been handled; a handler of fatal signals  *)
(* reports the earliest entry.                                              *)
(*                                                                          *)
(* Requests are known by the number g_submit_seq gives them.  A channel     *)
(* answers in order and once, as AsyncChannel does; how long an answer      *)
(* takes, and how it ends, is open.                                         *)
(***************************************************************************)
EXTENDS Integers, Sequences, FiniteSets, SequencesExt

CONSTANTS
    Workers,       \* one for each file
    Files,         \* what the files may hold: [header, entries, records], a record being
                   \* [submit_ts_ns, req_id, truncated, codec_algo, comp_level, direction]
    LoopNum, InflightNum, MaxRecords,   \* the flags
    Slots,         \* kMaxCrashSlots
    Statuses       \* how a request may fail

VARIABLES
    mode,      \* "per_file" or "merged"
    file,      \* the files found
    main,      \* "load", "run", "exit"
    exit,      \* the exit code
    worker,    \* the state of each worker's ReplayRecords
    results,   \* codes of the workers that are done
    seq,       \* g_submit_seq
    slots,     \* g_crash_active and the numbers in g_crash_records
    crash,     \* g_handling_crash_signal, whether the process is over, and each thread's
               \* handler with what was registered when it began
    shared     \* a slot was taken while the request in it was outstanding

vars == <<mode, file, main, exit, worker, results, seq, slots, crash, shared>>

Idle == [pc |-> "start", dead |-> FALSE, loop |-> 0, next |-> 1, reg |-> 0, active |-> <<>>,
         chan |-> <<>>, got |-> <<>>, code |-> 0, submitted |-> 0, completed |-> 0]

NoSignal == [pc |-> "none", at |-> 0, best |-> 0, slot |-> 0, said |-> 0, live |-> {}]

Init ==
    /\ mode \in {"per_file", "merged"}
    /\ file \in Files
    /\ main = "load" /\ exit = 0 /\ results = <<>> /\ seq = 1 /\ shared = FALSE
    /\ worker = [w \in Workers |-> Idle]
    /\ slots = [s \in 0 .. Slots - 1 |-> [on |-> FALSE, seq |-> 0]]
    /\ crash = [handling |-> FALSE, over |-> FALSE, handler |-> [w \in Workers |-> NoSignal]]

\* LoadRecentFile: a header line and the records it announces
LoadRecentFile(f) == f.header /\ f.entries <= Len(f.records)
Loaded(f) == SubSeq(f.records, 1, f.entries)

\* The order of a merged replay
Earlier(r, s) ==
    r.submit_ts_ns < s.submit_ts_ns \/ (r.submit_ts_ns = s.submit_ts_ns /\ r.req_id < s.req_id)
Merged ==
    LET order == SetToSeq(Workers)
    IN  SortSeq(FlattenSeq([i \in DOMAIN order |-> Loaded(file[order[i]])]), Earlier)

Threads == IF mode = "merged" THEN {CHOOSE w \in Workers : TRUE} ELSE Workers
Records(w) == IF mode = "merged" THEN Merged ELSE Loaded(file[w])
Limit(w) ==
    IF MaxRecords > 0 /\ MaxRecords < Len(Records(w)) THEN MaxRecords ELSE Len(Records(w))

CodecAlgorithmFromRecord(algo) ==
    IF algo \in {"kLz4", "kZstd", "kDeflate", "kZlib"} THEN algo ELSE "kNum"
CodecCompLevelFromRecord(level) == IF level \in 1 .. 12 THEN level ELSE 13
Unsupported(r) ==
    \/ CodecAlgorithmFromRecord(r.codec_algo) = "kNum"
    \/ CodecCompLevelFromRecord(r.comp_level) = 13
    \/ r.direction \notin {"kComp", "kDecomp"}

ErrorCodeForStatus(status) ==
    CASE status = "kTimeout" -> 20 [] status = "kOverflow" -> 21 [] status = "kBadData" -> 22
      [] status = "kPermanentError" -> 23 [] status = "kSliceHang" -> 24 [] OTHER -> 14

-----------------------------------------------------------------------------
(* main *)

\* The files are read and the library is initialised, or the tool gives up.
Load ==
    /\ main = "load"
    /\ \/ (\A w \in Workers : LoadRecentFile(file[w])) /\ main' = "run" /\ UNCHANGED exit
       \/ main' = "exit" /\ exit' = 1
    /\ UNCHANGED <<mode, file, worker, results, seq, slots, crash, shared>>

Running == main = "run" /\ ~crash.over

\* The workers are joined, the results collected in the order they came, and Uninit called.
Join ==
    /\ Running /\ Len(results) = Cardinality(Threads)
    /\ main' = "exit"
    /\ LET failed == SelectSeq(results, LAMBDA c : c # 0)
       IN  exit' \in {7, IF failed = <<>> THEN 0 ELSE failed[1]}
    /\ UNCHANGED <<mode, file, worker, results, seq, slots, crash, shared>>

-----------------------------------------------------------------------------
(* The table of crash records *)

SlotOf(n) == n % Slots
Off(n) == [slots EXCEPT ![SlotOf(n)].on = FALSE]

At(w, pc) == Running /\ w \in Threads /\ ~worker[w].dead /\ worker[w].pc = pc
Set(w, s) == worker' = [worker EXCEPT ![w] = s]
Same == UNCHANGED <<mode, file, main, exit, results, crash>>
Others == UNCHANGED <<mode, file, main, exit, results, crash, seq, slots, shared>>

\* The requests that are registered, and the ones about to be
Live == {worker[w].reg : w \in {v \in Threads : worker[v].pc = "call"}} \cup
        UNION {Range(worker[w].active) : w \in Threads}
Begun == {worker[w].reg : w \in {v \in Threads : worker[v].pc = "on"}}

\* RegisterCrashRecord: the next number, its slot switched off and filled; then switched on
RegisterFill(w) ==
    /\ Set(w, [worker[w] EXCEPT !.pc = "on", !.reg = seq])
    /\ seq' = seq + 1
    /\ slots' = [slots EXCEPT ![SlotOf(seq)] = [on |-> FALSE, seq |-> seq]]
    /\ shared' = (shared \/ \E r \in Live \cup Begun : SlotOf(r) = SlotOf(seq))

RegisterOn(w) ==
    /\ At(w, "on")
    /\ Set(w, [worker[w] EXCEPT !.pc = "call"])
    /\ slots' = [slots EXCEPT ![SlotOf(worker[w].reg)].on = TRUE]
    /\ UNCHANGED <<seq, shared>> /\ Same

-----------------------------------------------------------------------------
(* ReplayRecords *)

\* The loop over ReplayRecords: the channel is created, there is nothing to replay, or the
\* worker is done.
Start(w) ==
    LET s == worker[w]
    IN  /\ At(w, "start") /\ s.loop < LoopNum /\ s.code = 0
        /\ \/ Records(w) = <<>> /\ Set(w, [s EXCEPT !.loop = @ + 1])
           \/ Records(w) # <<>> /\ Set(w, [s EXCEPT !.pc = "submit", !.next = 1])
           \/ Records(w) # <<>> /\ Set(w, [s EXCEPT !.code = 2])
        /\ Others

Done(w) ==
    LET s == worker[w]
    IN  /\ At(w, "start") /\ (s.loop = LoopNum \/ s.code # 0)
        /\ Set(w, [s EXCEPT !.pc = "done"])
        /\ results' = Append(results, s.code)
        /\ UNCHANGED <<mode, file, main, exit, seq, slots, crash, shared>>

CanSubmit(w) == worker[w].next <= Limit(w) /\ Len(worker[w].active) < InflightNum

\* submit_next up to the call of the channel: the record is refused, or registered
SubmitNext(w) ==
    LET record == Records(w)[worker[w].next]
        refuse(code) == /\ Set(w, [worker[w] EXCEPT !.code = code, !.pc = "drain"])
                        /\ UNCHANGED <<seq, slots, shared>>
    IN  /\ At(w, "submit") /\ CanSubmit(w)
        /\ IF record.truncated THEN refuse(3)
           ELSE IF Unsupported(record) THEN refuse(4)
           ELSE RegisterFill(w)
        /\ Same

SubmitAsync(w) ==
    LET s == worker[w]
    IN  /\ At(w, "call")
        /\ Set(w, [s EXCEPT !.pc = "submit", !.reg = 0, !.active = Append(@, s.reg),
                            !.chan = Append(@, s.reg), !.next = @ + 1, !.submitted = @ + 1])
        /\ Others

SubmitFails(w) ==
    /\ At(w, "call")
    /\ \E status \in Statuses :
        Set(w, [worker[w] EXCEPT !.pc = "drain", !.reg = 0,
                                !.code = ErrorCodeForStatus(status)])
    /\ slots' = Off(worker[w].reg)
    /\ UNCHANGED <<seq, shared>> /\ Same

\* Poll, in the main loop and while draining: it fails, returns nothing for too long, or
\* the next results.
Poll(w) ==
    LET s == worker[w]
        fail(code) == Set(w, [s EXCEPT !.code = IF @ = 0 THEN code ELSE @,
                                       !.pc = IF @ = "submit" THEN "drain" ELSE "close"])
    IN  /\ Running /\ w \in Threads /\ ~s.dead /\ s.active # <<>>
        /\ s.pc = "drain" \/ (s.pc = "submit" /\ ~CanSubmit(w))
        /\ \/ fail(14)
           \/ fail(ErrorCodeForStatus("kTimeout"))
           \/ \E n \in 1 .. Len(s.chan) :
                Set(w, [s EXCEPT !.got = SubSeq(s.chan, 1, n),
                                 !.chan = SubSeq(s.chan, n + 1, Len(s.chan)),
                                 !.pc = IF @ = "submit" THEN "results" ELSE "drained"])
        /\ Others

\* Mutant: a result that is not kOk is skipped.
HandleResultAll(w) ==
    LET s == worker[w]
        r == Head(s.got)
    IN  /\ At(w, "results")
        /\ slots' = Off(r)
        /\ \E ok \in BOOLEAN :
            Set(w, [s EXCEPT !.active = Remove(@, r), !.completed = IF ok THEN @ + 1 ELSE @,
                             !.got = Tail(@), !.pc = IF Len(s.got) = 1 THEN "submit" ELSE @])
        /\ UNCHANGED <<seq, shared>> /\ Same

\* A result that is not kOk ends the loop; the rest of the batch is forgotten.
HandleResult(w) ==
    LET s == worker[w]
        r == Head(s.got)
    IN  /\ At(w, "results")
        /\ IF r \notin Range(s.active)
           THEN Set(w, [s EXCEPT !.code = 14, !.got = <<>>, !.pc = "drain"]) /\ UNCHANGED slots
           ELSE /\ slots' = Off(r)
                /\ \/ Set(w, [s EXCEPT !.active = Remove(@, r), !.completed = @ + 1,
                                       !.got = Tail(@),
                                       !.pc = IF Len(s.got) = 1 THEN "submit" ELSE @])
                   \/ \E status \in Statuses :
                        Set(w, [s EXCEPT !.active = Remove(@, r), !.got = <<>>, !.pc = "drain",
                                         !.code = ErrorCodeForStatus(status)])
        /\ UNCHANGED <<seq, shared>> /\ Same

DrainResult(w) ==
    LET s == worker[w]
        r == Head(s.got)
    IN  /\ At(w, "drained")
        /\ slots' = IF r \in Range(s.active) THEN Off(r) ELSE slots
        /\ Set(w, [s EXCEPT !.active = Remove(@, r), !.got = Tail(@),
                            !.pc = IF Len(s.got) = 1 THEN "drain" ELSE @])
        /\ UNCHANGED <<seq, shared>> /\ Same

Drained(w) ==
    LET s == worker[w]
    IN  /\ Running /\ w \in Threads /\ ~s.dead /\ s.active = <<>>
        /\ s.pc = "drain" \/ (s.pc = "submit" /\ ~CanSubmit(w))
        /\ Set(w, [s EXCEPT !.pc = "close"])
        /\ Others

\* Close fails at least while the engine holds a request; the requests are freed after it.
Close(w) ==
    LET s == worker[w]
    IN  /\ At(w, "close")
        /\ \E closes \in BOOLEAN :
            /\ closes => s.chan = <<>>
            /\ Set(w, [s EXCEPT !.code = IF closes \/ @ # 0 THEN @ ELSE 5, !.active = <<>>,
                                !.loop = @ + 1, !.pc = "start"])
        /\ Others

-----------------------------------------------------------------------------
(* CrashSignalHandler, on the thread that got the signal; the others go on.  *)

InHandler(w, pc) == Running /\ w \in Threads /\ crash.handler[w].pc = pc
Handler(w, h) ==
    /\ crash' = [crash EXCEPT !.handler[w] = h]
    /\ UNCHANGED <<mode, file, main, exit, worker, results, seq, slots, shared>>

\* A thread gets a fatal signal and tests the flag: it waits for ever, or goes on.
Crash(w) ==
    /\ Running /\ w \in Threads /\ ~worker[w].dead /\ worker[w].pc # "done"
    /\ Set(w, [worker[w] EXCEPT !.dead = TRUE])
    /\ crash' = [crash EXCEPT !.handler[w].pc = IF crash.handling THEN "spin" ELSE "tested"]
    /\ UNCHANGED <<mode, file, main, exit, results, seq, slots, shared>>

\* The flag is set after the test, so that two threads may both get here.
Handle(w) ==
    /\ InHandler(w, "tested")
    /\ crash' = [crash EXCEPT !.handling = TRUE, !.handler[w].pc = "scan",
                              !.handler[w].live = Live]
    /\ UNCHANGED <<mode, file, main, exit, worker, results, seq, slots, shared>>

\* One entry of the table: whether it is on, and, if it is, its number
ScanActive(w) ==
    LET h == crash.handler[w]
    IN  /\ InHandler(w, "scan") /\ h.at < Slots
        /\ Handler(w, IF slots[h.at].on THEN [h EXCEPT !.pc = "seq"] ELSE [h EXCEPT !.at = @ + 1])

\* Mutant: the first entry found is reported.
ScanSeqFirst(w) ==
    LET h == crash.handler[w]
        next == [h EXCEPT !.pc = "scan", !.at = @ + 1]
    IN  /\ InHandler(w, "seq")
        /\ Handler(w, IF h.best = 0 THEN [next EXCEPT !.best = slots[h.at].seq, !.slot = h.at]
                      ELSE next)

ScanSeq(w) ==
    LET h == crash.handler[w]
        n == slots[h.at].seq
        next == [h EXCEPT !.pc = "scan", !.at = @ + 1]
    IN  /\ InHandler(w, "seq")
        /\ Handler(w, IF n # 0 /\ (h.best = 0 \/ n < h.best)
                      THEN [next EXCEPT !.best = n, !.slot = h.at] ELSE next)

\* The record in the best slot is read again and written, and raise ends the process; of
\* what other threads do in between only a second report would be seen, and either of two
\* handlers may come first.
Report(w) ==
    LET h == crash.handler[w]
    IN  /\ InHandler(w, "scan") /\ h.at = Slots
        /\ crash' = [crash EXCEPT !.over = TRUE, !.handler[w].pc = "said",
                          !.handler[w].said = IF h.best = 0 THEN 0 ELSE slots[h.slot].seq]
        /\ UNCHANGED <<mode, file, main, exit, worker, results, seq, slots, shared>>

Next ==
    \/ Load \/ Join
    \/ \E w \in Workers :
        \/ Start(w) \/ Done(w) \/ SubmitNext(w) \/ RegisterOn(w) \/ SubmitAsync(w)
        \/ SubmitFails(w) \/ Poll(w) \/ HandleResult(w) \/ DrainResult(w) \/ Drained(w)
        \/ Close(w)
        \/ Crash(w) \/ Handle(w) \/ ScanActive(w) \/ ScanSeq(w) \/ Report(w)

Spec == Init /\ [][Next]_vars

-----------------------------------------------------------------------------

\* The handler's "earliest in-flight request".  While no slot was shared and no worker has
\* failed, the entries that are on are the requests under way, nothing that was registered
\* during the whole scan is earlier than the request chosen, and its record is the one
\* written unless it ended meanwhile - for each of two threads too that get a signal
\* between the other's test of the flag and its assignment (data_replay.cc,
\* CrashSignalHandler).
CrashReportExact ==
    ~shared /\ (\A w \in Threads : worker[w].code = 0) =>
        /\ {slots[s].seq : s \in {i \in DOMAIN slots : slots[i].on}} = Live
        /\ \A w \in Threads : LET h == crash.handler[w] IN h.pc = "said" =>
            /\ \A r \in h.live \cap Live : h.best # 0 /\ h.best <= r
            /\ h.best \in Live /\ h.best \in h.live => h.said = h.best

\* An exit code of 0 means that every record was replayed in every loop with success and
\* nothing is left in a channel; another one that a worker, or main itself, failed; and a
\* merged replay goes by the timestamps (data_replay.cc, main).
SummaryExact ==
    /\ main = "exit" /\ exit = 0 => \A w \in Threads :
        /\ worker[w].completed = LoopNum * Limit(w) /\ worker[w].submitted = LoopNum * Limit(w)
        /\ worker[w].chan = <<>>
    /\ main = "exit" /\ exit \notin {0, 1, 7} => \E w \in Threads : worker[w].code = exit
    /\ main = "run" => \A i, j \in DOMAIN Merged : i < j => Merged[i].submit_ts_ns <= Merged[j].submit_ts_ns

\* Every request in a channel has its buffers, also when the worker gives up (not so: the
\* drain loop ends when an answer is overdue, and the requests are freed; data_replay.cc).
BuffersOutlive == \A w \in Threads : worker[w].pc = "done" => worker[w].chan = <<>>
=============================================================================
