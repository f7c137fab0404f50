---------------------------- MODULE QatLz4Simple ----------------------------
(***************************************************************************)
(* The demo of shared channels (src/perf/codec/qat_lz4_simple.cc).  Each    *)
(* thread keeps InflightNum slots busy: it compresses the slot's input,     *)
(* decompresses every Interval-th output and compares.  The channel's       *)
(* callback, on the poller's thread, puts the request in the thread's       *)
(* window and notifies it.  Window, requests and buffers are on the         *)
(* thread's stack.  The first error of any thread stops all.                *)
(*                                                                          *)
(* The threads' channels share one worker, whose poller calls back in order *)
(* and returns a channel's share of the worker between two callbacks, as    *)
(* SharedMode and PollerWorker show.                                        *)
(***************************************************************************)
EXTENDS Integers, Sequences, FiniteSets, SequencesExt, FiniteSetsExt

CONSTANTS
    Threads,
    LoopNum, InflightNum, Interval,   \* the flags; Interval is decompress_interval
    Statuses                          \* how a request may fail

VARIABLES
    thread,   \* each thread's locals, its window among them
    work,     \* the requests in the worker: [t, slot, loop, dec]
    cb,       \* the callback that has not notified yet
    stop,     \* the flag all threads share
    error,    \* first_error and first_error_code
    count,    \* compress_request_num and decompress_request_num
    exit      \* the exit code, -1 before

vars == <<thread, work, cb, stop, error, count, exit>>

None == [t |-> "none"]
Slots == 0 .. InflightNum - 1

\* mem is what a slot's input, output and decompressed output hold: the loop they are of
Start == [pc |-> "create", next |-> 0, done |-> 0, pending |-> <<>>, completed |-> <<>>,
          mem |-> [s \in Slots |-> [src |-> -1, comp |-> -1, dec |-> -1]], gaveUp |-> FALSE]

Init ==
    /\ thread = [t \in Threads |-> Start]
    /\ work = <<>> /\ cb = None /\ stop = FALSE /\ exit = -1
    /\ error = [set |-> FALSE, code |-> 14]
    /\ count = [comp |-> 0, dec |-> 0]

ErrorCodeForStatus(status) ==
    CASE status = "kTimeout" -> 20 [] status = "kOverflow" -> 21 [] status = "kBadData" -> 22
      [] status = "kPermanentError" -> 23 [] status = "kSliceHang" -> 24 [] OTHER -> 14

SetError(code) ==
    /\ error' = IF error.set THEN error ELSE [set |-> TRUE, code |-> code]
    /\ stop' = TRUE

At(t, pc) == exit = -1 /\ thread[t].pc = pc
Set(t, s) == thread' = [thread EXCEPT ![t] = s]
NoError == UNCHANGED <<error, stop>>

-----------------------------------------------------------------------------
(* CodecAsyncCallback *)

\* The hardware has done the request's work; under the window's lock it is appended.
CallbackPush ==
    /\ cb = None /\ work # <<>>
    /\ LET r == Head(work)
           s == thread[r.t]
           ran == IF r.dec THEN [s.mem[r.slot] EXCEPT !.dec = s.mem[r.slot].comp]
                  ELSE [s.mem[r.slot] EXCEPT !.comp = s.mem[r.slot].src]
       IN  /\ work' = Tail(work) /\ cb' = r
           /\ \E status \in {"kOk"} \cup Statuses :
                Set(r.t, [s EXCEPT !.completed = Append(@, [req |-> r, status |-> status]),
                                   !.mem[r.slot] = ran])
    /\ UNCHANGED <<stop, error, count, exit>>

\* The window is notified after its lock was released.
CallbackNotify ==
    /\ cb # None
    /\ cb' = None
    /\ UNCHANGED <<thread, work, stop, error, count, exit>>

-----------------------------------------------------------------------------
(* A thread *)

Create(t) ==
    /\ At(t, "create")
    /\ \/ Set(t, [thread[t] EXCEPT !.pc = "fill"]) /\ NoError
       \/ Set(t, [thread[t] EXCEPT !.pc = "gone"]) /\ SetError(14)
    /\ UNCHANGED <<work, cb, count, exit>>

\* submit_compress, from the thread's state s; pc is where a success leads
SubmitCompress(t, s, slot, pc) ==
    LET r == [t |-> t, slot |-> slot, loop |-> s.next, dec |-> FALSE]
        filled == [s EXCEPT !.mem[slot].src = s.next]
    IN  \/ /\ Set(t, [filled EXCEPT !.pc = pc, !.next = @ + 1, !.pending = Append(@, r)])
           /\ work' = Append(work, r) /\ NoError
        \/ \E status \in Statuses :
            /\ Set(t, [filled EXCEPT !.pc = "drain"])
            /\ SetError(ErrorCodeForStatus(status)) /\ UNCHANGED work

SubmitDecompress(t, s, c) ==
    LET r == [c EXCEPT !.dec = TRUE]
    IN  \/ Set(t, [s EXCEPT !.pending = Append(@, r)]) /\ work' = Append(work, r) /\ NoError
        \/ \E status \in Statuses :
            /\ Set(t, [s EXCEPT !.pc = "drain"])
            /\ SetError(ErrorCodeForStatus(status)) /\ UNCHANGED work

\* The first round over the slots
Fill(t) ==
    LET s == thread[t]
    IN  /\ At(t, "fill")
        /\ IF s.next < InflightNum /\ s.next < LoopNum /\ ~stop
           THEN SubmitCompress(t, s, s.next, "fill")
           ELSE Set(t, [s EXCEPT !.pc = "loop"]) /\ UNCHANGED work /\ NoError
        /\ UNCHANGED <<cb, count, exit>>

\* WaitCompletedRequestFor with a completion there, remove_pending and the count
Taken(s) == [s EXCEPT !.completed = Tail(@), !.pending = Remove(@, Head(s.completed).req)]

LoopGoesOn(t) == thread[t].done < LoopNum /\ thread[t].pending # <<>> /\ ~stop

LoopEnds(t) ==
    /\ At(t, "loop") /\ ~LoopGoesOn(t)
    /\ Set(t, [thread[t] EXCEPT !.pc = "drain"])
    /\ UNCHANGED <<work, cb, stop, error, count, exit>>

\* No completion before the deadline of the first pending request
WaitTimesOut(t) ==
    /\ At(t, "loop") /\ LoopGoesOn(t) /\ thread[t].completed = <<>>
    /\ Set(t, [thread[t] EXCEPT !.pc = "drain"])
    /\ SetError(ErrorCodeForStatus("kTimeout"))
    /\ UNCHANGED <<work, cb, count, exit>>

\* A loop is complete; its slot takes the next.
Advance(t, s, slot) ==
    IF s.next < LoopNum /\ ~stop THEN SubmitCompress(t, s, slot, "loop")
    ELSE Set(t, s) /\ UNCHANGED work /\ NoError

Fails(t, s, code) == Set(t, [s EXCEPT !.pc = "drain"]) /\ SetError(code) /\ UNCHANGED work

\* Mutant: a slot takes its next input while its output is decompressed.
HandleEarly(t) ==
    LET c == Head(thread[t].completed)
        s == Taken(thread[t])
        m == s.mem[c.req.slot]
        done == [s EXCEPT !.done = @ + 1]
    IN  /\ At(t, "loop") /\ LoopGoesOn(t) /\ thread[t].completed # <<>>
        /\ \/ c.status # "kOk" /\ Fails(t, s, ErrorCodeForStatus(c.status)) /\ UNCHANGED count
           \/ /\ c.status = "kOk" /\ ~c.req.dec
              /\ count' = [count EXCEPT !.comp = @ + 1]
              /\ IF (c.req.loop + 1) % Interval = 0
                 THEN SubmitDecompress(t, [s EXCEPT !.mem[c.req.slot].src = s.next], c.req)
                 ELSE Advance(t, done, c.req.slot)
           \/ /\ c.status = "kOk" /\ c.req.dec
              /\ IF m.dec # m.src THEN Fails(t, s, 14) /\ UNCHANGED count
                 ELSE Advance(t, done, c.req.slot) /\ count' = [count EXCEPT !.dec = @ + 1]
        /\ UNCHANGED <<cb, exit>>

\* One completion: it failed, came too late, is compressed output, or output to compare
Handle(t) ==
    LET c == Head(thread[t].completed)
        s == Taken(thread[t])
        m == s.mem[c.req.slot]
        done == [s EXCEPT !.done = @ + 1]
    IN  /\ At(t, "loop") /\ LoopGoesOn(t) /\ thread[t].completed # <<>>
        /\ \/ c.status # "kOk" /\ Fails(t, s, ErrorCodeForStatus(c.status)) /\ UNCHANGED count
           \/ c.status = "kOk" /\ Fails(t, s, ErrorCodeForStatus("kTimeout")) /\ UNCHANGED count
           \/ /\ c.status = "kOk" /\ ~c.req.dec
              /\ count' = [count EXCEPT !.comp = @ + 1]
              /\ IF (c.req.loop + 1) % Interval = 0 THEN SubmitDecompress(t, s, c.req)
                 ELSE Advance(t, done, c.req.slot)
           \/ /\ c.status = "kOk" /\ c.req.dec
              /\ IF m.dec # m.src THEN Fails(t, s, 14) /\ UNCHANGED count
                 ELSE Advance(t, done, c.req.slot) /\ count' = [count EXCEPT !.dec = @ + 1]
        /\ UNCHANGED <<cb, exit>>

\* The rest is waited for; an overdue answer ends the wait.
Drain(t) ==
    LET s == thread[t]
    IN  /\ At(t, "drain")
        /\ \/ s.pending = <<>> /\ Set(t, [s EXCEPT !.pc = "close"])
           \/ s.pending # <<>> /\ s.completed # <<>> /\ Set(t, Taken(s))
           \/ /\ s.pending # <<>> /\ s.completed = <<>>
              /\ Set(t, [s EXCEPT !.pc = "close", !.gaveUp = TRUE])
        /\ UNCHANGED <<work, cb, stop, error, count, exit>>

\* Mutant: Close does not wait for the poller.
CloseAtOnce(t) ==
    /\ At(t, "close")
    /\ Set(t, [thread[t] EXCEPT !.pc = "gone"])
    /\ NoError
    /\ UNCHANGED <<work, cb, count, exit>>

\* The poller gives the worker's share back between two callbacks; then the thread's stack
\* is gone.
Close(t) ==
    /\ At(t, "close") /\ cb = None
    /\ Set(t, [thread[t] EXCEPT !.pc = "gone"])
    /\ NoError \/ SetError(14)
    /\ UNCHANGED <<work, cb, count, exit>>

\* The threads are joined, and Uninit is called.
Join ==
    /\ exit = -1 /\ \A t \in Threads : thread[t].pc = "gone"
    /\ exit' \in IF error.set THEN {error.code} ELSE {0, 7}
    /\ UNCHANGED <<thread, work, cb, stop, error, count>>

Next ==
    \/ CallbackPush \/ CallbackNotify \/ Join
    \/ \E t \in Threads : \/ Create(t) \/ Fill(t) \/ LoopEnds(t) \/ WaitTimesOut(t) \/ Handle(t)
                          \/ Drain(t) \/ Close(t)

Spec == Init /\ [][Next]_vars

-----------------------------------------------------------------------------

\* A callback finds the window, the request and the buffers it was given, also when it
\* notifies after the thread has taken the request, unless the thread gave up waiting for an
\* overdue answer (qat_lz4_simple.cc, CodecAsyncCallback and the loops before Close).
WindowsOutlive ==
    \A r \in Range(work) \cup ({cb} \ {None}) :
        thread[r.t].pc = "gone" => thread[r.t].gaveUp

\* A decompressed output is compared with the input it came from: no comparison fails while
\* the hardware does its work, although slots are reused (qat_lz4_simple.cc, the main loop).
ComparesOwnInput ==
    \A t \in Threads : \A c \in Range(thread[t].completed) :
        c.req.dec => /\ thread[t].mem[c.req.slot].src = c.req.loop
                     /\ thread[t].mem[c.req.slot].dec = c.req.loop

\* An exit code of 0 means that every loop of every thread was done and every Interval-th
\* output compared (qat_lz4_simple.cc, main).
SuccessExact ==
    exit = 0 =>
        /\ \A t \in Threads : thread[t].done = LoopNum
        /\ count.comp = Cardinality(Threads) * LoopNum
        /\ count.dec = Cardinality(Threads) * (LoopNum \div Interval)

\* As WindowsOutlive, whatever a thread waited for (not so: the wait for the rest ends at the
\* deadline of its oldest request, and a late callback uses what was the thread's stack).
WindowsAlwaysOutlive ==
    \A r \in Range(work) \cup ({cb} \ {None}) : thread[r.t].pc # "gone"
=============================================================================
