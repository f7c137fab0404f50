------------------------------ MODULE PerfLoops ------------------------------
(***************************************************************************)
(* The loops of the performance programs: perf_simple.cc (codec), cy_perf.cc *)
(* (cypher), data_flow_perf.cc, and the chunks the first and the last cut   *)
(* from huge pages.  A behaviour is one of them; prog says which.  The      *)
(* channels answer in order, some requests at a time, and without errors,   *)
(* on which the programs abort.                                             *)
(***************************************************************************)
EXTENDS Integers, Sequences, FiniteSets, SequencesExt, FiniteSetsExt, Functions

CONSTANTS
    Threads,                   \* of perf_simple
    ChannelNum, InflightNum,   \* the flags
    ChunksNum, IterationNum,   \* g_chunks_num and g_iteration_num
    ChunkNum, BatchSize, Quota,   \* data_flow_perf: chunks, a batch, and batches to process
    PageSize, PageNum, Lens    \* huge pages, and the lengths asked for

VARIABLES prog, thread, phase, timer, total, flow, offset, chunk

vars == <<prog, thread, phase, timer, total, flow, offset, chunk>>

Channels == 1 .. ChannelNum
Ring == 0 .. InflightNum - 1

\* A run of RunCompress, RunDecompress or Run: n requests on all channels.  ring holds the
\* contexts, FALSE when they are free; chan the contexts in a channel.
Run(n) ==
    [n |-> n, sent |-> 0, res |-> 0, ch |-> 1, submits |-> TRUE,
     batch_num |-> [c \in Channels |-> InflightNum],
     batch_index |-> [c \in Channels |-> 0],
     chan |-> [c \in Channels |-> <<>>]]

NoRun == Run(0)
FreeRing == [c \in Channels |-> [i \in Ring |-> [in_use |-> FALSE, index |-> 0]]]

Init ==
    /\ prog \in {"codec", "qat_cypher", "sw_cypher", "flow", "memory"}
    /\ phase = "comp" /\ timer = FALSE
    /\ thread = [t \in Threads |-> [
           pc |-> "warm_comp", ring |-> FreeRing, known |-> {}, valid |-> {},
           run |-> Run(IF prog = "codec" THEN ChunksNum ELSE InflightNum * ChannelNum)]]
    /\ total = [comp |-> [consumed |-> 0, produced |-> 0],
                dec |-> [consumed |-> 0, produced |-> 0]]
    /\ flow = [wip |-> 0, submit_index |-> 0, poll_index |-> 0, chunk_index |-> 0,
               processed |-> 0, chan |-> <<>>, unmapped |-> FALSE]
    /\ offset = 0 /\ chunk = [at |-> 0, len |-> 0]

-----------------------------------------------------------------------------
(* RunCompress and RunDecompress of perf_simple.cc *)

Goes(r) == r.sent < r.n \/ r.res < r.sent

\* The next channel of the round, and from submitting to polling and back
Turn(r) ==
    IF r.ch < ChannelNum THEN [r EXCEPT !.ch = @ + 1]
    ELSE [r EXCEPT !.ch = 1, !.submits = ~@]

Batch(r) == Min({r.batch_num[r.ch], r.n - r.sent})
\* The k-th context of the batch
Slot(r, k) == (r.batch_index[r.ch] + k) % InflightNum
Sent(r) ==
    LET b == Batch(r)
    IN  Turn([r EXCEPT !.sent = @ + b, !.batch_num[r.ch] = @ - b,
                       !.batch_index[r.ch] = (@ + b) % InflightNum,
                       !.chan[r.ch] = @ \o [k \in 1 .. b |-> Slot(r, k - 1)]])

Running == {"warm_comp", "warm_dec", "comp", "dec"}

\* The contexts of the batch are taken, whatever they hold.
RunSubmit(t) ==
    LET s == thread[t]
        r == s.run
        slots == {Slot(r, k) : k \in 0 .. Batch(r) - 1}
        ctx(i) == CHOOSE k \in 0 .. Batch(r) - 1 : Slot(r, k) = i
    IN  /\ prog = "codec" /\ s.pc \in Running /\ Goes(r) /\ r.submits
        /\ thread' = [thread EXCEPT ![t].run = Sent(r), ![t].ring[r.ch] =
               [i \in Ring |-> IF i \in slots
                               THEN [in_use |-> TRUE, index |-> (r.sent + ctx(i)) % ChunksNum]
                               ELSE s.ring[r.ch][i]]]
        /\ UNCHANGED <<prog, phase, timer, total, flow, offset, chunk>>

\* Mutant: a poll makes room for one request more than it answered.
PolledOneMore(r, m) ==
    Turn([r EXCEPT !.res = @ + m,
                   !.batch_num[r.ch] = Min({InflightNum, @ + m + IF m > 0 THEN 1 ELSE 0}),
                   !.chan[r.ch] = SubSeq(@, m + 1, Len(@))])

\* m answers from the channel
Polled(r, m) ==
    Turn([r EXCEPT !.res = @ + m, !.batch_num[r.ch] = @ + m,
                   !.chan[r.ch] = SubSeq(@, m + 1, Len(@))])

RunPoll(t) ==
    LET s == thread[t]
        r == s.run
    IN  /\ prog = "codec" /\ s.pc \in Running /\ Goes(r) /\ ~r.submits
        /\ \E m \in 0 .. Len(r.chan[r.ch]) :
            LET got == {r.chan[r.ch][i] : i \in 1 .. m}
                chunks == {s.ring[r.ch][i].index : i \in got}
                comp == s.pc \in {"warm_comp", "comp"}
            IN  thread' = [thread EXCEPT ![t] = [s EXCEPT
                    !.run = Polled(r, m),
                    !.ring[r.ch] = [i \in Ring |-> [s.ring[r.ch][i] EXCEPT
                                                        !.in_use = @ /\ i \notin got]],
                    !.known = IF comp THEN @ \cup chunks ELSE @,
                    !.valid = IF comp THEN @ ELSE @ \cup chunks]]
        /\ UNCHANGED <<prog, phase, timer, total, flow, offset, chunk>>

\* The end of a run; Warmup runs each chunk both ways.
RunEnds(t) ==
    LET s == thread[t]
        next == [warm_comp |-> "warm_dec", warm_dec |-> "timer", comp |-> "consumed",
                 dec |-> "consumed"]
    IN  /\ prog = "codec" /\ s.pc \in Running /\ ~Goes(s.run)
        /\ thread' = [thread EXCEPT
               ![t].pc = next[s.pc],
               ![t].run = IF s.pc = "warm_comp" THEN Run(ChunksNum) ELSE NoRun]
        /\ UNCHANGED <<prog, phase, timer, total, flow, offset, chunk>>

-----------------------------------------------------------------------------
(* CompressTask, DecompressTask and main of perf_simple.cc *)

Zero == [consumed |-> 0, produced |-> 0]

\* Mutant: every thread resets the totals.
StartTimerAlways(t) ==
    /\ prog = "codec" /\ thread[t].pc = "timer"
    /\ timer' = TRUE
    /\ total' = [total EXCEPT ![phase] = Zero]
    /\ thread' = [thread EXCEPT ![t].pc = phase, ![t].run = Run(ChunksNum * IterationNum)]
    /\ UNCHANGED <<prog, phase, flow, offset, chunk>>

\* Under total_timer_mutex the first thread starts the clock.
StartTimer(t) ==
    /\ prog = "codec" /\ thread[t].pc = "timer"
    /\ timer' = TRUE
    /\ total' = IF timer THEN total ELSE [total EXCEPT ![phase] = Zero]
    /\ thread' = [thread EXCEPT ![t].pc = phase, ![t].run = Run(ChunksNum * IterationNum)]
    /\ UNCHANGED <<prog, phase, flow, offset, chunk>>

\* The bytes of all chunks: 2 each, and 1 when compressed
Plain == 2 * ChunksNum * IterationNum
Compressed(s) == Cardinality(s.known) * IterationNum

AddBytes(t) ==
    LET s == thread[t]
        comp == phase = "comp"
    IN  /\ prog = "codec"
        /\ \/ /\ s.pc = "consumed"
              /\ total' = [total EXCEPT ![phase].consumed = @ + IF comp THEN Plain
                                                                ELSE Compressed(s)]
              /\ thread' = [thread EXCEPT ![t].pc = "produced"]
           \/ /\ s.pc = "produced"
              /\ total' = [total EXCEPT ![phase].produced = @ + IF comp THEN Compressed(s)
                                                                ELSE Plain]
              /\ thread' = [thread EXCEPT ![t].pc = "done"]
        /\ UNCHANGED <<prog, phase, timer, flow, offset, chunk>>

\* main joins the threads, and starts those of the decompression with the same requests.
Join ==
    /\ prog = "codec" /\ \A t \in Threads : thread[t].pc = "done"
    /\ \/ /\ phase = "comp" /\ phase' = "dec" /\ timer' = FALSE
          /\ thread' = [t \in Threads |-> [thread[t] EXCEPT !.pc = "warm_comp",
                                                            !.run = Run(ChunksNum)]]
       \/ /\ phase = "dec" /\ phase' = "end" /\ UNCHANGED <<timer, thread>>
    /\ UNCHANGED <<prog, total, flow, offset, chunk>>

-----------------------------------------------------------------------------
(* Run of cy_perf.cc, on one thread: an encryption of each buffer first *)

Main == CHOOSE t \in Threads : TRUE
Cypher == prog \in {"qat_cypher", "sw_cypher"}

CypherSubmit ==
    LET r == thread[Main].run
        b == Batch(r)
    IN  /\ Cypher /\ Goes(r) /\ r.submits
        /\ thread' = [thread EXCEPT ![Main].run =
               IF prog = "qat_cypher" THEN Sent(r)
               ELSE [Sent(r) EXCEPT !.res = @ + b, !.chan[r.ch] = <<>>]]
        /\ UNCHANGED <<prog, phase, timer, total, flow, offset, chunk>>

CypherPoll ==
    LET r == thread[Main].run
    IN  /\ Cypher /\ Goes(r) /\ ~r.submits
        /\ IF prog = "qat_cypher"
           THEN \E m \in 0 .. Len(r.chan[r.ch]) :
                    thread' = [thread EXCEPT ![Main].run = Polled(r, m)]
           ELSE thread' = [thread EXCEPT ![Main].run =
                    Turn([r EXCEPT !.batch_num[r.ch] = InflightNum])]
        /\ UNCHANGED <<prog, phase, timer, total, flow, offset, chunk>>

\* After the first run the encryption is measured (or a hash, alike), the decryption, or
\* one after the other, with the same buffers.
CypherEnds ==
    LET after == [warm_comp |-> {"comp", "dec"}, comp |-> {"dec"}, dec |-> {}]
    IN  /\ Cypher /\ ~Goes(thread[Main].run)
        /\ \E pc \in after[thread[Main].pc] :
            thread' = [thread EXCEPT ![Main].pc = pc, ![Main].run = Run(ChunksNum * IterationNum)]
        /\ UNCHANGED <<prog, phase, timer, total, flow, offset, chunk>>

-----------------------------------------------------------------------------
(* The loop of data_flow_perf.cc, with InflightNum for io_depth *)

FlowSubmit ==
    /\ prog = "flow" /\ flow.processed < Quota /\ flow.wip < InflightNum
    /\ flow' = [flow EXCEPT
           !.wip = @ + 1, !.submit_index = (@ + 1) % InflightNum,
           !.chunk_index = (@ + BatchSize) % ChunkNum,
           !.chan = Append(@, [slot |-> flow.submit_index,
                               chunks |-> {(flow.chunk_index + i) % ChunkNum :
                                              i \in 0 .. BatchSize - 1}])]
    /\ UNCHANGED <<prog, thread, phase, timer, total, offset, chunk>>

FlowPoll ==
    /\ prog = "flow" /\ flow.processed < Quota /\ flow.wip = InflightNum
    /\ \E m \in 0 .. Len(flow.chan) :
        flow' = [flow EXCEPT !.wip = @ - m, !.poll_index = (@ + m) % InflightNum,
                             !.processed = @ + m, !.chan = SubSeq(@, m + 1, Len(@))]
    /\ UNCHANGED <<prog, thread, phase, timer, total, offset, chunk>>

\* The memory is unmapped; the channel is not closed.
FlowEnds ==
    /\ prog = "flow" /\ flow.processed >= Quota /\ ~flow.unmapped
    /\ flow' = [flow EXCEPT !.unmapped = TRUE]
    /\ UNCHANGED <<prog, thread, phase, timer, total, offset, chunk>>

-----------------------------------------------------------------------------
(* Chunks of huge pages *)

\* Where the next chunk ends
NextEnd(len) ==
    LET diff == PageSize - (offset % PageSize)
    IN  offset + (IF diff < len THEN diff ELSE 0) + len

\* NewUcharArray with registered memory; the program aborts when the pages are used up
NewUcharArray(len) ==
    /\ prog = "memory" /\ len <= PageSize /\ NextEnd(len) <= PageSize * PageNum
    /\ offset' = NextEnd(len)
    /\ chunk' = [at |-> NextEnd(len) - len, len |-> len]
    /\ UNCHANGED <<prog, thread, phase, timer, total, flow>>

Next ==
    \/ Join \/ CypherSubmit \/ CypherPoll \/ CypherEnds \/ FlowSubmit \/ FlowPoll \/ FlowEnds
    \/ \E len \in Lens : NewUcharArray(len)
    \/ \E t \in Threads : RunSubmit(t) \/ RunPoll(t) \/ RunEnds(t) \/ StartTimer(t) \/ AddBytes(t)

Spec == Init /\ [][Next]_vars

-----------------------------------------------------------------------------

\* A context is not in use when it is taken for the next request, on any channel and
\* whatever the polls return (perf_simple.cc, VESAL_DCHECK(!ctx->in_use)); nor are the
\* buffers of cy_perf.cc, chosen like its contexts, and the chunks and times of
\* data_flow_perf.cc.  The buffers of perf_simple.cc go by the chunk: two requests under
\* way share one when more than g_chunks_num are.
ContextsFree ==
    /\ \A t \in Threads :
        LET r == thread[t].run
        IN  /\ prog = "codec" /\ r.submits => \A k \in 0 .. Batch(r) - 1 :
                ~thread[t].ring[r.ch][Slot(r, k)].in_use
            /\ \A c \in Channels : /\ Len(r.chan[c]) + r.batch_num[c] <= InflightNum
                                   /\ IsInjective(r.chan[c])
    /\ \A i, j \in DOMAIN flow.chan : i # j => flow.chan[i].chunks \cap flow.chan[j].chunks = {}
    /\ flow.chan # <<>> => flow.chan[1].slot = flow.poll_index

\* A chunk is decompressed only when its compressed length is known, and a task ends with
\* every request answered and every chunk compared (perf_simple.cc, the checks after the
\* loops, GetCompressedResultsBytes and Validate).
RunsComplete ==
    prog = "codec" => \A t \in Threads :
        LET s == thread[t]
        IN  /\ s.pc \in {"warm_dec", "dec"} =>
                \A c \in Channels : \A i \in Range(s.run.chan[c]) :
                    s.ring[c][i].index \in s.known
            /\ s.pc = "done" => /\ s.known = 0 .. ChunksNum - 1 /\ s.valid = s.known
                                /\ \A c \in Channels, i \in Ring : ~s.ring[c][i].in_use

\* The totals hold what all threads added: the reset at the start of a phase comes before
\* the first addition (perf_simple.cc, total_timer_mutex).
TotalsExact ==
    LET all == Cardinality(Threads)
    IN  phase = "end" =>
            /\ total.comp = [consumed |-> all * Plain,
                             produced |-> all * ChunksNum * IterationNum]
            /\ total.dec = [consumed |-> total.comp.produced, produced |-> total.comp.consumed]

\* No chunk spans two huge pages, and chunks do not overlap (perf_simple.cc and
\* data_flow_perf.cc, "avoid using memory blocks that span hugepages").
ChunksInPages ==
    /\ chunk.len > 0 => chunk.at \div PageSize = (chunk.at + chunk.len - 1) \div PageSize
    /\ offset >= chunk.at + chunk.len

\* The memory of a request is mapped while the hardware works on it (not so:
\* data_flow_perf.cc unmaps it with io_depth requests under way).
MappedWhileUsed == flow.unmapped => flow.chan = <<>>
=============================================================================
