----------------------------- MODULE UdsListener -----------------------------
(***************************************************************************)
(* The listener for error-simulation messages (src/src/common/uds_listener  *)
(* .cc): a thread waits with epoll for connections, messages and the wakeup *)
(* pipe; a client connects, writes its message and an ending, and reads a   *)
(* response until the connection ends.  A stream may be read in any pieces, *)
(* and a client may die at any point.                                       *)
(* The kernel's sockets, pipe and epoll are external.                       *)
(***************************************************************************)
EXTENDS Integers, Sequences

CONSTANTS
    Clients,
    Text,            \* the message of each client, a sequence of bytes
    Ending,          \* VESAL_UDS_LISTENER_MSG_ENDING
    ExpectedMsgLen   \* expected_msg_len_

NoClient == "-"
Wakeup == "wakeup"
ListenFd == "listen"

\* The tool writes messages of the expected length.
ConstantsOK ==
    /\ Clients \cap {NoClient, Wakeup, ListenFd} = {}
    /\ ExpectedMsgLen \in Nat /\ Ending \in Seq(Nat)
    /\ Text \in [Clients -> Seq(Nat)] /\ \A c \in Clients : Len(Text[c]) = ExpectedMsgLen

VARIABLES
    phase,     \* of the owner: "new", "started", "joining", "stopped"
    thread,    \* "none", "wait" (epoll_wait), "events", "read", "done"
    events,    \* events_ still to be handled
    reading,   \* the connection ReadFd reads
    buf,       \* what it has read
    woken,     \* the wakeup pipe holds a byte
    conn,      \* per client: "out", "pending", "open" (in conn_fds_), "closed"
    gone,      \* the clients whose process has ended
    sent,      \* bytes a client has written
    taken,     \* bytes of them that were read
    handled,   \* history: what msg_handler_ got from each client
    replied    \* the clients a response was written to

vars == <<phase, thread, events, reading, buf, woken, conn, gone, sent, taken, handled, replied>>

Wire(c) == Text[c] \o Ending

Init ==
    /\ phase = "new" /\ thread = "none" /\ events = {} /\ reading = NoClient /\ buf = <<>>
    /\ woken = FALSE
    /\ conn = [c \in Clients |-> "out"] /\ gone = {}
    /\ sent = [c \in Clients |-> 0] /\ taken = [c \in Clients |-> 0]
    /\ handled = [c \in Clients |-> {}] /\ replied = {}

\* Start: Prepare succeeds, or some call in it fails and Reset closes what there is.
Start ==
    /\ phase = "new"
    /\ \/ phase' = "started" /\ thread' = "wait"
       \/ phase' = "stopped" /\ UNCHANGED thread
    /\ UNCHANGED <<events, reading, buf, woken, conn, gone, sent, taken, handled, replied>>

\* Mutant: nothing is written to the pipe.
StopWakesNot ==
    /\ phase = "started"
    /\ phase' = "joining" /\ UNCHANGED woken
    /\ UNCHANGED <<thread, events, reading, buf, conn, gone, sent, taken, handled, replied>>

\* Stop: the write to the pipe, after which it joins the thread
StopWakes ==
    /\ phase = "started"
    /\ phase' = "joining" /\ woken' = TRUE
    /\ UNCHANGED <<thread, events, reading, buf, conn, gone, sent, taken, handled, replied>>

\* join returns; unlink, Reset: every connection is closed, also those not accepted.
StopJoined ==
    /\ phase = "joining" /\ thread = "done"
    /\ phase' = "stopped"
    /\ conn' = [c \in Clients |-> IF conn[c] = "out" THEN "out" ELSE "closed"]
    /\ UNCHANGED <<thread, events, reading, buf, woken, gone, sent, taken, handled, replied>>

\* What epoll_wait reports; there are fewer descriptors than kUdsListenerMaxEvents.
Ready ==
    {c \in Clients : conn[c] = "open" /\ (taken[c] < sent[c] \/ c \in gone)}
    \cup (IF woken THEN {Wakeup} ELSE {})
    \cup (IF \E c \in Clients : conn[c] = "pending" THEN {ListenFd} ELSE {})

\* Listen: epoll_wait.  An error, an interrupting signal included, ends the thread.
EpollWait ==
    /\ thread = "wait"
    /\ \/ Ready # {} /\ events' = Ready /\ thread' = "events"
       \/ thread' = "done" /\ UNCHANGED events
    /\ UNCHANGED <<phase, reading, buf, woken, conn, gone, sent, taken, handled, replied>>

\* The loop over the events, in any order: its end, the wakeup, a new connection
EventsDone ==
    /\ thread = "events" /\ events = {}
    /\ thread' = "wait"
    /\ UNCHANGED <<phase, events, reading, buf, woken, conn, gone, sent, taken, handled, replied>>

WakeupEvent ==
    /\ thread = "events" /\ Wakeup \in events
    /\ thread' = "done" /\ events' = {}
    /\ UNCHANGED <<phase, reading, buf, woken, conn, gone, sent, taken, handled, replied>>

\* accept, which may fail, and EPOLL_CTL_ADD, after whose failure the connection is closed.
AcceptEvent ==
    /\ thread = "events" /\ ListenFd \in events
    /\ events' = events \ {ListenFd}
    /\ \E c \in Clients, s \in {"pending", "open", "closed"} :
          conn[c] = "pending" /\ conn' = [conn EXCEPT ![c] = s]
    /\ UNCHANGED <<phase, thread, reading, buf, woken, gone, sent, taken, handled, replied>>

\* Data of a connection: ReadFd begins.
ReadEvent(c) ==
    /\ thread = "events" /\ c \in events
    /\ events' = events \ {c}
    /\ thread' = "read" /\ reading' = c /\ buf' = <<>>
    /\ UNCHANGED <<phase, woken, conn, gone, sent, taken, handled, replied>>

EndsWith(s, t) == Len(s) >= Len(t) /\ SubSeq(s, Len(s) - Len(t) + 1, Len(s)) = t

\* strncmp begins before the buffer when fewer bytes were read than the ending has:
\* what it finds there is not determined.
MayMatch(s) == Len(s) < Len(Ending) /\ EndsWith(Ending, s)

\* ReadFd's result: the length, or -1 for a length below zero
Ended(s) == IF Len(s) < Len(Ending) THEN -1 ELSE Len(s) - Len(Ending)

\* Mutant: a message of any length is handled.
ToHandlerAny(c, len) == handled' = [handled EXCEPT ![c] = @ \cup {SubSeq(buf', 1, len)}]

\* A message of another length is dropped.
ToHandler(c, len) ==
    IF len = ExpectedMsgLen
    THEN handled' = [handled EXCEPT ![c] = @ \cup {SubSeq(buf', 1, len)}]
    ELSE UNCHANGED handled

\* ReadFd returns len: the handler and WriteFd if it is a message; close in any case.
Finish(c, len) ==
    /\ ToHandler(c, len)
    /\ replied' = IF handled' # handled THEN replied \cup {c} ELSE replied
    /\ conn' = [conn EXCEPT ![c] = "closed"]
    /\ thread' = "events" /\ reading' = NoClient

\* One read of ReadFd: some of what is there, and the test for the ending.  While
\* nothing is there, it blocks.
ReadSome ==
    LET c == reading
    IN  /\ thread = "read" /\ taken[c] < sent[c]
        /\ \E n \in taken[c] + 1 .. sent[c] :
            /\ taken' = [taken EXCEPT ![c] = n]
            /\ buf' = buf \o SubSeq(Wire(c), taken[c] + 1, n)
        /\ \/ EndsWith(buf', Ending) /\ Finish(c, Ended(buf'))
           \/ MayMatch(buf') /\ Finish(c, Ended(buf'))
           \/ ~EndsWith(buf', Ending) /\ UNCHANGED <<thread, reading, conn, handled, replied>>
    /\ UNCHANGED <<phase, events, woken, gone, sent>>

\* read returns 0, as the client is gone: what was read so far, without the ending, counts
\* as the message.
ReadEnd ==
    LET c == reading
    IN  /\ thread = "read" /\ taken[c] = sent[c] /\ c \in gone
        /\ UNCHANGED <<phase, events, buf, woken, gone, sent, taken>>
        /\ \/ Finish(c, Len(buf))
           \/ MayMatch(buf) /\ Finish(c, Ended(buf))

\* read fails: the connection is closed.
ReadFails ==
    /\ thread = "read"
    /\ conn' = [conn EXCEPT ![reading] = "closed"]
    /\ thread' = "events" /\ reading' = NoClient
    /\ UNCHANGED <<phase, events, buf, woken, gone, sent, taken, handled, replied>>

\* WriteUdsAndReadResponse: ScopedUdsSocket connects,
Connect(c) ==
    /\ conn[c] = "out" /\ phase \in {"started", "joining"}
    /\ conn' = [conn EXCEPT ![c] = "pending"]
    /\ UNCHANGED <<phase, thread, events, reading, buf, woken, gone, sent, taken, handled, replied>>

\* and WriteFd writes the message and the ending, in pieces.
Write(c) ==
    /\ conn[c] \in {"pending", "open"} /\ c \notin gone /\ sent[c] < Len(Wire(c))
    /\ \E n \in sent[c] + 1 .. Len(Wire(c)) : sent' = [sent EXCEPT ![c] = n]
    /\ UNCHANGED <<phase, thread, events, reading, buf, woken, conn, gone, taken, handled, replied>>

Dies(c) ==
    /\ conn[c] \in {"pending", "open"} /\ c \notin gone
    /\ gone' = gone \cup {c}
    /\ UNCHANGED <<phase, thread, events, reading, buf, woken, conn, sent, taken, handled, replied>>

Next ==
    \/ Start \/ StopWakes \/ StopJoined
    \/ EpollWait \/ EventsDone \/ WakeupEvent \/ AcceptEvent
    \/ \E c \in Clients : ReadEvent(c)
    \/ ReadSome \/ ReadEnd \/ ReadFails
    \/ \E c \in Clients : Connect(c) \/ Write(c) \/ Dies(c)

Spec == Init /\ [][Next]_vars

HandleEvent == EventsDone \/ WakeupEvent \/ AcceptEvent \/ \E c \in Clients : ReadEvent(c)

\* The thread runs, the owner's join returns once the thread is done, and a client that
\* has connected goes on writing unless it dies.
Fairness ==
    /\ WF_vars(StopJoined)
    /\ WF_vars(HandleEvent)
    /\ WF_vars(ReadSome \/ ReadEnd) /\ WF_vars(EpollWait)
    /\ \A c \in Clients : WF_vars(Write(c))

FairSpec == Spec /\ Fairness

-----------------------------------------------------------------------------

Messages == {Text[c] : c \in Clients}

\* The types of the listener's fields and of the sockets' states.
TypeOK ==
    /\ thread \in {"none", "wait", "events", "read", "done"}
    /\ conn \in [Clients -> {"out", "pending", "open", "closed"}]
    /\ sent \in [Clients -> Nat] /\ taken \in [Clients -> Nat]
    /\ handled \in [Clients -> SUBSET Messages] /\ replied \subseteq Clients

\* Events are there only while they are handled.  A connection with an event is open and
\* nothing of it was read; what ReadFd has read of its connection is what the client wrote
\* first; other connections are not read from.
ReadsInOrder ==
    /\ phase = "new" => thread = "none"
    /\ thread \in {"none", "wait", "done"} => events = {}
    /\ \A c \in Clients \cap events : conn[c] = "open" /\ ~(thread = "read" /\ reading = c)
    /\ \A c \in Clients : taken[c] > 0 =>
          conn[c] = "closed" \/ (thread = "read" /\ reading = c)
    /\ \A c \in Clients : sent[c] <= Len(Wire(c))
    /\ thread = "read" => /\ reading \in Clients /\ conn[reading] = "open"
                          /\ buf = SubSeq(Wire(reading), 1, taken[reading])

\* However a stream is cut into reads, and whatever the other connections do, the
\* handler gets the message its client wrote or nothing, and only such a client gets a
\* response (UdsListener::Listen, ReadFd).
MessagesIntact ==
    /\ \A c \in Clients : handled[c] \subseteq {Text[c]}
    /\ \A c \in replied : handled[c] # {}
    /\ \A c \in Clients : taken[c] <= sent[c]

\* Stop returns: the wakeup is noticed between any connections and messages.
StopReturns == phase = "joining" ~> phase = "stopped"
=============================================================================
