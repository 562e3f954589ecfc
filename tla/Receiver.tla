------------------------------ MODULE Receiver ------------------------------
(***************************************************************************)
(* The stream receiver of GSPlayeR (src/GSPlayeR/maplay/Receiver.cpp).  A  *)
(* thread of its own reads the audio of a server into buffers of a fixed   *)
(* size and hands them over through two lists, m_listBuf (filled) and      *)
(* m_listBufFree, that m_csecBuf guards.  A manual-reset event beside each *)
(* list says that it is not empty.  The metadata the server mixes into the *)
(* audio is taken out before a buffer is handed over.                      *)
(*                                                                         *)
(* The client, CPlayer's streaming thread, calls Connect, Disconnect and   *)
(* Read; another thread may call Stop at any time.  The steps of a call    *)
(* and of the thread are actions; the lists change only while the lock is  *)
(* held, but the event is set or reset in a step of its own, so that what  *)
(* is tested without the lock is tested between the two.                   *)
(*                                                                         *)
(* A buffer is its contents: free ones are counted.  Redirections are      *)
(* repetitions of ConnectServer that change nothing else.                  *)
(***************************************************************************)
EXTENDS Integers, Sequences

CONSTANTS
    CBuf,       \* m_cBuf
    BufSize,    \* RECV_BUFF_SIZE
    MetaUnit,   \* 16: a metadata length counts in units of it
    Streams     \* what a server may send: m_cbMetaData and the bytes

\* What the server says it sends: m_cbMetaData bytes of audio, a block of
\* metadata, whose first byte says how long it is, and so on.  "lengths" are
\* the places of these bytes.
AudioRun(s, lengths, p) ==
    /\ \A q \in 1..Len(s.bytes) :
          p <= q /\ q < p + s.meta => s.bytes[q].audio
    /\ p + s.meta <= Len(s.bytes) => p + s.meta \in lengths

BlockSize(s, p) == s.bytes[p].val * MetaUnit + 1

MetaBlock(s, lengths, p) ==
    /\ \A q \in 1..Len(s.bytes) :
          p <= q /\ q < p + BlockSize(s, p) => ~s.bytes[q].audio
    /\ AudioRun(s, lengths, p + BlockSize(s, p))

IsStream(s) ==
    /\ s.meta \in Nat
    /\ s.bytes \in Seq([audio : BOOLEAN, val : Nat])
    /\ IF s.meta = 0 THEN \A q \in 1..Len(s.bytes) : s.bytes[q].audio
       ELSE \E lengths \in SUBSET (1..Len(s.bytes)) :
              /\ AudioRun(s, lengths, 1)
              /\ \A p \in lengths : MetaBlock(s, lengths, p)

\* SetBufferCount refuses less than two buffers.
ASSUME BufferAssumption ==
    /\ CBuf \in Nat /\ CBuf >= 2
    /\ BufSize \in Nat /\ BufSize >= 1
    /\ MetaUnit \in Nat
    /\ Streams # {}

ASSUME StreamsAssumption == \A s \in Streams : IsStream(s)

VARIABLES
    tpc,        \* where ReceiverThread stands; "none": m_hThread is NULL
    sock,       \* m_hSock # INVALID_SOCKET
    fStop,      \* m_fStop
    fEos,       \* m_fEos
    shoutcast,  \* m_fShoutcast
    nFree,      \* the number of buffers in m_listBufFree
    listBuf,    \* m_listBuf
    hand,       \* pBuf # NULL in ReceiverThread
    fill,       \* what is in that buffer: positions in the stream
    chunk,      \* the bytes of the last recv that CheckMetaData has to look at
    interval,   \* m_cbMetaDataInterval
    eventStart, eventBuf, eventFree,
    stream,     \* what this connection's server sends
    pos,        \* how much of it has been received
    call,       \* where the client's call of Connect, Disconnect or Read stands
    goal,       \* Disconnect is called by the client or by Connect
    want, got,  \* cbBuffer and *pcbRead of Read
    ret,        \* what the last call returned
    last, gap,  \* history: the last byte delivered; was one skipped or doubled?
    torn        \* history: a chunk ended where a block begun before it ends

lists == <<nFree, listBuf>>
filling == <<hand, fill, chunk, interval>>
events == <<eventStart, eventBuf, eventFree>>
server == <<stream, pos>>
reading == <<want, got, last, gap>>
calling == <<call, goal, ret>>
rvars == <<tpc, sock, fStop, fEos, shoutcast, lists, filling, events, server,
           reading, calling, torn>>

\* In the middle of a critical section of m_csecBuf
ThreadInLists == tpc \in {"taken", "added"}
ClientInLists == call = "copied"

Running == tpc \notin {"none", "ended"}

\* A buffer, not empty when it is handed over: pbBuf, cbRecv and cbUsed
Buffer(data) == [data |-> data, used |-> 0]

ReceiverInit ==
    /\ tpc = "none" /\ sock = FALSE
    /\ fStop = FALSE /\ fEos = FALSE /\ shoutcast = FALSE
    /\ nFree = 0 /\ listBuf = <<>>
    /\ hand = FALSE /\ fill = <<>> /\ chunk = <<>> /\ interval = 0
    /\ eventStart = FALSE /\ eventBuf = TRUE /\ eventFree = TRUE
    /\ stream \in Streams /\ pos = 0
    /\ call = "none" /\ goal = "disconnect" /\ ret = FALSE
    /\ want = 0 /\ got = 0 /\ last = 0 /\ gap = FALSE /\ torn = FALSE

-----------------------------------------------------------------------------
(***************************************************************************)
(* The thread.                                                             *)
(***************************************************************************)

\* ConnectServer fails, after which the socket is closed.  When the host name
\* is unknown it is not.
ThreadRefused ==
    /\ tpc = "connect"
    /\ sock' \in BOOLEAN
    /\ tpc' = "ended"
    /\ UNCHANGED <<fStop, fEos, shoutcast, lists, filling, events, server,
                   reading, calling, torn>>

\* ConnectServer succeeds: what followed the header is in the first free
\* buffer, which the thread takes.  The client waits for eventStart.
ThreadConnects ==
    /\ tpc = "connect"
    /\ sock' = TRUE
    /\ stream' \in Streams
    /\ shoutcast' \in BOOLEAN
    /\ interval' = stream'.meta
    /\ \E n \in 0..(BufSize - 1) :
          /\ n <= Len(stream'.bytes)
          /\ pos' = n
          /\ chunk' = [i \in 1..n |-> i]
    /\ hand' = TRUE /\ fill' = <<>>
    /\ nFree' = nFree - 1
    /\ eventFree' = (eventFree /\ nFree' > 0)
    /\ tpc' = "meta"
    /\ UNCHANGED <<fStop, fEos, listBuf, eventStart, eventBuf, reading,
                   calling, torn>>

Drop(s, n) == SubSeq(s, n + 1, Len(s))
Keep(s, n) == SubSeq(s, 1, n)

\* CheckMetaData looks at chunk: one block of metadata a step, as its
\* recursion does.  The bytes kept go to the buffer.  (eventStart is set when
\* the first chunk has been looked at, and stays set.)
MetaStep(keep, rest, left) ==
    /\ fill' = fill \o keep
    /\ chunk' = rest
    /\ interval' = left

\* The rest of a block that the last chunk began: all of it is in the chunk,
\* or (interval' < 0) more is to come.  When block and chunk end together
\* interval' is 0, and the next audio byte is taken for a length.
MetaContinued ==
    /\ interval < 0
    /\ IF Len(chunk) + interval <= 0
       THEN /\ MetaStep(<<>>, <<>>, interval + Len(chunk))
            /\ torn' = (torn \/ interval' = 0)
       ELSE /\ MetaStep(<<>>, Drop(chunk, -interval), stream.meta)
            /\ UNCHANGED torn

\* Mutant: the length byte itself is not counted as metadata.
MetaBeginsKeepingLength ==
    LET size == stream.bytes[chunk[interval + 1]].val * MetaUnit
    IN  /\ interval >= 0
        /\ interval < Len(chunk)
        /\ IF interval + size > Len(chunk)
           THEN MetaStep(Keep(chunk, interval), <<>>,
                         Len(chunk) - interval - size)
           ELSE MetaStep(Keep(chunk, interval), Drop(chunk, interval + size),
                         stream.meta)
        /\ UNCHANGED torn

\* The chunk reaches the length byte of a block.
MetaBegins ==
    LET size == BlockSize(stream, chunk[interval + 1])
    IN  /\ interval >= 0
        /\ interval < Len(chunk)
        /\ IF interval + size > Len(chunk)
           THEN MetaStep(Keep(chunk, interval), <<>>,
                         Len(chunk) - interval - size)
           ELSE MetaStep(Keep(chunk, interval), Drop(chunk, interval + size),
                         stream.meta)
        /\ UNCHANGED torn

MetaDone ==
    /\ interval >= Len(chunk)
    /\ MetaStep(chunk, <<>>, interval - Len(chunk))
    /\ UNCHANGED torn

ThreadMeta ==
    /\ tpc = "meta"
    /\ IF stream.meta = 0 THEN MetaStep(chunk, <<>>, 0) /\ UNCHANGED torn
       ELSE MetaContinued \/ MetaBegins \/ MetaDone
    /\ IF chunk' # <<>> THEN UNCHANGED <<tpc, eventStart>>
       ELSE tpc' = "recv" /\ eventStart' = TRUE
    /\ UNCHANGED <<sock, fStop, fEos, shoutcast, lists, hand, eventBuf,
                   eventFree, server, reading, calling>>

\* recv brings some bytes, while there is room in the buffer.
ThreadReceives ==
    /\ tpc = "recv" /\ ~fStop
    /\ \E n \in 1..(BufSize - Len(fill)) :
          /\ pos + n <= Len(stream.bytes)
          /\ chunk' = [i \in 1..n |-> pos + i]
          /\ pos' = pos + n
    /\ tpc' = "meta"
    /\ UNCHANGED <<sock, fStop, fEos, shoutcast, lists, hand, fill, interval,
                   events, stream, reading, calling, torn>>

\* The server has closed the connection, wherever it was.
ThreadEos ==
    /\ tpc = "recv" /\ ~fStop /\ Len(fill) < BufSize
    /\ fEos' = TRUE
    /\ tpc' = "full"
    /\ UNCHANGED <<sock, fStop, shoutcast, lists, filling, events, server,
                   reading, calling, torn>>

\* Nothing has come for RECV_RECEIVE_TIMEOUT, recv fails, or Stop was called.
ThreadGivesUp ==
    /\ tpc = "recv" /\ Len(fill) < BufSize
    /\ tpc' = "done"
    /\ UNCHANGED <<sock, fStop, fEos, shoutcast, lists, filling, events,
                   server, reading, calling, torn>>

ThreadFull ==
    /\ tpc = "recv" /\ Len(fill) >= BufSize
    /\ tpc' = "full"
    /\ UNCHANGED <<sock, fStop, fEos, shoutcast, lists, filling, events,
                   server, reading, calling, torn>>

\* The buffer is to be handed over, unless it is empty or the thread is to stop.
ThreadTests ==
    /\ tpc = "full"
    /\ tpc' = IF fStop \/ fill = <<>> THEN "done" ELSE "put"
    /\ UNCHANGED <<sock, fStop, fEos, shoutcast, lists, filling, events,
                   server, reading, calling, torn>>

ThreadAdds ==
    /\ tpc = "put" /\ ~ClientInLists
    /\ listBuf' = Append(listBuf, Buffer(fill))
    /\ hand' = FALSE /\ fill' = <<>>
    /\ tpc' = "added"
    /\ UNCHANGED <<sock, fStop, fEos, shoutcast, nFree, chunk, interval,
                   events, server, reading, calling, torn>>

ThreadAdded ==
    /\ tpc = "added"
    /\ eventBuf' = TRUE
    /\ tpc' = IF fEos THEN "done" ELSE "wait"
    /\ UNCHANGED <<sock, fStop, fEos, shoutcast, lists, filling, eventStart,
                   eventFree, server, reading, calling, torn>>

\* m_eventBufFree.Lock (), and the test of m_fStop after it
ThreadWaits ==
    /\ tpc = "wait" /\ eventFree
    /\ tpc' = IF fStop THEN "done" ELSE "take"
    /\ UNCHANGED <<sock, fStop, fEos, shoutcast, lists, filling, events,
                   server, reading, calling, torn>>

ThreadTakes ==
    /\ tpc = "take" /\ ~ClientInLists
    /\ nFree' = nFree - 1
    /\ hand' = TRUE /\ fill' = <<>>
    /\ tpc' = "taken"
    /\ UNCHANGED <<sock, fStop, fEos, shoutcast, listBuf, chunk, interval,
                   events, server, reading, calling, torn>>

ThreadTaken ==
    /\ tpc = "taken"
    /\ eventFree' = (eventFree /\ nFree > 0)
    /\ tpc' = "recv"
    /\ UNCHANGED <<sock, fStop, fEos, shoutcast, lists, filling, eventStart,
                   eventBuf, server, reading, calling, torn>>

\* done: the socket is closed.  A buffer in hand is lost with the thread.
ThreadDone ==
    /\ tpc = "done"
    /\ sock' = FALSE
    /\ tpc' = "ended"
    /\ UNCHANGED <<fStop, fEos, shoutcast, lists, filling, events, server,
                   reading, calling, torn>>

ReceiverThread ==
    \/ ThreadRefused \/ ThreadConnects \/ ThreadMeta \/ ThreadReceives
    \/ ThreadEos \/ ThreadGivesUp \/ ThreadFull \/ ThreadTests \/ ThreadAdds
    \/ ThreadAdded \/ ThreadWaits \/ ThreadTakes \/ ThreadTaken \/ ThreadDone

-----------------------------------------------------------------------------
(***************************************************************************)
(* The client's calls.                                                     *)
(***************************************************************************)
Returns(value) == call' = "none" /\ ret' = value

\* Mutant: the thread is woken without m_fStop.
BeginDisconnectNoStop(for) ==
    /\ call = "none"
    /\ goal' = for
    /\ call' = IF tpc = "none" THEN "joining" ELSE "stopping"
    /\ UNCHANGED <<tpc, sock, fStop, fEos, shoutcast, lists, filling, events,
                   server, reading, ret, torn>>

\* Disconnect, which Connect calls first, stops a thread that is there: it
\* sets m_fStop and then both events.
BeginDisconnect(for) ==
    /\ call = "none"
    /\ goal' = for
    /\ IF tpc = "none" THEN call' = "joining" /\ UNCHANGED fStop
                       ELSE call' = "stopping" /\ fStop' = TRUE
    /\ UNCHANGED <<tpc, sock, fEos, shoutcast, lists, filling, events, server,
                   reading, ret, torn>>


WakeThread ==
    /\ call = "stopping"
    /\ eventBuf' = TRUE /\ eventFree' = TRUE
    /\ call' = "joining"
    /\ UNCHANGED <<tpc, sock, fStop, fEos, shoutcast, lists, filling,
                   eventStart, server, reading, goal, ret, torn>>

\* UnprepareBuffer
NoBuffers ==
    /\ nFree' = 0 /\ listBuf' = <<>>
    /\ eventBuf' = TRUE /\ eventFree' = TRUE

\* The thread has ended.
Disconnected ==
    /\ call = "joining" /\ ~Running
    /\ tpc' = "none"
    /\ hand' = FALSE /\ fill' = <<>> /\ chunk' = <<>>
    /\ NoBuffers
    /\ fStop' = FALSE /\ fEos' = FALSE /\ shoutcast' = FALSE
    /\ IF goal = "connect" THEN call' = "start" /\ UNCHANGED ret
                           ELSE Returns(TRUE)
    /\ UNCHANGED <<sock, interval, eventStart, server, reading, goal, torn>>

\* Mutant: m_eventBuf keeps the value that UnprepareBuffer gave it.
StartThreadNoReset ==
    /\ call = "start"
    /\ nFree' = CBuf
    /\ eventFree' = TRUE /\ eventBuf' = TRUE /\ eventStart' = FALSE
    /\ fStop' = FALSE /\ fEos' = FALSE /\ shoutcast' = FALSE
    /\ last' = 0 /\ gap' = FALSE /\ torn' = FALSE
    /\ tpc' = "connect" /\ call' = "starting" /\ UNCHANGED ret
    /\ UNCHANGED <<sock, listBuf, filling, server, want, got, goal>>

\* PrepareBuffer, and the flags of a new connection
NewBuffers ==
    /\ nFree' = CBuf /\ UNCHANGED listBuf
    /\ eventFree' = TRUE /\ eventBuf' = FALSE /\ eventStart' = FALSE
    /\ fStop' = FALSE /\ fEos' = FALSE /\ shoutcast' = FALSE

\* The thread is created.
StartThread ==
    /\ call = "start"
    /\ NewBuffers
    /\ last' = 0 /\ gap' = FALSE /\ torn' = FALSE
    /\ tpc' = "connect" /\ call' = "starting" /\ UNCHANGED ret
    /\ UNCHANGED <<sock, filling, server, want, got, goal>>

\* PrepareBuffer fails, or CreateThread.
StartThreadFails ==
    /\ call = "start"
    /\ \/ NoBuffers /\ UNCHANGED <<fStop, fEos, shoutcast, eventStart>>
       \/ NewBuffers
    /\ Returns(FALSE)
    /\ UNCHANGED <<tpc, sock, filling, server, reading, goal, torn>>

\* Connect waits for eventStart or for the thread to end.
Started ==
    /\ call = "starting" /\ eventStart
    /\ Returns(TRUE)
    /\ UNCHANGED <<tpc, sock, fStop, fEos, shoutcast, lists, filling, events,
                   server, reading, goal, torn>>

NotStarted ==
    /\ call = "starting" /\ ~eventStart /\ tpc = "ended"
    /\ NoBuffers
    /\ Returns(FALSE)
    /\ UNCHANGED <<tpc, sock, fStop, fEos, shoutcast, filling, eventStart,
                   server, reading, goal, torn>>

BeginRead(n) ==
    /\ call = "none"
    /\ call' = "read" /\ want' = n /\ got' = 0
    /\ UNCHANGED <<tpc, sock, fStop, fEos, shoutcast, lists, filling, events,
                   server, last, gap, goal, ret, torn>>

\* m_eventBuf.Lock (100) succeeds; the list is tested without the lock.
ReadWaits ==
    /\ call = "read" /\ eventBuf
    /\ IF listBuf = <<>> THEN Returns(FALSE) ELSE call' = "copy" /\ UNCHANGED ret
    /\ UNCHANGED <<tpc, sock, fStop, fEos, shoutcast, lists, filling, events,
                   server, reading, goal, torn>>

\* It times out, and the socket is looked at in another step.
ReadTimesOut ==
    /\ call = "read" /\ ~eventBuf
    /\ call' = "timedOut"
    /\ UNCHANGED <<tpc, sock, fStop, fEos, shoutcast, lists, filling, events,
                   server, reading, goal, ret, torn>>

\* Mutant: the socket is not looked at.
ReadTriesForever ==
    /\ call = "timedOut"
    /\ call' = "read" /\ UNCHANGED ret
    /\ UNCHANGED <<tpc, sock, fStop, fEos, shoutcast, lists, filling, events,
                   server, reading, goal, torn>>

ReadTests ==
    /\ call = "timedOut"
    /\ IF ~sock THEN Returns(FALSE) ELSE call' = "read" /\ UNCHANGED ret
    /\ UNCHANGED <<tpc, sock, fStop, fEos, shoutcast, lists, filling, events,
                   server, reading, goal, torn>>

\* The audio byte that follows a position of the stream
IsNextAudio(p, q) ==
    /\ p < q
    /\ stream.bytes[q].audio
    /\ \A i \in (p + 1)..(q - 1) : ~stream.bytes[i].audio

\* History: the bytes seg are delivered.
Delivers(seg) ==
    /\ last' = seg[Len(seg)]
    /\ gap' = (gap \/ \E i \in 1..Len(seg) :
                 ~IsNextAudio(IF i = 1 THEN last ELSE seg[i - 1], seg[i]))

\* Mutant: a used up buffer is not put on the free list.
ReadCopiesLosing ==
    /\ call = "copy" /\ ~ThreadInLists
    /\ LET buf == listBuf[1]
           room == Len(buf.data) - buf.used
           cb == IF room < want - got THEN room ELSE want - got
       IN  /\ Delivers(SubSeq(buf.data, buf.used + 1, buf.used + cb))
           /\ got' = got + cb
           /\ IF cb = room THEN listBuf' = Tail(listBuf)
              ELSE listBuf' = [listBuf EXCEPT ![1].used = @ + cb]
           /\ UNCHANGED <<nFree, eventFree>>
    /\ call' = "copied"
    /\ UNCHANGED <<tpc, sock, fStop, fEos, shoutcast, filling, eventStart,
                   eventBuf, server, want, goal, ret, torn>>

ReadCopies ==
    /\ call = "copy" /\ ~ThreadInLists
    /\ LET buf == listBuf[1]
           room == Len(buf.data) - buf.used
           cb == IF room < want - got THEN room ELSE want - got
       IN  /\ Delivers(SubSeq(buf.data, buf.used + 1, buf.used + cb))
           /\ got' = got + cb
           /\ IF cb = room
              THEN /\ listBuf' = Tail(listBuf)
                   /\ nFree' = nFree + 1
                   /\ eventFree' = TRUE
              ELSE /\ listBuf' = [listBuf EXCEPT ![1].used = @ + cb]
                   /\ UNCHANGED <<nFree, eventFree>>
    /\ call' = "copied"
    /\ UNCHANGED <<tpc, sock, fStop, fEos, shoutcast, filling, eventStart,
                   eventBuf, server, want, goal, ret, torn>>

\* Still in the critical section: the event of an empty list is reset.
ReadCopied ==
    /\ call = "copied"
    /\ eventBuf' = (eventBuf /\ listBuf # <<>>)
    /\ IF got < want THEN call' = "read" /\ UNCHANGED ret ELSE Returns(TRUE)
    /\ UNCHANGED <<tpc, sock, fStop, fEos, shoutcast, lists, filling,
                   eventStart, eventFree, server, reading, goal, torn>>

Call ==
    \/ WakeThread \/ Disconnected \/ StartThread \/ StartThreadFails
    \/ Started \/ NotStarted
    \/ ReadWaits \/ ReadTimesOut \/ ReadTests \/ ReadCopies \/ ReadCopied

\* Stop, of any thread at any time
StopReceiver ==
    /\ fStop' = TRUE
    /\ UNCHANGED <<tpc, sock, fEos, shoutcast, lists, filling, events, server,
                   reading, calling, torn>>

-----------------------------------------------------------------------------
(***************************************************************************)
(* Properties.                                                             *)
(***************************************************************************)

\* Are there buffers, and has Disconnect not yet set the events?
Exchanging ==
    /\ tpc \notin {"none", "connect"}
    /\ call \notin {"start", "joining"}
    /\ eventStart

\* Every event tells the truth about its list whenever nobody is between a
\* change of the list and the change of the event (Receiver.cpp:140-153,
\* 329-335, 372-375): a wait for an event neither misses a buffer nor finds
\* the list empty.
EventsTrue ==
    Exchanging /\ ~ThreadInLists /\ ~ClientInLists =>
        /\ eventBuf = (listBuf # <<>>)
        /\ eventFree = (nFree > 0)

\* While a connection lasts no buffer is lost or in two places: it is free,
\* filled, or in the thread's hand (Receiver.cpp:317, 330, 373, 147).
BuffersConserved ==
    Exchanging => nFree + Len(listBuf) + (IF hand THEN 1 ELSE 0) = CBuf

\* A buffer that the thread or Read is about to take from a list is there,
\* though the list was tested before the lock was taken: CMultiBuff does not
\* check the index (Receiver.cpp:136-147, 325-330).
TakenIsThere ==
    /\ tpc = "take" => nFree > 0
    /\ call = "copy" => listBuf # <<>>

\* What Read delivers is the audio of this connection from its first byte on,
\* in order, without the metadata (Receiver.cpp:139-151, 364, 716-786), unless
\* a block of metadata begun in one chunk ended together with a later one.
AudioInOrder == gap => torn

=============================================================================
