----------------------------- MODULE Streaming -----------------------------
(***************************************************************************)
(* GSPlayeR plays a stream: CPlayer::NetStreamingThread                    *)
(* (src/GSPlayeR/maplay/PlayerNet.cpp) with the receiver it reads from,    *)
(* the output it writes to and the user's thread, which calls Play and     *)
(* Stop.  The thread connects, waits until some buffers are filled, looks  *)
(* for the format in the first of them, then reads and renders; when the   *)
(* receiver runs dry it lets the output drain and connects again.          *)
(*                                                                         *)
(* Of the output (output.cpp) there is what a thread may wait for: the     *)
(* count of the ring and its event, changed one after the other, its pause *)
(* and m_csecDevice, and with double buffering WaveOutThread.  The places  *)
(* in the ring and its data are the subject of WaveOutput.                 *)
(*                                                                         *)
(* Stop holds m_csecInterface from beginning to end, PreparePlayback needs *)
(* it.  Play is not called twice before the thread has said                *)
(* MAP_STATUS_WAIT.                                                        *)
(***************************************************************************)
EXTENDS Receiver

CONSTANTS
    PreBuf,     \* m_cPreBuf: filled buffers to wait for
    ReadSizes,  \* NET_READ_BUFF_LEN less what the decoder has left, or less 0
    OutBufs,    \* Output.GetBufferCount ()
    OutPre,     \* the waiting output buffers that start the device
    MaxPlays    \* a bound on the calls of Play

ASSUME StreamingAssumption ==
    /\ PreBuf \in Nat /\ 2 <= PreBuf /\ PreBuf <= CBuf
    /\ ReadSizes # {} /\ ReadSizes \subseteq Nat \ {0}
    /\ OutBufs \in Nat /\ OutPre \in Nat /\ 1 <= OutPre /\ OutPre <= OutBufs
    /\ MaxPlays \in Nat

VARIABLES
    net,        \* where the streaming thread stands
    again,      \* it is in NetReconnect
    eos,        \* it is in UnpreparePlayback (TRUE)
    hdr,        \* m_pOutHdr # NULL
    status,     \* m_Status
    stop,       \* CPlayer's m_fStop
    fPlay,      \* m_fPlay: the device is to be started when there is enough
    ui,         \* where the user's thread stands in Stop
    plays,      \* the calls of Play so far
    double,     \* m_fDoubleBuf, an option: it does not change here
    open,       \* m_hwo # NULL
    outq,       \* m_cWritten: buffers the output has not played
    event,      \* m_hEvent: there is room for another
    paused,     \* m_fPaused, or the pause of the device
    devLock,    \* who holds m_csecDevice from one step to the next
    wave        \* WaveOutThread waits, or is about to fill a buffer

flags == <<status, stop, fPlay>>
place == <<net, again, eos, hdr>>
user == <<ui, plays>>
queue == <<outq, event, paused>>
output == <<double, open, queue, devLock, wave>>
pvars == <<place, flags, user, output>>
vars == <<rvars, pvars>>

InReceiver == call # "none"

\* A step of the streaming thread to pc that changes no other variable but
\* those of the receiver,
Goto(pc) ==
    /\ net' = pc
    /\ UNCHANGED <<again, eos, hdr, flags, user, output>>

\* or not even those.
Jump(pc) == Goto(pc) /\ UNCHANGED rvars

Init ==
    /\ ReceiverInit
    /\ net = "none" /\ again = FALSE /\ eos = FALSE /\ hdr = FALSE
    /\ status = "STOP" /\ stop = FALSE /\ fPlay = FALSE
    /\ ui = "idle" /\ plays = 0
    /\ double \in BOOLEAN /\ open = FALSE
    /\ outq = 0 /\ event = TRUE /\ paused = FALSE
    /\ devLock = "free" /\ wave = "wait"

-----------------------------------------------------------------------------
(***************************************************************************)
(* The streaming thread.                                                   *)
(***************************************************************************)
At(pc) == net = pc /\ ~InReceiver

Begin ==
    /\ At("begin")
    /\ status' = "WAIT"
    /\ again' = FALSE /\ eos' = FALSE
    /\ BeginDisconnect("connect")
    /\ net' = "connecting"
    /\ UNCHANGED <<hdr, stop, fPlay, user, output>>

\* UnpreparePlayback (FALSE, TRUE) when it fails
Connected ==
    /\ At("connecting")
    /\ Jump(IF ret THEN "prebuffer" ELSE "abort")

\* WaitForPrebuffering
Prebuffered ==
    LET next == IF again THEN "resume" ELSE "probe"
    IN  /\ At("prebuffer")
        /\ \/ stop /\ Jump("abort")
           \/ ~stop /\ ~sock /\ Jump(IF fEos THEN next ELSE "abort")
           \/ ~stop /\ sock /\ Len(listBuf) >= PreBuf /\ Jump(next)

\* Read a first piece, in which the format is looked for.  What was read is
\* not rendered.
Probe ==
    /\ At("probe")
    /\ \E n \in ReadSizes : BeginRead(n)
    /\ Goto("probing")

\* The format is known, or another piece is looked at (m_cPreBuf at most).
Probed ==
    /\ At("probing")
    /\ \/ ret /\ (Jump("prepare") \/ Jump("probe"))
       \/ ~ret /\ Jump("abort")

Playing ==
    /\ At("prepared")
    /\ status' = "PLAY"
    /\ net' = "loop"
    /\ UNCHANGED <<again, eos, hdr, stop, fPlay, user, output, rvars>>

\* The loop of NetMpegStreaming
Loop ==
    /\ At("loop")
    /\ Jump(IF stop THEN "close"
            ELSE IF Len(listBuf) < 2 THEN "drain" ELSE "read")

Drain ==
    /\ At("drain")
    /\ \/ outq = 0 /\ Jump("reconnect")
       \/ outq # 0 /\ Len(listBuf) > 1 /\ Jump("read")
       \/ outq # 0 /\ Len(listBuf) <= 1 /\ stop /\ Jump("close")

\* NetReconnect
Reconnect ==
    /\ At("reconnect")
    /\ IF fEos \/ ~shoutcast
       THEN Jump("flush")
       ELSE /\ status' = "WAIT"
            /\ again' = TRUE
            /\ BeginDisconnect("disconnect")
            /\ net' = "dropping"
            /\ UNCHANGED <<eos, hdr, stop, fPlay, user, output>>

ConnectAgain ==
    /\ At("dropping")
    /\ BeginDisconnect("connect")
    /\ Goto("connecting")

\* Pause (TRUE)
Resume ==
    /\ At("resume") /\ (double \/ devLock = "free")
    /\ status' = "PLAY"
    /\ paused' = TRUE /\ fPlay' = TRUE
    /\ net' = "read"
    /\ UNCHANGED <<again, eos, hdr, stop, user, double, open, outq, event,
                   devLock, wave, rvars>>

ReadStream ==
    /\ At("read")
    /\ \E n \in ReadSizes : BeginRead(n)
    /\ Goto("reading")

StreamRead ==
    /\ At("reading")
    /\ Jump(IF ret THEN "render" ELSE "flush")

-----------------------------------------------------------------------------
(***************************************************************************)
(* PreparePlayback, which tests m_fStop and then takes m_csecInterface.    *)
(***************************************************************************)
InterfaceFree == ui \in {"idle", "called"} /\ net # "reopen"

Prepare ==
    /\ At("prepare")
    /\ Jump(IF stop THEN "abort" ELSE "interface")

Opening == At("interface") /\ InterfaceFree /\ devLock = "free"

\* The device is open and has the format,
Prepared ==
    /\ open' = TRUE /\ paused' = TRUE
    /\ fPlay' = TRUE /\ stop' = FALSE
    /\ net' = "prepared"
    /\ UNCHANGED <<again, eos, hdr, status, user, double, rvars>>

Reuse ==
    /\ Opening /\ open
    /\ Prepared
    /\ UNCHANGED <<outq, event, devLock, wave>>

\* or it is opened,
EmptyRing == outq' = 0 /\ event' = TRUE

OpenNew ==
    /\ Opening /\ ~open
    /\ \/ EmptyRing /\ Prepared /\ UNCHANGED <<devLock, wave>>
       \/ Jump("abort")

\* or, for another format, closed first: Open waits, with m_csecDevice, for
\* WaveOutThread.
Reopen ==
    /\ Opening /\ open
    /\ devLock' = "net"
    /\ net' = "reopen"
    /\ UNCHANGED <<again, eos, hdr, flags, user, double, open, queue, wave,
                   rvars>>

Reopened ==
    /\ At("reopen") /\ wave = "wait"
    /\ EmptyRing
    /\ devLock' = "free"
    /\ \/ Prepared
       \/ /\ open' = FALSE /\ paused' = TRUE
          /\ net' = "abort"
          /\ UNCHANGED <<again, eos, hdr, flags, user, double, rvars>>
    /\ UNCHANGED wave

PreparePlayback == Prepare \/ Reuse \/ OpenNew \/ Reopen \/ Reopened

-----------------------------------------------------------------------------
(***************************************************************************)
(* MpgRender, OutputBuffer (of CPlayer and of COutput), GetBuffer.         *)
(***************************************************************************)
\* m_fStop is set, or the decoder needs more input,
Rendered ==
    /\ At("render")
    /\ Jump("loop")

\* or a buffer, after the one it has filled.
NeedsBuffer ==
    /\ At("render") /\ ~stop
    /\ Jump(IF hdr THEN "put" ELSE "buffer")

\* With double buffering the count, with m_csecBuff; otherwise with
\* m_csecDevice the device gets the buffer, and the count and the event follow.
Put ==
    /\ At("put")
    /\ outq' = outq + 1
    /\ \/ double /\ net' = "count" /\ UNCHANGED event
       \/ /\ ~double /\ devLock = "free"
          /\ event' = (event /\ outq' < OutBufs)
          /\ net' = "test"
    /\ UNCHANGED <<again, eos, hdr, flags, user, double, open, paused,
                   devLock, wave, rvars>>

\* UnpreparePlayback puts out a buffer in which there is nothing.
PutNothing ==
    /\ At("put") /\ eos
    /\ event' = TRUE
    /\ net' = "test"
    /\ UNCHANGED <<again, eos, hdr, flags, user, double, open, outq, paused,
                   devLock, wave, rvars>>

Count ==
    /\ At("count")
    /\ event' = (event /\ outq < OutBufs)
    /\ net' = "test"
    /\ UNCHANGED <<again, eos, hdr, flags, user, double, open, outq, paused,
                   devLock, wave, rvars>>

\* GetBufferingSamples takes m_csecDevice: is there enough to start?
PutsOut ==
    /\ hdr' = FALSE
    /\ net' = IF eos THEN "flushing" ELSE "buffer"
    /\ UNCHANGED <<again, eos, status, stop, user, double, open, outq, event,
                   devLock, wave, rvars>>

Test ==
    /\ At("test")
    /\ fPlay => devLock = "free"
    /\ IF fPlay /\ status = "PLAY" /\ outq >= OutPre THEN Jump("start")
       ELSE PutsOut /\ UNCHANGED <<fPlay, paused>>

Start ==
    /\ At("start")
    /\ paused' = FALSE /\ fPlay' = FALSE
    /\ PutsOut

\* Mutant: it does not wait.
GetBufferAtOnce ==
    /\ At("buffer")
    /\ hdr' = TRUE
    /\ net' = IF stop THEN "loop" ELSE "render"
    /\ UNCHANGED <<again, eos, flags, user, output, rvars>>

\* GetBuffer waits for the event, and m_fStop is tested.
GetBuffer ==
    /\ At("buffer") /\ event
    /\ hdr' = TRUE
    /\ net' = IF stop THEN "loop" ELSE "render"
    /\ UNCHANGED <<again, eos, flags, user, output, rvars>>

Rendering ==
    \/ Rendered \/ NeedsBuffer \/ Put \/ PutNothing \/ Count \/ Test \/ Start
    \/ GetBuffer

-----------------------------------------------------------------------------
(***************************************************************************)
(* UnpreparePlayback.                                                      *)
(***************************************************************************)
\* UnpreparePlayback (TRUE) puts out a buffer begun, and waits till all is
\* played; it starts the device if that has not been done.
Flush ==
    /\ At("flush")
    /\ eos' = TRUE
    /\ net' = IF hdr THEN "put" ELSE "flushing"
    /\ UNCHANGED <<again, hdr, flags, user, output, rvars>>

Flushing ==
    /\ At("flushing") /\ devLock = "free"
    /\ \/ (outq = 0 \/ stop) /\ Jump("close")
       \/ /\ outq # 0 /\ fPlay /\ status = "PLAY"
          /\ paused' = FALSE /\ fPlay' = FALSE
          /\ UNCHANGED <<place, status, stop, user, double, open, outq, event,
                         devLock, wave, rvars>>

\* COutput::Close, which keeps a device with double buffering; after an error
\* CloseAll, which waits for WaveOutThread.  Then the receiver is closed,
Closes(opened) ==
    /\ devLock = "free"
    /\ EmptyRing /\ paused' = TRUE
    /\ open' = opened
    /\ BeginDisconnect("disconnect")
    /\ net' = "closing"
    /\ UNCHANGED <<again, eos, hdr, flags, user, double, devLock, wave>>

Close == At("close") /\ Closes(open /\ double)

CloseAll == At("abort") /\ wave = "wait" /\ Closes(FALSE)

\* the flags cleared, and the status is STOP.
Unprepared ==
    /\ At("closing")
    /\ hdr' = FALSE /\ fPlay' = FALSE /\ stop' = FALSE
    /\ status' = "STOP"
    /\ net' = "ended"
    /\ UNCHANGED <<again, eos, user, output, rvars>>

UnpreparePlayback == Flush \/ Flushing \/ Close \/ CloseAll \/ Unprepared

NetStreamingThread ==
    \/ Begin \/ Connected \/ Prebuffered \/ Probe \/ Probed \/ PreparePlayback
    \/ Playing \/ Loop \/ Drain \/ Reconnect \/ ConnectAgain \/ Resume
    \/ ReadStream \/ StreamRead \/ Rendering \/ UnpreparePlayback

-----------------------------------------------------------------------------
(***************************************************************************)
(* The user's thread and the device.                                       *)
(***************************************************************************)
Play ==
    /\ ui = "idle" /\ status = "STOP" /\ net \in {"none", "ended"}
    /\ plays < MaxPlays
    /\ plays' = plays + 1
    /\ net' = "begin"
    /\ UNCHANGED <<again, eos, hdr, flags, ui, output, rvars>>

UiGoto(pc) ==
    /\ ui' = pc
    /\ UNCHANGED <<place, flags, plays>>

\* Stop takes m_csecInterface and keeps it.  It sets m_fStop,
Stop ==
    /\ ui = "idle" /\ net # "none"
    /\ UiGoto("called")
    /\ UNCHANGED <<output, rvars>>

StopBegins ==
    /\ ui = "called" /\ InterfaceFree
    /\ stop' = TRUE
    /\ ui' = "receiver"
    /\ UNCHANGED <<place, status, fPlay, plays, output, rvars>>

\* stops the receiver,
StopsReceiver ==
    /\ ui = "receiver"
    /\ StopReceiver
    /\ UiGoto("output")
    /\ UNCHANGED output

\* resets the output: with double buffering first the event,
StopsOutput ==
    /\ ui = "output"
    /\ \/ ~open /\ UiGoto("waiting") /\ UNCHANGED <<queue, devLock>>
       \/ /\ open /\ ~double /\ devLock = "free"
          /\ EmptyRing /\ paused' = TRUE
          /\ UiGoto("waiting") /\ UNCHANGED devLock
       \/ /\ open /\ double /\ devLock = "free"
          /\ event' = TRUE /\ devLock' = "user"
          /\ UiGoto("reset") /\ UNCHANGED <<outq, paused>>
    /\ UNCHANGED <<double, open, wave, rvars>>

\* then the count,
StopHasReset ==
    /\ ui = "reset"
    /\ outq' = 0 /\ paused' = TRUE
    /\ devLock' = "free"
    /\ UiGoto("waiting")
    /\ UNCHANGED <<double, open, event, wave, rvars>>

\* and waits for the thread.
Stopped ==
    /\ ui = "waiting" /\ net = "ended"
    /\ net' = "none"
    /\ stop' = FALSE /\ fPlay' = FALSE
    /\ ui' = "idle"
    /\ UNCHANGED <<again, eos, hdr, status, plays, output, rvars>>

Stopping == StopBegins \/ StopsReceiver \/ StopsOutput \/ StopHasReset \/ Stopped

\* A buffer has been played.
Played ==
    /\ outq > 0 /\ ~paused
    /\ outq' = outq - 1 /\ event' = TRUE
    /\ UNCHANGED paused

\* WaveOutCallback, PutBuffer
BufferPlayed ==
    /\ ~double
    /\ Played
    /\ UNCHANGED <<double, open, devLock, wave, place, flags, user, rvars>>

\* WaveOutCallback2 has set m_hEventThread,
WaveWakes ==
    /\ double /\ open /\ wave = "wait"
    /\ wave' = "fill"
    /\ UNCHANGED <<double, open, queue, devLock, place, flags, user, rvars>>

\* and WaveOutThread fills a small buffer, with both locks.
WaveFills ==
    /\ wave = "fill" /\ devLock = "free" /\ net # "count"
    /\ wave' = "wait"
    /\ IF outq = 0 \/ paused THEN UNCHANGED queue ELSE Played
    /\ UNCHANGED <<double, open, devLock, place, flags, user, rvars>>

Device == BufferPlayed \/ WaveWakes \/ WaveFills

Next ==
    \/ ReceiverThread /\ UNCHANGED pvars
    \/ Call /\ UNCHANGED pvars
    \/ NetStreamingThread
    \/ Play \/ Stop \/ Stopping \/ Device

Spec == Init /\ [][Next]_vars

\* Every thread runs, the waits of the receiver for the network time out, and
\* the device plays.  The decoder does not fill output buffers from one piece
\* for ever.  WaveOutThread sees WM_QUIT when the device does not return a
\* buffer at that very moment.  Nothing makes the user call Play or Stop.
Fairness ==
    /\ WF_vars(ReceiverThread /\ UNCHANGED pvars)
    /\ WF_vars(Call /\ UNCHANGED pvars)
    /\ WF_vars(NetStreamingThread)
    /\ SF_vars(Rendered) /\ SF_vars(CloseAll)
    /\ WF_vars(Stopping)
    /\ WF_vars(Device)

FairSpec == Spec /\ Fairness

-----------------------------------------------------------------------------
(***************************************************************************)
(* Properties.                                                             *)
(***************************************************************************)
TypeOK ==
    /\ tpc \in {"none", "connect", "meta", "recv", "full", "put", "added",
                "wait", "take", "taken", "done", "ended"}
    /\ {sock, fStop, fEos, shoutcast, hand, eventStart, eventBuf, eventFree,
        ret, gap, torn, again, eos, hdr, stop, fPlay, double, open, event,
        paused} \subseteq BOOLEAN
    /\ nFree \in 0..CBuf /\ Len(listBuf) \in 0..CBuf
    /\ interval \in Int /\ pos \in 0..Len(stream.bytes)
    /\ call \in {"none", "stopping", "joining", "start", "starting", "read",
                 "timedOut", "copy", "copied"}
    /\ goal \in {"connect", "disconnect"} /\ got \in 0..want
    /\ status \in {"STOP", "WAIT", "PLAY"}
    /\ outq \in 0..OutBufs /\ plays \in 0..MaxPlays
    /\ devLock \in {"free", "net", "user"} /\ wave \in {"wait", "fill"}
    /\ ui \in {"idle", "called", "receiver", "output", "reset", "waiting"}

\* The thread waits for m_csecInterface, that Stop holds while it waits for
\* the thread (player.cpp:482, 173-180).
Deadlocked == net = "interface" /\ ~InterfaceFree

\* The thread waits for a buffer that is there: Reset came between the count
\* and the event of OutputBuffer (output.cpp:184-186, 270-274).
RoomMissed == double /\ net = "buffer" /\ ~event /\ outq < OutBufs

\* COutput::Open waits for WaveOutThread, which waits for m_csecDevice
\* (output.cpp:77-86, 603).
OpenDeadlocked == net = "reopen" /\ wave = "fill"


\* The device is paused and holds less than it takes to start it, and the
\* loop that waits for more data does not start it (PlayerNet.cpp:149-160).
NeverStarted == net = "drain" /\ paused /\ outq > 0

\* When the receiver's thread has ended, by the server's end of the stream, an
\* error or a time-out, the player notices: it stops or connects again, unless
\* it is in one of those places, or the little that it has rendered has never
\* been started.
EndNoticed ==
    (tpc = "ended" /\ net \notin {"none", "ended"}) ~>
        (net \in {"none", "ended"} \/ tpc # "ended" \/ NeverStarted
            \/ Deadlocked \/ RoomMissed \/ OpenDeadlocked)

=============================================================================
