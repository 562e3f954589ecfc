----------------------------- MODULE WaveOutput -----------------------------
(***************************************************************************)
(* The wave output of GSPlayeR (src/GSPlayeR/maplay/output.cpp): a ring of *)
(* headers between the player's thread, which calls GetBuffer and          *)
(* OutputBuffer, and the device.  m_cWritten counts the headers handed     *)
(* over; a manual-reset event says that there is room.                     *)
(*                                                                         *)
(* Without double buffering the headers go to the device, whose callback   *)
(* counts them back.  With it they stay in the ring, and a thread          *)
(* (WaveOutThread) copies them from m_nWriteCur on to small buffers that   *)
(* the device returns again and again.  m_csecBuff is held for the count   *)
(* alone, m_csecDevice for a whole operation on the device; but Reset,     *)
(* with double buffering, changes the count without m_csecBuff, and        *)
(* OutputBuffer does not take m_csecDevice.                                *)
(*                                                                         *)
(* waveOutReset returns when it has called back for every header.  Where   *)
(* the device returns small buffers, it always has one more to return.     *)
(***************************************************************************)
EXTENDS Integers, Sequences

CONSTANT
    CBuf        \* m_cBuf

\* PrepareBuffer makes at least two.
ASSUME CBufAssumption == CBuf \in Nat /\ CBuf >= 2

VARIABLES
    double,     \* m_fDoubleBuf, an option: it does not change here
    open,       \* m_hwo # NULL
    event,      \* m_hEvent
    written,    \* m_cWritten (-1 stands for its largest value)
    current,    \* m_nCurrent
    writeCur,   \* m_nWriteCur
    device,     \* the headers the device has, without double buffering
    samples,    \* m_dwWritten - GetCurrent (), in headers
    paused,     \* m_fPaused, or the pause of the device
    devLock,    \* who holds m_csecDevice from one step to the next
    wave,       \* WaveOutThread waits, or is about to fill a buffer
    data        \* when the data of a header were decoded

ring == <<event, written, current, writeCur, device, samples>>
ovars == <<double, open, ring, paused, devLock, wave, data>>

Slots == 0..(CBuf - 1)
Ages == {"none", "fresh", "old"}    \* "old": before the last seek
NoData == [s \in Slots |-> "none"]

OutputInit ==
    /\ double \in BOOLEAN
    /\ open = FALSE
    /\ event = TRUE /\ written = 0 /\ current = 0 /\ writeCur = 0
    /\ device = <<>> /\ samples = 0
    /\ paused = FALSE /\ devLock = "free" /\ wave = "wait"
    /\ data = NoData

\* (s + n) % m_cBuf, for n up to m_cBuf
Plus(s, n) == IF s + n < CBuf THEN s + n ELSE s + n - CBuf
After(s) == Plus(s, 1)

\* The first n headers of the ring from s on
From(s, n) == {Plus(s, i) : i \in 0..(n - 1)}

\* What will be heard
InRing == IF double THEN From(writeCur, written)
          ELSE {device[i] : i \in DOMAIN device}

-----------------------------------------------------------------------------
(***************************************************************************)
(* The operations.  Each is a step, or the steps it is named after.        *)
(***************************************************************************)

EmptyRing ==
    /\ event' = TRUE /\ written' = 0 /\ current' = 0 /\ writeCur' = 0
    /\ device' = <<>> /\ samples' = 0

\* Open makes a new device, whose pause PreparePlayback sets.
OpenDevice ==
    /\ EmptyRing
    /\ open' = TRUE /\ paused' = TRUE /\ wave' = "wait"
    /\ data' = NoData

\* Mutant: the device is not paused again after waveOutReset.
ResetOutputRunning ==
    IF open THEN devLock = "free" /\ EmptyRing /\ paused' = FALSE
            ELSE UNCHANGED <<ring, paused>>

\* Reset by the player's own thread, which is then not in OutputBuffer
ResetOutput ==
    IF open THEN devLock = "free" /\ EmptyRing /\ paused' = TRUE
            ELSE UNCHANGED <<ring, paused>>

\* Reset by another thread: first the event, and the device returns what it
\* has,
BeginReset(who) ==
    /\ devLock = "free"
    /\ devLock' = who
    /\ event' = TRUE
    /\ device' = <<>>
    /\ written' = written - Len(device)
    /\ paused' = IF double THEN paused ELSE TRUE
    /\ UNCHANGED <<double, open, current, writeCur, samples, wave, data>>

\* then the counters.
EndReset ==
    /\ devLock' = "free"
    /\ written' = 0 /\ current' = 0 /\ writeCur' = 0 /\ samples' = 0
    /\ paused' = TRUE
    /\ UNCHANGED <<double, open, event, device, wave, data>>

\* Pause
PauseOutput(pause) ==
    /\ open /\ ~double => devLock = "free"
    /\ paused' = IF open THEN pause ELSE paused

\* Mutant: it does not wait.
GetHeaderAtOnce == data' = [data EXCEPT ![current] = "none"]

\* GetBuffer: what is in the header will be overwritten.
GetHeader ==
    /\ event
    /\ data' = [data EXCEPT ![current] = "none"]

\* OutputBuffer of a header without data
OutputNothing == event' = TRUE /\ UNCHANGED <<written, current, writeCur,
                                              device, samples>>

\* OutputBuffer: with double buffering the count, otherwise waveOutWrite,
OutputWrites(hdr) ==
    /\ IF double THEN written' = written + 1 /\ UNCHANGED <<device, devLock>>
       ELSE /\ devLock = "free" /\ devLock' = "player"
            /\ device' = Append(device, hdr)
            /\ UNCHANGED written
    /\ UNCHANGED <<double, open, event, current, writeCur, samples, paused,
                   wave, data>>

\* Mutant: one header too many.
OutputCountsLate ==
    /\ written' = IF double THEN written ELSE written + 1
    /\ event' = (event /\ written' <= CBuf)
    /\ current' = After(current)
    /\ samples' = samples + 1
    /\ devLock' = IF double THEN devLock ELSE "free"
    /\ UNCHANGED <<double, open, writeCur, device, paused, wave, data>>

\* then the event and the next header.
OutputCounts ==
    /\ written' = IF double THEN written ELSE written + 1
    /\ event' = (event /\ written' < CBuf)
    /\ current' = After(current)
    /\ samples' = samples + 1
    /\ devLock' = IF double THEN devLock ELSE "free"
    /\ UNCHANGED <<double, open, writeCur, device, paused, wave, data>>

-----------------------------------------------------------------------------
(***************************************************************************)
(* The device, with its callback, and WaveOutThread.                       *)
(***************************************************************************)

\* WaveOutCallback, PutBuffer
HeaderPlayed ==
    /\ ~double /\ device # <<>> /\ ~paused
    /\ device' = Tail(device)
    /\ event' = TRUE /\ written' = written - 1
    /\ samples' = samples - 1
    /\ UNCHANGED <<double, open, current, writeCur, paused, devLock, wave,
                   data>>

\* WaveOutCallback2 has set m_hEventThread.
WaveWakes ==
    /\ double /\ open /\ wave = "wait"
    /\ wave' = "fill"
    /\ UNCHANGED <<double, open, ring, paused, devLock, data>>

\* The copy of one header of the ring: more or less of it is copied at a time.
WaveFills ==
    /\ wave = "fill" /\ devLock = "free"
    /\ wave' = "wait"
    /\ IF written = 0 \/ paused THEN UNCHANGED ring
       ELSE /\ writeCur' = After(writeCur)
            /\ event' = TRUE /\ written' = written - 1
            /\ samples' = samples - 1
            /\ UNCHANGED <<current, device>>
    /\ UNCHANGED <<double, open, paused, devLock, data>>

Device == HeaderPlayed \/ WaveWakes \/ WaveFills

=============================================================================
