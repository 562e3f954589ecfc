------------------------------- MODULE Player -------------------------------
(***************************************************************************)
(* GSPlayeR plays a file: CPlayer::FilePlayerThread and the loops of       *)
(* PlayerWav.cpp, PlayerPlugIn.cpp, PlayerOv.cpp and PlayerMpg.cpp         *)
(* (src/GSPlayeR/maplay), with the wave output they write to and the       *)
(* user's thread, which calls Play, Pause, Stop and Seek.                  *)
(*                                                                         *)
(* The user's thread holds m_csecInterface throughout a call: it does      *)
(* unless ui = "idle".  Seek and the middle of the loops hold m_csecThread *)
(* too.  The rest is flags and m_Status, which both threads test and set   *)
(* without a lock in common.                                               *)
(*                                                                         *)
(* Play is not called twice before the thread has said MAP_STATUS_WAIT,    *)
(* nor before an earlier thread has ended.  How much fits in a header, how *)
(* long the file is, and whether enough is buffered to start the device    *)
(* are choices.                                                            *)
(***************************************************************************)
EXTENDS WaveOutput

VARIABLES
    kind,       \* which loop plays the file
    pc,         \* where the player's thread stands; "none": m_hThread is NULL
    hdr,        \* m_pOutHdr, or NoHdr
    eos,        \* calls of UnpreparePlayback (TRUE); 3: the one for silence
    fStop, fSeek, fPlay,
    status,     \* m_Status
    ui,         \* where the user's thread stands
    crossed     \* history: m_Status changed between a test and what follows it

NoHdr == CBuf
Kinds == {"wav", "ov", "mpg"}       \* "wav": PCM wave files, and plug-ins

flags == <<fStop, fSeek, fPlay>>
pvars == <<kind, pc, hdr, eos, flags, status, ui, crossed>>
vars == <<ovars, pvars>>

Init ==
    /\ OutputInit
    /\ kind \in Kinds
    /\ pc = "none" /\ hdr = NoHdr /\ eos = 0
    /\ fStop = FALSE /\ fSeek = FALSE /\ fPlay = FALSE
    /\ status = "STOP" /\ ui = "idle" /\ crossed = FALSE

InterfaceFree == ui = "idle" /\ pc # "reopen"
ThreadFree == pc \notin {"arm", "rewind"}           \* m_csecThread
SeekHolds == ui \in {"reset", "resetting"}

\* A step of the thread to a place, that changes no other variable
Goto(place) ==
    /\ pc' = place
    /\ UNCHANGED <<kind, hdr, eos, flags, status, ui, crossed>>

Jump(place) == Goto(place) /\ UNCHANGED ovars

-----------------------------------------------------------------------------
(***************************************************************************)
(* FilePlayerThread, PreparePlayback.                                      *)
(***************************************************************************)
Begin ==
    /\ pc = "begin"
    /\ status' = "WAIT"
    /\ pc' = "prepare"
    /\ UNCHANGED <<kind, hdr, eos, flags, ui, crossed, ovars>>

\* m_fStop is tested before m_csecInterface is taken.
Prepare ==
    /\ pc = "prepare"
    /\ Jump(IF fStop THEN "closeAll" ELSE "interface")

\* The device is there and has the format,
Prepared ==
    /\ fPlay' = TRUE /\ fStop' = FALSE
    /\ pc' = "prepared"
    /\ UNCHANGED <<kind, hdr, eos, fSeek, status, ui, crossed>>

Reuse ==
    /\ pc = "interface" /\ InterfaceFree /\ devLock = "free" /\ open
    /\ paused' = TRUE
    /\ Prepared
    /\ UNCHANGED <<double, open, ring, devLock, wave, data>>

\* or it is made,
OpenNew ==
    /\ pc = "interface" /\ InterfaceFree /\ devLock = "free" /\ ~open
    /\ \/ OpenDevice /\ Prepared
       \/ Goto("closeAll") /\ UNCHANGED <<open, ring, paused, wave, data>>
    /\ UNCHANGED <<double, devLock>>

\* or it has another format: Open waits, with m_csecDevice, in CloseAll for
\* WaveOutThread.
Reopen ==
    /\ pc = "interface" /\ InterfaceFree /\ devLock = "free" /\ open
    /\ devLock' = "player"
    /\ Goto("reopen")
    /\ UNCHANGED <<double, open, ring, paused, wave, data>>

Reopened ==
    /\ pc = "reopen" /\ wave = "wait"
    /\ OpenDevice /\ Prepared
    /\ devLock' = "free"
    /\ UNCHANGED double

Playing ==
    /\ pc = "prepared"
    /\ status' = "PLAY"
    /\ pc' = "top"
    /\ UNCHANGED <<kind, hdr, eos, flags, ui, crossed, ovars>>

Opening == Begin \/ Prepare \/ Reuse \/ OpenNew \/ Reopen \/ Reopened \/ Playing

-----------------------------------------------------------------------------
(***************************************************************************)
(* WavPlayerThread, PlugInPlayerThread, OvPlayerThread, MpgPlayerThread.   *)
(***************************************************************************)
NeedsHeader == hdr = NoHdr
MayBeFull == hdr # NoHdr /\ data[hdr] # "none"

\* m_fStop; then, but for MPEG audio, a header with room is needed.
Top ==
    /\ pc = "top"
    /\ \/ fStop /\ Jump("close")
       \/ ~fStop /\ (kind = "mpg" \/ ~NeedsHeader) /\ Jump("locked")
       \/ ~fStop /\ kind # "mpg" /\ NeedsHeader /\ Jump("get")
       \/ ~fStop /\ kind = "ov" /\ MayBeFull /\ Jump("write")

\* GetBuffer.  The flags may be looked at again after it.
GetBuffer ==
    /\ pc = "get"
    /\ GetHeader
    /\ hdr' = current
    /\ pc' = IF \/ fSeek /\ kind # "wav"
                \/ fStop /\ kind = "mpg" THEN "top"
             ELSE IF kind = "mpg" THEN "decode" ELSE "locked"
    /\ UNCHANGED <<kind, eos, flags, status, ui, crossed, double, open, ring,
                   paused, devLock, wave>>

\* Mutant: the device is not to be started again.
SeekSeenOnly ==
    /\ pc = "locked" /\ ~SeekHolds /\ fSeek
    /\ Jump("rewind")

\* With m_csecThread: a seek is carried out,
SeekSeen ==
    /\ pc = "locked" /\ ~SeekHolds /\ fSeek
    /\ Jump(IF status = "PLAY" THEN "arm" ELSE "rewind")

Arm ==
    /\ pc = "arm"
    /\ fPlay' = TRUE
    /\ pc' = "rewind"
    /\ UNCHANGED <<kind, hdr, eos, fStop, fSeek, status, ui, crossed, ovars>>

\* Mutant: the output is not reset again.
RewindOnly ==
    /\ pc = "rewind"
    /\ fSeek' = FALSE
    /\ hdr' = NoHdr
    /\ pc' = "top"
    /\ UNCHANGED <<kind, eos, fStop, fPlay, status, ui, crossed, ovars>>

\* Mutant: the header is kept.
RewindKeepingHeader ==
    /\ pc = "rewind"
    /\ ResetOutput
    /\ fSeek' = FALSE
    /\ pc' = "top"
    /\ UNCHANGED <<kind, hdr, eos, fStop, fPlay, status, ui, crossed, double,
                   open, devLock, wave, data>>

Rewind ==
    /\ pc = "rewind"
    /\ ResetOutput
    /\ fSeek' = FALSE
    /\ hdr' = NoHdr
    /\ pc' = "top"
    /\ UNCHANGED <<kind, eos, fStop, fPlay, status, ui, crossed, double, open,
                   devLock, wave, data>>

\* or something is read and, but for MPEG audio, decoded,
Read ==
    /\ pc = "locked" /\ ~SeekHolds /\ ~fSeek
    /\ data' = IF kind = "mpg" THEN data ELSE [data EXCEPT ![hdr] = "fresh"]
    /\ Goto(IF kind = "mpg" THEN "render"
            ELSE IF kind = "ov" THEN "top" ELSE "write")
    /\ UNCHANGED <<double, open, ring, paused, devLock, wave>>

\* or it fails.
ReadFails ==
    /\ pc = "locked" /\ ~SeekHolds /\ ~fSeek
    /\ Jump("closeAll")

\* The end of the file: seen by reading, after the last header, or because only
\* silence was left, which an option drops.
FileEnds ==
    /\ \/ /\ pc = "locked" /\ ~SeekHolds /\ ~fSeek
          /\ eos' = 1
       \/ /\ pc = "next" /\ kind # "mpg" /\ eos = 0
          /\ eos' = 1
       \/ /\ pc = "decode"
          /\ eos' = 3
    /\ hdr' = IF pc = "next" THEN NoHdr ELSE hdr
    /\ pc' = "flush"
    /\ UNCHANGED <<kind, flags, status, ui, crossed, ovars>>

\* MpgRender
Render ==
    /\ pc = "render"
    /\ \/ fStop /\ Jump("top")
       \/ ~fStop /\ hdr # NoHdr /\ Jump("decode")
       \/ ~fStop /\ MayBeFull /\ Jump("write")
       \/ ~fStop /\ NeedsHeader /\ Jump("get")

Decode ==
    /\ pc = "decode"
    /\ data' = [data EXCEPT ![hdr] = "fresh"]
    /\ Goto("render")
    /\ UNCHANGED <<double, open, ring, paused, devLock, wave>>

NeedsInput == pc = "decode" /\ Jump("top")

Loop ==
    \/ Top \/ GetBuffer \/ SeekSeen \/ Arm \/ Rewind \/ Read \/ ReadFails
    \/ FileEnds \/ Render \/ Decode \/ NeedsInput

-----------------------------------------------------------------------------
(***************************************************************************)
(* CPlayer::OutputBuffer.                                                  *)
(***************************************************************************)
Write ==
    /\ pc = "write"
    /\ \/ /\ OutputWrites(hdr)
          /\ pc' = "count"
       \/ /\ OutputNothing      \* silence, which an option drops, or no data
          /\ pc' = "next"
          /\ UNCHANGED <<double, open, paused, devLock, wave, data>>
    /\ UNCHANGED <<kind, hdr, eos, flags, status, ui, crossed>>

Count ==
    /\ pc = "count"
    /\ OutputCounts
    /\ Goto("test")

\* Is the device to be started?
Test ==
    /\ pc = "test"
    /\ \/ fPlay /\ status = "PLAY" /\ Jump("start")
       \/ ~(fPlay /\ status = "PLAY" /\ written = CBuf) /\ Jump("next")

Start ==
    /\ pc \in {"start", "startFlush"}
    /\ PauseOutput(FALSE)
    /\ fPlay' = FALSE
    /\ crossed' = (crossed \/ status # "PLAY")
    /\ pc' = IF pc = "start" THEN "next" ELSE "sleep"
    /\ UNCHANGED <<kind, hdr, eos, fStop, fSeek, status, ui, double, open,
                   ring, devLock, wave, data>>

\* OutputBuffer returns, and m_pOutHdr is cleared.
Written ==
    /\ pc = "next"
    /\ hdr' = NoHdr
    /\ pc' = IF eos > 0 THEN "drain" ELSE IF kind = "wav" THEN "top" ELSE "get"
    /\ UNCHANGED <<kind, eos, flags, status, ui, crossed, ovars>>

Putting == Write \/ Count \/ Test \/ Start \/ Written

-----------------------------------------------------------------------------
(***************************************************************************)
(* UnpreparePlayback.                                                      *)
(***************************************************************************)
Flush ==
    /\ pc = "flush"
    /\ Jump(IF hdr # NoHdr THEN "write" ELSE "drain")

\* IsFlushed, m_fPlay
Drain ==
    /\ pc = "drain" /\ devLock = "free"
    /\ Jump(IF samples <= 0 THEN "close"
            ELSE IF fPlay /\ status = "PLAY" THEN "startFlush" ELSE "sleep")

\* Sleep, m_fSeek, m_fStop
Sleep ==
    /\ pc = "sleep"
    /\ IF fSeek THEN pc' = "top" /\ eos' = 0
       ELSE pc' = (IF fStop THEN "close" ELSE "drain") /\ UNCHANGED eos
    /\ UNCHANGED <<kind, hdr, flags, status, ui, crossed, ovars>>

\* COutput::Close, which keeps a device with double buffering; after an error
\* CloseAll, which waits for WaveOutThread
Close ==
    /\ pc = "close" /\ devLock = "free"
    /\ EmptyRing /\ paused' = TRUE
    /\ open' = (open /\ double)
    /\ data' = IF double THEN data ELSE NoData
    /\ Goto("clear")
    /\ UNCHANGED <<double, devLock, wave>>

CloseAll ==
    /\ pc = "closeAll" /\ devLock = "free" /\ wave = "wait"
    /\ EmptyRing /\ paused' = TRUE
    /\ open' = FALSE
    /\ data' = NoData
    /\ Goto("clear")
    /\ UNCHANGED <<double, devLock, wave>>

\* The flags; then WavStop and OvStop seek to the beginning.
Clear ==
    /\ pc = "clear"
    /\ hdr' = NoHdr
    /\ fPlay' = FALSE /\ fStop' = FALSE /\ fSeek' = FALSE
    /\ pc' = "rewound"
    /\ UNCHANGED <<kind, eos, status, ui, crossed, ovars>>

Rewound ==
    /\ pc = "rewound"
    /\ \/ kind # "ov" /\ UNCHANGED <<fSeek, ring, paused>>
       \/ kind # "mpg" /\ fSeek' = TRUE /\ ResetOutput
    /\ pc' = "say"
    /\ UNCHANGED <<kind, hdr, eos, fStop, fPlay, status, ui, crossed, double,
                   open, devLock, wave, data>>

\* UpdateStatus, the last of it.  MpgPlayerThread has called it itself, and
\* FilePlayerThread calls it once more.
SayStop ==
    /\ pc = "say"
    /\ status' = "STOP"
    /\ IF kind = "mpg" /\ eos = 1 THEN pc' = "flush" /\ eos' = 2
       ELSE pc' = "ended" /\ eos' = 0
    /\ UNCHANGED <<kind, hdr, flags, ui, crossed, ovars>>

Closing ==
    \/ Flush \/ Drain \/ Sleep \/ Close \/ CloseAll \/ Clear \/ Rewound
    \/ SayStop

PlayerThread == Opening \/ Loop \/ Putting \/ Closing

-----------------------------------------------------------------------------
(***************************************************************************)
(* The user's thread.                                                      *)
(***************************************************************************)
UiGoto(place) ==
    /\ ui' = place
    /\ UNCHANGED <<kind, pc, hdr, eos, flags, status, crossed>>

Play ==
    /\ InterfaceFree /\ status = "STOP" /\ pc \in {"none", "ended"}
    /\ pc' = "begin"
    /\ UNCHANGED <<kind, hdr, eos, flags, status, ui, crossed, ovars>>

\* Pause, which Play calls too when the status is PAUSE
BeginPause ==
    /\ InterfaceFree
    /\ \/ status = "PLAY" /\ UiGoto("pause")
       \/ status = "PAUSE" /\ written = CBuf /\ UiGoto("restart")
       \/ status = "PAUSE" /\ written # CBuf /\ UiGoto("replay")
    /\ UNCHANGED ovars

SayPause ==
    /\ ui = "pause"
    /\ crossed' = (crossed \/ status # "PLAY")
    /\ status' = "PAUSE"
    /\ ui' = "pausing"
    /\ UNCHANGED <<kind, pc, hdr, eos, flags, ovars>>

PauseDevice ==
    /\ ui = "pausing"
    /\ PauseOutput(TRUE)
    /\ UiGoto("unplay")
    /\ UNCHANGED <<double, open, ring, devLock, wave, data>>

PauseEnds ==
    /\ ui = "unplay"
    /\ fPlay' = FALSE
    /\ ui' = "idle"
    /\ UNCHANGED <<kind, pc, hdr, eos, fStop, fSeek, status, crossed, ovars>>

Restart ==
    /\ ui = "restart"
    /\ PauseOutput(FALSE)
    /\ UiGoto("sayPlay")
    /\ UNCHANGED <<double, open, ring, devLock, wave, data>>

Replay ==
    /\ ui = "replay"
    /\ fPlay' = TRUE
    /\ ui' = "sayPlay"
    /\ UNCHANGED <<kind, pc, hdr, eos, fStop, fSeek, status, crossed, ovars>>

SayPlay ==
    /\ ui = "sayPlay"
    /\ crossed' = (crossed \/ status # "PAUSE")
    /\ status' = "PLAY"
    /\ ui' = "idle"
    /\ UNCHANGED <<kind, pc, hdr, eos, flags, ovars>>

\* Seek, with both locks: m_fSeek, then Reset.  A loop may hold a header with
\* data from before.
SeekFile ==
    /\ fSeek' = TRUE
    /\ data' = [s \in Slots |-> IF data[s] = "fresh" THEN "old" ELSE data[s]]
    /\ UNCHANGED <<kind, pc, hdr, eos, fStop, fPlay, status, crossed, double,
                   open, ring, paused, devLock, wave>>

Seek ==
    /\ InterfaceFree /\ ThreadFree
    /\ SeekFile
    /\ ui' = "reset"

SeekResets ==
    /\ ui = "reset"
    /\ IF open THEN BeginReset("ui") /\ UiGoto("resetting")
               ELSE UiGoto("idle") /\ UNCHANGED ovars

SeekEnds ==
    /\ ui = "resetting"
    /\ EndReset
    /\ UiGoto("idle")

\* Stop: m_fStop, Reset, and the thread is waited for,
Stop ==
    /\ InterfaceFree
    /\ IF pc = "none" THEN ui' = "clear" /\ UNCHANGED fStop
                      ELSE ui' = "stop" /\ fStop' = TRUE
    /\ UNCHANGED <<kind, pc, hdr, eos, fSeek, fPlay, status, crossed, ovars>>


StopResets ==
    /\ ui = "stop"
    /\ IF open THEN BeginReset("ui") /\ UiGoto("stopping")
               ELSE UiGoto("wait") /\ UNCHANGED ovars

StopHasReset ==
    /\ ui = "stopping"
    /\ EndReset
    /\ UiGoto("wait")

Stopped ==
    /\ ui = "wait" /\ pc = "ended"
    /\ pc' = "none"
    /\ ui' = "clear"
    /\ UNCHANGED <<kind, hdr, eos, flags, status, crossed, ovars>>

\* the flags are cleared, and Seek (0) called.
StopClears ==
    /\ ui = "clear"
    /\ fPlay' = FALSE /\ fStop' = FALSE /\ fSeek' = FALSE
    /\ ui' = "seek"
    /\ UNCHANGED <<kind, pc, hdr, eos, status, crossed, ovars>>

StopSeeks ==
    /\ ui = "seek"
    /\ \/ SeekFile /\ ui' = "reset"
       \/ UiGoto("idle") /\ UNCHANGED ovars

UserCall ==
    \/ SayPause \/ PauseDevice \/ PauseEnds \/ Restart \/ Replay \/ SayPlay
    \/ SeekResets \/ SeekEnds \/ StopResets \/ StopHasReset \/ Stopped
    \/ StopClears \/ StopSeeks

User == Play \/ BeginPause \/ Seek \/ Stop

-----------------------------------------------------------------------------
Next ==
    \/ PlayerThread
    \/ User \/ UserCall
    \/ Device /\ UNCHANGED pvars

Spec == Init /\ [][Next]_vars

\* Every thread runs, a call of the user's comes to its end, the device plays.
\* A file ends, and a decoder has read enough some day.  WaveOutThread sees
\* WM_QUIT when the device does not return a buffer at that very moment.
\* Nothing makes the user call.
Fairness ==
    /\ WF_vars(PlayerThread)
    /\ SF_vars(FileEnds) /\ SF_vars(NeedsInput) /\ SF_vars(CloseAll)
    /\ WF_vars(UserCall)
    /\ WF_vars(Device /\ UNCHANGED pvars)

FairSpec == Spec /\ Fairness

-----------------------------------------------------------------------------
(***************************************************************************)
(* Properties.                                                             *)
(***************************************************************************)
TypeOK ==
    /\ {double, open, event, paused, fStop, fSeek, fPlay, crossed}
          \subseteq BOOLEAN
    /\ written \in -1..(CBuf + 1) /\ current \in Slots /\ writeCur \in Slots
    /\ samples \in -1..(CBuf + 1)
    /\ device \in Seq(Slots) /\ Len(device) <= CBuf
    /\ devLock \in {"free", "player", "ui"} /\ wave \in {"wait", "fill"}
    /\ data \in [Slots -> Ages]
    /\ kind \in Kinds /\ hdr \in Slots \cup {NoHdr} /\ eos \in 0..3
    /\ pc \in {"none", "begin", "prepare", "interface", "reopen", "prepared",
               "top", "get", "locked", "arm", "rewind", "render", "decode",
               "write", "count", "test", "start", "next", "flush", "drain",
               "startFlush", "sleep", "close", "closeAll", "clear", "rewound",
               "say", "ended"}
    /\ status \in {"STOP", "WAIT", "PLAY", "PAUSE"}
    /\ ui \in {"idle", "pause", "pausing", "unplay", "restart", "replay",
               "sayPlay", "reset", "resetting", "stop", "stopping", "wait",
               "clear", "seek"}

Resetting == ui \in {"resetting", "stopping"}

\* The thread is in its loop, nobody is in a section that changes the ring,
\* and no seek or stop is under way.
Steady ==
    /\ open /\ pc \notin {"count", "reopen"}
    /\ ~fSeek /\ ~fStop /\ ~Resetting

\* The event says whether there is room in the ring (output.cpp:167-170,
\* 184-187, 631-633): GetBuffer neither gives out a header that is still to be
\* played nor waits for one that is free.
EventTrue == Steady => event = (written < CBuf)

\* The count, the places in the ring and what the device has agree, and the
\* header that the thread holds is the next one, although Reset, of another
\* thread, does not wait for the thread to give it back (output.cpp:173-204,
\* 263-292): OutputBuffer takes it for granted.
RingTrue ==
    Steady =>
        /\ hdr \in {NoHdr, current} \/ pc \in {"test", "start", "next"}
        /\ double => Plus(writeCur, written) = current
        /\ ~double =>
              /\ Len(device) = written
              /\ \A i \in DOMAIN device :
                    device[i] = Plus(current, CBuf - written + i - 1)

\* Once a seek has been carried out, nothing that was decoded before it will
\* be heard (PlayerWav.cpp:286-300, output.cpp:263).
FreshOnly ==
    Steady => \A s \in InRing \cup ({hdr} \ {NoHdr}) : data[s] # "old"

\* When the thread has ended the status is STOP, and while the status is PAUSE
\* the device does not run (player.cpp:148-169, 563-574, 654-667), unless the
\* status changed between a test of it and what was done then.
StatusTrue ==
    ui = "idle" /\ ~crossed =>
        /\ pc \in {"none", "ended"} => status = "STOP"
        /\ status = "PAUSE" /\ open => paused

\* The thread waits for m_csecInterface, that Stop holds (player.cpp:482, 179).
Deadlocked == pc = "interface" /\ ui = "wait"

\* The thread waits for a header that is there: Reset came between the count
\* and the event of OutputBuffer (output.cpp:184, 272).
RoomMissed == double /\ pc = "get" /\ ~event /\ written < CBuf

\* The ring has become full between the test of Pause and the status
\* (player.cpp:163-167, 654): nothing starts the device any more.
StuckPaused == pc = "get" /\ paused /\ fPlay /\ written = CBuf

\* COutput::Open waits for WaveOutThread, which waits for m_csecDevice
\* (output.cpp:79, 86, 603).
OpenDeadlocked == pc = "reopen" /\ wave = "fill"


\* A file that is played and from some time on left alone ends
\* (player.cpp:722-757), unless it is paused, the status changed between a test of it
\* and what was done then, or the threads are in one of these places.
PlaybackEnds ==
    []<>(\/ pc \in {"none", "ended"} \/ status = "PAUSE" \/ ui # "idle"
         \/ crossed \/ RoomMissed \/ StuckPaused \/ OpenDeadlocked)

=============================================================================
