---------------------------- MODULE PlayerProofs ----------------------------
(***************************************************************************)
(* Proofs about Player, for every size of the ring.                        *)
(***************************************************************************)
EXTENDS Player, SequenceTheorems, TLAPS

-----------------------------------------------------------------------------
(***************************************************************************)
(* The inductive invariant.                                                *)
(***************************************************************************)
LoopPlaces ==
    {"top", "get", "locked", "arm", "rewind", "render", "decode", "write",
     "count", "test", "start", "next", "flush", "drain", "startFlush",
     "sleep", "close", "closeAll"}
OpeningPlaces == {"prepare", "interface", "reopen", "prepared"}

\* The thread may hold a header or change the ring.  When MPEG audio is closed
\* for the second time it does neither.
Working == pc \in LoopPlaces /\ eos # 2

\* The ring may be in disorder.
Disturbed == fSeek \/ fStop

Types ==
    /\ double \in BOOLEAN /\ open \in BOOLEAN /\ event \in BOOLEAN
    /\ paused \in BOOLEAN
    /\ fStop \in BOOLEAN /\ fSeek \in BOOLEAN /\ fPlay \in BOOLEAN
    /\ crossed \in BOOLEAN
    /\ written \in Int /\ samples \in Int
    /\ current \in Slots /\ writeCur \in Slots
    /\ device \in Seq(Slots)
    /\ data \in [Slots -> Ages]
    /\ hdr \in Slots \cup {NoHdr}
    /\ eos \in 0..3

Empty ==
    /\ event = TRUE /\ written = 0 /\ current = 0 /\ writeCur = 0
    /\ device = <<>> /\ samples = 0

\* Where the thread stands, and what it then has
PlaceInv ==
    /\ pc \in {"none", "begin", "top", "get", "locked", "arm", "rewind",
              "render", "decode", "ended"} \cup OpeningPlaces => eos = 0
    /\ pc \in LoopPlaces /\ eos = 2 => pc \in {"flush", "drain", "close"}
    /\ pc = "write" => hdr # NoHdr
    /\ pc = "locked" /\ kind # "mpg" => hdr # NoHdr
    /\ Working /\ pc # "closeAll" => open
    /\ pc = "prepared" => open
    /\ pc \in {"drain", "startFlush", "sleep"} => hdr = NoHdr
    /\ pc = "close" /\ hdr # NoHdr => fStop
    /\ pc = "clear" /\ hdr # NoHdr => fStop \/ ~open

\* Outside its work the ring is empty.
IdleInv == ~Working => Empty /\ (hdr = NoHdr \/ pc = "clear")

\* Who holds m_csecDevice
LockInv ==
    /\ devLock = "ui" <=> Resetting
    /\ devLock = "player" <=> pc = "reopen" \/ (pc = "count" /\ ~double)
    /\ wave = "fill" => double

\* While the user's thread resets the ring, a flag says so to the thread.
FlagInv ==
    /\ fStop => ui \in {"stop", "stopping", "wait", "clear"}
    /\ (Working \/ pc \in OpeningPlaces \cup {"begin"}) =>
          /\ ui \in {"reset", "resetting"} => fSeek
          /\ ui \in {"stop", "stopping", "wait"} => fStop
    /\ ui \in {"reset", "resetting"} => pc \notin {"arm", "rewind"}
    /\ ui \in {"clear", "seek"} => pc = "none"
    /\ pc = "reopen" => ui = "idle"

\* The next header, once the one that is being output is counted
Front == IF pc = "count" THEN After(current) ELSE current

Done == pc \in {"test", "start", "next"}

RingInv ==
    /\ hdr \in {NoHdr, current} \/ Done
    /\ pc = "count" => hdr = current
    /\ hdr # NoHdr /\ ~Done => event
    /\ pc # "count" => event = (written < CBuf)
    /\ double => written \in 0..CBuf /\ Plus(writeCur, written) = Front
    /\ ~double =>
          /\ Len(device) = written + (IF pc = "count" THEN 1 ELSE 0)
          /\ Len(device) <= CBuf
          /\ \A i \in DOMAIN device :
                device[i] = Plus(Front, CBuf - Len(device) + i - 1)

DataInv == \A s \in InRing \cup ({hdr} \ {NoHdr}) : data[s] # "old"

WorkInv == Working /\ ~Disturbed => RingInv /\ DataInv

StatusInv ==
    ~crossed =>
        /\ pc \in {"none", "ended"} => status = "STOP"
        /\ status = "PAUSE" /\ open /\ ui \notin {"pausing", "sayPlay"}
              => paused

IInv ==
    /\ Types /\ PlaceInv /\ IdleInv /\ LockInv /\ FlagInv /\ WorkInv
    /\ StatusInv

-----------------------------------------------------------------------------
(***************************************************************************)
(* A step keeps each part of the invariant.                                *)
(***************************************************************************)
\* Every variable keeps its type.
LEMMA TypesStep == IInv /\ [Next]_vars => Types'
<1> SUFFICES ASSUME IInv, [Next]_vars PROVE Types'
  OBVIOUS
<1> USE CBufAssumption
   DEF IInv, Types, PlaceInv, IdleInv, Empty, Working, LoopPlaces,
       OpeningPlaces, Slots, Ages, NoData, NoHdr, Jump, Goto, vars, ovars,
       ring, pvars, flags
<1>1. CASE Opening
  <2>1. CASE Begin
    BY <1>1, <2>1 DEF Begin
  <2>2. CASE Prepare
    BY <1>1, <2>2 DEF Prepare
  <2>3. CASE Reuse
    BY <1>1, <2>3 DEF Reuse, Prepared, InterfaceFree
  <2>4. CASE OpenNew
    BY <1>1, <2>4, EmptySeq
       DEF OpenNew, OpenDevice, Prepared, EmptyRing, InterfaceFree
  <2>5. CASE Reopen
    BY <1>1, <2>5 DEF Reopen, InterfaceFree
  <2>6. CASE Reopened
    BY <1>1, <2>6, EmptySeq DEF Reopened, OpenDevice, Prepared, EmptyRing
  <2>7. CASE Playing
    BY <1>1, <2>7 DEF Playing
  <2> QED BY <1>1, <2>1, <2>2, <2>3, <2>4, <2>5, <2>6, <2>7 DEF Opening
<1>2. CASE Loop
  <2>1. CASE Top
    BY <1>2, <2>1 DEF Top, NeedsHeader, MayBeFull
  <2>2. CASE GetBuffer
    BY <1>2, <2>2 DEF GetBuffer, GetHeader
  <2>3. CASE SeekSeen
    BY <1>2, <2>3 DEF SeekSeen, SeekHolds
  <2>4. CASE Arm
    BY <1>2, <2>4 DEF Arm
  <2>5. CASE Rewind
    BY <1>2, <2>5, EmptySeq DEF Rewind, ResetOutput, EmptyRing
  <2>6. CASE Read
    BY <1>2, <2>6 DEF Read, SeekHolds
  <2>7. CASE ReadFails
    BY <1>2, <2>7 DEF ReadFails, SeekHolds
  <2>8. CASE FileEnds
    BY <1>2, <2>8 DEF FileEnds, SeekHolds
  <2>9. CASE Render
    BY <1>2, <2>9 DEF Render, NeedsHeader, MayBeFull
  <2>10. CASE Decode
    BY <1>2, <2>10 DEF Decode
  <2>11. CASE NeedsInput
    BY <1>2, <2>11 DEF NeedsInput
  <2> QED BY <1>2, <2>1, <2>2, <2>3, <2>4, <2>5, <2>6, <2>7, <2>8, <2>9, <2>10,
     <2>11
     DEF Loop
<1>3. CASE Putting
  <2>1. CASE Write
    <3>1. CASE pc' = "count"
      <4>1. hdr \in Slots
        BY <2>1 DEF Write
      <4>2. CASE double
        <5>1. written' \in Int /\ UNCHANGED device
          BY <2>1, <3>1, <4>2 DEF Write, OutputWrites
        <5> QED BY <1>3, <2>1, <3>1, <5>1 DEF Write, OutputWrites
      <4>3. CASE ~double
        <5>1. device' = Append(device, hdr) /\ UNCHANGED written
          BY <2>1, <3>1, <4>3 DEF Write, OutputWrites
        <5>2. device' \in Seq(Slots)
          BY <4>1, <5>1, AppendProperties
        <5> QED BY <1>3, <2>1, <3>1, <5>1, <5>2 DEF Write, OutputWrites
      <4> QED BY <4>2, <4>3
    <3>2. CASE pc' = "next"
      BY <1>3, <2>1, <3>2 DEF Write, OutputWrites, OutputNothing
    <3> QED BY <2>1, <3>1, <3>2 DEF Write
  <2>2. CASE Count
    BY <1>3, <2>2 DEF Count, OutputCounts, Plus, After
  <2>3. CASE Test
    BY <1>3, <2>3 DEF Test
  <2>4. CASE Start
    BY <1>3, <2>4 DEF Start, PauseOutput
  <2>5. CASE Written
    BY <1>3, <2>5 DEF Written
  <2> QED BY <1>3, <2>1, <2>2, <2>3, <2>4, <2>5 DEF Putting
<1>4. CASE Closing
  <2>1. CASE Flush
    BY <1>4, <2>1 DEF Flush
  <2>2. CASE Drain
    BY <1>4, <2>2 DEF Drain
  <2>3. CASE Sleep
    BY <1>4, <2>3 DEF Sleep
  <2>4. CASE Close
    BY <1>4, <2>4, EmptySeq DEF Close, EmptyRing
  <2>5. CASE CloseAll
    BY <1>4, <2>5, EmptySeq DEF CloseAll, EmptyRing
  <2>6. CASE Clear
    BY <1>4, <2>6 DEF Clear
  <2>7. CASE Rewound
    BY <1>4, <2>7, EmptySeq DEF Rewound, ResetOutput, EmptyRing
  <2>8. CASE SayStop
    BY <1>4, <2>8 DEF SayStop
  <2> QED BY <1>4, <2>1, <2>2, <2>3, <2>4, <2>5, <2>6, <2>7, <2>8 DEF Closing
<1>5. CASE UserCall
  <2>1. CASE SayPause
    BY <1>5, <2>1 DEF SayPause
  <2>2. CASE PauseDevice
    BY <1>5, <2>2 DEF PauseDevice, PauseOutput, UiGoto
  <2>3. CASE PauseEnds
    BY <1>5, <2>3 DEF PauseEnds
  <2>4. CASE Restart
    BY <1>5, <2>4 DEF Restart, PauseOutput, UiGoto
  <2>5. CASE Replay
    BY <1>5, <2>5 DEF Replay
  <2>6. CASE SayPlay
    BY <1>5, <2>6 DEF SayPlay
  <2>7. CASE SeekResets
    <3>1. CASE open
      <4>1. Len(device) \in Nat
        BY LenProperties
      <4>2. written' \in Int
        BY <4>1, <1>5, <2>7, <3>1 DEF SeekResets, BeginReset
      <4>3. device' \in Seq(Slots)
        BY <1>5, <2>7, <3>1, EmptySeq DEF SeekResets, BeginReset
      <4> QED BY <1>5, <2>7, <3>1, <4>2, <4>3 DEF SeekResets, BeginReset, UiGoto
    <3>2. CASE ~open
      BY <1>5, <2>7, <3>2 DEF SeekResets, UiGoto
    <3> QED BY <3>1, <3>2
  <2>8. CASE SeekEnds
    BY <1>5, <2>8 DEF SeekEnds, EndReset, UiGoto
  <2>9. CASE StopResets
    <3>1. CASE open
      <4>1. Len(device) \in Nat
        BY LenProperties
      <4>2. written' \in Int
        BY <4>1, <1>5, <2>9, <3>1 DEF StopResets, BeginReset
      <4>3. device' \in Seq(Slots)
        BY <1>5, <2>9, <3>1, EmptySeq DEF StopResets, BeginReset
      <4> QED BY <1>5, <2>9, <3>1, <4>2, <4>3 DEF StopResets, BeginReset, UiGoto
    <3>2. CASE ~open
      BY <1>5, <2>9, <3>2 DEF StopResets, UiGoto
    <3> QED BY <3>1, <3>2
  <2>10. CASE StopHasReset
    BY <1>5, <2>10 DEF StopHasReset, EndReset, UiGoto
  <2>11. CASE Stopped
    BY <1>5, <2>11 DEF Stopped
  <2>12. CASE StopClears
    BY <1>5, <2>12 DEF StopClears
  <2>13. CASE StopSeeks
    BY <1>5, <2>13 DEF StopSeeks, SeekFile, UiGoto
  <2> QED BY <1>5, <2>1, <2>2, <2>3, <2>4, <2>5, <2>6, <2>7, <2>8, <2>9, <2>10,
     <2>11, <2>12, <2>13
     DEF UserCall
<1>6. CASE User
  BY <1>6
     DEF User, Play, BeginPause, Seek, Stop, SeekFile, UiGoto, InterfaceFree,
         ThreadFree
<1>7. CASE Device /\ UNCHANGED pvars
  <2>1. CASE HeaderPlayed
    <3>1. /\ device \in Seq(Slots) /\ device # <<>>
          /\ device' = Tail(device)
          /\ written' = written - 1 /\ samples' = samples - 1
      BY <1>7, <2>1 DEF HeaderPlayed
    <3>2. device' \in Seq(Slots)
      BY <3>1, HeadTailProperties
    <3> QED BY <1>7, <2>1, <3>1, <3>2 DEF HeaderPlayed
  <2>2. CASE WaveWakes
    BY <1>7, <2>2 DEF WaveWakes
  <2>3. CASE WaveFills
    BY <1>7, <2>3 DEF WaveFills, Plus, After
  <2> QED BY <1>7, <2>1, <2>2, <2>3 DEF Device
<1>8. CASE UNCHANGED vars
  BY <1>8
<1> QED
  BY <1>1, <1>2, <1>3, <1>4, <1>5, <1>6, <1>7, <1>8 DEF Next, PlayerThread

\* What the thread has at each of its places.
LEMMA PlaceInvStep == IInv /\ [Next]_vars => PlaceInv'
<1> SUFFICES ASSUME IInv, [Next]_vars PROVE PlaceInv'
  OBVIOUS
<1> USE CBufAssumption
   DEF IInv, Types, PlaceInv, IdleInv, FlagInv, Empty, Working, LoopPlaces,
       OpeningPlaces, Slots, NoHdr, Jump, Goto, vars, ovars, ring, pvars,
       flags
<1>1. CASE Opening
  BY <1>1
     DEF Opening, Begin, Prepare, Prepared, Reuse, OpenNew, Reopen, Reopened,
         Playing, OpenDevice, EmptyRing, InterfaceFree
<1>2. CASE Loop
  BY <1>2
     DEF Loop, Top, GetBuffer, SeekSeen, Arm, Rewind, Read, ReadFails,
         FileEnds, Render, Decode, NeedsInput, GetHeader, ResetOutput,
         EmptyRing, NeedsHeader, MayBeFull, SeekHolds
<1>3. CASE Putting
  <2>1. CASE Write
    <3>1. CASE pc' = "count"
      <4>1. hdr \in Slots
        BY <2>1 DEF Write
      <4>2. CASE double
        <5>1. written' \in Int /\ UNCHANGED device
          BY <2>1, <3>1, <4>2 DEF Write, OutputWrites
        <5> QED BY <1>3, <2>1, <3>1, <5>1 DEF Write, OutputWrites
      <4>3. CASE ~double
        <5>1. device' = Append(device, hdr) /\ UNCHANGED written
          BY <2>1, <3>1, <4>3 DEF Write, OutputWrites
        <5>2. device' \in Seq(Slots)
          BY <4>1, <5>1, AppendProperties
        <5> QED BY <1>3, <2>1, <3>1, <5>1, <5>2 DEF Write, OutputWrites
      <4> QED BY <4>2, <4>3
    <3>2. CASE pc' = "next"
      BY <1>3, <2>1, <3>2 DEF Write, OutputWrites, OutputNothing
    <3> QED BY <2>1, <3>1, <3>2 DEF Write
  <2>2. CASE Count
    BY <1>3, <2>2 DEF Count, OutputCounts, Plus, After
  <2>3. CASE Test
    BY <1>3, <2>3 DEF Test
  <2>4. CASE Start
    BY <1>3, <2>4 DEF Start, PauseOutput
  <2>5. CASE Written
    BY <1>3, <2>5 DEF Written
  <2> QED BY <1>3, <2>1, <2>2, <2>3, <2>4, <2>5 DEF Putting
<1>4. CASE Closing
  <2>1. CASE Flush
    BY <1>4, <2>1 DEF Flush
  <2>2. CASE Drain
    BY <1>4, <2>2 DEF Drain
  <2>3. CASE Sleep
    BY <1>4, <2>3 DEF Sleep
  <2>4. CASE Close
    BY <1>4, <2>4, EmptySeq DEF Close, EmptyRing
  <2>5. CASE CloseAll
    BY <1>4, <2>5, EmptySeq DEF CloseAll, EmptyRing
  <2>6. CASE Clear
    BY <1>4, <2>6 DEF Clear
  <2>7. CASE Rewound
    BY <1>4, <2>7, EmptySeq DEF Rewound, ResetOutput, EmptyRing
  <2>8. CASE SayStop
    BY <1>4, <2>8 DEF SayStop
  <2> QED BY <1>4, <2>1, <2>2, <2>3, <2>4, <2>5, <2>6, <2>7, <2>8 DEF Closing
<1>5. CASE UserCall
  <2>1. CASE SayPause
    BY <1>5, <2>1 DEF SayPause
  <2>2. CASE PauseDevice
    BY <1>5, <2>2 DEF PauseDevice, PauseOutput, UiGoto
  <2>3. CASE PauseEnds
    BY <1>5, <2>3 DEF PauseEnds
  <2>4. CASE Restart
    BY <1>5, <2>4 DEF Restart, PauseOutput, UiGoto
  <2>5. CASE Replay
    BY <1>5, <2>5 DEF Replay
  <2>6. CASE SayPlay
    BY <1>5, <2>6 DEF SayPlay
  <2>7. CASE SeekResets
    BY <1>5, <2>7 DEF SeekResets, BeginReset, UiGoto
  <2>8. CASE SeekEnds
    BY <1>5, <2>8 DEF SeekEnds, EndReset, UiGoto
  <2>9. CASE StopResets
    BY <1>5, <2>9 DEF StopResets, BeginReset, UiGoto
  <2>10. CASE StopHasReset
    BY <1>5, <2>10 DEF StopHasReset, EndReset, UiGoto
  <2>11. CASE Stopped
    BY <1>5, <2>11 DEF Stopped
  <2>12. CASE StopClears
    BY <1>5, <2>12 DEF StopClears
  <2>13. CASE StopSeeks
    BY <1>5, <2>13 DEF StopSeeks, SeekFile, UiGoto
  <2> QED BY <1>5, <2>1, <2>2, <2>3, <2>4, <2>5, <2>6, <2>7,
     <2>8, <2>9, <2>10, <2>11, <2>12, <2>13 DEF UserCall
<1>6. CASE User
  BY <1>6
     DEF User, Play, BeginPause, Seek, Stop, SeekFile, UiGoto, InterfaceFree,
         ThreadFree
<1>7. CASE Device /\ UNCHANGED pvars
  BY <1>7 DEF Device, HeaderPlayed, WaveWakes, WaveFills, Plus, After
<1>8. CASE UNCHANGED vars
  BY <1>8
<1> QED
  BY <1>1, <1>2, <1>3, <1>4, <1>5, <1>6, <1>7, <1>8 DEF Next, PlayerThread

\* Outside the thread's work the ring stays empty: whoever leaves the work has
\* closed or reset the output.
LEMMA IdleInvStep == IInv /\ [Next]_vars => IdleInv'
<1> SUFFICES ASSUME IInv, [Next]_vars PROVE IdleInv'
  OBVIOUS
<1> USE CBufAssumption
   DEF IInv, Types, PlaceInv, IdleInv, LockInv, Empty, Working, LoopPlaces,
       OpeningPlaces, Slots, NoHdr, Jump, Goto, vars, ovars, ring, pvars,
       flags
<1>1. CASE Opening
  BY <1>1
     DEF Opening, Begin, Prepare, Prepared, Reuse, OpenNew, Reopen, Reopened,
         Playing, OpenDevice, EmptyRing, InterfaceFree
<1>2. CASE Loop
  BY <1>2
     DEF Loop, Top, GetBuffer, SeekSeen, Arm, Rewind, Read, ReadFails,
         FileEnds, Render, Decode, NeedsInput, GetHeader, ResetOutput,
         EmptyRing, NeedsHeader, MayBeFull, SeekHolds
<1>3. CASE Putting
  BY <1>3
     DEF Putting, Write, Count, Test, Start, Written, OutputWrites,
         OutputCounts, OutputNothing, PauseOutput, Plus, After
<1>4. CASE Closing
  BY <1>4
     DEF Closing, Flush, Drain, Sleep, Close, CloseAll, Clear, Rewound,
         SayStop, EmptyRing, ResetOutput
<1>5. CASE UserCall
  <2>1. CASE SayPause
    BY <1>5, <2>1 DEF SayPause
  <2>2. CASE PauseDevice
    BY <1>5, <2>2 DEF PauseDevice, PauseOutput, UiGoto
  <2>3. CASE PauseEnds
    BY <1>5, <2>3 DEF PauseEnds
  <2>4. CASE Restart
    BY <1>5, <2>4 DEF Restart, PauseOutput, UiGoto
  <2>5. CASE Replay
    BY <1>5, <2>5 DEF Replay
  <2>6. CASE SayPlay
    BY <1>5, <2>6 DEF SayPlay
  <2>7. CASE SeekResets
    BY <1>5, <2>7, EmptySeq DEF SeekResets, BeginReset, UiGoto
  <2>8. CASE SeekEnds
    BY <1>5, <2>8 DEF SeekEnds, EndReset, UiGoto
  <2>9. CASE StopResets
    <3>1. CASE open
      BY <1>5, <2>9, <3>1, EmptySeq DEF StopResets, BeginReset, UiGoto
    <3>2. CASE ~open
      BY <1>5, <2>9, <3>2 DEF StopResets, UiGoto
    <3> QED BY <3>1, <3>2
  <2>10. CASE StopHasReset
    BY <1>5, <2>10 DEF StopHasReset, EndReset, UiGoto
  <2>11. CASE Stopped
    BY <1>5, <2>11 DEF Stopped
  <2>12. CASE StopClears
    BY <1>5, <2>12 DEF StopClears
  <2>13. CASE StopSeeks
    BY <1>5, <2>13 DEF StopSeeks, SeekFile, UiGoto
  <2> QED BY <1>5, <2>1, <2>2, <2>3, <2>4, <2>5, <2>6, <2>7, <2>8, <2>9, <2>10,
     <2>11, <2>12, <2>13
     DEF UserCall
<1>6. CASE User
  BY <1>6
     DEF User, Play, BeginPause, Seek, Stop, SeekFile, UiGoto, InterfaceFree,
         ThreadFree
<1>7. CASE Device /\ UNCHANGED pvars
  BY <1>7 DEF Device, HeaderPlayed, WaveWakes, WaveFills, Plus, After
<1>8. CASE UNCHANGED vars
  BY <1>8
<1> QED
  BY <1>1, <1>2, <1>3, <1>4, <1>5, <1>6, <1>7, <1>8 DEF Next, PlayerThread

\* m_csecDevice is held by the one that is in a section of it.
LEMMA LockInvStep == IInv /\ [Next]_vars => LockInv'
<1> SUFFICES ASSUME IInv, [Next]_vars PROVE LockInv'
  OBVIOUS
<1> USE CBufAssumption
   DEF IInv, Types, PlaceInv, IdleInv, LockInv, FlagInv, Empty, Working,
       LoopPlaces, OpeningPlaces, Slots, NoHdr, Jump, Goto, vars, ovars, ring,
       pvars, flags
<1>1. CASE Opening
  BY <1>1
     DEF Opening, Begin, Prepare, Prepared, Reuse, OpenNew, Reopen, Reopened,
         Playing, OpenDevice, EmptyRing, Resetting, InterfaceFree
<1>2. CASE Loop
  BY <1>2
     DEF Loop, Top, GetBuffer, SeekSeen, Arm, Rewind, Read, ReadFails,
         FileEnds, Render, Decode, NeedsInput, GetHeader, ResetOutput,
         EmptyRing, NeedsHeader, MayBeFull, SeekHolds, Resetting
<1>3. CASE Putting
  BY <1>3
     DEF Putting, Write, Count, Test, Start, Written, OutputWrites,
         OutputCounts, OutputNothing, PauseOutput, Resetting, Plus, After
<1>4. CASE Closing
  BY <1>4
     DEF Closing, Flush, Drain, Sleep, Close, CloseAll, Clear, Rewound,
         SayStop, EmptyRing, ResetOutput, Resetting
<1>5. CASE UserCall
  <2>1. CASE SayPause
    BY <1>5, <2>1 DEF SayPause, Resetting
  <2>2. CASE PauseDevice
    BY <1>5, <2>2 DEF PauseDevice, PauseOutput, UiGoto, Resetting
  <2>3. CASE PauseEnds
    BY <1>5, <2>3 DEF PauseEnds, Resetting
  <2>4. CASE Restart
    BY <1>5, <2>4 DEF Restart, PauseOutput, UiGoto, Resetting
  <2>5. CASE Replay
    BY <1>5, <2>5 DEF Replay, Resetting
  <2>6. CASE SayPlay
    BY <1>5, <2>6 DEF SayPlay, Resetting
  <2>7. CASE SeekResets
    BY <1>5, <2>7 DEF SeekResets, BeginReset, UiGoto, Resetting
  <2>8. CASE SeekEnds
    BY <1>5, <2>8 DEF SeekEnds, EndReset, UiGoto, Resetting
  <2>9. CASE StopResets
    BY <1>5, <2>9 DEF StopResets, BeginReset, UiGoto, Resetting
  <2>10. CASE StopHasReset
    BY <1>5, <2>10 DEF StopHasReset, EndReset, UiGoto, Resetting
  <2>11. CASE Stopped
    BY <1>5, <2>11 DEF Stopped, Resetting
  <2>12. CASE StopClears
    BY <1>5, <2>12 DEF StopClears, Resetting
  <2>13. CASE StopSeeks
    BY <1>5, <2>13 DEF StopSeeks, SeekFile, UiGoto, Resetting
  <2> QED BY <1>5, <2>1, <2>2, <2>3, <2>4, <2>5, <2>6, <2>7,
     <2>8, <2>9, <2>10, <2>11, <2>12, <2>13 DEF UserCall
<1>6. CASE User
  BY <1>6
     DEF User, Play, BeginPause, Seek, Stop, SeekFile, UiGoto, InterfaceFree,
         ThreadFree, Resetting
<1>7. CASE Device /\ UNCHANGED pvars
  BY <1>7 DEF Device, HeaderPlayed, WaveWakes, WaveFills, Resetting, Plus, After
<1>8. CASE UNCHANGED vars
  BY <1>8 DEF Resetting
<1> QED
  BY <1>1, <1>2, <1>3, <1>4, <1>5, <1>6, <1>7, <1>8 DEF Next, PlayerThread

\* The flag of a reset by the user's thread stays set until the reset is over.
LEMMA FlagInvStep == IInv /\ [Next]_vars => FlagInv'
<1> SUFFICES ASSUME IInv, [Next]_vars PROVE FlagInv'
  OBVIOUS
<1> USE CBufAssumption
   DEF IInv, Types, PlaceInv, IdleInv, LockInv, FlagInv, Empty, Working,
       LoopPlaces, OpeningPlaces, Slots, NoHdr, Jump, Goto, vars, ovars, ring,
       pvars, flags
<1>1. CASE Opening
  BY <1>1
     DEF Opening, Begin, Prepare, Prepared, Reuse, OpenNew, Reopen, Reopened,
         Playing, OpenDevice, EmptyRing, InterfaceFree
<1>2. CASE Loop
  BY <1>2
     DEF Loop, Top, GetBuffer, SeekSeen, Arm, Rewind, Read, ReadFails,
         FileEnds, Render, Decode, NeedsInput, GetHeader, ResetOutput,
         EmptyRing, NeedsHeader, MayBeFull, SeekHolds
<1>3. CASE Putting
  BY <1>3
     DEF Putting, Write, Count, Test, Start, Written, OutputWrites,
         OutputCounts, OutputNothing, PauseOutput, Plus, After
<1>4. CASE Closing
  BY <1>4
     DEF Closing, Flush, Drain, Sleep, Close, CloseAll, Clear, Rewound,
         SayStop, EmptyRing, ResetOutput
<1>5. CASE UserCall
  <2>1. CASE SayPause
    BY <1>5, <2>1 DEF SayPause
  <2>2. CASE PauseDevice
    BY <1>5, <2>2 DEF PauseDevice, PauseOutput, UiGoto
  <2>3. CASE PauseEnds
    BY <1>5, <2>3 DEF PauseEnds
  <2>4. CASE Restart
    BY <1>5, <2>4 DEF Restart, PauseOutput, UiGoto
  <2>5. CASE Replay
    BY <1>5, <2>5 DEF Replay
  <2>6. CASE SayPlay
    BY <1>5, <2>6 DEF SayPlay
  <2>7. CASE SeekResets
    BY <1>5, <2>7, EmptySeq DEF SeekResets, BeginReset, UiGoto
  <2>8. CASE SeekEnds
    BY <1>5, <2>8 DEF SeekEnds, EndReset, UiGoto
  <2>9. CASE StopResets
    BY <1>5, <2>9, EmptySeq DEF StopResets, BeginReset, UiGoto
  <2>10. CASE StopHasReset
    BY <1>5, <2>10 DEF StopHasReset, EndReset, UiGoto
  <2>11. CASE Stopped
    BY <1>5, <2>11 DEF Stopped
  <2>12. CASE StopClears
    BY <1>5, <2>12 DEF StopClears
  <2>13. CASE StopSeeks
    BY <1>5, <2>13 DEF StopSeeks, SeekFile, UiGoto
  <2> QED BY <1>5, <2>1, <2>2, <2>3, <2>4, <2>5, <2>6, <2>7, <2>8, <2>9, <2>10,
     <2>11, <2>12, <2>13
     DEF UserCall
<1>6. CASE User
  BY <1>6
     DEF User, Play, BeginPause, Seek, Stop, SeekFile, UiGoto, InterfaceFree,
         ThreadFree
<1>7. CASE Device /\ UNCHANGED pvars
  BY <1>7 DEF Device, HeaderPlayed, WaveWakes, WaveFills, Plus, After
<1>8. CASE UNCHANGED vars
  BY <1>8
<1> QED
  BY <1>1, <1>2, <1>3, <1>4, <1>5, <1>6, <1>7, <1>8 DEF Next, PlayerThread

\* What the status says, unless it changed after a test.
LEMMA StatusInvStep == IInv /\ [Next]_vars => StatusInv'
<1> SUFFICES ASSUME IInv, [Next]_vars PROVE StatusInv'
  OBVIOUS
<1> USE CBufAssumption
   DEF IInv, Types, PlaceInv, IdleInv, LockInv, FlagInv, StatusInv, Empty,
       Working, LoopPlaces, OpeningPlaces, Slots, NoHdr, Jump, Goto, vars,
       ovars, ring, pvars, flags
<1>1. CASE Opening
  BY <1>1
     DEF Opening, Begin, Prepare, Prepared, Reuse, OpenNew, Reopen, Reopened,
         Playing, OpenDevice, EmptyRing, InterfaceFree
<1>2. CASE Loop
  BY <1>2
     DEF Loop, Top, GetBuffer, SeekSeen, Arm, Rewind, Read, ReadFails,
         FileEnds, Render, Decode, NeedsInput, GetHeader, ResetOutput,
         EmptyRing, NeedsHeader, MayBeFull, SeekHolds
<1>3. CASE Putting
  BY <1>3
     DEF Putting, Write, Count, Test, Start, Written, OutputWrites,
         OutputCounts, OutputNothing, PauseOutput, Plus, After
<1>4. CASE Closing
  BY <1>4
     DEF Closing, Flush, Drain, Sleep, Close, CloseAll, Clear, Rewound,
         SayStop, EmptyRing, ResetOutput
<1>5. CASE UserCall
  BY <1>5
     DEF UserCall, SayPause, PauseDevice, PauseEnds, Restart, Replay, SayPlay,
         SeekResets, SeekEnds, StopResets, StopHasReset, Stopped, StopClears,
         StopSeeks, PauseOutput, BeginReset, EndReset, SeekFile, UiGoto
<1>6. CASE User
  BY <1>6
     DEF User, Play, BeginPause, Seek, Stop, SeekFile, UiGoto, InterfaceFree,
         ThreadFree
<1>7. CASE Device /\ UNCHANGED pvars
  BY <1>7 DEF Device, HeaderPlayed, WaveWakes, WaveFills, Plus, After
<1>8. CASE UNCHANGED vars
  BY <1>8
<1> QED
  BY <1>1, <1>2, <1>3, <1>4, <1>5, <1>6, <1>7, <1>8 DEF Next, PlayerThread

\* The ring keeps its order, and holds nothing old, while the thread works and
\* no flag is set: a step of the thread moves the header on, the device gives
\* headers back from the other end, and a reset leaves the flag set until the
\* thread has emptied the ring itself.
LEMMA WorkInvStep == IInv /\ [Next]_vars => WorkInv'
<1> SUFFICES ASSUME IInv, [Next]_vars, Working', ~Disturbed'
             PROVE  RingInv' /\ DataInv'
  BY DEF WorkInv
<1> USE CBufAssumption
   DEF IInv, Types, Slots, NoHdr, Working, LoopPlaces, Disturbed, vars, ovars,
       ring, pvars, flags
<1>f. ASSUME Working, ~Disturbed, UNCHANGED <<double, ring, data>>,
             hdr' \in {hdr, NoHdr}, pc # "count", pc' # "count",
             Done => Done' \/ hdr' = NoHdr,
             (hdr # NoHdr /\ ~Done) => ~Done'
      PROVE  RingInv' /\ DataInv'
  BY <1>f DEF WorkInv, RingInv, DataInv, InRing, From, Plus, After, Front, Done
<1>e. ASSUME Empty', hdr' = NoHdr, pc' # "count"
      PROVE  RingInv' /\ DataInv'
  <2>1. /\ current' = 0 /\ written' = 0 /\ writeCur' = 0 /\ event' = TRUE
        /\ device' = <<>> /\ Front' = 0 /\ Len(device') = 0
    BY <1>e, EmptySeq DEF Empty, Front
  <2>2. Plus(0, 0) = 0
    BY DEF Plus
  <2>3. RingInv'
    <3>1. \A i \in DOMAIN device' : FALSE
      BY <2>1
    <3>2. event' = (written' < CBuf) /\ written' \in 0..CBuf
      <4>1. written' < CBuf /\ written' \in 0..CBuf
        BY <2>1, CBufAssumption
      <4> QED BY <2>1, <4>1
    <3>3. hdr' = NoHdr /\ pc' # "count"
      BY <1>e
    <3>4. Len(device') <= CBuf
      BY <2>1, CBufAssumption
    <3> QED BY <2>1, <2>2, <3>1, <3>2, <3>3, <3>4 DEF RingInv
  <2>4. InRing' = {}
    BY <2>1, EmptySeq DEF InRing, From
  <2>5. DataInv'
    BY <1>e, <2>4 DEF DataInv
  <2> QED BY <2>3, <2>5
<1>s. ASSUME UNCHANGED <<double, ring, data, pc, hdr, eos, fSeek, fStop>>
      PROVE  RingInv' /\ DataInv'
  BY <1>s DEF WorkInv, RingInv, DataInv, InRing, From, Plus, After, Front, Done
<1>1. CASE Opening
  BY <1>1, <1>e
     DEF Opening, Begin, Prepare, Prepared, Reuse, OpenNew, Reopen, Reopened,
         Playing, OpenDevice, EmptyRing, Jump, Goto, IdleInv, PlaceInv, Empty,
         OpeningPlaces
<1>2. CASE Top
  BY <1>2, <1>f DEF Top, Jump, Goto, Done, NeedsHeader, MayBeFull
<1>3. CASE GetBuffer
  <2>1. RingInv'
    BY <1>3 DEF GetBuffer, GetHeader, WorkInv, RingInv, Plus, After, Front, Done
  <2>2. DataInv'
    BY <1>3
       DEF GetBuffer, GetHeader, WorkInv, RingInv, DataInv, InRing, From,
           Plus, After, Front, Done
  <2> QED BY <2>1, <2>2
<1>4. CASE SeekSeen \/ Arm \/ ReadFails \/ NeedsInput
  BY <1>4, <1>f DEF SeekSeen, Arm, ReadFails, NeedsInput, Jump, Goto, Done
<1>5. CASE Rewind
  BY <1>5, <1>e DEF Rewind, ResetOutput, EmptyRing, Empty, PlaceInv
<1>6. CASE Read
  <2>1. RingInv'
    BY <1>6 DEF Read, Goto, WorkInv, RingInv, Plus, After, Front, Done
  <2>2. DataInv'
    BY <1>6
       DEF Read, Goto, WorkInv, RingInv, DataInv, InRing, From, Plus, After,
           Front, Done
  <2> QED BY <2>1, <2>2
<1>7. CASE FileEnds
  BY <1>7, <1>f DEF FileEnds, Done
<1>8. CASE Render
  BY <1>8, <1>f DEF Render, Jump, Goto, Done, NeedsHeader, MayBeFull
<1>9. CASE Decode
  <2>1. RingInv'
    BY <1>9 DEF Decode, Goto, WorkInv, RingInv, Plus, After, Front, Done
  <2>2. DataInv'
    BY <1>9
       DEF Decode, Goto, WorkInv, RingInv, DataInv, InRing, From, Plus, After,
           Front, Done
  <2> QED BY <2>1, <2>2
<1>10. CASE Write
  <2>1. RingInv /\ DataInv /\ hdr # NoHdr /\ hdr = current /\ data[hdr] # "old"
    BY <1>10 DEF Write, WorkInv, PlaceInv, RingInv, DataInv, Done
  <2>2. RingInv'
    BY <1>10
       DEF Write, OutputWrites, OutputNothing, WorkInv, RingInv, Plus, After,
           Front, Done, PlaceInv
  <2>3. UNCHANGED <<data, hdr, double, writeCur>>
    BY <1>10 DEF Write, OutputWrites, OutputNothing
  <2>4. InRing' \subseteq InRing \cup {hdr}
    <3>1. CASE double
      <4>1. written' \in {written, written + 1}
        BY <1>10, <3>1 DEF Write, OutputWrites, OutputNothing
      <4>2. written \in 0..CBuf /\ Plus(writeCur, written) = hdr
        BY <3>1, <1>10, <2>1 DEF Write, RingInv, Front
      <4> QED BY <3>1, <4>1, <4>2, <2>3 DEF InRing, From
    <3>2. CASE ~double
      <4>1. device' = device \/ device' = Append(device, hdr)
        BY <1>10, <3>2 DEF Write, OutputWrites, OutputNothing
      <4>2. hdr \in Slots
        BY <2>1
      <4>3. \A i \in DOMAIN device' :
               device'[i] \in {device[j] : j \in DOMAIN device} \cup {hdr}
        <5>1. CASE device' = device
          BY <5>1
        <5>2. CASE device' = Append(device, hdr)
          <6>1. /\ Len(device) \in Nat /\ DOMAIN device = 1..Len(device)
                /\ DOMAIN device' = 1..(Len(device) + 1)
                /\ \A i \in 1..Len(device) : device'[i] = device[i]
                /\ device'[Len(device) + 1] = hdr
            BY <4>2, <5>2, AppendProperties, LenProperties
          <6> QED BY <6>1
        <5> QED BY <4>1, <5>1, <5>2
      <4> QED BY <3>2, <2>3, <4>3 DEF InRing
    <3> QED BY <3>1, <3>2
  <2> QED BY <2>1, <2>2, <2>3, <2>4 DEF DataInv
<1>11. CASE Count
  <2>1. RingInv'
    BY <1>11
       DEF Count, OutputCounts, Goto, WorkInv, RingInv, Plus, After, Front,
           Done
  <2>2. DataInv'
    BY <1>11
       DEF Count, OutputCounts, Goto, WorkInv, RingInv, DataInv, InRing, From,
           Plus, After, Front, Done
  <2> QED BY <2>1, <2>2
<1>12. CASE Test \/ Start \/ Written
  BY <1>12, <1>f DEF Test, Start, Written, PauseOutput, Jump, Goto, Done
<1>13. CASE Closing
  BY <1>13, <1>f
     DEF Closing, Flush, Drain, Sleep, Close, CloseAll, Clear, Rewound,
         SayStop, Jump, Goto, Done, PlaceInv
<1>14. CASE UserCall
  BY <1>14, <1>s
     DEF UserCall, SayPause, PauseDevice, PauseEnds, Restart, Replay, SayPlay,
         SeekResets, SeekEnds, StopResets, StopHasReset, Stopped, StopClears,
         StopSeeks, PauseOutput, SeekFile, UiGoto, FlagInv, BeginReset,
         EndReset
<1>15. CASE User
  BY <1>15, <1>s
     DEF User, Play, BeginPause, Seek, Stop, SeekFile, UiGoto, InterfaceFree
<1>16. CASE HeaderPlayed /\ UNCHANGED pvars
  <2>1. /\ ~double /\ device \in Seq(Slots) /\ device # <<>>
        /\ device' = Tail(device) /\ written' = written - 1 /\ event' = TRUE
        /\ UNCHANGED <<double, current, hdr, pc, data, writeCur>>
    BY <1>16 DEF HeaderPlayed
  <2>2. /\ Len(device) \in Nat /\ Len(device) >= 1
        /\ device' \in Seq(Slots) /\ Len(device') = Len(device) - 1
        /\ \A i \in DOMAIN device' :
              /\ i \in 1..Len(device') /\ i + 1 \in DOMAIN device
              /\ device'[i] = device[i + 1]
    BY <2>1, HeadTailProperties, EmptySeq, LenProperties
  <2>3. RingInv /\ DataInv
    BY <1>16 DEF WorkInv
  <2>4. RingInv'
    <3>1. Front' = Front /\ Front \in Slots
      BY <2>1 DEF Front, After, Plus
    <3>2. /\ hdr' \in {NoHdr, current'} \/ Done'
          /\ pc' = "count" => hdr' = current'
          /\ hdr' # NoHdr /\ ~Done' => event'
      BY <2>1, <2>3 DEF RingInv, Done
    <3>3. \A i \in DOMAIN device' :
             device'[i] = Plus(Front', CBuf - Len(device') + i - 1)
      <4>1. TAKE i \in DOMAIN device'
      <4>2. device'[i] = device[i + 1] /\ i + 1 \in DOMAIN device /\ i \in Int
        BY <2>2
      <4>3. device[i + 1] = Plus(Front, CBuf - Len(device) + (i + 1) - 1)
        BY <4>2, <2>1, <2>3 DEF RingInv
      <4>4. CBuf - Len(device) + (i + 1) - 1 = CBuf - Len(device') + i - 1
        BY <2>2, <4>2
      <4> QED BY <4>2, <4>3, <4>4, <3>1
    <3>4. /\ Len(device) = written + (IF pc = "count" THEN 1 ELSE 0)
          /\ Len(device) <= CBuf
      BY <2>1, <2>3 DEF RingInv
    <3>5. CASE pc = "count"
      BY <2>1, <2>2, <3>1, <3>2, <3>3, <3>4, <3>5 DEF RingInv
    <3>6. CASE pc # "count"
      <4>1. /\ written = Len(device) /\ written' = Len(device')
            /\ Len(device') \in Nat /\ written' < CBuf
        BY <2>1, <2>2, <3>4, <3>6
      <4>2. Len(device') = written' /\ Len(device') <= CBuf
        BY <4>1
      <4>3. event' = (written' < CBuf)
        BY <2>1, <4>1
      <4>4. pc' # "count" /\ ~double'
        BY <2>1, <3>6
      <4> QED BY <3>2, <3>3, <4>2, <4>3, <4>4 DEF RingInv
    <3> QED BY <3>5, <3>6
  <2>5. DataInv'
    <3>1. InRing' \subseteq InRing
      <4> SUFFICES ASSUME NEW s \in InRing' PROVE s \in InRing
        OBVIOUS
      <4>1. PICK i \in DOMAIN device' : s = device'[i]
        BY <2>1 DEF InRing
      <4>2. s = device[i + 1] /\ i + 1 \in DOMAIN device
        BY <2>2, <4>1
      <4> QED BY <2>1, <4>2 DEF InRing
    <3> QED BY <2>1, <2>3, <3>1 DEF DataInv
  <2> QED BY <2>4, <2>5
<1>17. CASE WaveWakes /\ UNCHANGED pvars
  BY <1>17
     DEF WaveWakes, WorkInv, RingInv, DataInv, InRing, From, Plus, After,
         Front, Done
<1>18. CASE WaveFills /\ UNCHANGED pvars
  <2>1. CASE UNCHANGED ring
    BY <1>18, <2>1, <1>s DEF WaveFills
  <2>2. CASE ~(written = 0 \/ paused)
    <3>1. /\ double /\ writeCur' = After(writeCur) /\ event' = TRUE
          /\ written' = written - 1 /\ written # 0
          /\ UNCHANGED <<double, current, device, hdr, pc, data>>
      BY <1>18, <2>2 DEF WaveFills, LockInv
    <3>2. RingInv /\ DataInv
      BY <1>18 DEF WorkInv
    <3>3. RingInv'
      <4>1. /\ Plus(writeCur', written') = Plus(writeCur, written)
            /\ written' \in 0..CBuf
        BY <3>1, <3>2 DEF RingInv, Plus, After
      <4>2. Front' = Front /\ (Done' <=> Done)
        BY <3>1 DEF Front, After, Plus, Done
      <4> QED BY <3>1, <3>2, <4>1, <4>2 DEF RingInv
    <3>4. \A i \in 0..(written' - 1) :
             /\ i + 1 \in 0..(written - 1)
             /\ Plus(writeCur', i) = Plus(writeCur, i + 1)
      BY <3>1, <3>2 DEF RingInv, Plus, After
    <3>5. InRing' \subseteq InRing
      BY <3>1, <3>4 DEF InRing, From
    <3> QED BY <3>1, <3>2, <3>3, <3>5 DEF DataInv
  <2> QED BY <1>18, <2>1, <2>2 DEF WaveFills
<1>19. CASE UNCHANGED vars
  BY <1>19 DEF WorkInv, RingInv, DataInv, InRing, From, Plus, After, Front, Done
<1> QED
  BY <1>1, <1>2, <1>3, <1>4, <1>5, <1>6, <1>7, <1>8, <1>9, <1>10, <1>11, <1>12,
     <1>13, <1>14, <1>15, <1>16, <1>17, <1>18, <1>19
     DEF Next, PlayerThread, Loop, Putting, Device

\* The invariant holds at first.
LEMMA Initial == Init => IInv
<1> SUFFICES ASSUME Init PROVE IInv
  OBVIOUS
<1> USE CBufAssumption
   DEF Init, OutputInit, Slots, NoHdr, Working, LoopPlaces, OpeningPlaces
<1>1. Types
  BY EmptySeq DEF Types, Ages, NoData
<1>2. PlaceInv /\ IdleInv
  BY DEF PlaceInv, IdleInv, Empty
<1>3. LockInv /\ FlagInv /\ StatusInv
  BY DEF LockInv, FlagInv, StatusInv, Resetting
<1>4. WorkInv
  BY DEF WorkInv
<1> QED BY <1>1, <1>2, <1>3, <1>4 DEF IInv

\* The invariant is inductive.
LEMMA Step == IInv /\ [Next]_vars => IInv'
  BY TypesStep, PlaceInvStep, IdleInvStep, LockInvStep, FlagInvStep,
     WorkInvStep, StatusInvStep
     DEF IInv

\* The invariant holds always.
LEMMA Invariance == Spec => []IInv
  BY Initial, Step, PTL DEF Spec

-----------------------------------------------------------------------------
(***************************************************************************)
(* The types of the counters: how far they go while the ring is reset.     *)
(***************************************************************************)
\* A header has been handed over and is not counted yet.
Counting == IF pc = "count" THEN 1 ELSE 0

\* The thread has a header to fill.
Held == hdr # NoHdr /\ ~Done

\* Reset by the user's thread sets the event before it clears the count.
Room == IF Resetting THEN CBuf + 1 ELSE CBuf

\* With double buffering Reset may come between the two counts of a header.
\* The thread then sees m_fSeek or m_fStop before it writes again, but for one
\* header at the end of a file that is being stopped.
Skewed ==
    /\ samples + Counting = written + 1 /\ written <= 1
    /\ Disturbed /\ eos # 2
    /\ pc \in {"count", "test", "start", "next", "get", "top", "locked", "arm",
               "rewind", "flush", "write", "drain", "startFlush", "sleep",
               "close", "closeAll"}
    /\ written = 1 =>
         /\ fStop
         /\ pc \in {"top", "drain", "startFlush", "sleep", "close"}
              \/ (pc \in {"count", "test", "start", "next"} /\ eos = 1)
    /\ pc = "get" /\ kind = "wav" => fSeek
    /\ pc = "locked" /\ kind # "ov" => fSeek
    /\ pc = "flush" => hdr = NoHdr \/ (fStop /\ eos = 1)
    /\ pc = "write" => fStop /\ eos = 1
    /\ pc = "top" /\ kind = "ov" /\ hdr # NoHdr => fStop \/ data[hdr] = "none"

PlainInv ==
    ~double =>
      /\ Len(device) = written + Counting /\ Len(device) <= CBuf
      /\ event \/ Held => written < CBuf
      /\ samples = written \/ (Resetting /\ samples \in 0..CBuf)
      /\ Resetting => device = <<>>

DoubleInv ==
    double =>
      /\ device = <<>> /\ written \in 0..Room
      /\ pc # "count" /\ (event \/ Held) => written < Room
      /\ samples + Counting = written \/ Skewed

Names ==
    /\ kind \in Kinds /\ devLock \in {"free", "player", "ui"}
    /\ wave \in {"wait", "fill"}
    /\ pc \in LoopPlaces \cup OpeningPlaces
                \cup {"none", "begin", "clear", "rewound", "say", "ended"}
    /\ status \in {"STOP", "WAIT", "PLAY", "PAUSE"}
    /\ ui \in {"idle", "pause", "pausing", "unplay", "restart", "replay",
               "sayPlay", "reset", "resetting", "stop", "stopping", "wait",
               "clear", "seek"}

BoundInv == IInv /\ Names /\ PlainInv /\ DoubleInv

\* The variables that take one of a few values.
LEMMA NamesStep == BoundInv /\ [Next]_vars => Names'
<1> SUFFICES ASSUME BoundInv, [Next]_vars PROVE Names'
  OBVIOUS
<1> USE DEF BoundInv, Names, LoopPlaces, OpeningPlaces, Kinds, Jump, Goto,
            UiGoto, vars, ovars, ring, pvars, flags
<1>1. CASE Opening
  BY <1>1
     DEF Opening, Begin, Prepare, Prepared, Reuse, OpenNew, Reopen, Reopened,
         Playing, OpenDevice
<1>2. CASE Loop
  BY <1>2
     DEF Loop, Top, GetBuffer, SeekSeen, Arm, Rewind, Read, ReadFails,
         FileEnds, Render, Decode, NeedsInput
<1>3. CASE Putting
  BY <1>3
     DEF Putting, Write, Count, Test, Start, Written, OutputWrites,
         OutputCounts
<1>4. CASE Closing
  BY <1>4
     DEF Closing, Flush, Drain, Sleep, Close, CloseAll, Clear, Rewound,
         SayStop
<1>5. CASE UserCall
  BY <1>5
     DEF UserCall, SayPause, PauseDevice, PauseEnds, Restart, Replay, SayPlay,
         SeekResets, SeekEnds, StopResets, StopHasReset, Stopped, StopClears,
         StopSeeks, BeginReset, EndReset, SeekFile
<1>6. CASE User
  BY <1>6 DEF User, Play, BeginPause, Seek, Stop, SeekFile
<1>7. CASE Device /\ UNCHANGED pvars
  BY <1>7 DEF Device, HeaderPlayed, WaveWakes, WaveFills
<1>8. CASE UNCHANGED vars
  BY <1>8
<1> QED
  BY <1>1, <1>2, <1>3, <1>4, <1>5, <1>6, <1>7, <1>8 DEF Next, PlayerThread

\* The option of double buffering does not change.
LEMMA DoubleStays == [Next]_vars => double' = double
  BY DEF Next, PlayerThread, Opening, Begin, Prepare, Prepared, Reuse,
         OpenNew, Reopen, Reopened, Playing, OpenDevice, Loop, Top, GetBuffer,
         SeekSeen, Arm, Rewind, Read, ReadFails, FileEnds, Render, Decode,
         NeedsInput, Putting, Write, Count, Test, Start, Written,
         OutputWrites, OutputCounts, Closing, Flush, Drain, Sleep, Close,
         CloseAll, Clear, Rewound, SayStop, UserCall, SayPause, PauseDevice,
         PauseEnds, Restart, Replay, SayPlay, SeekResets, SeekEnds,
         StopResets, StopHasReset, Stopped, StopClears, StopSeeks, BeginReset,
         EndReset, SeekFile, User, Play, BeginPause, Seek, Stop, Device,
         HeaderPlayed, WaveWakes, WaveFills, Jump, Goto, UiGoto, vars, ovars,
         pvars

\* Without double buffering the count is that of the headers the device has.
LEMMA PlainStep == BoundInv /\ [Next]_vars => PlainInv'
<1> SUFFICES ASSUME BoundInv, [Next]_vars, ~double' PROVE PlainInv'
  BY DEF PlainInv
<1> USE CBufAssumption
   DEF BoundInv, IInv, Types, PlaceInv, LockInv, Working, LoopPlaces,
       OpeningPlaces, NoHdr, Jump, Goto, UiGoto, vars, ovars, ring, pvars,
       flags
<1>0. Len(device) \in Nat /\ written \in Int /\ samples \in Int
  BY LenProperties
<1>f. ASSUME UNCHANGED <<double, written, device, samples, event>>,
             pc # "count", pc' # "count", Held' => Held \/ event,
             Resetting' <=> Resetting
      PROVE  PlainInv'
  BY <1>f DEF PlainInv, Counting
<1>e. ASSUME Empty', pc' # "count" PROVE PlainInv'
  <2>1. Len(device') = 0 /\ device' = <<>>
    BY <1>e, EmptySeq DEF Empty
  <2> QED BY <1>e, <2>1 DEF Empty, PlainInv, Counting
<1>d. double' = double
  BY DoubleStays
<1>1. CASE Opening
  BY <1>1, <1>e, <1>f
     DEF Opening, Begin, Prepare, Prepared, Reuse, OpenNew, Reopen, Reopened,
         Playing, OpenDevice, EmptyRing, Empty, Held, Done, Resetting
<1>2. CASE Loop
  BY <1>2, <1>e, <1>f
     DEF Loop, Top, GetBuffer, SeekSeen, Arm, Rewind, Read, ReadFails,
         FileEnds, Render, Decode, NeedsInput, GetHeader, ResetOutput,
         EmptyRing, Empty, Held, Done, Resetting
<1>3. CASE Write /\ pc' = "count" /\ ~double
  <2>1. /\ device' = Append(device, hdr) /\ hdr \in Slots /\ devLock = "free"
        /\ UNCHANGED <<written, samples, event, hdr, ui>>
        /\ hdr # NoHdr /\ pc = "write" /\ event = event'
    BY <1>3 DEF Write, OutputWrites, Slots
  <2>2. Len(device') = Len(device) + 1
    BY <2>1, AppendProperties
  <2>3. Len(device) = written /\ written < CBuf /\ samples = written
    BY <1>3, <2>1 DEF PlainInv, Counting, Held, Done, Resetting
  <2>4. ~Resetting'
    BY <2>1 DEF Resetting
  <2> QED BY <1>0, <1>3, <2>1, <2>2, <2>3, <2>4 DEF PlainInv, Counting
<1>4. CASE Write /\ pc' = "next" /\ ~double
  <2>1. /\ UNCHANGED <<written, samples, device, hdr, ui>>
        /\ hdr # NoHdr /\ pc = "write"
    BY <1>4 DEF Write, OutputWrites, OutputNothing
  <2>2. written < CBuf
    BY <1>4, <2>1 DEF PlainInv, Held, Done
  <2> QED BY <1>4, <2>1, <2>2 DEF PlainInv, Counting, Resetting
<1>5. CASE Count /\ ~double
  <2>1. /\ written' = written + 1 /\ samples' = samples + 1
        /\ device' = device /\ event' = (event /\ written' < CBuf)
        /\ pc = "count" /\ pc' = "test" /\ ui' = ui /\ devLock = "player"
    BY <1>5 DEF Count, OutputCounts
  <2>2. Len(device) = written + 1 /\ samples = written /\ ~Resetting
    BY <1>5, <2>1 DEF PlainInv, Counting
  <2>3. ~Held' /\ ~Resetting'
    BY <2>1, <2>2 DEF Held, Done, Resetting
  <2> QED BY <1>0, <1>5, <2>1, <2>2, <2>3 DEF PlainInv, Counting
<1>6. CASE Test \/ Start \/ Written
  BY <1>6, <1>f
     DEF Test, Start, Written, PauseOutput, Held, Done, Resetting
<1>7. CASE Closing
  BY <1>7, <1>e, <1>f
     DEF Closing, Flush, Drain, Sleep, Close, CloseAll, Clear, Rewound,
         SayStop, EmptyRing, ResetOutput, Empty, Held, Done, Resetting
<1>8. CASE (SeekResets \/ StopResets) /\ open /\ ~double
  <2>1. /\ device' = <<>> /\ written' = written - Len(device)
        /\ samples' = samples /\ devLock = "free" /\ pc' = pc
        /\ Resetting'
    BY <1>8 DEF SeekResets, StopResets, BeginReset, Resetting
  <2>2. pc # "count" /\ ~Resetting
    BY <1>8, <2>1
  <2>3. Len(device) = written /\ samples = written /\ written \in 0..CBuf
    BY <1>0, <1>8, <2>2 DEF PlainInv, Counting
  <2>4. written' = 0 /\ Len(device') = 0 /\ samples' \in 0..CBuf
    BY <1>0, <2>1, <2>3, EmptySeq
  <2> QED BY <2>1, <2>2, <2>4 DEF PlainInv, Counting
<1>9. CASE (SeekEnds \/ StopHasReset) /\ ~double
  <2>1. /\ device' = device /\ written' = 0 /\ samples' = 0 /\ pc' = pc
        /\ Resetting /\ ~Resetting'
    BY <1>9 DEF SeekEnds, StopHasReset, EndReset, Resetting
  <2>2. pc # "count" /\ device = <<>> /\ Len(device') = 0
    BY <1>9, <2>1, EmptySeq DEF PlainInv
  <2> QED BY <2>1, <2>2 DEF PlainInv, Counting
<1>g. ASSUME UNCHANGED <<double, written, device, samples, event, hdr>>,
             pc \in {"none", "ended"} \/ pc' = pc,
             pc' \in {"none", "begin"} \/ pc' = pc,
             Resetting' <=> Resetting
      PROVE  PlainInv'
  BY <1>g DEF PlainInv, Counting, Held, Done
<1>10. CASE UserCall /\ ~double
  BY <1>8, <1>9, <1>10, <1>g
     DEF UserCall, SayPause, PauseDevice, PauseEnds, Restart, Replay, SayPlay,
         SeekResets, StopResets, Stopped, StopClears, StopSeeks, PauseOutput,
         SeekFile, Resetting
<1>11. CASE User
  BY <1>11, <1>g
     DEF User, Play, BeginPause, Seek, Stop, SeekFile, InterfaceFree,
         Resetting
<1>12. CASE HeaderPlayed /\ UNCHANGED pvars
  <2>1. /\ ~double /\ device \in Seq(Slots) /\ device # <<>>
        /\ device' = Tail(device) /\ written' = written - 1
        /\ samples' = samples - 1 /\ pc' = pc /\ ui' = ui
    BY <1>12 DEF HeaderPlayed
  <2>2. Len(device') = Len(device) - 1
    BY <2>1, HeadTailProperties
  <2>3. ~Resetting /\ ~Resetting' /\ samples = written
    BY <2>1 DEF PlainInv, Resetting
  <2>4. Len(device) = written + Counting /\ Len(device) <= CBuf
    BY <2>1 DEF PlainInv
  <2>5. Counting' = Counting /\ Counting \in {0, 1}
    BY <2>1 DEF Counting
  <2>6. written' < CBuf
    BY <1>0, <2>1, <2>4, <2>5
  <2>7. Len(device') = written' + Counting' /\ Len(device') <= CBuf
    BY <1>0, <2>1, <2>2, <2>4, <2>5
  <2> QED BY <1>0, <2>1, <2>3, <2>6, <2>7 DEF PlainInv
<1>13. CASE (WaveWakes \/ WaveFills) /\ UNCHANGED pvars /\ ~double
  BY <1>13, <1>g DEF WaveWakes, WaveFills, Resetting
<1>14. CASE UNCHANGED vars
  BY <1>14, <1>g DEF Resetting
<1>15. CASE Write /\ ~double
  BY <1>3, <1>4, <1>15 DEF Write
<1> QED
  BY <1>1, <1>2, <1>5, <1>6, <1>7, <1>10, <1>11, <1>12, <1>13, <1>14, <1>15,
     <1>d
     DEF Next, PlayerThread, Putting, Device

\* With double buffering the count and the samples agree, but for a header
\* that Reset came into.
LEMMA DoubleStep == BoundInv /\ [Next]_vars => DoubleInv'
<1> SUFFICES ASSUME BoundInv, [Next]_vars, double, IInv' PROVE DoubleInv'
  BY DoubleStays, Step DEF BoundInv, DoubleInv
<1> USE CBufAssumption
   DEF BoundInv, IInv, Types, PlaceInv, LockInv, Working, LoopPlaces,
       OpeningPlaces, NoHdr, Jump, Goto, UiGoto, vars, ovars, ring, pvars,
       flags
<1>0. /\ written \in Int /\ samples \in Int /\ device = <<>>
      /\ written \in 0..Room /\ Room \in {CBuf, CBuf + 1}
      /\ Counting \in {0, 1}
      /\ pc # "count" /\ (event \/ Held) => written < Room
      /\ samples + Counting = written \/ Skewed
  BY DEF DoubleInv, Room, Counting
<1>f. ASSUME UNCHANGED <<double, written, device, samples, event>>,
             pc = "count" <=> pc' = "count", Held' => Held \/ event,
             Resetting' <=> Resetting, Skewed => Skewed'
      PROVE  DoubleInv'
  BY <1>f DEF DoubleInv, Counting, Room
<1>e. ASSUME Empty', pc' # "count" PROVE DoubleInv'
  BY <1>e DEF Empty, DoubleInv, Counting, Room
<1>1. CASE Opening
  <2>1. ~Skewed
    BY <1>1
       DEF Opening, Begin, Prepare, Reuse, OpenNew, Reopen, Reopened, Playing,
           Skewed
  <2> QED
    BY <1>1, <1>e, <1>f, <2>1
       DEF Opening, Begin, Prepare, Prepared, Reuse, OpenNew, Reopen,
           Reopened, Playing, OpenDevice, EmptyRing, Empty, Held, Done,
           Resetting
<1>2. CASE Top
  <2>1. Skewed => Skewed'
    BY <1>2
       DEF Top, Skewed, Counting, Disturbed, NeedsHeader, MayBeFull, Names,
           Kinds
  <2> QED BY <1>2, <1>f, <2>1 DEF Top, Held, Done, Resetting
<1>3. CASE GetBuffer
  <2>1. Skewed => Skewed'
    BY <1>3
       DEF GetBuffer, GetHeader, Skewed, Counting, Disturbed, Names, Kinds
  <2> QED
    BY <1>3, <1>f, <2>1 DEF GetBuffer, GetHeader, Held, Done, Resetting
<1>4. CASE SeekSeen \/ Arm \/ ReadFails \/ Render \/ Decode \/ NeedsInput
  <2>1. Skewed => Skewed'
    BY <1>4
       DEF SeekSeen, Arm, ReadFails, Render, Decode, NeedsInput, Skewed,
           Counting, Disturbed, Names, Kinds
  <2> QED
    BY <1>4, <1>f, <2>1
       DEF SeekSeen, Arm, ReadFails, Render, Decode, NeedsInput, Held, Done,
           Resetting
<1>5. CASE Rewind
  BY <1>5, <1>e DEF Rewind, ResetOutput, EmptyRing, Empty
<1>6. CASE Read
  <2>1. Skewed => Skewed'
    BY <1>6 DEF Read, Skewed, Counting, Disturbed, Names, Kinds
  <2> QED BY <1>6, <1>f, <2>1 DEF Read, Held, Done, Resetting
<1>7. CASE FileEnds
  <2>1. Skewed => Skewed'
    BY <1>7 DEF FileEnds, Skewed, Counting, Disturbed, Names, Kinds
  <2> QED BY <1>7, <1>f, <2>1 DEF FileEnds, Held, Done, Resetting
<1>8. CASE Write /\ pc' = "count"
  <2>1. /\ written' = written + 1 /\ pc = "write" /\ hdr # NoHdr
        /\ UNCHANGED <<samples, device, event, hdr, eos, flags, ui, data, kind>>
    BY <1>8 DEF Write, OutputWrites
  <2>2. Counting = 0 /\ Counting' = 1 /\ Room' = Room
    BY <1>8, <2>1 DEF Counting, Room, Resetting
  <2>3. written < Room
    BY <1>0, <2>1 DEF Held, Done
  <2>4. CASE samples = written
    BY <1>0, <1>8, <2>1, <2>2, <2>3, <2>4 DEF DoubleInv
  <2>5. CASE Skewed
    <3>1. samples = written + 1 /\ written = 0
      BY <1>0, <2>1, <2>2, <2>5 DEF Skewed
    <3>2. Skewed'
      BY <1>8, <2>1, <2>2, <2>5, <3>1 DEF Skewed, Disturbed
    <3> QED BY <1>0, <1>8, <2>1, <2>2, <2>3, <3>2 DEF DoubleInv
  <2> QED BY <1>0, <2>2, <2>4, <2>5
<1>9. CASE Write /\ pc' = "next"
  <2>1. /\ pc = "write" /\ hdr # NoHdr
        /\ UNCHANGED <<written, samples, device, hdr, eos, flags, ui, data,
                       kind, double>>
    BY <1>9 DEF Write, OutputWrites, OutputNothing
  <2>2. Counting' = Counting /\ Room' = Room /\ written < Room
    BY <1>0, <1>9, <2>1 DEF Counting, Room, Resetting, Held, Done
  <2>3. Skewed => Skewed'
    BY <1>9, <2>1, <2>2 DEF Skewed, Disturbed
  <2> QED BY <1>0, <1>9, <2>1, <2>2, <2>3 DEF DoubleInv
<1>10. CASE Count
  <2>1. /\ written' = written /\ samples' = samples + 1 /\ device' = device
        /\ event' = (event /\ written' < CBuf)
        /\ pc = "count" /\ pc' = "test"
        /\ UNCHANGED <<hdr, eos, flags, ui, data, kind, double>>
    BY <1>10 DEF Count, OutputCounts
  <2>2. Counting = 1 /\ Counting' = 0 /\ Room' = Room /\ ~Held'
    BY <2>1 DEF Counting, Room, Resetting, Held, Done
  <2>3. Skewed => Skewed'
    BY <1>0, <2>1, <2>2 DEF Skewed, Disturbed
  <2>4. samples + Counting = written => samples' + Counting' = written'
    BY <1>0, <2>1, <2>2
  <2>5. event' => written' < Room'
    <3>1. event' => written' < CBuf
      BY <2>1, Zenon
    <3>2. written' \in Int /\ CBuf <= Room'
      BY <1>0, <2>1, <2>2
    <3> QED BY <1>0, <2>2, <3>1, <3>2
  <2> QED BY <1>0, <2>1, <2>2, <2>3, <2>4, <2>5 DEF DoubleInv
<1>11. CASE Test \/ Start \/ Written
  <2>1. CASE Test
    <3>1. Skewed => Skewed'
      BY <1>0, <2>1
         DEF Test, Skewed, Counting, Disturbed, Names, Kinds, PauseOutput, Done
    <3> QED BY <2>1, <1>f, <3>1 DEF Test, Held, Done, Resetting
  <2>2. CASE Start
    <3>1. Skewed => Skewed'
      BY <1>0, <2>2
         DEF Start, Skewed, Counting, Disturbed, Names, Kinds, PauseOutput, Done
    <3> QED BY <2>2, <1>f, <3>1 DEF Start, Held, Done, Resetting
  <2>3. CASE Written
    <3>1. Skewed => Skewed'
      BY <1>0, <2>3
         DEF Written, Skewed, Counting, Disturbed, Names, Kinds, PauseOutput,
             Done
    <3> QED BY <2>3, <1>f, <3>1 DEF Written, Held, Done, Resetting
  <2> QED BY <1>11, <2>1, <2>2, <2>3
<1>12. CASE Flush \/ Drain \/ Sleep
  <2>1. CASE Flush
    <3>1. Skewed => Skewed'
      BY <1>0, <2>1 DEF Flush, Skewed, Counting, Disturbed, Names, Kinds
    <3> QED BY <2>1, <1>f, <3>1 DEF Flush, Held, Done, Resetting
  <2>2. CASE Drain
    <3>1. Skewed => Skewed'
      BY <1>0, <2>2 DEF Drain, Skewed, Counting, Disturbed, Names, Kinds
    <3> QED BY <2>2, <1>f, <3>1 DEF Drain, Held, Done, Resetting
  <2>3. CASE Sleep
    <3>1. Skewed => Skewed'
      BY <1>0, <2>3 DEF Sleep, Skewed, Counting, Disturbed, Names, Kinds
    <3> QED BY <2>3, <1>f, <3>1 DEF Sleep, Held, Done, Resetting
  <2> QED BY <1>12, <2>1, <2>2, <2>3
<1>13. CASE Close \/ CloseAll
  BY <1>13, <1>e DEF Close, CloseAll, EmptyRing, Empty
<1>14. CASE Clear \/ Rewound \/ SayStop
  <2>1. ~Skewed
    BY <1>14 DEF Clear, Rewound, SayStop, Skewed
  <2> QED
    BY <1>14, <1>e, <1>f, <2>1
       DEF Clear, Rewound, SayStop, EmptyRing, ResetOutput, Empty, Held, Done,
           Resetting
<1>15. CASE (SeekResets \/ StopResets) /\ open
  <2>1. /\ device' = <<>> /\ Len(device) = 0 /\ written' = written - Len(device)
        /\ samples' = samples /\ devLock = "free" /\ Resetting' /\ ~Resetting
        /\ UNCHANGED <<hdr, eos, flags, data, kind, double, pc>>
    BY <1>0, <1>15, EmptySeq
       DEF SeekResets, StopResets, BeginReset, Resetting
  <2>2. /\ written' = written /\ Counting' = Counting
        /\ Room = CBuf /\ Room' = CBuf + 1
    BY <1>0, <2>1 DEF Counting, Room
  <2>3. Skewed => Skewed'
    BY <2>1, <2>2 DEF Skewed, Disturbed
  <2> QED BY <1>0, <2>1, <2>2, <2>3 DEF DoubleInv
<1>16. CASE SeekEnds \/ StopHasReset
  <2>1. /\ device' = device /\ written' = 0 /\ samples' = 0
        /\ Resetting /\ ~Resetting' /\ event' = event
        /\ UNCHANGED <<hdr, eos, flags, data, kind, double, pc>>
    BY <1>16 DEF SeekEnds, StopHasReset, EndReset, Resetting
  <2>2. Room' = CBuf /\ Counting' = Counting
    BY <2>1 DEF Room, Counting
  <2>3. pc = "count" => Skewed'
    BY <2>1, <2>2 DEF FlagInv, Resetting, Skewed, Disturbed, Counting
  <2>4. pc # "count" => samples' + Counting' = written'
    BY <2>1 DEF Counting
  <2> QED BY <1>0, <2>1, <2>2, <2>3, <2>4 DEF DoubleInv
<1>g. ASSUME UNCHANGED <<double, written, device, samples, event, hdr, eos,
                         kind>>,
             pc \in {"none", "ended"} \/ pc' = pc,
             pc' \in {"none", "begin"} \/ pc' = pc,
             Resetting' <=> Resetting,
             pc # "none" => (fSeek => fSeek') /\ (fStop => fStop'),
             \A s \in Slots : data[s] = "none" => data'[s] = "none"
      PROVE  DoubleInv'
  <2>1. Skewed => Skewed'
    <3> SUFFICES ASSUME Skewed PROVE Skewed'
      OBVIOUS
    <3>1. pc' = pc /\ pc # "none"
      BY <1>g DEF Skewed
    <3>2. Counting' = Counting
      BY <3>1 DEF Counting
    <3> QED BY <1>g, <3>1, <3>2 DEF Skewed, Disturbed
  <2> QED BY <1>f, <1>g, <2>1 DEF Held, Done
<1>17. CASE UserCall
  BY <1>15, <1>16, <1>17, <1>g
     DEF UserCall, SayPause, PauseDevice, PauseEnds, Restart, Replay, SayPlay,
         SeekResets, StopResets, Stopped, StopClears, StopSeeks, PauseOutput,
         SeekFile, Resetting, FlagInv, Slots
<1>18. CASE User
  BY <1>18, <1>g
     DEF User, Play, BeginPause, Seek, Stop, SeekFile, InterfaceFree,
         Resetting
<1>19. CASE (HeaderPlayed \/ WaveWakes) /\ UNCHANGED pvars
  BY <1>19, <1>g DEF HeaderPlayed, WaveWakes, Resetting
<1>20. CASE WaveFills /\ UNCHANGED pvars
  <2>1. CASE UNCHANGED ring
    BY <1>20, <2>1, <1>g DEF WaveFills, Resetting
  <2>2. CASE ~(written = 0 \/ paused)
    <3>1. /\ written' = written - 1 /\ samples' = samples - 1
          /\ written # 0 /\ event' = TRUE /\ devLock = "free"
          /\ UNCHANGED <<device, data, double>>
      BY <1>20, <2>2 DEF WaveFills
    <3>2. ~Resetting /\ ~Resetting' /\ Counting' = Counting
      BY <1>20, <3>1 DEF Counting, Resetting
    <3>3. written' \in 0..CBuf /\ written' < CBuf /\ Room' = CBuf
      BY <1>0, <3>1, <3>2 DEF Room
    <3>4. Skewed => Skewed'
      BY <1>0, <1>20, <3>1, <3>2 DEF Skewed, Disturbed
    <3> QED BY <1>0, <3>1, <3>2, <3>3, <3>4 DEF DoubleInv
  <2> QED BY <1>20, <2>1, <2>2 DEF WaveFills
<1>21. CASE UNCHANGED vars
  BY <1>21, <1>g DEF Resetting
<1>22. CASE Write
  BY <1>8, <1>9, <1>22 DEF Write
<1> QED
  BY <1>1, <1>2, <1>3, <1>4, <1>5, <1>6, <1>7, <1>10, <1>11, <1>12, <1>13,
     <1>14, <1>17, <1>18, <1>19, <1>20, <1>21, <1>22
     DEF Next, PlayerThread, Loop, Putting, Closing, Device

\* The bounds hold always.
LEMMA BoundInvariance == Spec => []BoundInv
<1>1. Init => BoundInv
  <2> SUFFICES ASSUME Init PROVE BoundInv
    OBVIOUS
  <2>1. IInv
    BY Initial
  <2>2. Len(device) = 0
    BY EmptySeq DEF Init, OutputInit
  <2> QED
    BY <2>1, <2>2, CBufAssumption
       DEF BoundInv, Init, OutputInit, Names, PlainInv, DoubleInv, Kinds,
           LoopPlaces, OpeningPlaces, Counting, Held, Room, Resetting, NoHdr
<1>2. BoundInv /\ [Next]_vars => BoundInv'
  BY Step, NamesStep, PlainStep, DoubleStep DEF BoundInv
<1> QED BY <1>1, <1>2, PTL DEF Spec

\* The bounds give the variables their types.
LEMMA TypesFollow == BoundInv => TypeOK
<1> SUFFICES ASSUME BoundInv PROVE TypeOK
  OBVIOUS
<1> USE CBufAssumption DEF BoundInv, IInv, Types
<1>1. /\ written \in -1..(CBuf + 1) /\ samples \in -1..(CBuf + 1)
      /\ Len(device) <= CBuf
  <2>1. CASE double
    <3>1. written \in 0..(CBuf + 1) /\ Len(device) = 0
      BY <2>1, EmptySeq DEF DoubleInv, Room
    <3>2. samples \in -1..(CBuf + 1)
      BY <2>1, <3>1 DEF DoubleInv, Counting, Skewed
    <3> QED BY <3>1, <3>2
  <2>2. CASE ~double
    <3>1. Len(device) \in Nat /\ Len(device) <= CBuf
      BY <2>2, LenProperties DEF PlainInv
    <3>2. written \in -1..CBuf
      BY <2>2, <3>1 DEF PlainInv, Counting
    <3>3. samples \in -1..CBuf
      BY <2>2, <3>2 DEF PlainInv
    <3> QED BY <3>1, <3>2, <3>3
  <2> QED BY <2>1, <2>2
<1> QED
  BY <1>1 DEF TypeOK, Names, LoopPlaces, OpeningPlaces

-----------------------------------------------------------------------------
(***************************************************************************)
(* The properties follow: while the thread is at work from the order of    *)
(* the ring, and otherwise because the ring is empty.                      *)
(***************************************************************************)

\* The event says whether there is room in the ring.
LEMMA EventFollows == IInv => EventTrue
<1> SUFFICES ASSUME IInv, Steady PROVE event = (written < CBuf)
  BY DEF EventTrue
<1>1. CASE Working
  BY <1>1 DEF IInv, Steady, Disturbed, WorkInv, RingInv
<1>2. CASE ~Working
  <2>1. event = TRUE /\ written < CBuf
    BY <1>2, CBufAssumption DEF IInv, IdleInv, Empty
  <2> QED BY <2>1
<1> QED BY <1>1, <1>2

\* The count, the places in the ring, what the device has and what the thread
\* holds agree.
LEMMA RingFollows == IInv => RingTrue
<1> SUFFICES ASSUME IInv, Steady
             PROVE  /\ \/ hdr \in {NoHdr, current}
                       \/ pc \in {"test", "start", "next"}
                    /\ double => Plus(writeCur, written) = current
                    /\ ~double =>
                          /\ Len(device) = written
                          /\ \A i \in DOMAIN device :
                                device[i] =
                                   Plus(current, CBuf - written + i - 1)
  BY DEF RingTrue
<1>1. CASE Working
  <2>1. RingInv /\ Front = current /\ pc # "count"
    BY <1>1 DEF IInv, Steady, Disturbed, WorkInv, Front
  <2>2. Len(device) = written \/ double
    BY <2>1 DEF IInv, Types, RingInv
  <2> QED BY <2>1, <2>2 DEF RingInv, Done
<1>2. CASE ~Working
  <2>1. Empty /\ hdr = NoHdr
    BY <1>2 DEF IInv, IdleInv, PlaceInv, Steady
  <2> QED BY <2>1, CBufAssumption, EmptySeq DEF Empty, Plus
<1> QED BY <1>1, <1>2

\* What was decoded before a seek that has been carried out will not be heard.
LEMMA FreshFollows == IInv => FreshOnly
<1> SUFFICES ASSUME IInv, Steady
             PROVE  \A s \in InRing \cup ({hdr} \ {NoHdr}) : data[s] # "old"
  BY DEF FreshOnly
<1>1. CASE Working
  BY <1>1 DEF IInv, Steady, Disturbed, WorkInv, DataInv
<1>2. CASE ~Working
  <2>1. Empty /\ hdr = NoHdr
    BY <1>2 DEF IInv, IdleInv, PlaceInv, Steady
  <2>2. InRing = {}
    BY <2>1, EmptySeq DEF Empty, InRing, From
  <2> QED BY <2>1, <2>2
<1> QED BY <1>1, <1>2

\* What the status says is true of the thread and of the device.
LEMMA StatusFollows == IInv => StatusTrue
  BY DEF IInv, StatusInv, StatusTrue

\* GetBuffer neither gives out a header that is still to be played nor waits
\* for one that is free, unless a seek or a stop is under way
\* (output.cpp:157-204, 626-637).
THEOREM EventTrueCorrect == Spec => []EventTrue
  BY Invariance, EventFollows, PTL

\* After any Reset by the user's thread, in any of the loops, the ring is in
\* order again when the flag has been seen (output.cpp:173-204, 263-305).
THEOREM RingTrueCorrect == Spec => []RingTrue
  BY Invariance, RingFollows, PTL

\* No header with data of before a seek is played after it, in any of the
\* loops (PlayerWav.cpp:286-300, PlayerMpg.cpp:356-417).
THEOREM FreshOnlyCorrect == Spec => []FreshOnly
  BY Invariance, FreshFollows, PTL

\* The status agrees with the thread and the device, unless it changed between
\* a test of it and what was done then (player.cpp:148-169, 654-667).
THEOREM StatusTrueCorrect == Spec => []StatusTrue
  BY Invariance, StatusFollows, PTL

\* The counts of the wave output stay within a header of the ring's size,
\* whatever Reset does between two steps of the thread (output.cpp:173-204,
\* 263-305), and the other variables have their types.
THEOREM PlayerTypeOKCorrect == Spec => []TypeOK
  BY BoundInvariance, TypesFollow, PTL

=============================================================================
