-------------------------- MODULE StreamingProofs --------------------------
(***************************************************************************)
(* Theorems about the receiver within Streaming, and their proofs.         *)
(*                                                                         *)
(* That an event agrees with its list is not inductive.  It has to be      *)
(* known what holds while somebody is between the list and the event, that *)
(* the two critical sections exclude each other, that a thread told to     *)
(* stop does not take another buffer, and that the streaming thread calls  *)
(* Read only between Connect and Disconnect.                               *)
(***************************************************************************)
EXTENDS Streaming, SequenceTheorems, TLAPS

Reading == call \in {"read", "timedOut", "copy", "copied"}
Leaving == call \in {"stopping", "joining"}
Open == tpc \notin {"none", "connect"} /\ eventStart

IsList(l) == \E S : l \in Seq(S)

Types ==
    /\ tpc \in {"none", "connect", "meta", "recv", "full", "put", "added",
                "wait", "take", "taken", "done", "ended"}
    /\ call \in {"none", "stopping", "joining", "start", "starting", "read",
                 "timedOut", "copy", "copied"}
    /\ goal \in {"connect", "disconnect"}
    /\ {fStop, hand, eventStart, eventBuf, eventFree, ret} \subseteq BOOLEAN
    /\ nFree \in Nat
    /\ IsList(listBuf)

\* The pcs of the streaming thread between Connect and Disconnect
Session ==
    {"prebuffer", "probe", "probing", "prepare", "interface", "prepared",
     "reopen", "loop", "drain", "reconnect", "resume", "read", "reading",
     "render", "put", "count", "test", "start", "buffer", "flush", "flushing"}

\* What the streaming thread does while a call is in progress, and that it
\* reads from an open receiver.
CallInv ==
    /\ Reading => net \in {"probing", "reading"} /\ Open
    /\ Leaving => net \in {"connecting", "dropping", "closing"}
    /\ Leaving /\ net = "connecting" => goal = "connect"
    /\ Leaving /\ net # "connecting" => goal = "disconnect"
    /\ call \in {"start", "starting"} => net = "connecting"
    /\ net = "connecting" /\ call = "none" /\ ret => Open
    /\ net \in Session => Open

\* The stages of the thread's life.
LifeInv ==
    /\ call = "start" => tpc = "none" /\ listBuf = <<>> /\ ~hand
    /\ call = "starting" => tpc # "none"
    /\ call = "stopping" => tpc # "none"
    /\ tpc = "connect" =>
          /\ call = "starting" /\ ~eventStart /\ ~eventBuf /\ eventFree
          /\ nFree = CBuf /\ listBuf = <<>> /\ ~hand
    /\ tpc = "meta" /\ ~eventStart =>
          /\ call = "starting" /\ ~eventBuf /\ eventFree
          /\ nFree = CBuf - 1 /\ listBuf = <<>>
    /\ tpc \notin {"none", "connect", "meta", "ended"} => eventStart
    /\ Leaving /\ Running => fStop
    /\ tpc \in {"meta", "recv", "full", "put", "taken"} => hand
    /\ tpc \in {"added", "wait", "take"} => ~hand

\* Lists and events, whoever is in the middle of a change.
ExchangeInv ==
    /\ ~(ThreadInLists /\ ClientInLists)
    /\ tpc = "added" => listBuf # <<>>
    /\ TakenIsThere
    /\ Exchanging =>
          /\ nFree > 0 => eventFree
          /\ eventFree /\ tpc # "taken" => nFree > 0
          /\ listBuf # <<>> /\ tpc # "added" => eventBuf
          /\ eventBuf /\ call # "copied" => listBuf # <<>>
    /\ BuffersConserved

RInv == Types /\ CallInv /\ LifeInv /\ ExchangeInv
-----------------------------------------------------------------------------
(***************************************************************************)
(* Lists of buffers, whatever is in them.                                  *)
(***************************************************************************)

\* A list has a length, and is empty when that is zero.
LEMMA ListLength ==
    ASSUME NEW l, IsList(l)
    PROVE  Len(l) \in Nat /\ (l = <<>> <=> Len(l) = 0)
<1>1. PICK S : l \in Seq(S)
  BY DEF IsList
<1> QED
  BY <1>1, EmptySeq, LenProperties

\* The empty list is one.
LEMMA ListNil == IsList(<<>>) /\ Len(<<>>) = 0
<1>1. <<>> \in Seq({}) /\ Len(<<>>) = 0
  BY EmptySeq
<1> QED
  BY <1>1 DEF IsList

\* CMultiBuff::Add makes a list one longer.
LEMMA ListAppend ==
    ASSUME NEW l, NEW e, IsList(l)
    PROVE  IsList(Append(l, e)) /\ Len(Append(l, e)) = Len(l) + 1
<1>1. PICK S : l \in Seq(S)
  BY DEF IsList
<1> DEFINE T == S \union {e}
<1>2. l \in Seq(T) /\ e \in T
  BY <1>1, SeqMonotonic
<1>3. Append(l, e) \in Seq(T) /\ Len(Append(l, e)) = Len(l) + 1
  BY <1>2
<1> QED
  BY <1>3 DEF IsList

\* CMultiBuff::RemoveAt (0) makes it one shorter.
LEMMA ListTail ==
    ASSUME NEW l, IsList(l), l # <<>>
    PROVE  IsList(Tail(l)) /\ Len(Tail(l)) = Len(l) - 1
<1>1. PICK S : l \in Seq(S)
  BY DEF IsList
<1>2. Tail(l) \in Seq(S) /\ Len(Tail(l)) = Len(l) - 1
  BY <1>1, HeadTailProperties
<1> QED
  BY <1>2 DEF IsList

\* Reading from the first buffer changes no length.
LEMMA ListUse ==
    ASSUME NEW l, NEW e, IsList(l), l # <<>>
    PROVE  /\ IsList([l EXCEPT ![1] = e])
           /\ Len([l EXCEPT ![1] = e]) = Len(l)
<1>1. PICK S : l \in Seq(S)
  BY DEF IsList
<1> DEFINE T == S \union {e}
<1>2. l \in Seq(T) /\ e \in T
  BY <1>1, SeqMonotonic
<1>3. 1 \in 1..Len(l)
  BY <1>1, EmptySeq
<1>4. [l EXCEPT ![1] = e] \in Seq(T) /\ Len([l EXCEPT ![1] = e]) = Len(l)
  BY <1>2, <1>3, ExceptSeq
<1> QED
  BY <1>4 DEF IsList

-----------------------------------------------------------------------------
(***************************************************************************)
(* The receiver's thread.                                                  *)
(***************************************************************************)
LEMMA InitInv == Init => RInv
<1> SUFFICES ASSUME Init PROVE RInv
  OBVIOUS
<1>1. IsList(listBuf)
  BY ListNil DEF Init, ReceiverInit
<1> QED
  BY <1>1
   DEF Init, ReceiverInit, RInv, Types, CallInv, LifeInv, ExchangeInv,
       TakenIsThere, Exchanging, BuffersConserved, ThreadInLists,
       ClientInLists, Running, Open, Reading, Leaving, Session

\* Every step of the receiver's thread keeps the invariant,
LEMMA ThreadInv ==
    ASSUME RInv, ReceiverThread, UNCHANGED pvars
    PROVE  RInv'
<1> USE BufferAssumption, ListNil, ListLength
    DEF RInv, Types, CallInv, LifeInv, ExchangeInv, TakenIsThere, Exchanging,
        BuffersConserved, ThreadInLists, ClientInLists, Running, Open,
        Reading, Leaving, lists, filling, events, server, reading, calling,
        rvars, pvars, place
<1>1. CASE ThreadRefused
  BY <1>1 DEF ThreadRefused
<1>2. CASE ThreadConnects
  <2>1. /\ tpc = "connect" /\ tpc' = "meta"
        /\ hand' = TRUE /\ nFree' = nFree - 1
        /\ eventFree' = (eventFree /\ nFree' > 0)
        /\ UNCHANGED <<fStop, listBuf, eventStart, eventBuf, call, goal, ret>>
    BY <1>2 DEF ThreadConnects
  <2>2. /\ nFree = CBuf /\ call = "starting" /\ ~eventStart /\ ~eventBuf
        /\ listBuf = <<>> /\ eventFree
    BY <2>1
  <2>3. nFree' = CBuf - 1 /\ nFree' \in Nat /\ nFree' > 0
    BY <2>1, <2>2
  <2>4. eventFree' = TRUE
    BY <2>1, <2>2, <2>3
  <2> QED
    BY <2>1, <2>2, <2>3, <2>4
<1>3. CASE ThreadMeta
  <2>1. /\ tpc = "meta"
        /\ UNCHANGED <<fStop, nFree, listBuf, hand, eventBuf, eventFree,
                       call, goal, ret>>
    BY <1>3 DEF ThreadMeta
  <2>2. CASE UNCHANGED <<tpc, eventStart>>
    BY <2>1, <2>2
  <2>3. CASE tpc' = "recv" /\ eventStart' = TRUE
    <3>1. CASE eventStart
      BY <2>1, <2>3, <3>1
    <3>2. CASE ~eventStart
      <4>1. /\ call = "starting" /\ listBuf = <<>> /\ nFree = CBuf - 1
            /\ ~eventBuf /\ eventFree /\ hand /\ Len(listBuf) = 0
        BY <2>1, <3>2, ListNil
      <4> QED
        BY <2>1, <2>3, <4>1
    <3> QED
      BY <3>1, <3>2
  <2> QED
    BY <1>3, <2>2, <2>3 DEF ThreadMeta
<1>4. CASE ThreadReceives
  BY <1>4 DEF ThreadReceives
<1>5. CASE ThreadEos
  BY <1>5 DEF ThreadEos
<1>6. CASE ThreadGivesUp
  BY <1>6 DEF ThreadGivesUp
<1>7. CASE ThreadFull
  BY <1>7 DEF ThreadFull
<1>8. CASE ThreadTests
  BY <1>8 DEF ThreadTests
<1>9. CASE ThreadAdds
  <2>1. /\ IsList(listBuf') /\ Len(listBuf') = Len(listBuf) + 1
        /\ Len(listBuf) \in Nat /\ listBuf' # <<>>
    BY <1>9, ListAppend DEF ThreadAdds
  <2>2. /\ tpc = "put" /\ tpc' = "added" /\ hand' = FALSE
        /\ call # "copied"
        /\ UNCHANGED <<fStop, nFree, events, calling>>
    BY <1>9 DEF ThreadAdds
  <2>3. Types'
    BY <2>1, <2>2
  <2>4. CallInv'
    BY <2>1, <2>2
  <2>5. LifeInv'
    BY <2>1, <2>2
  <2>6. BuffersConserved'
    BY <2>1, <2>2
  <2> QED
    BY <2>1, <2>2, <2>3, <2>4, <2>5, <2>6
<1>10. CASE ThreadAdded
  BY <1>10 DEF ThreadAdded
<1>11. CASE ThreadWaits
  BY <1>11 DEF ThreadWaits
<1>12. CASE ThreadTakes
  BY <1>12 DEF ThreadTakes
<1>13. CASE ThreadTaken
  BY <1>13 DEF ThreadTaken
<1>14. CASE ThreadDone
  BY <1>14 DEF ThreadDone
<1> QED
  BY <1>1, <1>2, <1>3, <1>4, <1>5, <1>6, <1>7, <1>8, <1>9, <1>10, <1>11,
     <1>12, <1>13, <1>14 DEF ReceiverThread

-----------------------------------------------------------------------------
(***************************************************************************)
(* The client's calls.                                                     *)
(***************************************************************************)

\* A call begins: Disconnect or Connect,
LEMMA BeginDisconnectInv ==
    ASSUME RInv, NEW for \in {"connect", "disconnect"}, BeginDisconnect(for),
           \/ net' = "connecting" /\ for = "connect"
           \/ net' \in {"dropping", "closing"} /\ for = "disconnect"
    PROVE  RInv'
<1> USE BufferAssumption, ListNil, ListLength
    DEF RInv, Types, CallInv, LifeInv, ExchangeInv, TakenIsThere, Exchanging,
        BuffersConserved, ThreadInLists, ClientInLists, Running, Open,
        Reading, Leaving, lists, filling, events, server, reading, calling,
        rvars, pvars, place, Session
<1>1. CASE tpc = "none"
  BY <1>1 DEF BeginDisconnect
<1>2. CASE tpc # "none"
  BY <1>2 DEF BeginDisconnect
<1> QED
  BY <1>1, <1>2

\* or Read.
LEMMA BeginReadInv ==
    ASSUME RInv, NEW n, BeginRead(n),
           \/ net = "probe" /\ net' = "probing"
           \/ net = "read" /\ net' = "reading"
    PROVE  RInv'
<1> USE BufferAssumption, ListNil, ListLength
    DEF RInv, Types, CallInv, LifeInv, ExchangeInv, TakenIsThere, Exchanging,
        BuffersConserved, ThreadInLists, ClientInLists, Running, Open,
        Reading, Leaving, lists, filling, events, server, reading, calling,
        rvars, pvars, place, Session
<1> QED
  BY DEF BeginRead

\* every step of a call of its client,
LEMMA CallStepInv ==
    ASSUME RInv, Call, UNCHANGED pvars
    PROVE  RInv'
<1> USE BufferAssumption, ListNil, ListLength
    DEF RInv, Types, CallInv, LifeInv, ExchangeInv, TakenIsThere, Exchanging,
        BuffersConserved, ThreadInLists, ClientInLists, Running, Open,
        Reading, Leaving, lists, filling, events, server, reading, calling,
        rvars, pvars, place, Returns, NoBuffers, NewBuffers, Session
<1>1. CASE WakeThread
  BY <1>1 DEF WakeThread
<1>2. CASE Disconnected
  BY <1>2 DEF Disconnected
<1>3. CASE StartThread
  BY <1>3 DEF StartThread
<1>4. CASE Started
  BY <1>4 DEF Started
<1>5. CASE NotStarted
  BY <1>5 DEF NotStarted
<1>6. CASE ReadWaits
  BY <1>6 DEF ReadWaits
<1>7. CASE ReadTimesOut
  BY <1>7 DEF ReadTimesOut
<1>8. CASE ReadTests
  BY <1>8 DEF ReadTests
<1>9. CASE ReadCopies
  <2> DEFINE buf == listBuf[1]
             room == Len(buf.data) - buf.used
             cb == IF room < want - got THEN room ELSE want - got
  <2>1. /\ call = "copy" /\ call' = "copied"
        /\ tpc \notin {"taken", "added"}
        /\ UNCHANGED <<tpc, fStop, hand, eventStart, eventBuf, goal, ret>>
    BY <1>9 DEF ReadCopies
  <2>2. Len(listBuf) \in Nat /\ Len(listBuf) > 0 /\ eventBuf
    BY <2>1
  <2>3. CASE /\ listBuf' = Tail(listBuf)
             /\ nFree' = nFree + 1
             /\ eventFree' = TRUE
    <3>1. IsList(listBuf') /\ Len(listBuf') = Len(listBuf) - 1
      BY <2>1, <2>3, ListTail
    <3>2. nFree' = nFree + 1 /\ eventFree' = TRUE
      BY <2>3
    <3> QED
      BY <2>1, <2>2, <3>1, <3>2
  <2>4. CASE /\ listBuf' = [listBuf EXCEPT ![1].used = @ + cb]
             /\ UNCHANGED <<nFree, eventFree>>
    <3>1. IsList(listBuf') /\ Len(listBuf') = Len(listBuf)
      BY <2>1, <2>4, ListUse
    <3>2. UNCHANGED <<nFree, eventFree>>
      BY <2>4
    <3> QED
      BY <2>1, <2>2, <3>1, <3>2
  <2> QED
    BY <1>9, <2>3, <2>4 DEF ReadCopies
<1>10. CASE ReadCopied
  BY <1>10 DEF ReadCopied
<1>11. CASE StartThreadFails
  BY <1>11 DEF StartThreadFails
<1> QED
  BY <1>1, <1>2, <1>3, <1>4, <1>5, <1>6, <1>7, <1>8, <1>9, <1>10, <1>11
     DEF Call

-----------------------------------------------------------------------------
(***************************************************************************)
(* The streaming thread, the user and the device.                          *)
(***************************************************************************)

\* A step that leaves the receiver alone has to see to it that the receiver
\* is open when the thread goes on to read.
LEMMA QuietInv ==
    ASSUME RInv, UNCHANGED rvars, call = "none", net' # "connecting",
           net' \in Session => Open
    PROVE  RInv'
BY DEF RInv, Types, CallInv, LifeInv, ExchangeInv, TakenIsThere, Exchanging,
       BuffersConserved, ThreadInLists, ClientInLists, Running, Open,
       Reading, Leaving, lists, filling, events, server, reading, calling,
       rvars

\* A step of another thread that does not touch the receiver either.
LEMMA ElsewhereInv ==
    ASSUME RInv, UNCHANGED rvars, UNCHANGED net
    PROVE  RInv'
BY DEF RInv, Types, CallInv, LifeInv, ExchangeInv, TakenIsThere, Exchanging,
       BuffersConserved, ThreadInLists, ClientInLists, Running, Open,
       Reading, Leaving, lists, filling, events, server, reading, calling,
       rvars

\* and every step of the client's thread.
LEMMA NetInv ==
    ASSUME RInv, NetStreamingThread
    PROVE  RInv'
<1>1. CASE Begin
  BY <1>1, BeginDisconnectInv DEF Begin
<1> USE DEF At, InReceiver, Jump, Goto, place, RInv, CallInv, Session
<1>2. CASE Reconnect
  <2>1. CASE Jump("flush")
    BY <1>2, <2>1, QuietInv DEF Reconnect
  <2>2. CASE BeginDisconnect("disconnect") /\ net' = "dropping"
    BY <2>2, BeginDisconnectInv
  <2> QED
    BY <1>2, <2>1, <2>2 DEF Reconnect
<1>3. CASE ConnectAgain
  BY <1>3, BeginDisconnectInv DEF ConnectAgain
<1>4. CASE Close \/ CloseAll
  BY <1>4, BeginDisconnectInv DEF Close, CloseAll, Closes
<1>5. CASE Probe
  BY <1>5, BeginReadInv DEF Probe
<1>6. CASE ReadStream
  BY <1>6, BeginReadInv DEF ReadStream
<1>7. CASE Connected
  BY <1>7, QuietInv DEF Connected
<1>8. CASE Prebuffered
  BY <1>8, QuietInv DEF Prebuffered
<1>9. CASE Probed
  BY <1>9, QuietInv DEF Probed
<1>10. CASE Prepare
  BY <1>10, QuietInv DEF Prepare
<1>11. CASE Reuse
  BY <1>11, QuietInv DEF Reuse, Opening, Prepared
<1>12. CASE OpenNew
  BY <1>12, QuietInv DEF OpenNew, Opening, Prepared
<1>13. CASE Reopen
  BY <1>13, QuietInv DEF Reopen, Opening
<1>14. CASE Reopened
  BY <1>14, QuietInv DEF Reopened, Prepared
<1>15. CASE Playing
  BY <1>15, QuietInv DEF Playing
<1>16. CASE Loop
  BY <1>16, QuietInv DEF Loop
<1>17. CASE Drain
  BY <1>17, QuietInv DEF Drain
<1>18. CASE Resume
  BY <1>18, QuietInv DEF Resume
<1>19. CASE StreamRead
  BY <1>19, QuietInv DEF StreamRead
<1>20. CASE Rendered
  BY <1>20, QuietInv DEF Rendered
<1>21. CASE NeedsBuffer
  BY <1>21, QuietInv DEF NeedsBuffer
<1>22. CASE Put
  BY <1>22, QuietInv DEF Put
<1>23. CASE PutNothing
  BY <1>23, QuietInv DEF PutNothing
<1>24. CASE Count
  BY <1>24, QuietInv DEF Count
<1>25. CASE Test
  BY <1>25, QuietInv DEF Test, PutsOut
<1>26. CASE Start
  BY <1>26, QuietInv DEF Start, PutsOut
<1>27. CASE GetBuffer
  BY <1>27, QuietInv DEF GetBuffer
<1>28. CASE Flush
  BY <1>28, QuietInv DEF Flush
<1>29. CASE Flushing
  BY <1>29, QuietInv DEF Flushing
<1>30. CASE Unprepared
  BY <1>30, QuietInv DEF Unprepared
<1> QED
  BY <1>1, <1>2, <1>3, <1>4, <1>5, <1>6, <1>7, <1>8, <1>9, <1>10, <1>11,
     <1>12, <1>13, <1>14, <1>15, <1>16, <1>17, <1>18, <1>19, <1>20, <1>21,
     <1>22, <1>23, <1>24, <1>25, <1>26, <1>27, <1>28, <1>29, <1>30
     DEF NetStreamingThread, PreparePlayback, Rendering, UnpreparePlayback

\* Stop of the receiver sets m_fStop, whoever calls it and when.
LEMMA StopReceiverInv ==
    ASSUME RInv, StopReceiver, UNCHANGED net
    PROVE  RInv'
BY DEF StopReceiver, RInv, Types, CallInv, LifeInv, ExchangeInv, TakenIsThere,
       Exchanging, BuffersConserved, ThreadInLists, ClientInLists, Running,
       Open, Reading, Leaving, lists, filling, events, server, reading,
       calling

\* The user's thread changes net when no call is in progress.
LEMMA UserInv ==
    ASSUME RInv, Play \/ Stop \/ Stopping \/ Device
    PROVE  RInv'
<1>1. CASE Play
  <2>1. call = "none"
    BY <1>1 DEF Play, RInv, Types, CallInv, Reading, Leaving
  <2> QED
    BY <1>1, <2>1, QuietInv DEF Play, Session
<1>2. CASE Stop \/ StopBegins
  BY <1>2, ElsewhereInv DEF Stop, StopBegins, UiGoto, place
<1>3. CASE StopsReceiver
  BY <1>3, StopReceiverInv DEF StopsReceiver, UiGoto, place
<1>4. CASE StopsOutput \/ StopHasReset
  BY <1>4, ElsewhereInv DEF StopsOutput, StopHasReset, UiGoto, place
<1>5. CASE Stopped
  <2>1. call = "none"
    BY <1>5 DEF Stopped, RInv, Types, CallInv, Reading, Leaving
  <2> QED
    BY <1>5, <2>1, QuietInv DEF Stopped, Session
<1>6. CASE Device
  BY <1>6, ElsewhereInv
     DEF Device, BufferPlayed, WaveWakes, WaveFills, place
<1> QED
  BY <1>1, <1>2, <1>3, <1>4, <1>5, <1>6 DEF Stopping

\* The invariant is inductive.
LEMMA StepInv == RInv /\ [Next]_vars => RInv'
<1> SUFFICES ASSUME RInv, [Next]_vars PROVE RInv'
  OBVIOUS
<1>1. CASE ReceiverThread /\ UNCHANGED pvars
  BY <1>1, ThreadInv
<1>2. CASE Call /\ UNCHANGED pvars
  BY <1>2, CallStepInv
<1>3. CASE NetStreamingThread
  BY <1>3, NetInv
<1>4. CASE Play \/ Stop \/ Stopping \/ Device
  BY <1>4, UserInv
<1>5. CASE UNCHANGED vars
  BY <1>5, ElsewhereInv DEF vars, pvars, place
<1> QED
  BY <1>1, <1>2, <1>3, <1>4, <1>5 DEF Next

-----------------------------------------------------------------------------
\* For any number of buffers, of any size, and whatever the servers send, the
\* events tell the truth about the lists (Receiver.cpp:140-153, 329-335,
\* 372-375).
THEOREM EventsTrueCorrect == Spec => []EventsTrue
<1>1. RInv => EventsTrue
  BY DEF RInv, Types, ExchangeInv, EventsTrue, ThreadInLists, ClientInLists
<1> QED
  BY <1>1, InitInv, StepInv, PTL DEF Spec

\* No buffer is lost or doubled while a connection lasts.
THEOREM BuffersConservedCorrect == Spec => []BuffersConserved
<1>1. RInv => BuffersConserved
  BY DEF RInv, ExchangeInv
<1> QED
  BY <1>1, InitInv, StepInv, PTL DEF Spec

\* CMultiBuff is never asked for the first element of an empty list.
THEOREM TakenIsThereCorrect == Spec => []TakenIsThere
<1>1. RInv => TakenIsThere
  BY DEF RInv, ExchangeInv
<1> QED
  BY <1>1, InitInv, StepInv, PTL DEF Spec

-----------------------------------------------------------------------------
(***************************************************************************)
(* That Read delivers the audio of a stream, whole and in order, and the   *)
(* type invariant of Streaming.                                            *)
(*                                                                         *)
(* The audio on its way is what is left of the filled buffers and what is  *)
(* in the thread's hand.  The invariant says that it goes on where Read    *)
(* has stopped, that nothing but metadata lies between its end and the     *)
(* bytes CheckMetaData has not looked at, and that m_cbMetaDataInterval    *)
(* says where the next block of metadata is.                               *)
(***************************************************************************)
Buffers == [data : Seq(Nat), used : Nat]

\* The thread is connected and may still hand over audio.
Receiving == tpc \notin {"none", "connect", "done", "ended"}

ATypes ==
    /\ {sock, shoutcast, gap, torn} \subseteq BOOLEAN
    /\ listBuf \in Seq(Buffers)
    /\ fill \in Seq(Nat) /\ chunk \in Seq(Nat)
    /\ interval \in Int
    /\ stream \in Streams /\ pos \in 0..Len(stream.bytes)
    /\ want \in Nat /\ got \in 0..want /\ last \in Nat

\* The audio of s follows position p.
Follows(s, p) ==
    \A i \in 1..Len(s) : IsNextAudio(IF i = 1 THEN p ELSE s[i - 1], s[i])

\* The position that precedes what the thread has in hand, and the last one
\* that was kept.
Before == IF listBuf = <<>> THEN last
          ELSE listBuf[Len(listBuf)].data[Len(listBuf[Len(listBuf)].data)]
Kept == IF fill = <<>> THEN Before ELSE fill[Len(fill)]

\* How much CheckMetaData has looked at
Looked == pos - Len(chunk)

\* What the interval k says of the bytes after position p
AlignedBy(lengths, p, k) ==
    /\ \A q \in lengths : MetaBlock(stream, lengths, q)
    /\ k >= 0 =>
         /\ \A q \in 1..Len(stream.bytes) :
               p < q /\ q <= p + k => stream.bytes[q].audio
         /\ p + k + 1 <= Len(stream.bytes) => p + k + 1 \in lengths
    /\ k < 0 =>
         /\ \A q \in 1..Len(stream.bytes) :
               p < q /\ q <= p - k => ~stream.bytes[q].audio
         /\ AudioRun(stream, lengths, p - k + 1)

Aligned(p, k) ==
    stream.meta # 0 =>
        \E lengths \in SUBSET (1..Len(stream.bytes)) : AlignedBy(lengths, p, k)

\* Which parts of the way are empty
EmptyInv ==
    /\ tpc = "connect" => last = 0
    /\ tpc \in {"none", "connect"} => listBuf = <<>>
    /\ tpc \in {"added", "wait", "take", "taken"} => fill = <<>>
    /\ tpc = "put" => fill # <<>>
    /\ Receiving /\ tpc # "meta" => chunk = <<>>
    /\ call \in {"read", "timedOut", "copy"} => got < want
    /\ \A i \in 1..Len(listBuf) :
         /\ listBuf[i].used < Len(listBuf[i].data)
         /\ i > 1 => listBuf[i].used = 0

\* The filled buffers go on where Read has stopped.
ListInv ==
    \A i \in 1..Len(listBuf) :
      \A j \in (listBuf[i].used + 1)..Len(listBuf[i].data) :
        IsNextAudio(IF j > listBuf[i].used + 1 THEN listBuf[i].data[j - 1]
                    ELSE IF i = 1 THEN last
                    ELSE listBuf[i - 1].data[Len(listBuf[i - 1].data)],
                    listBuf[i].data[j])

\* The buffer in hand goes on where they end, up to what was looked at.
FillInv ==
    /\ Follows(fill, Before)
    /\ Kept <= Looked
    /\ \A p \in (Kept + 1)..Looked : ~stream.bytes[p].audio

ChunkInv ==
    /\ Looked >= 0
    /\ \A i \in 1..Len(chunk) : chunk[i] = Looked + i

AInv ==
    /\ ATypes
    /\ EmptyInv
    /\ gap => torn
    /\ ~torn => ListInv
    /\ Receiving => ChunkInv
    /\ Receiving /\ ~torn => FillInv /\ Aligned(Looked, interval)
-----------------------------------------------------------------------------
(***************************************************************************)
(* Streams, and sequences of positions.                                    *)
(***************************************************************************)

\* A block of metadata has a length byte at least.
LEMMA BlockSizeNat ==
    ASSUME NEW s, s.bytes \in Seq([audio : BOOLEAN, val : Nat]),
           NEW p \in 1..Len(s.bytes)
    PROVE  BlockSize(s, p) \in Nat /\ BlockSize(s, p) >= 1
<1>1. s.bytes[p].val \in Nat
  <2>1. s.bytes[p] \in [audio : BOOLEAN, val : Nat]
    BY ElementOfSeq
  <2> QED
    BY <2>1
<1>2. \A a, b \in Nat : a * b \in Nat
  OBVIOUS
<1>3. s.bytes[p].val * MetaUnit \in Nat
  BY <1>1, <1>2, BufferAssumption
<1> QED
  BY <1>3 DEF BlockSize

\* What recv brings and CheckMetaData keeps or drops of it.
LEMMA Piece ==
    ASSUME NEW s \in Seq(Nat), NEW m \in 0..Len(s)
    PROVE  /\ Keep(s, m) \in Seq(Nat) /\ Len(Keep(s, m)) = m
           /\ \A i \in 1..m : Keep(s, m)[i] = s[i]
           /\ Drop(s, m) \in Seq(Nat) /\ Len(Drop(s, m)) = Len(s) - m
           /\ \A i \in 1..(Len(s) - m) : Drop(s, m)[i] = s[m + i]
<1>1. Len(s) \in Nat /\ \A i \in 1..Len(s) : s[i] \in Nat
  BY LenProperties, ElementOfSeq
<1>2. /\ Keep(s, m) \in Seq(Nat) /\ Len(Keep(s, m)) = m
      /\ \A i \in 1..m : Keep(s, m)[i] = s[i]
  BY <1>1, SubSeqProperties DEF Keep
<1>3. /\ Drop(s, m) \in Seq(Nat) /\ Len(Drop(s, m)) = Len(s) - m
      /\ \A i \in 1..(Len(s) - m) : Drop(s, m)[i] = s[m + i]
  BY <1>1, SubSeqProperties DEF Drop
<1> QED
  BY <1>2, <1>3

\* Nothing and everything are pieces too.
LEMMA Ends ==
    ASSUME NEW s \in Seq(Nat)
    PROVE  /\ Keep(s, 0) = <<>> /\ Keep(s, Len(s)) = s
           /\ Drop(s, Len(s)) = <<>>
<1>1. Len(s) \in Nat
  BY LenProperties
<1>2. Keep(s, 0) = <<>>
  BY SubSeqEmpty DEF Keep
<1>3. Keep(s, Len(s)) = s
  BY SubSeqFull DEF Keep
<1>4. Drop(s, Len(s)) = <<>>
  BY <1>1, SubSeqEmpty DEF Drop
<1> QED
  BY <1>2, <1>3, <1>4

\* Each buffer of the list is one that ATypes describes.
LEMMA ListType ==
    ASSUME ATypes
    PROVE  /\ Len(listBuf) \in Nat /\ (listBuf = <<>> <=> Len(listBuf) = 0)
           /\ \A i \in 1..Len(listBuf) :
                 /\ listBuf[i].data \in Seq(Nat) /\ listBuf[i].used \in Nat
                 /\ Len(listBuf[i].data) \in Nat
                 /\ \A j \in 1..Len(listBuf[i].data) :
                       listBuf[i].data[j] \in Nat
<1>1. listBuf \in Seq(Buffers)
  BY DEF ATypes
<1>2. Len(listBuf) \in Nat /\ (listBuf = <<>> <=> Len(listBuf) = 0)
  BY <1>1, LenProperties, EmptySeq
<1>3. ASSUME NEW i \in 1..Len(listBuf)
      PROVE  /\ listBuf[i].data \in Seq(Nat) /\ listBuf[i].used \in Nat
             /\ Len(listBuf[i].data) \in Nat
             /\ \A j \in 1..Len(listBuf[i].data) : listBuf[i].data[j] \in Nat
  <2>1. listBuf[i] \in Buffers
    BY <1>1, ElementOfSeq
  <2>2. listBuf[i].data \in Seq(Nat) /\ listBuf[i].used \in Nat
    BY <2>1 DEF Buffers
  <2> QED
    BY <2>2, LenProperties, ElementOfSeq
<1> QED
  BY <1>2, <1>3

\* The positions of Before and Kept are numbers.
LEMMA KeptNat ==
    ASSUME ATypes, EmptyInv
    PROVE  Before \in Nat /\ Kept \in Nat
<1>1. listBuf = <<>> => Before \in Nat
  BY DEF ATypes, Before
<1>2. ASSUME listBuf # <<>> PROVE Before \in Nat
  <2>1. Len(listBuf) \in 1..Len(listBuf)
    BY <1>2, ListType
  <2>2. /\ Len(listBuf[Len(listBuf)].data) \in Nat
        /\ listBuf[Len(listBuf)].used \in Nat
        /\ listBuf[Len(listBuf)].used < Len(listBuf[Len(listBuf)].data)
    BY <2>1, ListType DEF EmptyInv
  <2> QED
    BY <1>2, <2>1, <2>2, ListType DEF Before
<1>3. Before \in Nat
  BY <1>1, <1>2
<1>4. fill # <<>> => Len(fill) \in 1..Len(fill)
  BY LenProperties, EmptySeq DEF ATypes
<1>5. fill # <<>> => fill[Len(fill)] \in Nat
  BY <1>4, ElementOfSeq DEF ATypes
<1> QED
  BY <1>3, <1>5 DEF Kept

\* A buffer in hand to which m bytes of the chunk are added, when the bytes up
\* to n are looked at.
LEMMA FillStep ==
    ASSUME ATypes, EmptyInv, ChunkInv, FillInv,
           NEW m \in 0..Len(chunk), NEW n \in m..Len(chunk),
           fill' = fill \o Keep(chunk, m), chunk' = Drop(chunk, n),
           UNCHANGED <<listBuf, last, stream, pos>>,
           \A i \in 1..m : stream.bytes[Looked + i].audio,
           \A i \in (m + 1)..n : ~stream.bytes[Looked + i].audio
    PROVE  FillInv'
<1> DEFINE keep == Keep(chunk, m)
<1>1. Len(chunk) \in Nat /\ chunk \in Seq(Nat) /\ fill \in Seq(Nat)
  BY LenProperties DEF ATypes
<1>2. pos \in Nat /\ Looked \in Nat /\ Looked = pos - Len(chunk)
  <2>1. Len(stream.bytes) \in Nat
    BY StreamsAssumption, LenProperties DEF ATypes, IsStream
  <2> QED
    BY <1>1, <2>1 DEF ATypes, Looked, ChunkInv
<1>3. /\ keep \in Seq(Nat) /\ Len(keep) = m
      /\ \A i \in 1..m : keep[i] = chunk[i]
  BY <1>1, Piece
<1> fill' = fill \o keep
  OBVIOUS
<1> HIDE DEF keep
<1>4. Len(chunk') = Len(chunk) - n
  BY <1>1, Piece
<1>5. \A i \in 1..m : keep[i] = Looked + i
  <2> SUFFICES ASSUME NEW i \in 1..m PROVE keep[i] = Looked + i
    OBVIOUS
  <2>1. i \in 1..Len(chunk)
    BY <1>1
  <2>2. keep[i] = chunk[i]
    BY <1>3
  <2> QED
    BY <2>1, <2>2 DEF ChunkInv
<1>6. Looked' = Looked + n
  BY <1>1, <1>2, <1>4 DEF Looked
<1>7. Before' = Before
  BY DEF Before
<1>8. /\ fill' \in Seq(Nat) /\ Len(fill') = Len(fill) + m
      /\ \A i \in 1..(Len(fill) + m) :
            fill'[i] = IF i <= Len(fill) THEN fill[i] ELSE keep[i - Len(fill)]
  <2>1. /\ fill \o keep \in Seq(Nat)
        /\ Len(fill \o keep) = Len(fill) + Len(keep)
        /\ \A i \in 1..(Len(fill) + Len(keep)) : (fill \o keep)[i] =
               IF i <= Len(fill) THEN fill[i] ELSE keep[i - Len(fill)]
    BY <1>1, <1>3, ConcatProperties
  <2> QED
    BY <2>1, <1>3
<1>9. Len(fill) \in Nat /\ (fill = <<>> <=> Len(fill) = 0)
      /\ (fill' = <<>> <=> Len(fill') = 0)
  BY <1>1, <1>8, LenProperties, EmptySeq
<1>10. Kept' = IF m = 0 THEN Kept ELSE Looked + m
  BY <1>5, <1>7, <1>8, <1>9 DEF Kept
<1>11. /\ Kept \in Nat /\ Before \in Nat /\ Kept <= Looked
       /\ \A p \in (Kept + 1)..Looked : ~stream.bytes[p].audio
  BY KeptNat DEF FillInv
<1>12. /\ Kept' <= Looked'
       /\ \A p \in (Kept' + 1)..Looked' : ~stream'.bytes[p].audio
  <2> SUFFICES ASSUME NEW p \in (Kept' + 1)..Looked'
               PROVE  ~stream.bytes[p].audio
    BY <1>2, <1>6, <1>10, <1>11
  <2>1. CASE p <= Looked
    BY <2>1, <1>2, <1>10, <1>11
  <2>2. CASE p > Looked
    <3>1. p - Looked \in (m + 1)..n /\ p = Looked + (p - Looked)
      BY <2>2, <1>2, <1>6, <1>10, <1>11
    <3> QED
      BY <3>1
  <2> QED
    BY <2>1, <2>2, <1>2, <1>6, <1>10, <1>11
<1>13. Follows(fill, Before)'
  <2> SUFFICES ASSUME NEW i \in 1..Len(fill')
               PROVE  IsNextAudio(IF i = 1 THEN Before ELSE fill'[i - 1],
                                  fill'[i])
    BY <1>7 DEF Follows, IsNextAudio
  <2>1. CASE i <= Len(fill)
    <3>1. IsNextAudio(IF i = 1 THEN Before ELSE fill[i - 1], fill[i])
      BY <2>1, <1>9 DEF FillInv, Follows
    <3> QED
      BY <2>1, <3>1, <1>8, <1>9
  <2>2. CASE i = Len(fill) + 1
    <3>1. m > 0 /\ fill'[i] = Looked + 1
      BY <2>2, <1>5, <1>8, <1>9
    <3>2. (IF i = 1 THEN Before ELSE fill'[i - 1]) = Kept
      BY <2>2, <1>8, <1>9 DEF Kept
    <3>3. IsNextAudio(Kept, Looked + 1)
      BY <3>1, <1>2, <1>11 DEF IsNextAudio
    <3> QED
      BY <3>1, <3>2, <3>3
  <2>3. CASE i > Len(fill) + 1
    <3> DEFINE k == i - Len(fill)
    <3>1. k \in 2..m /\ fill'[i] = Looked + k /\ fill'[i - 1] = Looked + (k - 1)
      BY <2>3, <1>5, <1>8, <1>9
    <3>2. IsNextAudio(Looked + (k - 1), Looked + k)
      <4>1. stream.bytes[Looked + k].audio
        BY <3>1
      <4>2. \A x \in (Looked + (k - 1) + 1)..(Looked + k - 1) : FALSE
        BY <3>1, <1>2
      <4> QED
        BY <3>1, <1>2, <4>1, <4>2 DEF IsNextAudio
    <3> QED
      BY <2>3, <3>1, <3>2, <1>9
  <2>4. i \in Nat /\ Len(fill) \in Nat
    BY <1>1, <1>8, <1>9
  <2> QED
    BY <2>1, <2>2, <2>3, <2>4
<1> QED
  BY <1>12, <1>13 DEF FillInv

-----------------------------------------------------------------------------
(***************************************************************************)
(* CheckMetaData.                                                          *)
(***************************************************************************)

\* The bytes of the chunk are bytes of the stream.
LEMMA ChunkBytes ==
    ASSUME ATypes, ChunkInv
    PROVE  /\ Looked \in Nat /\ Len(chunk) \in Nat /\ chunk \in Seq(Nat)
           /\ IsStream(stream) /\ Len(stream.bytes) \in Nat
           /\ Looked + Len(chunk) <= Len(stream.bytes)
           /\ \A i \in 1..Len(chunk) :
                 chunk[i] = Looked + i /\ Looked + i \in 1..Len(stream.bytes)
<1>1. IsStream(stream) /\ Len(stream.bytes) \in Nat
  BY StreamsAssumption, LenProperties DEF ATypes, IsStream
<1>2. Len(chunk) \in Nat /\ chunk \in Seq(Nat)
  BY LenProperties DEF ATypes
<1>3. /\ pos \in Nat /\ pos <= Len(stream.bytes)
      /\ Looked = pos - Len(chunk) /\ Looked >= 0
  BY <1>1 DEF ATypes, ChunkInv, Looked
<1> QED
  BY <1>1, <1>2, <1>3 DEF ChunkInv

\* Within the audio and within a block the interval is a distance.
LEMMA AlignedAudio ==
    ASSUME NEW p \in Nat, NEW k \in Nat, NEW n \in 0..k,
           Aligned(p, k), stream.meta # 0
    PROVE  /\ \A q \in 1..Len(stream.bytes) :
                 p < q /\ q <= p + n => stream.bytes[q].audio
           /\ Aligned(p + n, k - n)
<1>1. PICK lengths \in SUBSET (1..Len(stream.bytes)) : AlignedBy(lengths, p, k)
  BY DEF Aligned
<1>2. \A q \in 1..Len(stream.bytes) :
        p < q /\ q <= p + k => stream.bytes[q].audio
  BY <1>1 DEF AlignedBy
<1>3. PICK j \in Nat : j = k - n
  OBVIOUS
<1>4. PICK r \in Nat : r = p + n
  OBVIOUS
<1>5. n \in Nat /\ r + j = p + k /\ ~(j < 0)
  BY <1>3, <1>4
<1>6. \A q \in 1..Len(stream.bytes) :
        r < q /\ q <= r + j => stream.bytes[q].audio
  BY <1>2, <1>4, <1>5
<1>7. r + j + 1 <= Len(stream.bytes) => r + j + 1 \in lengths
  BY <1>1, <1>5 DEF AlignedBy
<1>8. AlignedBy(lengths, r, j)
  BY <1>1, <1>5, <1>6, <1>7 DEF AlignedBy
<1>9. \A q \in 1..Len(stream.bytes) :
        p < q /\ q <= p + n => stream.bytes[q].audio
  BY <1>2, <1>5
<1> QED
  BY <1>3, <1>4, <1>8, <1>9 DEF Aligned

\* A metadata block lies ahead: nothing of it is audio, and audio begins when
\* it has been passed.
LEMMA AlignedMeta ==
    ASSUME NEW p \in Nat, NEW k \in Int, NEW n \in Nat, k < 0, n <= -k,
           Aligned(p, k), stream.meta \in Nat \ {0}
    PROVE  /\ \A q \in 1..Len(stream.bytes) :
                 p < q /\ q <= p + n => ~stream.bytes[q].audio
           /\ n < -k => Aligned(p + n, k + n)
           /\ n = -k => Aligned(p + n, stream.meta)
<1>1. PICK lengths \in SUBSET (1..Len(stream.bytes)) : AlignedBy(lengths, p, k)
  BY DEF Aligned
<1>2. \A q \in 1..Len(stream.bytes) :
        p < q /\ q <= p + n => ~stream.bytes[q].audio
  BY <1>1 DEF AlignedBy
<1>3. ASSUME n < -k PROVE AlignedBy(lengths, p + n, k + n)
  <2>1. k + n < 0 /\ p + n - (k + n) + 1 = p - k + 1
        /\ p + n - (k + n) = p - k /\ ~(k + n >= 0)
    BY <1>3
  <2> QED
    BY <1>1, <2>1 DEF AlignedBy
<1>4. ASSUME n = -k PROVE AlignedBy(lengths, p + n, stream.meta)
  <2>1. p - k + 1 = p + n + 1
    BY <1>4
  <2>2. AudioRun(stream, lengths, p + n + 1)
    BY <1>1, <2>1 DEF AlignedBy
  <2>3. /\ \A q \in 1..Len(stream.bytes) :
             p + n < q /\ q <= p + n + stream.meta => stream.bytes[q].audio
        /\ p + n + stream.meta + 1 <= Len(stream.bytes)
              => p + n + stream.meta + 1 \in lengths
    BY <2>2 DEF AudioRun
  <2> QED
    BY <1>1, <2>3 DEF AlignedBy
<1> QED
  BY <1>1, <1>2, <1>3, <1>4 DEF Aligned

\* After a run of audio comes the length of a block.
LEMMA AlignedBlock ==
    ASSUME NEW p \in Nat, NEW k \in Nat, Aligned(p, k), stream.meta # 0,
           IsStream(stream), p + k + 1 <= Len(stream.bytes)
    PROVE  Aligned(p + k, -BlockSize(stream, p + k + 1))
<1>1. PICK lengths \in SUBSET (1..Len(stream.bytes)) : AlignedBy(lengths, p, k)
  BY DEF Aligned
<1>2. p + k + 1 \in lengths
  BY <1>1 DEF AlignedBy
<1> DEFINE size == BlockSize(stream, p + k + 1)
<1>3. size \in Nat /\ size >= 1
  BY <1>2, BlockSizeNat DEF IsStream
<1>4. /\ \A q \in 1..Len(stream.bytes) :
           p + k + 1 <= q /\ q < p + k + 1 + size => ~stream.bytes[q].audio
      /\ AudioRun(stream, lengths, p + k + 1 + size)
  BY <1>1, <1>2 DEF AlignedBy, MetaBlock
<1> HIDE DEF size
<1>5. PICK d \in Int : d = -size
  BY <1>3
<1>6. p + k - d + 1 = p + k + 1 + size /\ d < 0 /\ ~(d >= 0)
  BY <1>3, <1>5
<1>7. \A q \in 1..Len(stream.bytes) :
           p + k < q /\ q <= p + k - d => ~stream.bytes[q].audio
  <2> SUFFICES ASSUME NEW q \in 1..Len(stream.bytes),
                      p + k < q, q <= p + k - d
               PROVE  ~stream.bytes[q].audio
    OBVIOUS
  <2>1. p + k + 1 <= q /\ q < p + k + 1 + size
    BY <1>3, <1>5
  <2> QED
    BY <1>4, <2>1
<1>8. AudioRun(stream, lengths, p + k - d + 1)
  BY <1>4, <1>6
<1>9. AlignedBy(lengths, p + k, d)
  BY <1>1, <1>6, <1>7, <1>8 DEF AlignedBy
<1> QED
  BY <1>1, <1>5, <1>9 DEF size, Aligned

\* Of the bytes CheckMetaData looks at in one step, the first m are kept and
\* the others up to n dropped.
Pieces(m, n) ==
    /\ fill' = fill \o Keep(chunk, m) /\ chunk' = Drop(chunk, n)
    /\ ~torn' /\ Aligned(Looked, interval) =>
          /\ \A i \in 1..m : stream.bytes[Looked + i].audio
          /\ \A i \in (m + 1)..n : ~stream.bytes[Looked + i].audio
          /\ Aligned(Looked + n, interval')

\* How a step shows what its pieces are
LEMMA MakePieces ==
    ASSUME ATypes, ChunkInv,
           NEW m \in 0..Len(chunk), NEW n \in m..Len(chunk),
           fill' = fill \o Keep(chunk, m), chunk' = Drop(chunk, n),
           ~torn' /\ Aligned(Looked, interval) =>
             /\ \A q \in 1..Len(stream.bytes) :
                   Looked < q /\ q <= Looked + m => stream.bytes[q].audio
             /\ \A q \in 1..Len(stream.bytes) :
                   Looked + m < q /\ q <= Looked + n => ~stream.bytes[q].audio
             /\ Aligned(Looked + n, interval')
    PROVE  Pieces(m, n)
<1>1. /\ Looked \in Nat /\ Len(chunk) \in Nat
      /\ \A i \in 1..Len(chunk) : Looked + i \in 1..Len(stream.bytes)
  BY ChunkBytes
<1>2. ASSUME ~torn', Aligned(Looked, interval)
      PROVE  /\ \A i \in 1..m : stream.bytes[Looked + i].audio
             /\ \A i \in (m + 1)..n : ~stream.bytes[Looked + i].audio
             /\ Aligned(Looked + n, interval')
  <2>1. ASSUME NEW i \in 1..m PROVE stream.bytes[Looked + i].audio
    <3>1. /\ Looked + i \in 1..Len(stream.bytes)
          /\ Looked < Looked + i /\ Looked + i <= Looked + m
      BY <1>1
    <3> QED
      BY <1>2, <3>1
  <2>2. ASSUME NEW i \in (m + 1)..n PROVE ~stream.bytes[Looked + i].audio
    <3>1. /\ Looked + i \in 1..Len(stream.bytes)
          /\ Looked + m < Looked + i /\ Looked + i <= Looked + n
      BY <1>1
    <3> QED
      BY <1>2, <3>1
  <2> QED
    BY <1>2, <2>1, <2>2
<1> QED
  BY <1>2 DEF Pieces

\* Every step of CheckMetaData has its pieces.
LEMMA MetaPieces ==
    ASSUME ATypes, ChunkInv, ThreadMeta
    PROVE  /\ interval' \in Int /\ torn' \in BOOLEAN /\ (torn => torn')
           /\ \E m \in 0..Len(chunk) : \E n \in m..Len(chunk) : Pieces(m, n)
<1> DEFINE L == Len(stream.bytes)
           N == Len(chunk)
<1>1. /\ Looked \in Nat /\ N \in Nat /\ chunk \in Seq(Nat)
      /\ IsStream(stream) /\ L \in Nat /\ Looked + N <= L
      /\ \A i \in 1..N : chunk[i] = Looked + i /\ Looked + i \in 1..L
  BY ChunkBytes
<1>2. /\ interval \in Int /\ torn \in BOOLEAN /\ stream.meta \in Nat
      /\ fill \in Seq(Nat)
  BY <1>1 DEF ATypes, IsStream
<1>3. /\ Keep(chunk, 0) = <<>> /\ Keep(chunk, N) = chunk
      /\ Drop(chunk, N) = <<>> /\ fill \o <<>> = fill
  BY <1>1, <1>2, Ends, ConcatEmptySeq
<1>4. CASE stream.meta = 0 /\ MetaStep(chunk, <<>>, 0) /\ UNCHANGED torn
  <2>1. \A q \in 1..L : stream.bytes[q].audio
    BY <1>1, <1>4 DEF IsStream
  <2>2. /\ fill' = fill \o Keep(chunk, N) /\ chunk' = Drop(chunk, N)
        /\ interval' = 0
    BY <1>3, <1>4 DEF MetaStep
  <2>3. Aligned(Looked + N, interval')
    BY <1>4 DEF Aligned
  <2>4. /\ N \in 0..N /\ N \in N..N
        /\ \A q \in 1..L : ~(Looked + N < q /\ q <= Looked + N)
    BY <1>1
  <2>5. Pieces(N, N)
    BY <2>1, <2>2, <2>3, <2>4, MakePieces
  <2> QED
    BY <1>2, <1>4, <2>2, <2>4, <2>5
<1>5. CASE stream.meta # 0 /\ MetaContinued
  <2>1. interval < 0 /\ stream.meta \in Nat \ {0}
    BY <1>2, <1>5 DEF MetaContinued
  <2>2. CASE /\ N + interval <= 0
             /\ MetaStep(<<>>, <<>>, interval + N)
             /\ torn' = (torn \/ interval' = 0)
    <3>1. /\ fill' = fill \o Keep(chunk, 0) /\ chunk' = Drop(chunk, N)
          /\ interval' = interval + N
      BY <1>3, <2>2 DEF MetaStep
    <3>2. ASSUME ~torn', Aligned(Looked, interval)
          PROVE  /\ \A q \in 1..L :
                       Looked < q /\ q <= Looked + N => ~stream.bytes[q].audio
                 /\ Aligned(Looked + N, interval')
      <4>1. interval' # 0
        BY <2>2, <3>2
      <4>2. N < -interval /\ N <= -interval
        BY <1>1, <1>2, <2>1, <2>2, <3>1, <4>1
      <4> HIDE DEF L, N
      <4>3. /\ \A q \in 1..Len(stream.bytes) :
                 Looked < q /\ q <= Looked + N => ~stream.bytes[q].audio
            /\ Aligned(Looked + N, interval + N)
        BY <1>1, <1>2, <2>1, <3>2, <4>2, AlignedMeta
      <4> QED
        BY <3>1, <4>3 DEF L
    <3>3. /\ 0 \in 0..N /\ N \in 0..N /\ Looked + 0 = Looked
          /\ \A q \in 1..L : ~(Looked < q /\ q <= Looked + 0)
      BY <1>1
    <3>4. Pieces(0, N)
      BY <3>1, <3>2, <3>3, MakePieces
    <3>5. interval' \in Int /\ torn' \in BOOLEAN /\ (torn => torn')
      BY <1>1, <1>2, <2>2, <3>1
    <3> QED
      BY <3>3, <3>4, <3>5
  <2>3. CASE /\ N + interval > 0
             /\ MetaStep(<<>>, Drop(chunk, -interval), stream.meta)
             /\ UNCHANGED torn
    <3>1. PICK n \in 0..N : n = -interval
      BY <1>1, <1>2, <2>1, <2>3
    <3>2. /\ fill' = fill \o Keep(chunk, 0) /\ chunk' = Drop(chunk, n)
          /\ interval' = stream.meta
      BY <1>3, <2>3, <3>1 DEF MetaStep
    <3>3. ASSUME Aligned(Looked, interval)
          PROVE  /\ \A q \in 1..L :
                       Looked < q /\ q <= Looked + n => ~stream.bytes[q].audio
                 /\ Aligned(Looked + n, interval')
      <4>1. n \in Nat /\ n <= -interval
        BY <1>1, <1>2, <3>1
      <4> QED
        BY <1>1, <1>2, <2>1, <3>1, <3>2, <3>3, <4>1, AlignedMeta
    <3>4. /\ 0 \in 0..N /\ n \in 0..N /\ Looked + 0 = Looked
          /\ \A q \in 1..L : ~(Looked < q /\ q <= Looked + 0)
      BY <1>1
    <3>5. Pieces(0, n)
      BY <3>2, <3>3, <3>4, MakePieces
    <3>6. interval' \in Int /\ torn' \in BOOLEAN /\ (torn => torn')
      BY <1>2, <2>3, <3>2
    <3> QED
      BY <3>4, <3>5, <3>6
  <2> QED
    BY <1>1, <1>2, <1>5, <2>2, <2>3 DEF MetaContinued
<1>6. CASE stream.meta # 0 /\ MetaBegins
  <2> DEFINE size == BlockSize(stream, chunk[interval + 1])
  <2>1. /\ interval \in Nat /\ interval < N
        /\ chunk[interval + 1] = Looked + interval + 1
        /\ Looked + interval + 1 \in 1..L
    BY <1>1, <1>2, <1>6 DEF MetaBegins
  <2>2. size \in Nat /\ size >= 1
    BY <1>1, <2>1, BlockSizeNat DEF IsStream
  <2>3. ASSUME Aligned(Looked, interval)
        PROVE  /\ \A q \in 1..L : Looked < q /\ q <= Looked + interval
                     => stream.bytes[q].audio
               /\ Aligned(Looked + interval, -size)
    <3>1. interval \in 0..interval /\ Looked + interval + 1 <= Len(stream.bytes)
      BY <1>1, <2>1
    <3>2. \A q \in 1..L : Looked < q /\ q <= Looked + interval
                     => stream.bytes[q].audio
      BY <1>1, <1>6, <2>1, <2>3, <3>1, AlignedAudio
    <3>3. Aligned(Looked + interval, -size)
      BY <1>1, <1>6, <2>1, <2>3, <3>1, AlignedBlock
    <3> QED
      BY <3>2, <3>3
  <2>4. /\ UNCHANGED torn
        /\ IF interval + size > N
            THEN MetaStep(Keep(chunk, interval), <<>>, N - interval - size)
            ELSE MetaStep(Keep(chunk, interval), Drop(chunk, interval + size),
                          stream.meta)
    BY <1>6 DEF MetaBegins
  <2> HIDE DEF size
  <2>5. PICK k \in Int : k = -size
    BY <2>2
  <2>6. k < 0 /\ Looked + interval \in Nat /\ stream.meta \in Nat \ {0}
    BY <1>1, <1>2, <1>6, <2>1, <2>2, <2>5
  <2>7. CASE interval + size > N
    <3>1. PICK n \in Nat : n = N - interval
      <4>1. N \in Nat /\ N - interval \in Nat
        BY <1>1, <2>1
      <4> HIDE DEF N, L
      <4> QED
        BY <4>1, Zenon
    <3>2. n < -k /\ n <= -k /\ k + n = N - interval - size
          /\ Looked + interval + n = Looked + N
      BY <1>1, <2>1, <2>2, <2>5, <2>7, <3>1
    <3>3. /\ fill' = fill \o Keep(chunk, interval) /\ chunk' = Drop(chunk, N)
          /\ interval' = N - interval - size
      BY <1>3, <2>4, <2>7 DEF MetaStep
    <3>4. ASSUME Aligned(Looked, interval)
          PROVE  /\ \A q \in 1..L : Looked + interval < q /\ q <= Looked + N
                      => ~stream.bytes[q].audio
                 /\ Aligned(Looked + N, interval')
      <4>1. /\ \A q \in 1..Len(stream.bytes) : Looked + interval < q
                   /\ q <= Looked + interval + n => ~stream.bytes[q].audio
            /\ Aligned(Looked + interval + n, k + n)
        BY <2>3, <2>5, <2>6, <3>2, <3>4, AlignedMeta
      <4> QED
        BY <4>1, <3>2, <3>3
    <3>5. interval \in 0..N /\ N \in interval..N
      BY <1>1, <2>1
    <3>6. Pieces(interval, N)
      BY <2>3, <3>3, <3>4, <3>5, MakePieces
    <3>7. interval' \in Int
      BY <1>1, <2>1, <2>2, <3>3
    <3> QED
      BY <1>2, <2>4, <3>5, <3>6, <3>7
  <2>8. CASE interval + size <= N
    <3>1. PICK n \in Nat : n = interval + size
      BY <2>1, <2>2
    <3>2. /\ fill' = fill \o Keep(chunk, interval) /\ chunk' = Drop(chunk, n)
          /\ interval' = stream.meta
      BY <1>1, <2>1, <2>2, <2>4, <2>8, <3>1 DEF MetaStep
    <3>3. ASSUME Aligned(Looked, interval)
          PROVE  /\ \A q \in 1..L : Looked + interval < q /\ q <= Looked + n
                      => ~stream.bytes[q].audio
                 /\ Aligned(Looked + n, interval')
      <4>1. /\ size <= -k /\ size = -k
            /\ Looked + interval + size = Looked + n
        BY <1>1, <2>1, <2>2, <2>5, <3>1
      <4>2. /\ \A q \in 1..Len(stream.bytes) : Looked + interval < q
                   /\ q <= Looked + interval + size => ~stream.bytes[q].audio
            /\ Aligned(Looked + interval + size, stream.meta)
        BY <2>2, <2>3, <2>5, <2>6, <3>3, <4>1, AlignedMeta
      <4> QED
        BY <4>1, <4>2, <3>2
    <3>4. interval \in 0..N /\ n \in interval..N
      BY <1>1, <2>1, <2>2, <2>8, <3>1
    <3>5. Pieces(interval, n)
      BY <2>3, <3>2, <3>3, <3>4, MakePieces
    <3> QED
      BY <1>2, <2>4, <3>2, <3>4, <3>5
  <2> QED
    BY <1>1, <2>1, <2>2, <2>7, <2>8
<1>7. CASE stream.meta # 0 /\ MetaDone
  <2>1. interval \in Nat /\ N \in 0..interval
    BY <1>1, <1>2, <1>7 DEF MetaDone
  <2>2. MetaStep(chunk, <<>>, interval - N) /\ UNCHANGED torn
    BY <1>7 DEF MetaDone
  <2>3. /\ fill' = fill \o Keep(chunk, N) /\ chunk' = Drop(chunk, N)
        /\ interval' = interval - N
    BY <1>3, <2>2 DEF MetaStep
  <2>4. ASSUME Aligned(Looked, interval)
        PROVE  /\ \A q \in 1..L :
                     Looked < q /\ q <= Looked + N => stream.bytes[q].audio
               /\ Aligned(Looked + N, interval')
    BY <1>1, <1>7, <2>1, <2>3, <2>4, AlignedAudio
  <2>5. /\ N \in 0..N /\ N \in N..N
        /\ \A q \in 1..L : ~(Looked + N < q /\ q <= Looked + N)
    BY <1>1
  <2>6. Pieces(N, N)
    BY <2>3, <2>4, <2>5, MakePieces
  <2>7. interval' \in Int
    BY <1>1, <2>1, <2>3
  <2> QED
    BY <1>2, <2>2, <2>5, <2>6, <2>7
<1> QED
  BY <1>4, <1>5, <1>6, <1>7 DEF ThreadMeta

\* The thread begins, continues or passes a metadata block.
LEMMA MetaInv ==
    ASSUME RInv, AInv, ThreadMeta
    PROVE  AInv'
<1>1. /\ tpc = "meta" /\ hand /\ Receiving /\ ChunkInv
      /\ UNCHANGED <<sock, fStop, fEos, shoutcast, lists, hand, eventBuf,
                     eventFree, server, reading, calling>>
  BY DEF ThreadMeta, RInv, LifeInv, AInv, Receiving
<1>2. UNCHANGED <<sock, shoutcast, listBuf, stream, pos, want, got, last, gap,
                  call>>
  BY <1>1 DEF lists, server, reading, calling
<1>3. ATypes /\ EmptyInv /\ (gap => torn)
  BY DEF AInv
<1>4. /\ interval' \in Int /\ torn' \in BOOLEAN /\ (torn => torn')
      /\ \E m \in 0..Len(chunk) : \E n \in m..Len(chunk) : Pieces(m, n)
  BY <1>1, <1>3, MetaPieces
<1>5. PICK m \in 0..Len(chunk) : \E n \in m..Len(chunk) : Pieces(m, n)
  BY <1>4
<1>6. PICK n \in m..Len(chunk) : Pieces(m, n)
  BY <1>5
<1>7. /\ Looked \in Nat /\ Len(chunk) \in Nat /\ chunk \in Seq(Nat)
      /\ \A i \in 1..Len(chunk) : chunk[i] = Looked + i
  BY <1>1, <1>3, ChunkBytes
<1>8. /\ Keep(chunk, m) \in Seq(Nat) /\ chunk' \in Seq(Nat)
      /\ Len(chunk') = Len(chunk) - n
      /\ \A i \in 1..(Len(chunk) - n) : chunk'[i] = chunk[n + i]
  <2>1. n \in 0..Len(chunk) /\ chunk' = Drop(chunk, n)
    BY <1>6, <1>7 DEF Pieces
  <2>2. Keep(chunk, m) \in Seq(Nat)
    BY <1>7, Piece
  <2> QED
    BY <1>7, <2>1, <2>2, Piece
<1>9. fill' \in Seq(Nat)
  BY <1>3, <1>6, <1>8, ConcatProperties DEF Pieces, ATypes
<1>10. pos \in Nat /\ Looked' = Looked + n
  <2>1. Len(stream.bytes) \in Nat
    BY <1>1, <1>3, ChunkBytes
  <2> QED
    BY <1>2, <1>3, <1>7, <1>8, <2>1 DEF Looked, ATypes
<1>11. ATypes'
  <2>1. ATypes
    BY <1>3
  <2> QED
    BY <1>2, <1>4, <1>8, <1>9, <2>1 DEF ATypes
<1>12. tpc' = "meta" \/ (tpc' = "recv" /\ chunk' = <<>>)
  BY <1>1 DEF ThreadMeta
<1>13. EmptyInv'
  <2>1. EmptyInv
    BY <1>3
  <2> QED
    BY <1>1, <1>2, <1>12, <2>1 DEF EmptyInv, Receiving
<1>14. ~torn' => ListInv'
  BY <1>2, <1>4 DEF AInv, ListInv, IsNextAudio
<1>15. ChunkInv'
  <2>1. Looked' >= 0
    BY <1>7, <1>10
  <2>2. ASSUME NEW i \in 1..Len(chunk') PROVE chunk'[i] = Looked' + i
    <3>1. i \in 1..(Len(chunk) - n) /\ n + i \in 1..Len(chunk)
      BY <1>7, <1>8
    <3>2. chunk'[i] = chunk[n + i] /\ chunk[n + i] = Looked + (n + i)
      BY <1>7, <1>8, <3>1
    <3> QED
      BY <1>7, <1>10, <3>1, <3>2
  <2> QED
    BY <2>1, <2>2 DEF ChunkInv
<1>16. ASSUME ~torn' PROVE FillInv' /\ Aligned(Looked, interval)'
  <2>1. ~torn /\ FillInv /\ Aligned(Looked, interval)
    BY <1>1, <1>4, <1>16 DEF AInv
  <2>2. /\ fill' = fill \o Keep(chunk, m) /\ chunk' = Drop(chunk, n)
        /\ \A i \in 1..m : stream.bytes[Looked + i].audio
        /\ \A i \in (m + 1)..n : ~stream.bytes[Looked + i].audio
        /\ Aligned(Looked + n, interval')
    BY <1>6, <1>16, <2>1 DEF Pieces
  <2>3. FillInv'
    BY <1>1, <1>2, <1>3, <2>1, <2>2, FillStep
  <2>4. Aligned(Looked, interval)'
    BY <1>2, <1>10, <2>2 DEF Aligned, AlignedBy, MetaBlock, AudioRun, BlockSize
  <2> QED
    BY <2>3, <2>4
<1> QED
  BY <1>2, <1>3, <1>4, <1>11, <1>13, <1>14, <1>15, <1>16 DEF AInv

-----------------------------------------------------------------------------
(***************************************************************************)
(* The other steps of the thread.                                          *)
(***************************************************************************)

\* A step that moves no byte
LEMMA SameAudio ==
    ASSUME AInv, EmptyInv', Receiving' => Receiving,
           {sock', shoutcast'} \subseteq BOOLEAN,
           UNCHANGED <<listBuf, fill, chunk, interval, stream, pos, want, got,
                       last, gap, torn>>
    PROVE  AInv'
<1>1. ATypes'
  BY DEF AInv, ATypes
<1>2. ListInv => ListInv'
  BY DEF ListInv, IsNextAudio
<1>3. ChunkInv => ChunkInv'
  BY DEF ChunkInv, Looked
<1>4. FillInv => FillInv'
  BY DEF FillInv, Follows, Before, Kept, Looked, IsNextAudio
<1>5. Aligned(Looked, interval) => Aligned(Looked, interval)'
  BY DEF Aligned, AlignedBy, MetaBlock, AudioRun, BlockSize, Looked
<1> QED
  BY <1>1, <1>2, <1>3, <1>4, <1>5 DEF AInv

\* The thread connects: a stream is at its start, and nothing is received.
LEMMA ConnectsA ==
    ASSUME RInv, AInv, ThreadConnects
    PROVE  AInv'
<1>1. /\ tpc = "connect" /\ tpc' = "meta" /\ sock' = TRUE
      /\ stream' \in Streams /\ shoutcast' \in BOOLEAN
      /\ interval' = stream'.meta /\ fill' = <<>>
      /\ UNCHANGED <<listBuf, want, got, last, gap, torn, call>>
      /\ call = "starting"
  BY DEF ThreadConnects, reading, calling, RInv, LifeInv
<1>2. PICK n \in 0..(BufSize - 1) : /\ n <= Len(stream'.bytes)
                                    /\ pos' = n
                                    /\ chunk' = [i \in 1..n |-> i]
  BY DEF ThreadConnects
<1>3. IsStream(stream') /\ Len(stream'.bytes) \in Nat
  BY <1>1, StreamsAssumption, LenProperties DEF IsStream
<1>4. n \in Nat
  BY BufferAssumption
<1>5. chunk' \in Seq(Nat) /\ Len(chunk') = n /\ \A i \in 1..n : chunk'[i] = i
  <2>1. \A i \in 1..n : i \in Nat
    BY <1>4
  <2> QED
    BY <1>2, <1>4, <2>1, SeqDef
<1>6. last = 0 /\ listBuf = <<>>
  BY <1>1 DEF AInv, EmptyInv
<1>7. fill' \in Seq(Nat) /\ Len(fill') = 0 /\ Len(listBuf) = 0
  BY <1>1, <1>6, EmptySeq
<1>8. ATypes'
  <2>1. interval' \in Int
    BY <1>1, <1>3 DEF IsStream
  <2>2. pos' \in 0..Len(stream'.bytes)
    BY <1>2, <1>3, <1>4
  <2> QED
    BY <1>1, <1>5, <1>7, <2>1, <2>2 DEF AInv, ATypes
<1>9. EmptyInv'
  BY <1>1, <1>7 DEF AInv, EmptyInv, Receiving
<1>10. ListInv'
  BY <1>1, <1>7 DEF ListInv
<1>11. Looked' = 0
  BY <1>2, <1>4, <1>5 DEF Looked
<1>12. ChunkInv'
  <2>1. \A i \in 1..n : i = 0 + i
    BY <1>4
  <2> QED
    BY <1>5, <1>11, <2>1 DEF ChunkInv
<1>13. FillInv'
  <2>1. Before' = 0 /\ Kept' = 0
    BY <1>1, <1>6 DEF Before, Kept
  <2> QED
    BY <1>7, <1>11, <2>1 DEF FillInv, Follows
<1>14. Aligned(Looked, interval)'
  <2> DEFINE s == stream'
  <2> SUFFICES ASSUME s.meta # 0
               PROVE  \E lengths \in SUBSET (1..Len(s.bytes)) :
                         AlignedBy(lengths, Looked, interval)'
    BY DEF Aligned
  <2>1. PICK lengths \in SUBSET (1..Len(s.bytes)) :
            /\ AudioRun(s, lengths, 1)
            /\ \A p \in lengths : MetaBlock(s, lengths, p)
    BY <1>3 DEF IsStream
  <2>2. s.meta \in Nat /\ s.meta >= 0 /\ ~(s.meta < 0)
    BY <1>3 DEF IsStream
  <2>3. \A q \in 1..Len(s.bytes) :
           0 < q /\ q <= 0 + s.meta => s.bytes[q].audio
    BY <2>1, <2>2 DEF AudioRun
  <2>4. 0 + s.meta + 1 <= Len(s.bytes) => 0 + s.meta + 1 \in lengths
    <3>1. 0 + s.meta + 1 = 1 + s.meta
      BY <2>2
    <3> QED
      BY <2>1, <3>1 DEF AudioRun
  <2>5. AlignedBy(lengths, Looked, interval)'
    BY <1>1, <1>11, <2>1, <2>2, <2>3, <2>4
       DEF AlignedBy, MetaBlock, AudioRun, BlockSize
  <2> QED
    BY <2>1, <2>5
<1> QED
  BY <1>1, <1>8, <1>9, <1>10, <1>12, <1>13, <1>14 DEF AInv

\* recv fills part of the buffer with what comes next in the stream.
LEMMA ReceivesA ==
    ASSUME AInv, ThreadReceives
    PROVE  AInv'
<1>1. /\ tpc = "recv" /\ tpc' = "meta" /\ Receiving
      /\ UNCHANGED <<sock, shoutcast, listBuf, fill, interval, stream, want,
                     got, last, gap, torn, call>>
  BY DEF ThreadReceives, lists, reading, calling, Receiving
<1>2. PICK n \in 1..(BufSize - Len(fill)) :
        /\ pos + n <= Len(stream.bytes)
        /\ chunk' = [i \in 1..n |-> pos + i]
        /\ pos' = pos + n
  BY DEF ThreadReceives
<1>3. /\ chunk = <<>> /\ Len(chunk) = 0 /\ Looked \in Nat
      /\ Len(stream.bytes) \in Nat
  BY <1>1, EmptySeq, ChunkBytes DEF AInv, EmptyInv
<1>4. pos \in Nat /\ Looked = pos /\ n \in Nat
  <2>1. Len(fill) \in Nat
    BY LenProperties DEF AInv, ATypes
  <2> QED
    BY <1>3, <2>1, BufferAssumption DEF AInv, ATypes, Looked
<1>5. /\ chunk' \in Seq(Nat) /\ Len(chunk') = n
      /\ \A i \in 1..n : chunk'[i] = pos + i
  <2>1. \A i \in 1..n : pos + i \in Nat
    BY <1>4
  <2> QED
    BY <1>2, <1>4, <2>1, SeqDef
<1>6. Looked' = Looked
  BY <1>2, <1>4, <1>5 DEF Looked
<1>7. ATypes'
  <2>1. pos' \in 0..Len(stream.bytes)
    BY <1>2, <1>3, <1>4
  <2> QED
    BY <1>1, <1>5, <2>1 DEF AInv, ATypes
<1>8. EmptyInv'
  BY <1>1 DEF AInv, EmptyInv, Receiving
<1>9. ListInv => ListInv'
  BY <1>1 DEF ListInv, IsNextAudio
<1>10. ChunkInv'
  BY <1>3, <1>4, <1>5, <1>6 DEF ChunkInv
<1>11. FillInv => FillInv'
  BY <1>1, <1>6 DEF FillInv, Follows, Before, Kept, IsNextAudio
<1>12. Aligned(Looked, interval) => Aligned(Looked, interval)'
  BY <1>1, <1>6 DEF Aligned, AlignedBy, MetaBlock, AudioRun, BlockSize
<1> QED
  BY <1>1, <1>7, <1>8, <1>9, <1>10, <1>11, <1>12 DEF AInv

\* The buffer in hand becomes the last of the list.
LEMMA AddsA ==
    ASSUME AInv, ThreadAdds
    PROVE  AInv'
<1>1. /\ tpc = "put" /\ tpc' = "added" /\ Receiving
      /\ listBuf' = Append(listBuf, Buffer(fill)) /\ fill' = <<>>
      /\ UNCHANGED <<sock, shoutcast, chunk, interval, stream, pos, want, got,
                     last, gap, torn, call>>
  BY DEF ThreadAdds, server, reading, calling, Receiving
<1> DEFINE N == Len(listBuf)
           buf == Buffer(fill)
<1>2. /\ ATypes /\ EmptyInv /\ fill # <<>> /\ fill \in Seq(Nat)
      /\ chunk = <<>>
  BY <1>1 DEF AInv, EmptyInv, ATypes
<1>3. N \in Nat /\ listBuf \in Seq(Buffers) /\ (listBuf = <<>> <=> N = 0)
  BY <1>2, ListType DEF ATypes
<1>4. buf \in Buffers /\ buf.data = fill /\ buf.used = 0
  BY <1>2 DEF Buffer, Buffers
<1>5. Len(fill) \in Nat /\ Len(fill) > 0
  BY <1>2, LenProperties, EmptySeq
<1> HIDE DEF buf
<1>6. /\ listBuf' \in Seq(Buffers) /\ Len(listBuf') = N + 1
      /\ \A i \in 1..N : listBuf'[i] = listBuf[i]
      /\ listBuf'[N + 1] = buf
  BY <1>1, <1>3, <1>4, AppendProperties DEF buf
<1> HIDE DEF N
<1>7. ATypes'
  BY <1>1, <1>2, <1>6, EmptySeq DEF ATypes
<1>8. EmptyInv'
  <2>1. ASSUME NEW i \in 1..Len(listBuf')
        PROVE  /\ listBuf'[i].used < Len(listBuf'[i].data)
               /\ i > 1 => listBuf'[i].used = 0
    <3>1. CASE i \in 1..N
      BY <1>2, <1>6, <3>1 DEF EmptyInv, N
    <3>2. CASE i = N + 1
      BY <1>4, <1>5, <1>6, <3>2
    <3> QED
      BY <1>3, <1>6, <3>1, <3>2
  <2> QED
    BY <1>1, <1>2, <2>1 DEF EmptyInv, Receiving
<1>9. Before' = fill[Len(fill)] /\ Kept' = Before' /\ Kept' = Kept
  <2>1. listBuf' # <<>>
    BY <1>3, <1>6, EmptySeq
  <2> QED
    BY <1>1, <1>2, <1>4, <1>6, <2>1 DEF Before, Kept
<1>10. Looked' = Looked
  BY <1>1 DEF Looked
<1>11. ASSUME ~torn, ListInv, FillInv PROVE ListInv'
  <2> DEFINE b(i) == listBuf'[i]
  <2> SUFFICES ASSUME NEW i \in 1..Len(listBuf'),
                      NEW j \in (b(i).used + 1)..Len(b(i).data)
               PROVE  IsNextAudio(IF j > b(i).used + 1 THEN b(i).data[j - 1]
                                  ELSE IF i = 1 THEN last
                                  ELSE b(i - 1).data[Len(b(i - 1).data)],
                                  b(i).data[j])
    BY <1>1 DEF ListInv, IsNextAudio
  <2>1. CASE i \in 1..N
    <3>1. b(i) = listBuf[i] /\ (i # 1 => b(i - 1) = listBuf[i - 1])
      BY <1>3, <1>6, <2>1
    <3> QED
      BY <1>11, <2>1, <3>1 DEF ListInv, N
  <2>2. CASE i = N + 1
    <3>1. b(i).data = fill /\ b(i).used = 0 /\ j \in 1..Len(fill)
      BY <1>4, <1>6, <2>2
    <3>2. IsNextAudio(IF j = 1 THEN Before ELSE fill[j - 1], fill[j])
      BY <1>11, <3>1 DEF FillInv, Follows
    <3>3. Before = IF i = 1 THEN last ELSE b(i - 1).data[Len(b(i - 1).data)]
      BY <1>3, <1>6, <2>2 DEF Before, N
    <3> QED
      BY <1>5, <3>1, <3>2, <3>3
  <2> QED
    BY <1>3, <1>6, <2>1, <2>2
<1>12. ChunkInv => ChunkInv'
  BY <1>1, <1>10 DEF ChunkInv
<1>13. FillInv => FillInv'
  BY <1>1, <1>9, <1>10, EmptySeq DEF FillInv, Follows
<1>14. Aligned(Looked, interval) => Aligned(Looked, interval)'
  BY <1>1, <1>10 DEF Aligned, AlignedBy, MetaBlock, AudioRun, BlockSize
<1> QED
  BY <1>1, <1>7, <1>8, <1>11, <1>12, <1>13, <1>14 DEF AInv

\* Every step of the receiver's thread keeps the order of the audio.
LEMMA ThreadA ==
    ASSUME RInv, AInv, ReceiverThread
    PROVE  AInv'
<1> USE DEF AInv, ATypes, EmptyInv, Receiving, lists, filling, events, server,
            reading, calling
<1>1. CASE ThreadRefused
  BY <1>1, SameAudio DEF ThreadRefused
<1>2. CASE ThreadEos
  BY <1>2, SameAudio DEF ThreadEos
<1>3. CASE ThreadGivesUp
  BY <1>3, SameAudio DEF ThreadGivesUp
<1>4. CASE ThreadFull
  BY <1>4, SameAudio DEF ThreadFull
<1>5. CASE ThreadTests
  BY <1>5, SameAudio DEF ThreadTests
<1>6. CASE ThreadAdded
  BY <1>6, SameAudio DEF ThreadAdded
<1>7. CASE ThreadWaits
  BY <1>7, SameAudio DEF ThreadWaits
<1>8. CASE ThreadTakes
  BY <1>8, SameAudio DEF ThreadTakes
<1>9. CASE ThreadTaken
  BY <1>9, SameAudio DEF ThreadTaken
<1>10. CASE ThreadDone
  BY <1>10, SameAudio DEF ThreadDone
<1> QED
  BY <1>1, <1>2, <1>3, <1>4, <1>5, <1>6, <1>7, <1>8, <1>9, <1>10, MetaInv,
     ConnectsA, ReceivesA, AddsA DEF ReceiverThread

-----------------------------------------------------------------------------
(***************************************************************************)
(* The client's calls.                                                     *)
(***************************************************************************)

\* Read copies what is left of the first buffer, or a part of it.
LEMMA CopiesA ==
    ASSUME RInv, AInv, ReadCopies
    PROVE  AInv'
<1> DEFINE buf == listBuf[1]
           data == buf.data
           used == buf.used
           room == Len(data) - used
           cb == IF room < want - got THEN room ELSE want - got
           seg == SubSeq(data, used + 1, used + cb)
           N == Len(listBuf)
           b(i) == listBuf[i]
<1>1. /\ call = "copy" /\ call' = "copied" /\ got' = got + cb
      /\ last' = seg[Len(seg)]
      /\ gap' = (gap \/ \E i \in 1..Len(seg) :
                   ~IsNextAudio(IF i = 1 THEN last ELSE seg[i - 1], seg[i]))
      /\ UNCHANGED <<tpc, sock, shoutcast, fill, chunk, interval, stream, pos,
                     want, torn>>
      /\ listBuf' = IF cb = room THEN Tail(listBuf)
                    ELSE [listBuf EXCEPT ![1].used = @ + cb]
  BY DEF ReadCopies, Delivers, filling, server
<1>2. ATypes /\ EmptyInv /\ listBuf # <<>>
  BY <1>1 DEF AInv, RInv, ExchangeInv, TakenIsThere
<1>3. /\ N \in Nat /\ N > 0 /\ listBuf \in Seq(Buffers)
      /\ \A i \in 1..N :
            /\ b(i).data \in Seq(Nat) /\ b(i).used \in Nat
            /\ Len(b(i).data) \in Nat
            /\ \A j \in 1..Len(b(i).data) : b(i).data[j] \in Nat
            /\ b(i).used < Len(b(i).data) /\ (i > 1 => b(i).used = 0)
  BY <1>2, ListType DEF ATypes, EmptyInv
<1>4. /\ data \in Seq(Nat) /\ used \in Nat /\ Len(data) \in Nat
      /\ used < Len(data)
      /\ \A j \in 1..Len(data) : data[j] \in Nat
  <2>1. 1 \in 1..N
    BY <1>3
  <2> QED
    BY <1>3, <2>1
<1>5. want \in Nat /\ got \in Nat /\ got < want
  BY <1>1, <1>2 DEF ATypes, EmptyInv
<1>6. /\ room \in Nat /\ cb \in 1..room /\ got + cb \in 0..want
      /\ used + cb \in Nat /\ used + cb <= Len(data)
      /\ (cb # room => used + cb < Len(data))
      /\ (cb = room => used + cb = Len(data))
  <2> HIDE DEF data, used
  <2>1. room \in Nat /\ room >= 1 /\ want - got \in Nat /\ want - got >= 1
    BY <1>4, <1>5
  <2>2. cb \in 1..room /\ cb <= want - got
    BY <2>1
  <2>3. room = Len(data) - used
    OBVIOUS
  <2>4. Len(data) \in Nat /\ used \in Nat
    BY <1>4
  <2> HIDE DEF room, cb
  <2> QED
    BY <1>5, <2>1, <2>2, <2>3, <2>4
<1> HIDE DEF room, cb
<1>7. Len(seg) = cb /\ \A i \in 1..cb : seg[i] = data[used + i]
  <2> HIDE DEF data, used
  <2>1. /\ used + 1 \in 1..(Len(data) + 1)
        /\ used + cb \in (used + 1)-1..Len(data)
        /\ (used + cb) - (used + 1) + 1 = cb
    BY <1>4, <1>6
  <2>2. \A i \in 1..cb : (used + 1) + i - 1 = used + i
    BY <1>4, <1>6
  <2> QED
    BY <1>4, <1>6, <2>1, <2>2, SubSeqProperties
<1>8. last' = data[used + cb] /\ last' \in Nat
  <2> HIDE DEF data, used, seg
  <2>1. cb \in 1..cb /\ used + cb \in 1..Len(data)
    BY <1>4, <1>6
  <2> QED
    BY <1>1, <1>4, <1>7, <2>1
<1>9. ASSUME ~torn PROVE gap' = gap
  <2>1. ListInv
    BY <1>9 DEF AInv
  <2>2. ASSUME NEW i \in 1..Len(seg)
        PROVE  IsNextAudio(IF i = 1 THEN last ELSE seg[i - 1], seg[i])
    <3> DEFINE j == used + i
    <3>1. /\ j \in (used + 1)..Len(data)
          /\ seg[i] = data[j] /\ (i # 1 => seg[i - 1] = data[j - 1])
          /\ (j > used + 1 <=> i # 1) /\ 1 \in 1..Len(listBuf)
      <4> HIDE DEF data, used, seg
      <4>1. i \in 1..cb /\ (i # 1 => i - 1 \in 1..cb /\ used + (i - 1) = j - 1)
        BY <1>4, <1>6, <1>7
      <4>2. j \in (used + 1)..Len(data) /\ (j > used + 1 <=> i # 1)
        BY <1>4, <1>6, <4>1
      <4> QED
        BY <1>3, <1>7, <4>1, <4>2
    <3>2. IsNextAudio(IF j > used + 1 THEN data[j - 1] ELSE last,
                      data[j])
      BY <2>1, <3>1 DEF ListInv
    <3> QED
      BY <3>1, <3>2
  <2>3. gap \in BOOLEAN
    BY <1>2 DEF ATypes
  <2> QED
    BY <1>1, <2>2, <2>3
<1>10. gap' \in BOOLEAN /\ (gap' => torn')
  BY <1>1, <1>2, <1>9 DEF AInv, ATypes
<1> HIDE DEF seg
<1> SUFFICES /\ listBuf' \in Seq(Buffers)
             /\ \A i \in 1..Len(listBuf') :
                   /\ listBuf'[i].used < Len(listBuf'[i].data)
                   /\ i > 1 => listBuf'[i].used = 0
             /\ ListInv => ListInv'
             /\ Before' = Before
  <2>1. ATypes'
    BY <1>1, <1>2, <1>6, <1>8, <1>10 DEF ATypes
  <2>2. EmptyInv'
    <3>1. tpc \notin {"none", "connect"}
      BY <1>2 DEF EmptyInv
    <3> QED
      BY <1>1, <1>2, <3>1 DEF EmptyInv, Receiving
  <2>3. Kept' = Kept /\ Looked' = Looked
    BY <1>1 DEF Kept, Looked
  <2>4. ChunkInv => ChunkInv'
    BY <1>1, <2>3 DEF ChunkInv
  <2>5. FillInv => FillInv'
    BY <1>1, <2>3 DEF FillInv, Follows, IsNextAudio
  <2>6. Aligned(Looked, interval) => Aligned(Looked, interval)'
    BY <1>1, <2>3 DEF Aligned, AlignedBy, MetaBlock, AudioRun, BlockSize
  <2> QED
    BY <1>1, <1>10, <2>1, <2>2, <2>4, <2>5, <2>6 DEF AInv, Receiving
<1>11. CASE cb = room
  <2>1. /\ listBuf' \in Seq(Buffers) /\ Len(listBuf') = N - 1
        /\ \A i \in 1..(N - 1) : listBuf'[i] = b(i + 1)
    BY <1>1, <1>2, <1>3, <1>11, HeadTailProperties
  <2>2. last' = data[Len(data)]
    BY <1>6, <1>8, <1>11
  <2> HIDE DEF buf
  <2>3. ASSUME NEW i \in 1..Len(listBuf')
        PROVE  /\ i + 1 \in 1..N /\ i \in Nat /\ listBuf'[i] = b(i + 1)
               /\ (i > 1 => listBuf'[i - 1] = b(i))
    BY <1>3, <2>1
  <2>4. ASSUME NEW i \in 1..Len(listBuf')
        PROVE  /\ listBuf'[i].used < Len(listBuf'[i].data)
               /\ i > 1 => listBuf'[i].used = 0
    BY <1>3, <2>3
  <2>5. ASSUME ListInv PROVE ListInv'
    <3> SUFFICES ASSUME NEW i \in 1..Len(listBuf'),
                        NEW j \in (listBuf'[i].used + 1)..Len(listBuf'[i].data)
                 PROVE  IsNextAudio(
                          IF j > listBuf'[i].used + 1
                          THEN listBuf'[i].data[j - 1]
                          ELSE IF i = 1 THEN last'
                          ELSE listBuf'[i - 1].data[Len(listBuf'[i - 1].data)],
                          listBuf'[i].data[j])
      <4>1. stream' = stream
        BY <1>1
      <4> QED
        BY <4>1 DEF ListInv, IsNextAudio
    <3>1. /\ i + 1 \in 1..N /\ i \in Nat /\ listBuf'[i] = b(i + 1)
          /\ (i > 1 => listBuf'[i - 1] = b(i)) /\ i + 1 # 1 /\ i + 1 - 1 = i
      BY <2>3
    <3>2. IsNextAudio(IF j > b(i + 1).used + 1 THEN b(i + 1).data[j - 1]
                      ELSE b(i).data[Len(b(i).data)],
                      b(i + 1).data[j])
      BY <2>5, <3>1 DEF ListInv
    <3>3. i = 1 => last' = b(i).data[Len(b(i).data)]
      BY <2>2 DEF buf
    <3> QED
      BY <3>1, <3>2, <3>3
  <2>6. Before' = Before
    <3>1. CASE N = 1
      <4>1. listBuf' = <<>> /\ Before = data[Len(data)]
        BY <1>2, <2>1, <3>1, EmptySeq DEF Before, buf
      <4> QED
        BY <2>2, <4>1 DEF Before
    <3>2. CASE N > 1
      <4>1. listBuf' # <<>> /\ listBuf'[N - 1] = b(N)
        BY <1>3, <2>1, <3>2, EmptySeq
      <4> QED
        BY <1>2, <2>1, <4>1 DEF Before
    <3> QED
      <4> N = 1 \/ N > 1
        <5>1. N \in Nat /\ N > 0
          BY <1>3
        <5> HIDE DEF N
        <5> QED
          BY <5>1
      <4> QED
        BY <3>1, <3>2
  <2> QED
    BY <2>1, <2>4, <2>5, <2>6
<1>12. CASE cb # room
  <2> DEFINE nb == [buf EXCEPT !.used = used + cb]
  <2>1. buf \in Buffers /\ 1 \in 1..N
    BY <1>3, ElementOfSeq
  <2>2. nb \in Buffers /\ nb.data = data /\ nb.used = used + cb
    BY <1>6, <2>1 DEF Buffers
  <2>3. listBuf' = [listBuf EXCEPT ![1] = nb]
    BY <1>1, <1>12
  <2> HIDE DEF nb
  <2>4. /\ listBuf' \in Seq(Buffers) /\ Len(listBuf') = N
        /\ \A i \in 1..N : listBuf'[i] = IF i = 1 THEN nb ELSE b(i)
    BY <1>3, <2>1, <2>2, <2>3, ExceptSeq
  <2>5. \A i \in 1..N : listBuf'[i].data = b(i).data
    BY <2>2, <2>4
  <2>6. ASSUME NEW i \in 1..Len(listBuf')
        PROVE  /\ listBuf'[i].used < Len(listBuf'[i].data)
               /\ i > 1 => listBuf'[i].used = 0
    BY <1>3, <1>6, <1>12, <2>2, <2>4
  <2>7. ASSUME ListInv PROVE ListInv'
    <3> SUFFICES ASSUME NEW i \in 1..Len(listBuf'),
                        NEW j \in (listBuf'[i].used + 1)..Len(listBuf'[i].data)
                 PROVE  IsNextAudio(
                          IF j > listBuf'[i].used + 1
                          THEN listBuf'[i].data[j - 1]
                          ELSE IF i = 1 THEN last'
                          ELSE listBuf'[i - 1].data[Len(listBuf'[i - 1].data)],
                          listBuf'[i].data[j])
      <4>1. stream' = stream
        BY <1>1
      <4> QED
        BY <4>1 DEF ListInv, IsNextAudio
    <3>1. CASE i = 1
      <4>1. /\ listBuf'[i].data = data
            /\ listBuf'[i].used = used + cb
            /\ j \in (used + cb + 1)..Len(data)
        BY <1>3, <2>2, <2>4, <3>1
      <4>2. /\ j \in (used + 1)..Len(data) /\ j > used + 1
            /\ (~(j > used + cb + 1) => j - 1 = used + cb)
        <5> HIDE DEF data, used
        <5> QED
          BY <1>4, <1>6, <4>1
      <4>3. IsNextAudio(data[j - 1], data[j])
        BY <2>1, <2>7, <4>2 DEF ListInv
      <4> QED
        BY <1>8, <3>1, <4>1, <4>2, <4>3
    <3>2. CASE i # 1
      <4>1. i \in 1..N /\ i - 1 \in 1..N /\ listBuf'[i] = b(i)
        BY <1>3, <2>4, <3>2
      <4>2. listBuf'[i - 1].data = b(i - 1).data
        BY <2>5, <4>1
      <4> QED
        BY <2>7, <3>2, <4>1, <4>2 DEF ListInv
    <3> QED
      BY <3>1, <3>2
  <2>8. Before' = Before
    <3>1. listBuf' # <<>> /\ N \in 1..N /\ listBuf'[N].data = b(N).data
      BY <1>3, <2>4, <2>5, EmptySeq
    <3> QED
      BY <1>2, <2>4, <3>1 DEF Before
  <2> QED
    BY <2>4, <2>6, <2>7, <2>8
<1> QED
  BY <1>11, <1>12

\* So does every step of a call of its client,
LEMMA CallA ==
    ASSUME RInv, AInv, Call
    PROVE  AInv'
<1> USE DEF lists, filling, events, server, reading, calling
<1>1. CASE WakeThread \/ Started \/ ReadWaits \/ ReadTimesOut \/ ReadTests
           \/ ReadCopied
  <2>1. UNCHANGED <<tpc, sock, shoutcast, listBuf, fill, chunk, interval,
                    stream, pos, want, got, last, gap, torn>>
    BY <1>1 DEF WakeThread, Started, ReadWaits, ReadTimesOut, ReadTests,
                ReadCopied
  <2>2. call' \in {"read", "timedOut", "copy"} => got < want
    BY <1>1 DEF WakeThread, Started, ReadWaits, ReadTimesOut, ReadTests,
                ReadCopied, Returns, AInv, EmptyInv
  <2>3. EmptyInv' /\ (Receiving' => Receiving)
    BY <2>1, <2>2 DEF AInv, EmptyInv, Receiving
  <2> QED
    BY <2>1, <2>3, SameAudio DEF AInv, ATypes
<1>2. CASE StartThread
  <2>1. /\ listBuf = <<>> /\ tpc' = "connect" /\ call' = "starting"
        /\ last' = 0 /\ gap' = FALSE /\ torn' = FALSE /\ shoutcast' = FALSE
        /\ UNCHANGED <<sock, listBuf, fill, chunk, interval, stream, pos, want,
                       got>>
    BY <1>2 DEF StartThread, NewBuffers, RInv, LifeInv
  <2>2. Len(listBuf') = 0
    BY <2>1, EmptySeq
  <2>3. ATypes'
    BY <2>1 DEF AInv, ATypes
  <2>4. EmptyInv' /\ ListInv'
    BY <2>1, <2>2 DEF EmptyInv, ListInv, Receiving
  <2> QED
    BY <2>1, <2>3, <2>4 DEF AInv, Receiving
<1>3. CASE Disconnected
  <2>1. /\ tpc' = "none" /\ listBuf' = <<>> /\ fill' = <<>> /\ chunk' = <<>>
        /\ shoutcast' = FALSE /\ call' \in {"start", "none"}
        /\ UNCHANGED <<sock, interval, stream, pos, want, got, last, gap, torn>>
    BY <1>3 DEF Disconnected, NoBuffers, Returns
  <2>2. Len(listBuf') = 0 /\ <<>> \in Seq(Nat) /\ <<>> \in Seq(Buffers)
    BY <2>1, EmptySeq
  <2>3. ATypes'
    BY <2>1, <2>2 DEF AInv, ATypes
  <2>4. EmptyInv' /\ ListInv'
    BY <2>1, <2>2 DEF EmptyInv, ListInv, Receiving
  <2> QED
    BY <2>1, <2>3, <2>4 DEF AInv, Receiving
<1>4. CASE StartThreadFails \/ NotStarted
  <2>1. /\ tpc \in {"none", "ended"} /\ listBuf' = <<>> /\ call' = "none"
        /\ shoutcast' \in {shoutcast, FALSE}
        /\ UNCHANGED <<tpc, sock, fill, chunk, interval, stream, pos, want,
                       got, last, gap, torn>>
    BY <1>4 DEF StartThreadFails, NotStarted, NoBuffers, NewBuffers, Returns,
                RInv, LifeInv
  <2>2. Len(listBuf') = 0 /\ <<>> \in Seq(Buffers)
    BY <2>1, EmptySeq
  <2>3. ATypes'
    BY <2>1, <2>2 DEF AInv, ATypes
  <2>4. EmptyInv' /\ ListInv'
    BY <2>1, <2>2 DEF EmptyInv, ListInv, Receiving
  <2> QED
    BY <2>1, <2>3, <2>4 DEF AInv, Receiving
<1> QED
  BY <1>1, <1>2, <1>3, <1>4, CopiesA DEF Call

\* The beginnings of a call, and Stop.
LEMMA BeginA ==
    ASSUME AInv, \/ \E for \in {"connect", "disconnect"} : BeginDisconnect(for)
                 \/ StopReceiver
                 \/ UNCHANGED rvars
    PROVE  AInv'
<1>1. UNCHANGED <<tpc, sock, shoutcast, listBuf, fill, chunk, interval, stream,
                  pos, want, got, last, gap, torn>>
  BY DEF BeginDisconnect, StopReceiver, rvars, lists, filling, server, reading
<1>2. call' \in {"stopping", "joining"} \/ call' = call
  BY DEF BeginDisconnect, StopReceiver, rvars, calling
<1>3. EmptyInv' /\ (Receiving' => Receiving)
  BY <1>1, <1>2 DEF AInv, EmptyInv, Receiving
<1> QED
  BY <1>1, <1>3, SameAudio DEF AInv, ATypes

\* the call of Read that asks for n bytes,
LEMMA BeginReadA ==
    ASSUME AInv, NEW n \in ReadSizes, BeginRead(n)
    PROVE  AInv'
<1>1. /\ call' = "read" /\ want' = n /\ got' = 0 /\ n \in Nat /\ 0 < n
      /\ UNCHANGED <<tpc, sock, shoutcast, listBuf, fill, chunk, interval,
                     stream, pos, last, gap, torn>>
  BY StreamingAssumption DEF BeginRead, lists, filling, server
<1>2. ATypes'
  BY <1>1 DEF AInv, ATypes
<1>3. EmptyInv'
  BY <1>1 DEF AInv, EmptyInv, Receiving
<1>4. ListInv => ListInv'
  BY <1>1 DEF ListInv, IsNextAudio
<1>5. ChunkInv => ChunkInv'
  BY <1>1 DEF ChunkInv, Looked
<1>6. FillInv => FillInv'
  BY <1>1 DEF FillInv, Follows, Before, Kept, Looked, IsNextAudio
<1>7. Aligned(Looked, interval) => Aligned(Looked, interval)'
  BY <1>1 DEF Aligned, AlignedBy, MetaBlock, AudioRun, BlockSize, Looked
<1> QED
  BY <1>1, <1>2, <1>3, <1>4, <1>5, <1>6, <1>7 DEF AInv, Receiving

\* and every step of the client's thread.
LEMMA NetA ==
    ASSUME AInv, NetStreamingThread
    PROVE  AInv'
<1>1. \/ \E for \in {"connect", "disconnect"} : BeginDisconnect(for)
      \/ \E n \in ReadSizes : BeginRead(n)
      \/ UNCHANGED rvars
  BY DEF NetStreamingThread, Begin, Connected, Prebuffered, Probe, Probed,
         PreparePlayback, Prepare, Reuse, OpenNew, Reopen, Reopened, Prepared,
         Playing, Loop, Drain, Reconnect, ConnectAgain, Resume, ReadStream,
         StreamRead, Rendering, Rendered, NeedsBuffer, Put, PutNothing, Count,
         Test, Start, PutsOut, GetBuffer, UnpreparePlayback, Flush, Flushing,
         Close, CloseAll, Closes, Unprepared, Jump
<1> QED
  BY <1>1, BeginA, BeginReadA

\* Nothing has been received at first.
LEMMA InitA == Init => AInv
<1> SUFFICES ASSUME Init PROVE AInv
  OBVIOUS
<1>1. <<>> \in Seq(Buffers) /\ <<>> \in Seq(Nat) /\ Len(<<>>) = 0
  BY EmptySeq
<1>2. stream \in Streams /\ Len(stream.bytes) \in Nat
  BY StreamsAssumption, LenProperties DEF Init, ReceiverInit, IsStream
<1>3. ATypes
  <2>1. 0 \in 0..Len(stream.bytes) /\ 0 \in 0..0
    BY <1>2
  <2>2. pos \in 0..Len(stream.bytes) /\ got \in 0..want /\ want = 0 /\ last = 0
    BY <2>1 DEF Init, ReceiverInit
  <2>3. /\ sock = FALSE /\ shoutcast = FALSE /\ gap = FALSE /\ torn = FALSE
        /\ listBuf = <<>> /\ fill = <<>> /\ chunk = <<>> /\ interval = 0
    BY DEF Init, ReceiverInit
  <2>4. {sock, shoutcast, gap, torn} \subseteq BOOLEAN
    BY <2>3
  <2>5. listBuf \in Seq(Buffers) /\ fill \in Seq(Nat) /\ chunk \in Seq(Nat)
    BY <1>1, <2>3, Zenon
  <2>6. interval \in Int /\ want \in Nat /\ last \in Nat
    BY <2>2, <2>3
  <2> QED
    BY <1>2, <2>2, <2>4, <2>5, <2>6, Zenon DEF ATypes
<1>4. EmptyInv /\ ListInv /\ ~Receiving /\ ~gap
  BY <1>1 DEF Init, ReceiverInit, EmptyInv, ListInv, Receiving
<1> QED
  BY <1>3, <1>4 DEF AInv

\* The order of the audio is kept by every step.
LEMMA StepA == RInv /\ AInv /\ [Next]_vars => AInv'
<1> SUFFICES ASSUME RInv, AInv, [Next]_vars PROVE AInv'
  OBVIOUS
<1>1. CASE ReceiverThread /\ UNCHANGED pvars
  BY <1>1, ThreadA
<1>2. CASE Call /\ UNCHANGED pvars
  BY <1>2, CallA
<1>3. CASE NetStreamingThread
  BY <1>3, NetA
<1>4. CASE Play \/ Stop \/ Stopping \/ Device
  BY <1>4, BeginA DEF Play, Stop, Stopping, StopBegins, StopsReceiver,
                      StopsOutput, StopHasReset, Stopped, Device, BufferPlayed,
                      WaveWakes, WaveFills
<1>5. CASE UNCHANGED vars
  BY <1>5, BeginA DEF vars
<1> QED
  BY <1>1, <1>2, <1>3, <1>4, <1>5 DEF Next

\* Whatever a well-formed stream holds, however its bytes fall into chunks and
\* buffers and whatever is asked for, Read delivers its audio from the first
\* byte on, in order and without the metadata, unless a block of metadata
\* begun in one chunk ended together with a later one (Receiver.cpp:139-151,
\* 364, 716-786).
THEOREM AudioInOrderCorrect == Spec => []AudioInOrder
<1>1. AInv => AudioInOrder
  BY DEF AInv, AudioInOrder
<1> QED
  BY <1>1, InitInv, StepInv, InitA, StepA, PTL DEF Spec

-----------------------------------------------------------------------------
(***************************************************************************)
(* The type invariant.  That no list is longer than m_cBuf is known only   *)
(* from the count of all buffers, and that the ring has room for a buffer  *)
(* in hand from the event, except while Reset has set it and not yet       *)
(* emptied the ring: a thread that takes a buffer then finds m_fStop set   *)
(* and does not put it out.                                                *)
(***************************************************************************)
Total == nFree + Len(listBuf) + (IF hand THEN 1 ELSE 0)

PTypes ==
    /\ {fEos, again, eos, hdr, stop, fPlay, double, open, event, paused}
          \subseteq BOOLEAN
    /\ status \in {"STOP", "WAIT", "PLAY"}
    /\ ui \in {"idle", "called", "receiver", "output", "reset", "waiting"}
    /\ plays \in 0..MaxPlays
    /\ outq \in 0..OutBufs
    /\ devLock \in {"free", "net", "user"} /\ wave \in {"wait", "fill"}

RoomInv ==
    /\ net \in {"put", "count"} => hdr
    /\ hdr => \/ outq < OutBufs
              \/ net \in {"count", "test", "start"}
              \/ net \in {"loop", "close"} /\ stop
    /\ event => outq < OutBufs \/ net = "count" \/ ui = "reset"
    /\ ui \notin {"idle", "called"} => (stop \/ net = "ended") /\ net # "reopen"

TInv == Total <= CBuf /\ PTypes /\ RoomInv

\* The receiver's thread fills no more buffers than there are.
LEMMA TotalThread ==
    ASSUME RInv, Total <= CBuf, ReceiverThread
    PROVE  Total' <= CBuf
<1> USE BufferAssumption, ListNil, ListLength
    DEF RInv, Types, LifeInv, Total, lists, filling, events, server, reading,
        calling
<1>1. CASE ThreadConnects
  <2>1. /\ tpc = "connect" /\ nFree = CBuf /\ listBuf = <<>> /\ ~hand
        /\ nFree' = nFree - 1 /\ hand' = TRUE /\ listBuf' = listBuf
    BY <1>1 DEF ThreadConnects
  <2> QED
    BY <2>1
<1>2. CASE ThreadAdds
  <2>1. IsList(listBuf') /\ Len(listBuf') = Len(listBuf) + 1
    BY <1>2, ListAppend DEF ThreadAdds
  <2>2. hand /\ hand' = FALSE /\ nFree' = nFree
    BY <1>2 DEF ThreadAdds
  <2> QED
    BY <2>1, <2>2
<1>3. CASE ThreadTakes
  <2>1. ~hand /\ hand' = TRUE /\ nFree' = nFree - 1 /\ listBuf' = listBuf
    BY <1>3 DEF ThreadTakes
  <2> QED
    BY <2>1
<1>4. CASE ~ThreadConnects /\ ~ThreadAdds /\ ~ThreadTakes
  <2>1. UNCHANGED <<nFree, listBuf, hand>>
    BY <1>4 DEF ReceiverThread, ThreadRefused, ThreadMeta, ThreadReceives,
                ThreadEos, ThreadGivesUp, ThreadFull, ThreadTests, ThreadAdded,
                ThreadWaits, ThreadTaken, ThreadDone
  <2> QED
    BY <2>1
<1> QED
  BY <1>1, <1>2, <1>3, <1>4

\* Nor do the calls of its client return more than they took.
LEMMA TotalCall ==
    ASSUME RInv, Total <= CBuf, Call
    PROVE  Total' <= CBuf
<1> USE BufferAssumption, ListNil, ListLength
    DEF RInv, Types, LifeInv, Total, lists, filling, events, server, reading,
        calling
<1>1. CASE Disconnected
  BY <1>1 DEF Disconnected, NoBuffers
<1>2. CASE StartThread
  <2>1. listBuf = <<>> /\ ~hand /\ nFree' = CBuf /\ UNCHANGED <<listBuf, hand>>
    BY <1>2 DEF StartThread, NewBuffers
  <2> QED
    BY <2>1
<1>3. CASE StartThreadFails \/ NotStarted
  <2>1. listBuf' = <<>> /\ hand' = hand
    BY <1>3 DEF StartThreadFails, NotStarted, NoBuffers, NewBuffers
  <2>2. nFree' = 0 \/ (nFree' = CBuf /\ ~hand)
    BY <1>3 DEF StartThreadFails, NotStarted, NoBuffers, NewBuffers
  <2> QED
    BY <2>1, <2>2
<1>4. CASE ReadCopies
  <2> DEFINE buf == listBuf[1]
             room == Len(buf.data) - buf.used
             cb == IF room < want - got THEN room ELSE want - got
  <2>1. listBuf # <<>> /\ hand' = hand
    BY <1>4 DEF ReadCopies, ExchangeInv, TakenIsThere
  <2>2. CASE listBuf' = Tail(listBuf) /\ nFree' = nFree + 1
    <3>1. Len(listBuf') = Len(listBuf) - 1
      BY <2>1, <2>2, ListTail
    <3>2. Len(listBuf) \in Nat
      OBVIOUS
    <3> QED
      BY <2>1, <2>2, <3>1, <3>2
  <2>3. CASE /\ listBuf' = [listBuf EXCEPT ![1].used = @ + cb]
             /\ UNCHANGED nFree
    <3>1. Len(listBuf') = Len(listBuf)
      BY <2>1, <2>3, ListUse
    <3> QED
      BY <2>1, <2>3, <3>1
  <2> QED
    BY <1>4, <2>2, <2>3 DEF ReadCopies
<1>5. CASE WakeThread \/ Started \/ ReadWaits \/ ReadTimesOut \/ ReadTests
           \/ ReadCopied
  <2>1. UNCHANGED <<nFree, listBuf, hand>>
    BY <1>5 DEF WakeThread, Started, ReadWaits, ReadTimesOut, ReadTests,
                ReadCopied
  <2> QED
    BY <2>1
<1> QED
  BY <1>1, <1>2, <1>3, <1>4, <1>5 DEF Call

\* The thread that plays keeps the types of its variables, and puts out a
\* buffer only when there is room,
LEMMA PTypesNet ==
    ASSUME PTypes, RoomInv, NetStreamingThread
    PROVE  PTypes' /\ RoomInv'
<1> USE StreamingAssumption
    DEF PTypes, RoomInv, At, Jump, Goto, place, flags, user, output, queue,
        EmptyRing
<1>1. OutBufs \in Nat /\ 0 < OutBufs /\ fEos' = fEos
  BY DEF NetStreamingThread, Begin, Connected, Prebuffered, Probe, Probed,
         PreparePlayback, Prepare, Reuse, OpenNew, Reopen, Reopened, Prepared,
         Playing, Loop, Drain, Reconnect, ConnectAgain, Resume, ReadStream,
         StreamRead, Rendering, Rendered, NeedsBuffer, Put, PutNothing, Count,
         Test, Start, PutsOut, GetBuffer, UnpreparePlayback, Flush, Flushing,
         Close, CloseAll, Closes, Unprepared, Jump, rvars,
         BeginDisconnect, BeginRead
<1>2. CASE Begin
  BY <1>1, <1>2 DEF Begin
<1>3. CASE Connected
  BY <1>1, <1>3 DEF Connected
<1>4. CASE Prebuffered
  BY <1>1, <1>4 DEF Prebuffered
<1>5. CASE Probe
  BY <1>1, <1>5 DEF Probe
<1>6. CASE Probed
  BY <1>1, <1>6 DEF Probed
<1>7. CASE Prepare
  BY <1>1, <1>7 DEF Prepare
<1>8. CASE Reuse
  <2>1. PTypes'
    BY <1>1, <1>8 DEF Reuse, Opening, Prepared, InterfaceFree
  <2>2. RoomInv'
    BY <1>1, <1>8 DEF Reuse, Opening, Prepared, InterfaceFree
  <2> QED
    BY <2>1, <2>2
<1>9. CASE OpenNew
  <2>1. CASE EmptyRing /\ Prepared /\ UNCHANGED <<devLock, wave>>
    <3>1. PTypes'
      <4>1. /\ outq' = 0 /\ event' = TRUE /\ open' = TRUE /\ paused' = TRUE
            /\ fPlay' = TRUE /\ stop' = FALSE
            /\ UNCHANGED <<again, eos, hdr, status, ui, plays, double, devLock,
                           wave>>
        BY <2>1 DEF Prepared
      <4>2. {event', open', paused', fPlay', stop'} \subseteq BOOLEAN
        BY <4>1
      <4> QED
        BY <1>1, <4>1, <4>2
    <3>2. RoomInv'
      BY <1>1, <1>9, <2>1 DEF OpenNew, Opening, Prepared, InterfaceFree
    <3> QED
      BY <3>1, <3>2
  <2>2. CASE Jump("abort")
    BY <1>1, <1>9, <2>2 DEF OpenNew, Opening
  <2> QED
    BY <1>9, <2>1, <2>2 DEF OpenNew
<1>10. CASE Reopen
  <2>1. PTypes'
    BY <1>1, <1>10 DEF Reopen, Opening, InterfaceFree
  <2>2. RoomInv'
    BY <1>1, <1>10 DEF Reopen, Opening, InterfaceFree
  <2> QED
    BY <2>1, <2>2
<1>11. CASE Reopened
  <2>1. CASE Prepared
    <3>1. PTypes'
      <4>1. /\ outq' = 0 /\ event' = TRUE /\ open' = TRUE /\ paused' = TRUE
            /\ fPlay' = TRUE /\ stop' = FALSE /\ devLock' = "free"
            /\ UNCHANGED <<again, eos, hdr, status, ui, plays, double, wave>>
        BY <1>11, <2>1 DEF Reopened, Prepared
      <4>2. {event', open', paused', fPlay', stop'} \subseteq BOOLEAN
        BY <4>1
      <4> QED
        BY <1>1, <4>1, <4>2
    <3>2. RoomInv'
      BY <1>1, <1>11, <2>1 DEF Reopened, Prepared
    <3> QED
      BY <3>1, <3>2
  <2>2. CASE ~Prepared
    <3>1. PTypes'
      <4>1. /\ outq' = 0 /\ event' = TRUE /\ open' = FALSE /\ paused' = TRUE
            /\ devLock' = "free"
            /\ UNCHANGED <<again, eos, hdr, status, stop, fPlay, ui, plays,
                           double, wave>>
        BY <1>11, <2>2 DEF Reopened
      <4>2. {event', open', paused'} \subseteq BOOLEAN
        BY <4>1
      <4> QED
        BY <1>1, <4>1, <4>2
    <3>2. RoomInv'
      BY <1>1, <1>11, <2>2 DEF Reopened
    <3> QED
      BY <3>1, <3>2
  <2> QED
    BY <2>1, <2>2
<1>12. CASE Playing
  BY <1>1, <1>12 DEF Playing
<1>13. CASE Loop
  BY <1>1, <1>13 DEF Loop
<1>14. CASE Drain
  BY <1>1, <1>14 DEF Drain
<1>15. CASE Reconnect
  BY <1>1, <1>15 DEF Reconnect
<1>16. CASE ConnectAgain
  BY <1>1, <1>16 DEF ConnectAgain
<1>17. CASE Resume
  BY <1>1, <1>17 DEF Resume
<1>18. CASE ReadStream
  BY <1>1, <1>18 DEF ReadStream
<1>19. CASE StreamRead
  BY <1>1, <1>19 DEF StreamRead
<1>20. CASE Rendered
  BY <1>1, <1>20 DEF Rendered
<1>21. CASE NeedsBuffer
  BY <1>1, <1>21 DEF NeedsBuffer
<1>22. CASE Put
  BY <1>1, <1>22 DEF Put
<1>23. CASE PutNothing
  BY <1>1, <1>23 DEF PutNothing
<1>24. CASE Count
  BY <1>1, <1>24 DEF Count
<1>25. CASE Test
  BY <1>1, <1>25 DEF Test, PutsOut
<1>26. CASE Start
  BY <1>1, <1>26 DEF Start, PutsOut
<1>27. CASE GetBuffer
  BY <1>1, <1>27 DEF GetBuffer
<1>28. CASE Flush
  BY <1>1, <1>28 DEF Flush
<1>29. CASE Flushing
  <2>1. PTypes'
    BY <1>1, <1>29 DEF Flushing
  <2>2. RoomInv'
    BY <1>1, <1>29 DEF Flushing
  <2> QED
    BY <2>1, <2>2
<1>30. CASE Close
  <2>1. PTypes'
    BY <1>1, <1>30 DEF Close, Closes
  <2>2. RoomInv'
    BY <1>1, <1>30 DEF Close, Closes
  <2> QED
    BY <2>1, <2>2
<1>31. CASE CloseAll
  <2>1. PTypes'
    <3>1. /\ outq' = 0 /\ event' = TRUE /\ open' = FALSE /\ paused' = TRUE
          /\ UNCHANGED <<again, eos, hdr, status, stop, fPlay, ui, plays,
                         double, devLock, wave>>
      BY <1>31 DEF CloseAll, Closes
    <3>2. {event', open', paused'} \subseteq BOOLEAN
      BY <3>1
    <3> QED
      BY <1>1, <3>1, <3>2
  <2>2. RoomInv'
    BY <1>1, <1>31 DEF CloseAll, Closes
  <2> QED
    BY <2>1, <2>2
<1>32. CASE Unprepared
  BY <1>1, <1>32 DEF Unprepared
<1> QED
  BY <1>2, <1>3, <1>4, <1>5, <1>6, <1>7, <1>8, <1>9, <1>10, <1>11, <1>12,
     <1>13, <1>14, <1>15, <1>16, <1>17, <1>18, <1>19, <1>20, <1>21, <1>22,
     <1>23, <1>24, <1>25, <1>26, <1>27, <1>28, <1>29, <1>30, <1>31, <1>32
     DEF NetStreamingThread, PreparePlayback, Rendering, UnpreparePlayback

\* and so do the user's thread and the device.
LEMMA PTypesUser ==
    ASSUME PTypes, RoomInv, Play \/ Stop \/ Stopping \/ Device
    PROVE  PTypes' /\ RoomInv'
<1> USE StreamingAssumption
    DEF PTypes, RoomInv, UiGoto, place, flags, user, output, queue, EmptyRing
<1>1. OutBufs \in Nat /\ 0 < OutBufs /\ fEos' = fEos
  BY DEF Play, Stop, Stopping, StopBegins, StopsReceiver, StopsOutput,
         StopHasReset, Stopped, Device, BufferPlayed, WaveWakes, WaveFills,
         StopReceiver, rvars
<1>2. CASE Play
  BY <1>1, <1>2 DEF Play
<1>3. CASE Stop \/ StopBegins
  <2>1. PTypes'
    BY <1>1, <1>3 DEF Stop, StopBegins, InterfaceFree
  <2>2. RoomInv'
    BY <1>1, <1>3 DEF Stop, StopBegins, InterfaceFree
  <2> QED
    BY <2>1, <2>2
<1>4. CASE StopsReceiver
  BY <1>1, <1>4 DEF StopsReceiver
<1>5. CASE StopsOutput \/ StopHasReset
  <2>1. PTypes'
    <3>1. CASE StopsOutput
      <4>1. /\ ui' \in {"waiting", "reset"} /\ devLock' \in {devLock, "user"}
            /\ outq' \in {outq, 0} /\ {event', paused'} \subseteq BOOLEAN
            /\ UNCHANGED <<again, eos, hdr, status, stop, fPlay, plays, double,
                           open, wave>>
        BY <3>1 DEF StopsOutput
      <4> QED
        BY <1>1, <4>1
    <3>2. CASE StopHasReset
      BY <1>1, <3>2 DEF StopHasReset
    <3> QED
      BY <1>5, <3>1, <3>2
  <2>2. RoomInv'
    BY <1>1, <1>5 DEF StopsOutput, StopHasReset
  <2> QED
    BY <2>1, <2>2
<1>6. CASE Stopped
  BY <1>1, <1>6 DEF Stopped
<1>7. CASE BufferPlayed
  BY <1>1, <1>7 DEF BufferPlayed, Played
<1>8. CASE WaveWakes
  BY <1>1, <1>8 DEF WaveWakes
<1>9. CASE WaveFills
  <2>1. PTypes'
    <3>1. /\ wave' = "wait" /\ paused' = paused
          /\ UNCHANGED <<again, eos, hdr, status, stop, fPlay, ui, plays,
                         double, open, devLock>>
      BY <1>9 DEF WaveFills, Played
    <3>2. CASE outq' = outq /\ event' = event
      BY <1>1, <3>1, <3>2
    <3>3. CASE outq > 0 /\ outq' = outq - 1 /\ event' = TRUE
      BY <1>1, <3>1, <3>3
    <3> QED
      BY <1>9, <3>2, <3>3 DEF WaveFills, Played
  <2>2. RoomInv'
    BY <1>1, <1>9 DEF WaveFills, Played
  <2> QED
    BY <2>1, <2>2
<1> QED
  BY <1>2, <1>3, <1>4, <1>5, <1>6, <1>7, <1>8, <1>9 DEF Stopping, Device

\* The variables have their types at first.
LEMMA InitT == Init => TInv
<1> SUFFICES ASSUME Init PROVE TInv
  OBVIOUS
<1>1. Total = 0
  BY ListNil DEF Init, ReceiverInit, Total
<1>2. PTypes /\ RoomInv
  <2>1. 0 \in 0..OutBufs /\ 0 \in 0..MaxPlays /\ 0 < OutBufs
    BY StreamingAssumption
  <2>2. /\ fEos = FALSE /\ again = FALSE /\ eos = FALSE /\ hdr = FALSE
        /\ stop = FALSE /\ fPlay = FALSE /\ open = FALSE /\ event = TRUE
        /\ paused = FALSE /\ status = "STOP" /\ ui = "idle"
        /\ plays = 0 /\ outq = 0 /\ net = "none" /\ double \in BOOLEAN
        /\ devLock = "free" /\ wave = "wait"
    BY DEF Init, ReceiverInit
  <2>3. {fEos, again, eos, hdr, stop, fPlay, double, open, event, paused}
           \subseteq BOOLEAN
    BY <2>2
  <2> QED
    BY <2>1, <2>2, <2>3 DEF PTypes, RoomInv
<1> QED
  BY <1>1, <1>2, BufferAssumption DEF TInv

\* Every step keeps the types.
LEMMA StepT == RInv /\ TInv /\ [Next]_vars => TInv'
<1> SUFFICES ASSUME RInv, TInv, [Next]_vars PROVE TInv'
  OBVIOUS
<1>1. CASE ReceiverThread /\ UNCHANGED pvars
  <2>1. fEos' \in BOOLEAN
    BY <1>1 DEF ReceiverThread, ThreadConnects, ThreadAdds, ThreadTakes,
                ThreadRefused, ThreadMeta, ThreadReceives, ThreadEos,
                ThreadGivesUp, ThreadFull, ThreadTests, ThreadAdded,
                ThreadWaits, ThreadTaken, ThreadDone, TInv, PTypes
  <2> QED
    BY <1>1, <2>1, TotalThread
    DEF TInv, PTypes, RoomInv, pvars, place, flags, user, output, queue
<1>2. CASE Call /\ UNCHANGED pvars
  <2>1. fEos' \in BOOLEAN
    BY <1>2 DEF Call, WakeThread, Started, ReadWaits, ReadTimesOut, ReadTests,
                ReadCopied, ReadCopies, Disconnected, StartThread, NotStarted,
                StartThreadFails, NoBuffers, NewBuffers, TInv, PTypes
  <2> QED
    BY <1>2, <2>1, TotalCall
    DEF TInv, PTypes, RoomInv, pvars, place, flags, user, output, queue
<1>3. CASE NetStreamingThread
  <2>1. UNCHANGED <<nFree, listBuf, hand>>
    BY <1>3 DEF NetStreamingThread, Begin, Connected, Prebuffered, Probe, Probed,
         PreparePlayback, Prepare, Reuse, OpenNew, Reopen, Reopened, Prepared,
         Playing, Loop, Drain, Reconnect, ConnectAgain, Resume, ReadStream,
         StreamRead, Rendering, Rendered, NeedsBuffer, Put, PutNothing, Count,
         Test, Start, PutsOut, GetBuffer, UnpreparePlayback, Flush, Flushing,
         Close, CloseAll, Closes, Unprepared, Jump, rvars,
         BeginDisconnect, BeginRead, lists, filling
  <2> QED
    BY <1>3, <2>1, PTypesNet DEF TInv, Total
<1>4. CASE Play \/ Stop \/ Stopping \/ Device
  <2>1. UNCHANGED <<nFree, listBuf, hand>>
    BY <1>4 DEF Play, Stop, Stopping, StopBegins, StopsReceiver, StopsOutput,
         StopHasReset, Stopped, Device, BufferPlayed, WaveWakes, WaveFills,
         StopReceiver, rvars, lists, filling
  <2> QED
    BY <1>4, <2>1, PTypesUser DEF TInv, Total
<1>5. CASE UNCHANGED vars
  BY <1>5 DEF vars, pvars, place, flags, user, output, queue, rvars, lists,
              filling, TInv, Total, PTypes, RoomInv
<1> QED
  BY <1>1, <1>2, <1>3, <1>4, <1>5 DEF Next

\* The variables have their types: no more buffers are in a list than there
\* are, and the output is never given more than it has (Receiver.cpp:139-151,
\* 317-335, output.cpp:178-206).
THEOREM StreamingTypeOKCorrect == Spec => []TypeOK
<1>1. RInv /\ AInv /\ TInv => TypeOK
  <2> SUFFICES ASSUME RInv, AInv, TInv PROVE TypeOK
    OBVIOUS
  <2>1. nFree \in 0..CBuf /\ Len(listBuf) \in 0..CBuf
    BY BufferAssumption, ListLength DEF RInv, Types, TInv, Total
  <2> QED
    BY <2>1 DEF RInv, Types, AInv, ATypes, TInv, PTypes, TypeOK
<1> QED
  BY <1>1, InitInv, StepInv, InitA, StepA, InitT, StepT, PTL DEF Spec

=============================================================================
