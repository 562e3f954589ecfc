--------------------------- MODULE PaddingProofs ---------------------------
(***************************************************************************)
(* Padding fills what it is to fill: the proof for TunnelOut.              *)
(*                                                                         *)
(* tunnel_maybe_pad and tunnel_close compute a length once; it is written  *)
(* in pieces, each a request that checks the budget, the age and the       *)
(* connection again and ends the body if it becomes full.  PadInv follows  *)
(* Ahead, the length the body will have when the calls under way are done. *)
(* Unless something disturbs the operation it never changes.               *)
(***************************************************************************)
EXTENDS BodyLengthProofs

\* The main loop's operation, and a call that writes padding for it.
Base == stack[Len(stack)]
Filler(f) == f.fn = "pad1s" \/ (f.fn = "loop" /\ f.req = "PADDING")

\* What a loop of padding asks for after the request it waits for.
Rest(f) == IF f.fn = "loop" /\ f.pc = "called" THEN f.left - f.n ELSE f.left

\* The body without the request that is half written, and what the calls under
\* way are still to write of what Base has asked for.
Counted == IF At("request", "payload") THEN bytes - 1 ELSE bytes
BeingWritten == IF Top.fn = "request" THEN Sized(Top) ELSE 0
AskedFor ==
    IF Len(stack) >= 2 /\ Filler(stack[Len(stack) - 1])
      THEN Rest(stack[Len(stack) - 1]) ELSE 0
Owed == BeingWritten + AskedFor

\* The length of the body when they have.
Ahead == Counted + Owed

\* An operation that pads the body, undisturbed so far.
PadsUndisturbed ==
    /\ stack # <<>> /\ upset = {} /\ ~broken
    /\ Base.fn = "maybepad" \/ (Base.fn = "close" /\ Strict)

\* A request of padding finds its room and asks for no more padding.
PadStack ==
    /\ Len(stack) <= 3
    /\ Len(stack) >= 2 =>
         \/ Filler(stack[Len(stack) - 1])
         \/ /\ Len(stack) = 2 /\ Top.fn = "request" /\ Top.req = "CLOSE"
            /\ Base.fn = "close" /\ Base.pc = "disconnect"
    /\ Top.fn = "loop" /\ Top.pc = "called" => ret # -1

\* tunnel_maybe_pad: the body is to end on a block or to be full.
BlockInv ==
    Base.fn = "maybepad" =>
      /\ Base.len > 0 /\ Ahead <= ContentLength
      /\ \/ Ahead % Base.len = 0
         \/ Ahead = ContentLength /\ Owed > 0

\* tunnel_close: the body is to lack TUNNEL_DISCONNECT, then to be full.
CloseInv ==
    Base.fn = "close" =>
      /\ Base.pc \in {"pad", "request", "disconnect"}
      /\ Base.pc = "pad" => Len(stack) = 1
      /\ Base.pc = "request" => Ahead + 1 = ContentLength
      /\ Base.pc = "disconnect" => \/ Len(stack) = 1 /\ ~up
                                   \/ /\ Len(stack) = 2 /\ Top.fn = "request"
                                      /\ Ahead = ContentLength

Padded == PadStack /\ BlockInv /\ CloseInv

PadInv == PadsUndisturbed => Padded
-----------------------------------------------------------------------------
(***************************************************************************)
(* The two states of an undisturbed operation that has made a call.        *)
(***************************************************************************)
\* A request of padding, or the TUNNEL_CLOSE of tunnel_close, finds its room.
LEMMA PadRequest ==
    ASSUME TypeInv, Sound, PadInv, PadsUndisturbed, Top.fn = "request"
    PROVE  /\ Counted = Begun /\ Counted \in Nat
           /\ Sized(Top) \in Nat /\ Sized(Top) >= 1 /\ AskedFor \in Nat
           /\ Owed = Sized(Top) + AskedFor
           /\ Ahead = Completed + AskedFor /\ Ahead <= ContentLength
           /\ \/ /\ Len(stack) = 2 /\ AskedFor = 0 /\ Base = stack[2]
                 /\ Base.fn = "close" /\ Base.pc = "disconnect"
                 /\ Ahead = ContentLength
              \/ /\ Len(stack) = 3 /\ AskedFor = Rest(stack[2])
                 /\ Base = stack[3] /\ Filler(stack[2])
                 /\ Base.fn = "close" => Base.pc = "request"
<1>1. /\ PadStack /\ BlockInv /\ CloseInv /\ StackInv /\ stack # <<>>
      /\ Base.fn \in {"maybepad", "close"}
  BY DEF PadInv, Padded, PadsUndisturbed, Sound
<1>2. /\ Len(stack) \in Nat /\ Top = stack[1] /\ bytes \in Nat
      /\ \A i \in 1..Len(stack) : stack[i] \in Frames
  BY <1>1, StackFacts
<1>3. /\ Len(stack) >= 2 /\ MadeBy(Top, stack[2]) /\ stack[2] \in Frames
      /\ Sized(Top) \in Nat /\ Sized(Top) >= 1
  BY <1>1, BelowRequest
<1>4. Counted = Begun /\ Counted \in Nat
  BY <1>1, <1>2 DEF Counted, Begun, At, TypeInv, BytesInv
<1>5. Owed = Sized(Top) + AskedFor
  BY DEF Owed, BeingWritten
<1>6. CASE Len(stack) = 2
  <2>1. ~Filler(Top) /\ stack[Len(stack) - 1] = Top /\ Base = stack[2]
    BY <1>2, <1>6 DEF Filler, Base
  <2>2. AskedFor = 0
    BY <2>1 DEF AskedFor
  <2>3. Base.fn = "close" /\ Base.pc = "disconnect"
    BY <1>1, <1>6, <2>1 DEF PadStack
  <2>4. Ahead = ContentLength
    BY <1>1, <1>6, <2>3 DEF CloseInv
  <2> QED
    BY <1>3, <1>4, <1>5, <1>6, <2>1, <2>2, <2>3, <2>4, ConstantsAssumption
       DEF Ahead, Completed
<1>7. CASE Len(stack) = 3
  <2>1. Len(stack) - 1 = 2 /\ Base = stack[3]
    BY <1>7 DEF Base
  <2>2. Filler(stack[2])
    BY <1>1, <1>7, <2>1 DEF PadStack
  <2>3. AskedFor = Rest(stack[2])
    BY <1>7, <2>1, <2>2 DEF AskedFor
  <2>4. Rest(stack[2]) \in Nat
    <3>1. stack[2].left \in Nat /\ stack[2].n \in 0..(SizeMod - 1)
      BY <1>3, FrameSizes DEF Frames
    <3>2. stack[2].fn = "loop" => stack[2].n <= stack[2].left
      BY <1>3 DEF MadeBy
    <3> QED
      BY <3>1, <3>2, ConstantsAssumption DEF Rest
  <2>5. Base.fn = "close" => Base.pc = "request"
    BY <1>1, <1>7 DEF CloseInv
  <2>6. Ahead \in Nat /\ Ahead = Completed + AskedFor
    BY <1>3, <1>4, <1>5, <2>3, <2>4 DEF Ahead, Completed
  <2>7. Ahead <= ContentLength
    BY <1>1, <2>5, <2>6, ConstantsAssumption DEF BlockInv, CloseInv
  <2> QED
    BY <1>3, <1>4, <1>5, <1>7, <2>1, <2>2, <2>3, <2>4, <2>5, <2>6, <2>7
<1>8. Len(stack) \in {2, 3}
  <2>1. Len(stack) <= 3
    BY <1>1 DEF PadStack
  <2>2. \A n \in Nat : n >= 2 /\ n <= 3 => n \in {2, 3}
    OBVIOUS
  <2> QED
    BY <1>2, <1>3, <2>1, <2>2
<1> QED
  BY <1>6, <1>7, <1>8

\* The loop of tunnel_padding is at work between two requests.
LEMMA PadLoop ==
    ASSUME TypeInv, Sound, PadInv, PadsUndisturbed, Top.fn \in {"loop", "pad1s"}
    PROVE  /\ Len(stack) = 2 /\ Filler(Top) /\ Base = stack[2]
           /\ Counted = bytes /\ Owed = Rest(Top)
           /\ Base.fn = "close" => Base.pc = "request"
<1>1. /\ PadStack /\ CloseInv /\ StackInv /\ stack # <<>>
  BY DEF PadInv, Padded, PadsUndisturbed, Sound
<1>2. Len(stack) \in Nat /\ Top = stack[1] /\ Top \in Frames
  BY <1>1, StackFacts
<1>3. Len(stack) >= 2 /\ MadeBy(Top, stack[2])
  BY <1>1, SecondCall DEF Operations
<1>4. Len(stack) = 2
  <2>1. CASE Len(stack) = 3
    <3>1. Len(stack) - 1 = 2
      BY <2>1
    <3>2. Filler(stack[2])
      BY <1>1, <2>1, <3>1 DEF PadStack
    <3> QED
      BY <1>3, <3>2 DEF Filler, MadeBy
  <2>2. Len(stack) <= 3
    BY <1>1 DEF PadStack
  <2>3. \A n \in Nat : n >= 2 /\ n <= 3 => n \in {2, 3}
    OBVIOUS
  <2> QED
    BY <1>2, <1>3, <2>1, <2>2, <2>3
<1>5. stack[Len(stack) - 1] = Top /\ Base = stack[2]
  BY <1>2, <1>4 DEF Base
<1>6. Filler(Top)
  BY <1>1, <1>4, <1>5 DEF PadStack
<1>7. Rest(Top) \in Int
  BY <1>2, ConstantsAssumption DEF Rest, Frames
<1>8. Owed = Rest(Top) /\ Counted = bytes
  BY <1>4, <1>5, <1>6, <1>7 DEF Owed, BeingWritten, AskedFor, Counted, At
<1>9. Base.fn = "close" => Base.pc = "request"
  BY <1>1, <1>4 DEF CloseInv
<1> QED
  BY <1>4, <1>5, <1>6, <1>8, <1>9
-----------------------------------------------------------------------------
(***************************************************************************)
(* tunnel_write_request.                                                   *)
(***************************************************************************)
\* The request goes on: what is ahead stays.
LEMMA PadGoto ==
    ASSUME TypeInv, Sound, PadInv, stack # <<>>, Top.fn = "request",
           Top.pc # "payload",
           NEW p \in {"age", "connect", "write", "rewrite", "payload"}, Goto(p),
           bytes' = IF p = "payload" THEN bytes + 1 ELSE bytes,
           upset = {}, ~broken, PadsUndisturbed'
    PROVE  Padded'
<1> DEFINE a == [Top EXCEPT !.pc = p]
<1>1. /\ StackInv /\ Top = stack[1] /\ Top \in Frames /\ Len(stack) \in Nat
      /\ bytes \in Nat /\ \A i \in 1..Len(stack) : stack[i] \in Frames
  BY StackFacts DEF Sound
<1>2. /\ a \in Frames /\ a.fn = "request" /\ a.req = Top.req /\ a.len = Top.len
      /\ a.left = Top.left /\ a.pc = p /\ stack' = <<a>> \o Tail(stack)
  BY <1>1 DEF Frames, ProgramPoints, Goto
<1> HIDE DEF a
<1>3. a.left <= Top.left
  BY <1>1, <1>2, FrameSizes, ConstantsAssumption
<1>4. /\ stack' # <<>> /\ Top' = a /\ Len(stack') = Len(stack)
      /\ \A i \in 2..Len(stack) : stack'[i] = stack[i]
  BY <1>1, <1>2, <1>3, StackStay
<1>5. Len(stack) >= 2
  BY <1>1, BelowRequest
<1>6. Base' = Base
  BY <1>1, <1>4, <1>5 DEF Base
<1>7. PadsUndisturbed
  BY <1>6 DEF PadsUndisturbed
<1>8. Len(stack) \in {2, 3} /\ PadStack /\ BlockInv /\ CloseInv
  BY <1>7, PadRequest DEF PadInv, Padded
<1>9. Counted' = Counted
  BY <1>1, <1>2, <1>4 DEF Counted, At
<1>10. /\ stack'[1] = a /\ Top = stack[1]
       /\ ~Filler(a) /\ ~Filler(Top)
  BY <1>1, <1>2, <1>4 DEF Filler, Top
<1>11. AskedFor' = AskedFor /\ PadStack'
  <2>1. CASE Len(stack) = 2
    <3>1. /\ stack[Len(stack) - 1] = Top /\ stack'[Len(stack') - 1] = a
      BY <1>1, <1>4, <1>10, <2>1
    <3>2. AskedFor' = AskedFor
      BY <1>10, <3>1 DEF AskedFor, Filler
    <3>3. PadStack'
      BY <1>2, <1>4, <1>6, <1>8, <1>10, <2>1, <3>1 DEF PadStack, Filler
    <3> QED
      BY <3>2, <3>3
  <2>2. CASE Len(stack) = 3
    <3>1. /\ Len(stack) - 1 = 2 /\ stack'[2] = stack[2] /\ Len(stack') - 1 = 2
      BY <1>4, <2>2
    <3>2. AskedFor' = AskedFor
      BY <1>4, <3>1 DEF AskedFor, Filler, Rest
    <3>3. Filler(stack[2]) /\ Len(stack') <= 3
      BY <1>4, <1>8, <2>2, <3>1 DEF PadStack
    <3>4. Filler(stack'[Len(stack') - 1]) /\ a.fn # "loop"
      BY <1>2, <3>1, <3>3 DEF Filler
    <3>5. PadStack'
      BY <1>4, <3>3, <3>4 DEF PadStack, Filler
    <3> QED
      BY <3>2, <3>5
  <2> QED
    BY <1>8, <2>1, <2>2
<1>12. Owed' = Owed /\ Ahead' = Ahead
  BY <1>2, <1>4, <1>9, <1>11
     DEF Owed, BeingWritten, Ahead, Sized, RequestSize
<1>13. BlockInv' /\ CloseInv'
  BY <1>2, <1>4, <1>6, <1>8, <1>12 DEF BlockInv, CloseInv
<1> QED
  BY <1>11, <1>13 DEF Padded

\* The request has been written. If the body is full now, nothing is owed.
LEMMA PadDone ==
    ASSUME TypeInv, Sound, PadInv, stack # <<>>, Top.fn = "request", Live,
           Top.pc \in {"write", "rewrite", "payload"},
           EndRequest(Completed), upset = {}, PadsUndisturbed'
    PROVE  Padded'
<1>1. /\ StackInv /\ Len(stack) \in Nat /\ Top = stack[1]
  BY StackFacts DEF Sound
<1>2. /\ stack' # <<>> /\ ret' = 0 /\ Len(stack) >= 2
      /\ Top' = stack[2] /\ Len(stack') = Len(stack) - 1
      /\ \A i \in 1..Len(stack') : stack'[i] = stack[i + 1]
  BY <1>1, StackReturn DEF Operations, EndRequest
<1>3. Base' = Base
  <2>1. Len(stack') \in 1..Len(stack') /\ Len(stack') + 1 = Len(stack)
    BY <1>1, <1>2
  <2> QED
    BY <1>2, <2>1 DEF Base
<1>4. PadsUndisturbed
  BY <1>3 DEF PadsUndisturbed, Live
<1>5. /\ Completed \in Nat /\ AskedFor \in Nat /\ Ahead = Completed + AskedFor
      /\ Ahead <= ContentLength /\ BlockInv /\ CloseInv
      /\ Owed = Sized(Top) + AskedFor
  BY <1>4, CompletedFits, PadRequest DEF PadInv, Padded
<1>6. \/ Completed < ContentLength /\ bytes' = Completed
      \/ Completed = ContentLength /\ bytes' = 0 /\ ~up'
  <2>1. Completed <= ContentLength
    BY <1>5, ConstantsAssumption
  <2>2. \/ Completed < ContentLength /\ bytes' = Completed
        \/ ~(Completed < ContentLength) /\ bytes' = 0 /\ ~up'
    BY DEF EndRequest, OutDisconnect
  <2> QED
    BY <1>5, <2>1, <2>2, ConstantsAssumption
<1>7. Top'.fn # "request"
  BY <1>1, <1>2, BelowRequest
<1>8. Counted' = bytes' /\ BeingWritten' = 0
  BY <1>7 DEF Counted, At, BeingWritten
<1>9. CASE Len(stack) = 2
  <2>1. /\ AskedFor = 0 /\ Base.fn = "close" /\ Base.pc = "disconnect"
        /\ Ahead = ContentLength /\ Base = stack[2]
    BY <1>4, <1>9, PadRequest
  <2>2. ~up' /\ Len(stack') = 1
    BY <1>2, <1>5, <1>6, <1>9, <2>1, ConstantsAssumption
  <2>3. PadStack'
    <3>1. Len(stack') <= 3 /\ ~(Len(stack') >= 2)
      BY <2>2
    <3>2. Top'.fn # "loop"
      BY <1>2, <2>1
    <3> QED
      BY <3>1, <3>2 DEF PadStack
  <2> QED
    BY <1>3, <2>1, <2>2, <2>3 DEF BlockInv, CloseInv, Padded
<1>10. CASE Len(stack) = 3
  <2>1. /\ Filler(stack[2]) /\ AskedFor = Rest(stack[2])
        /\ Base.fn = "close" => Base.pc = "request"
    BY <1>4, <1>10, PadRequest
  <2>2. Len(stack') = 2 /\ stack'[1] = stack[2] /\ Len(stack') - 1 = 1
    BY <1>2, <1>10
  <2>3. AskedFor' = AskedFor
    BY <2>1, <2>2 DEF AskedFor, Filler, Rest
  <2>4. Owed' = AskedFor /\ Ahead' = bytes' + AskedFor
    BY <1>5, <1>8, <2>3 DEF Owed, Ahead
  <2>5. PadStack'
    <3>1. Len(stack') <= 3 /\ ret' # -1
      <4>1. ret' # -1
        BY <1>2
      <4> QED
        BY <2>2, <4>1
    <3>2. Filler(stack'[Len(stack') - 1])
      BY <2>1, <2>2 DEF Filler
    <3> QED
      BY <3>1, <3>2 DEF PadStack, Filler
  <2>6. CASE Completed < ContentLength /\ bytes' = Completed
    <3>1. Ahead' = Ahead
      BY <1>5, <2>4, <2>6
    <3>2. Ahead = ContentLength => AskedFor > 0
      BY <1>5, <2>6, ConstantsAssumption
    <3> QED
      BY <1>3, <1>5, <2>1, <2>4, <2>5, <3>1, <3>2
         DEF BlockInv, CloseInv, Padded
  <2>7. CASE Completed = ContentLength /\ bytes' = 0 /\ ~up'
    <3>1. AskedFor = 0 /\ Ahead = ContentLength
      BY <1>5, <2>7, ConstantsAssumption
    <3>2. Base.fn # "close"
      BY <1>5, <2>1, <3>1, ConstantsAssumption DEF CloseInv
    <3>3. Ahead' = 0
      BY <2>4, <2>7, <3>1
    <3>4. Base.fn = "maybepad" => 0 % Base.len = 0
      <4>1. Base.len \in Nat
        BY <1>1, <1>2, StackFacts, FrameSizes DEF Base
      <4>2. \A b \in Nat : b > 0 => 0 % b = 0
        OBVIOUS
      <4> QED
        BY <1>5, <4>1, <4>2 DEF BlockInv
    <3>5. BlockInv'
      BY <1>3, <1>5, <3>3, <3>4, ConstantsAssumption DEF BlockInv
    <3>6. CloseInv'
      BY <1>3, <3>2 DEF CloseInv
    <3> QED
      BY <2>5, <3>5, <3>6 DEF Padded
  <2> QED
    BY <1>6, <2>6, <2>7
<1> QED
  BY <1>4, <1>9, <1>10, PadRequest

\* The request fits, and asks for no padding of its own.
LEMMA PadCheckBudget ==
    ASSUME TypeInv, Sound, PadInv, CheckBudget, PadsUndisturbed'
    PROVE  Padded'
<1> DEFINE pad == Padding(Wrap(ContentLength - bytes))
           rest == [Top EXCEPT !.pc = "age"]
<1>1. /\ stack # <<>> /\ Top.fn = "request" /\ Top.pc = "budget"
      /\ UNCHANGED <<up, broken, bytes, upset>>
  BY DEF CheckBudget, At, conn, history
<1>2. upset = {} /\ ~broken
  BY <1>1 DEF PadsUndisturbed
<1>3. CASE Goto("age")
  BY <1>1, <1>2, <1>3, PadGoto
<1>4. CASE ~Goto("age")
  <2>1. bytes + Sized(Top) > ContentLength /\ Call(rest, pad)
    BY <1>4 DEF CheckBudget, Sized
  <2>2. /\ stack \in Seq(Frames) /\ StackInv /\ Len(stack) \in Nat
        /\ Len(stack) >= 2 /\ bytes \in Nat
    BY <1>1, StackFacts, BelowRequest DEF Sound
  <2> HIDE DEF rest, pad
  <2>3. Base' = Base
    <3>1. stack' = <<pad, rest>> \o Tail(stack)
      BY <2>1 DEF Call
    <3>2. /\ Len(stack') = Len(stack) + 1
          /\ stack'[Len(stack) + 1] = stack[Len(stack)]
      <4>1. Tail(stack) \in Seq(Frames) /\ Len(Tail(stack)) = Len(stack) - 1
        BY <2>2
      <4>2. Tail(stack)[Len(stack) - 1] = stack[Len(stack)]
        BY <2>2
      <4>3. \A t \in Seq(Frames), k \in Nat :
              Len(t) = k /\ k > 0 =>
                /\ Len(<<pad, rest>> \o t) = k + 2
                /\ (<<pad, rest>> \o t)[k + 2] = t[k]
        OBVIOUS
      <4> QED
        BY <2>2, <3>1, <4>1, <4>2, <4>3
    <3> QED
      BY <3>2 DEF Base
  <2>4. PadsUndisturbed
    BY <1>1, <1>2, <2>3 DEF PadsUndisturbed
  <2>5. /\ Counted + Sized(Top) + AskedFor <= ContentLength
        /\ AskedFor \in Nat /\ Sized(Top) \in Nat
    BY <1>1, <2>4, PadRequest DEF Completed
  <2>6. Counted = bytes
    BY <1>1 DEF Counted, At
  <2> QED
    BY <2>1, <2>2, <2>5, <2>6, ConstantsAssumption
<1> QED
  BY <1>3, <1>4

\* Every other step of tunnel_write_request.
LEMMA PadRequestStep ==
    ASSUME TypeInv, "wrapped" \notin upset => Sound, PadInv, RequestStep,
           PadsUndisturbed'
    PROVE  Padded'
<1>1. /\ upset' = {} /\ ~broken'
      /\ ~CloseAged /\ ~CloseAgedFails /\ ~WriteRequestFails
      /\ ~WriteRequestEPIPE /\ ~RewriteRequestFails /\ ~WritePayloadFails
  BY DEF PadsUndisturbed, CloseAged, CloseAgedFails, WriteRequestFails,
         WriteRequestEPIPE, RewriteRequestFails, WritePayloadFails
<1>2. CASE CheckBudget
  <2>1. upset = {}
    BY <1>1, <1>2 DEF CheckBudget, history
  <2> QED
    BY <1>2, <2>1, PadCheckBudget
<1>3. CASE StillYoung \/ StillConnected
  <2>1. /\ stack # <<>> /\ Top.fn = "request" /\ Top.pc # "payload"
        /\ Goto("connect") \/ Goto("write")
        /\ UNCHANGED <<broken, bytes, upset>>
    BY <1>3 DEF StillYoung, StillConnected, At, conn, history
  <2> QED
    BY <1>1, <2>1, PadGoto
<1>4. CASE Reconnect
  <2>1. /\ stack # <<>> /\ Top.fn = "request" /\ Top.pc # "payload" /\ ~up
        /\ Connected /\ Goto("write") /\ upset' = upset \cup Swapped
    BY <1>1, <1>4 DEF Reconnect, At
  <2>2. bytes = 0 /\ ~broken /\ bytes' = 0 /\ upset = {}
    BY <1>1, <2>1 DEF TypeInv, TypeOK, Connected
  <2> QED
    BY <2>1, <2>2, PadGoto
<1>5. CASE WriteRequest \/ RewriteRequest \/ WritePayload
  <2>1. /\ stack # <<>> /\ Top.fn = "request"
        /\ Top.pc \in {"write", "rewrite", "payload"} /\ Live
    BY <1>5 DEF WriteRequest, RewriteRequest, WritePayload, TypeInv, BytesInv,
                Live, At
  <2>2. upset = {}
    <3>1. \/ \E total \in {bytes + 1, bytes + 2 + Top.len} : EndRequest(total)
          \/ UNCHANGED history
      BY <1>5 DEF WriteRequest, RewriteRequest, WritePayload, RequestByteSent
    <3> QED
      BY <1>1, <3>1 DEF EndRequest, history
  <2>3. /\ Sound /\ StackInv /\ RequestInv /\ bytes \in Nat
    BY <2>1, <2>2 DEF Sound, TypeInv, TypeOK
  <2>4. HasData(Top.req) => Sized(Top) = Header + Top.len /\ Top.len \in Nat
    BY <2>1, <2>3, BelowRequest
  <2>5. CASE Top.pc = "payload"
    <3>1. HasData(Top.req) /\ EndRequest(bytes + 2 + Top.len)
      BY <1>5, <2>1, <2>3, <2>5
         DEF RequestInv, WriteRequest, RewriteRequest, WritePayload, At
    <3>2. bytes + 2 + Top.len = Completed
      BY <2>3, <2>4, <2>5, <3>1 DEF Completed, Begun, Header
    <3> QED
      BY <2>1, <2>2, <2>3, <3>1, <3>2, PadDone
  <2>6. CASE Top.pc # "payload" /\ HasData(Top.req)
    <3>1. RequestByteSent
      BY <1>5, <2>6 DEF WriteRequest, RewriteRequest, WritePayload, At
    <3>2. Goto("payload") /\ bytes' = bytes + 1 /\ ~broken
      BY <2>1, <2>6, <3>1 DEF RequestByteSent, Live
    <3> QED
      BY <2>1, <2>2, <2>3, <2>6, <3>2, PadGoto
  <2>7. CASE Top.pc # "payload" /\ ~HasData(Top.req)
    <3>1. RequestByteSent
      BY <1>5, <2>7 DEF WriteRequest, RewriteRequest, WritePayload, At
    <3>2. EndRequest(bytes + 1)
      BY <2>7, <3>1 DEF RequestByteSent
    <3>3. bytes + 1 = Completed
      BY <2>7 DEF Completed, Begun, Sized, RequestSize
    <3> QED
      BY <2>1, <2>2, <2>3, <3>2, <3>3, PadDone
  <2> QED
    BY <2>5, <2>6, <2>7
<1> QED
  BY <1>1, <1>2, <1>3, <1>4, <1>5 DEF RequestStep
-----------------------------------------------------------------------------
(***************************************************************************)
(* The loops of tunnel_padding.                                            *)
(***************************************************************************)
\* A call is made on top of the caller.
LEMMA CallStack ==
    ASSUME TypeInv, StackInv, stack # <<>>, NEW a, NEW b, Call(a, b)
    PROVE  /\ stack' # <<>> /\ Top' = b /\ Len(stack') = Len(stack) + 1
           /\ stack'[1] = b /\ stack'[2] = a
           /\ \A i \in 3..Len(stack') : stack'[i] = stack[i - 1]
           /\ Len(stack) >= 2 => Base' = Base
<1>1. stack \in Seq(Frames) /\ Len(stack) \in Nat /\ Len(stack) >= 1
  BY StackFacts
<1>2. stack' = <<b, a>> \o Tail(stack)
  BY DEF Call
<1>3. /\ Tail(stack) \in Seq(Frames) /\ Len(Tail(stack)) = Len(stack) - 1
      /\ \A i \in 1..(Len(stack) - 1) : Tail(stack)[i] = stack[i + 1]
  BY <1>1
<1>4. \A t \in Seq(Frames) :
        /\ Len(<<b, a>> \o t) = Len(t) + 2 /\ <<b, a>> \o t # <<>>
        /\ (<<b, a>> \o t)[1] = b /\ (<<b, a>> \o t)[2] = a
        /\ Head(<<b, a>> \o t) = b
        /\ \A i \in 3..(Len(t) + 2) : (<<b, a>> \o t)[i] = t[i - 2]
  OBVIOUS
<1>5. /\ Len(stack') = Len(stack) + 1 /\ stack' # <<>> /\ Head(stack') = b
      /\ stack'[1] = b /\ stack'[2] = a
      /\ \A i \in 3..(Len(stack) + 1) : stack'[i] = Tail(stack)[i - 2]
  BY <1>1, <1>2, <1>3, <1>4
<1>6. \A i \in 3..(Len(stack) + 1) : Tail(stack)[i - 2] = stack[i - 1]
  <2> SUFFICES ASSUME NEW i \in 3..(Len(stack) + 1)
               PROVE  Tail(stack)[i - 2] = stack[i - 1]
    OBVIOUS
  <2>1. i - 2 \in 1..(Len(stack) - 1) /\ (i - 2) + 1 = i - 1
    BY <1>1
  <2> QED
    BY <1>3, <2>1
<1>7. \A i \in 3..Len(stack') : stack'[i] = stack[i - 1]
  BY <1>5, <1>6
<1>8. ASSUME Len(stack) >= 2 PROVE Base' = Base
  <2>1. Len(stack') \in 3..Len(stack') /\ Len(stack') - 1 = Len(stack)
    BY <1>1, <1>5, <1>8
  <2> QED
    BY <1>7, <2>1 DEF Base
<1> QED
  BY <1>5, <1>7, <1>8 DEF Top

\* What the loop still has to ask for becomes what it waits for and the rest.
LEMMA PadCall ==
    ASSUME TypeInv, Sound, PadInv, stack # <<>>, Top.fn \in {"loop", "pad1s"},
           NEW a, NEW b, Call(a, b), a.fn = Top.fn, a.req = Top.req,
           b.fn = "request", b.pc = "budget",
           Filler(Top) => Sized(b) + Rest(a) = Rest(Top),
           UNCHANGED <<bytes, broken>>, upset = {}, PadsUndisturbed'
    PROVE  Padded'
<1>1. StackInv /\ Len(stack) \in Nat /\ Len(stack) >= 2
  BY StackFacts, SecondCall DEF Sound, Operations
<1>2. /\ stack' # <<>> /\ Top' = b /\ Len(stack') = Len(stack) + 1
      /\ stack'[2] = a /\ Base' = Base
  BY <1>1, CallStack
<1>4. PadsUndisturbed
  BY <1>2 DEF PadsUndisturbed
<1>5. /\ Len(stack) = 2 /\ Filler(Top) /\ Counted = bytes /\ Owed = Rest(Top)
      /\ Base.fn = "close" => Base.pc = "request"
      /\ BlockInv /\ CloseInv
  BY <1>4, PadLoop DEF PadInv, Padded
<1>6. /\ Len(stack') >= 2 /\ Len(stack') <= 3
      /\ stack'[Len(stack') - 1] = a /\ Filler(a)
  <2>1. Len(stack') = 3 /\ Len(stack') - 1 = 2
    BY <1>2, <1>5
  <2> QED
    BY <1>2, <1>5, <2>1 DEF Filler
<1>7. AskedFor' = Rest(a) /\ BeingWritten' = Sized(b)
  BY <1>2, <1>6 DEF AskedFor, BeingWritten, Filler, Rest, Sized, RequestSize
<1>8. Counted' = bytes
  BY <1>2 DEF Counted, At
<1>9. Owed' = Owed /\ Ahead' = Ahead
  BY <1>5, <1>7, <1>8 DEF Owed, Ahead
<1>10. PadStack'
  <2>1. Len(stack') <= 3 /\ Filler(stack'[Len(stack') - 1])
    BY <1>6
  <2>2. Top'.fn # "loop"
    BY <1>2
  <2> QED
    BY <2>1, <2>2 DEF PadStack, Filler
<1>11. BlockInv' /\ CloseInv'
  BY <1>2, <1>5, <1>9 DEF BlockInv, CloseInv
<1> QED
  BY <1>10, <1>11 DEF Padded

\* A piece of padding is asked for.
LEMMA PadNextChunk ==
    ASSUME TypeInv, Sound, Sound', PadInv, NextChunk, PadsUndisturbed'
    PROVE  Padded'
<1> DEFINE n == Chunk(Top.req, Top.left)
           eaten == IF Top.req = "PADDING" THEN Wrap(n + Header) ELSE n
           rest == [Top EXCEPT !.n = eaten, !.pc = "called"]
           next == Request(Top.req, AsLength(n))
<1>1. /\ stack # <<>> /\ Top.fn = "loop" /\ Top.pc = "test"
      /\ UNCHANGED <<broken, bytes>> /\ upset = {}
  BY DEF NextChunk, At, conn, PadsUndisturbed
<1>2. Call(rest, next)
  BY DEF NextChunk
<1>3. StackInv /\ Len(stack) \in Nat /\ Len(stack) >= 1 /\ Top \in Frames
  BY <1>1, StackFacts DEF Sound
<1>4. /\ rest.fn = "loop" /\ rest.req = Top.req /\ rest.pc = "called"
      /\ rest.left = Top.left /\ rest.n = eaten
      /\ next.fn = "request" /\ next.req = Top.req /\ next.pc = "budget"
      /\ next.len = AsLength(n)
  BY <1>1, <1>3 DEF Frames, Request, Frame
<1>5. Top.left \in Nat /\ n \in Nat /\ AsLength(n) \in Nat
  <2>1. Top.left \in 1..(SizeMod - 1) /\ Top.req \in Requests
    BY <1>3, FrameSizes, ConstantsAssumption DEF NextChunk, Frames
  <2>2. n \in 0..(SizeMod - 1)
    BY <2>1, ChunkType
  <2> HIDE DEF n
  <2> QED
    BY <2>1, <2>2, AsLengthType, ConstantsAssumption
<1> HIDE DEF n, eaten, rest, next
<1>6. MadeBy(next, rest)
  <2>1. Len(stack') \in Nat /\ Len(stack') >= 2 /\ stack'[1] = next
        /\ stack'[2] = rest
    BY <1>1, <1>2, <1>3, CallStack
  <2>2. 2 \in 2..Len(stack') /\ 2 - 1 = 1
    BY <2>1
  <2> QED
    BY <2>1, <2>2 DEF Sound, StackInv, MadeBy, Sized, Eaten
<1>7. Filler(Top) => Sized(next) + Rest(rest) = Rest(Top)
  <2>1. rest.n = Eaten(next)
    BY <1>4, <1>6 DEF MadeBy
  <2> QED
    BY <1>1, <1>4, <1>5, <2>1
       DEF Filler, Rest, Eaten, Sized, RequestSize, HasData, Header
<1> QED
  BY <1>1, <1>2, <1>3, <1>4, <1>7, PadCall

\* The next TUNNEL_PAD1.
LEMMA PadNextPad1 ==
    ASSUME TypeInv, Sound, PadInv, NextPad1, PadsUndisturbed'
    PROVE  Padded'
<1> DEFINE rest == [Top EXCEPT !.left = @ - 1]
           next == Request("PAD1", 0)
<1>1. /\ stack # <<>> /\ Top.fn = "pad1s" /\ Call(rest, next)
      /\ UNCHANGED <<broken, bytes>> /\ upset = {}
  BY DEF NextPad1, At, conn, history, PadsUndisturbed
<1>2. Top \in Frames
  BY <1>1, StackFacts
<1>3. /\ rest.fn = "pad1s" /\ rest.req = Top.req /\ rest.left = Top.left - 1
      /\ next.fn = "request" /\ next.pc = "budget" /\ Sized(next) = 1
  BY <1>1, <1>2 DEF Frames, Request, Frame, Sized, RequestSize, HasData
<1>4. Top.left \in Nat
  BY <1>2, FrameSizes
<1> HIDE DEF rest, next
<1>5. Sized(next) + Rest(rest) = Rest(Top)
  BY <1>1, <1>3, <1>4 DEF Rest
<1> QED
  BY <1>1, <1>3, <1>5, PadCall

\* The request for a piece of padding has been granted: it is accounted for.
LEMMA PadChunkDone ==
    ASSUME TypeInv, Sound, PadInv, ChunkDone, PadsUndisturbed'
    PROVE  Padded'
<1> DEFINE rest == [Top EXCEPT !.left = Wrap(@ - Top.n), !.pc = "test"]
<1>1. /\ stack # <<>> /\ Top.fn = "loop" /\ Top.pc = "called"
      /\ UNCHANGED <<up, broken, bytes>> /\ upset = {}
  BY DEF ChunkDone, At, conn, history, PadsUndisturbed
<1>2. /\ StackInv /\ LoopInv /\ Top \in Frames /\ Top = stack[1]
      /\ stack \in Seq(Frames) /\ Len(stack) \in Nat /\ Len(stack) >= 2
  BY <1>1, StackFacts, SecondCall DEF Sound, Operations
<1>3. Base' = Base
  <2>1. CASE ret = -1
    <3>1. /\ Len(stack') = Len(stack) - 1
          /\ \A i \in 1..Len(stack') : stack'[i] = stack[i + 1]
      BY <1>1, <1>2, <2>1, StackReturn DEF ChunkDone, Operations
    <3>2. Len(stack') \in 1..Len(stack') /\ Len(stack') + 1 = Len(stack)
      BY <1>2, <3>1
    <3> QED
      BY <3>1, <3>2 DEF Base
  <2>2. CASE ret # -1
    <3>1. stack' = <<rest>> \o Tail(stack)
      BY <2>2 DEF ChunkDone
    <3> HIDE DEF rest
    <3>2. Len(stack') = Len(stack) /\ stack'[Len(stack)] = stack[Len(stack)]
      BY <1>2, <3>1
    <3> QED
      BY <3>2 DEF Base
  <2> QED
    BY <2>1, <2>2
<1>4. PadsUndisturbed
  BY <1>1, <1>3 DEF PadsUndisturbed
<1>5. /\ Len(stack) = 2 /\ Filler(Top) /\ Counted = bytes /\ Owed = Rest(Top)
      /\ Base.fn = "close" => Base.pc = "request"
      /\ PadStack /\ BlockInv /\ CloseInv
  BY <1>1, <1>4, PadLoop DEF PadInv, Padded
<1>6. stack' = <<rest>> \o Tail(stack)
  BY <1>1, <1>5 DEF PadStack, ChunkDone
<1>7. /\ rest.fn = "loop" /\ rest.req = Top.req /\ rest.pc = "test"
      /\ rest.left = Top.left - Top.n
  <2>1. Top.n \in 0..(SizeMod - 1) /\ Top.left \in 0..(SizeMod - 1)
    BY <1>2 DEF Frames
  <2>2. Top.n <= Top.left
    BY <1>1, <1>2 DEF LoopInv
  <2>3. Wrap(Top.left - Top.n) = Top.left - Top.n
    BY <2>1, <2>2, ConstantsAssumption DEF Wrap
  <2> QED
    BY <1>1, <1>2, <2>3 DEF Frames
<1> HIDE DEF rest
<1>8. /\ Len(stack') = 2 /\ Len(stack') - 1 = 1 /\ stack'[1] = rest
      /\ Top' = rest
  BY <1>2, <1>5, <1>6 DEF Top
<1>9. AskedFor' = Top.left - Top.n /\ BeingWritten' = 0 /\ Counted' = bytes
  BY <1>1, <1>5, <1>7, <1>8
     DEF AskedFor, Filler, Rest, BeingWritten, Counted, At
<1>10. Owed' = Owed /\ Ahead' = Ahead
  <2>1. Top.left - Top.n \in Int
    BY <1>2, ConstantsAssumption DEF Frames
  <2> QED
    BY <1>1, <1>5, <1>9, <2>1 DEF Owed, Ahead, Rest
<1>11. PadStack'
  <2>1. Len(stack') <= 3 /\ Filler(stack'[Len(stack') - 1])
    <3>1. Filler(rest)
      BY <1>1, <1>5, <1>7 DEF Filler
    <3> QED
      BY <1>8, <3>1
  <2>2. Top'.pc # "called"
    BY <1>7, <1>8
  <2> QED
    BY <2>1, <2>2 DEF PadStack, Filler
<1>12. BlockInv' /\ CloseInv'
  BY <1>3, <1>5, <1>10 DEF BlockInv, CloseInv
<1> QED
  BY <1>11, <1>12 DEF Padded

\* tunnel_padding returns: nothing is left to write.
LEMMA PadLoopDone ==
    ASSUME TypeInv, Sound, PadInv, LoopDone \/ Pad1sDone, PadsUndisturbed'
    PROVE  Padded'
<1>1. /\ stack # <<>> /\ Top.fn \in {"loop", "pad1s"} /\ Top.pc = "test"
      /\ Top.left = 0 /\ Return(Top.len)
      /\ UNCHANGED <<up, broken, bytes>> /\ upset = {}
  BY DEF LoopDone, Pad1sDone, At, conn, history, PadsUndisturbed
<1>2. StackInv /\ Len(stack) \in Nat
  BY <1>1, StackFacts DEF Sound
<1>3. /\ stack' # <<>> /\ Len(stack') = Len(stack) - 1 /\ Top' = stack[2]
      /\ \A i \in 1..Len(stack') : stack'[i] = stack[i + 1]
      /\ Len(stack) >= 2
  BY <1>1, <1>2, StackReturn DEF Operations
<1>4. Base' = Base
  <2>1. Len(stack') \in 1..Len(stack') /\ Len(stack') + 1 = Len(stack)
    BY <1>2, <1>3
  <2> QED
    BY <1>3, <2>1 DEF Base
<1>5. PadsUndisturbed
  BY <1>1, <1>4 DEF PadsUndisturbed
<1>6. /\ Len(stack) = 2 /\ Base = stack[2] /\ Counted = bytes
      /\ Owed = Rest(Top)
      /\ Base.fn = "close" => Base.pc = "request"
      /\ BlockInv /\ CloseInv
  BY <1>1, <1>5, PadLoop DEF PadInv, Padded
<1>7. Owed = 0
  BY <1>1, <1>6 DEF Rest
<1>8. Top'.fn \in {"maybepad", "close"}
  BY <1>3, <1>5, <1>6 DEF PadsUndisturbed
<1>9. Len(stack') = 1 /\ ~(Len(stack') >= 2) /\ Len(stack') <= 3
  BY <1>3, <1>6
<1>10. AskedFor' = 0 /\ BeingWritten' = 0 /\ Counted' = bytes
  BY <1>1, <1>8, <1>9 DEF AskedFor, BeingWritten, Counted, At
<1>11. Owed' = Owed /\ Ahead' = Ahead
  BY <1>6, <1>7, <1>10 DEF Owed, Ahead
<1>12. PadStack'
  BY <1>8, <1>9 DEF PadStack
<1>13. BlockInv' /\ CloseInv'
  BY <1>4, <1>6, <1>11 DEF BlockInv, CloseInv
<1> QED
  BY <1>12, <1>13 DEF Padded

\* Every step of the loops.
LEMMA PadLoopStep ==
    ASSUME TypeInv, Sound, Sound', PadInv, LoopStep, PadsUndisturbed'
    PROVE  Padded'
BY PadNextChunk, PadNextPad1, PadChunkDone, PadLoopDone DEF LoopStep
-----------------------------------------------------------------------------
(***************************************************************************)
(* The operations.                                                         *)
(***************************************************************************)
\* An operation has called tunnel_padding for what it lacks.
LEMMA PadStart ==
    ASSUME NEW n \in 0..(SizeMod - 1), NEW g, stack' = <<Padding(n), g>>,
           bytes' \in Nat, PadsUndisturbed',
           g.fn = "maybepad" =>
             /\ g.len > 0 /\ bytes' + n <= ContentLength
             /\ \/ (bytes' + n) % g.len = 0
                \/ bytes' + n = ContentLength /\ n > 0,
           g.fn = "close" => g.pc = "request" /\ bytes' + n + 1 = ContentLength
    PROVE  Padded'
<1> DEFINE f == Padding(n)
<1>1. f.pc = "test" /\ f.left = n /\ Filler(f)
  BY PaddingFrames DEF Filler
<1>2. f.fn # "request"
  BY <1>1 DEF Filler
<1> HIDE DEF f
<1>3. /\ Len(stack') = 2 /\ Len(stack') - 1 = 1 /\ Top' = f
      /\ stack'[1] = f /\ stack'[2] = g
  BY DEF Top, f
<1>4. Base' = g
  BY <1>3 DEF Base
<1>5. AskedFor' = n /\ BeingWritten' = 0 /\ Counted' = bytes'
  BY <1>1, <1>2, <1>3 DEF AskedFor, Filler, Rest, BeingWritten, Counted, At
<1>6. Owed' = n /\ Ahead' = bytes' + n
  BY <1>5, ConstantsAssumption DEF Owed, Ahead
<1>7. PadStack'
  <2>1. Len(stack') <= 3 /\ Filler(stack'[Len(stack') - 1])
    BY <1>1, <1>3
  <2> QED
    BY <1>1, <1>3, <2>1 DEF PadStack, Filler
<1>8. BlockInv' /\ CloseInv'
  BY <1>4, <1>6, ConstantsAssumption DEF BlockInv, CloseInv
<1> QED
  BY <1>7, <1>8 DEF Padded

\* tunnel_close pads, and asks for TUNNEL_CLOSE.
LEMMA PadClosing ==
    ASSUME TypeInv, Sound, PadInv, ClosePadding \/ CloseRequest,
           PadsUndisturbed'
    PROVE  Padded'
<1> DEFINE rest(p) == [Top EXCEPT !.pc = p]
           room == ContentLength - bytes - 1
           close == Request("CLOSE", 0)
<1>1. /\ stack # <<>> /\ Top.fn = "close" /\ UNCHANGED <<up, broken, bytes>>
      /\ upset = {}
  BY DEF ClosePadding, CloseRequest, At, conn, history, PadsUndisturbed
<1>2. /\ StackInv /\ stack \in Seq(Frames) /\ Top = stack[1] /\ Top \in Frames
      /\ Len(stack) \in Nat /\ Len(stack) >= 1
      /\ bytes \in Nat /\ bytes <= ContentLength
  BY <1>1, StackFacts DEF Sound
<1>3. Len(stack) = 1
  <2>1. 1 \in 1..Len(stack) /\ stack[1].fn \in Operations
    BY <1>1, <1>2 DEF Operations
  <2> QED
    BY <1>2, <2>1, OperationAlone
<1>4. /\ \A a : <<a>> \o Tail(stack) = <<a>>
      /\ \A a, b : <<a, b>> \o Tail(stack) = <<a, b>>
  <2>1. Tail(stack) \in Seq(Frames) /\ Len(Tail(stack)) = 0
    <3>1. \A t \in Seq(Frames) :
            Len(t) = 1 => Tail(t) \in Seq(Frames) /\ Len(Tail(t)) = 0
      OBVIOUS
    <3> QED
      BY <1>2, <1>3, <3>1
  <2>2. \A t \in Seq(Frames) : Len(t) = 0 => t = <<>>
    OBVIOUS
  <2>3. Tail(stack) = <<>>
    BY <2>1, <2>2
  <2>4. \A a : <<a>> \o <<>> = <<a>>
    OBVIOUS
  <2>5. \A a, b : <<a, b>> \o <<>> = <<a, b>>
    OBVIOUS
  <2> QED
    BY <2>3, <2>4, <2>5
<1>5. /\ rest("request").fn = "close" /\ rest("request").pc = "request"
      /\ rest("disconnect").fn = "close" /\ rest("disconnect").pc = "disconnect"
  BY <1>1, <1>2 DEF Frames
<1>6. Base = Top
  BY <1>2, <1>3 DEF Base
<1> HIDE DEF rest
<1>7. Strict
  <2>1. \/ \E a \in {rest("request"), rest("disconnect")} :
             \E b : Call(a, b)
        \/ Goto("request")
    BY DEF ClosePadding, CloseRequest, rest
  <2>2. Base'.fn = "close"
    <3>1. CASE Goto("request")
      <4>1. stack' = <<rest("request")>>
        BY <1>4, <3>1 DEF Goto, rest
      <4> QED
        BY <1>5, <4>1 DEF Base
    <3>2. CASE \E a \in {rest("request"), rest("disconnect")} :
                 \E b : Call(a, b)
      <4>1. PICK a \in {rest("request"), rest("disconnect")} : \E b : Call(a, b)
        BY <3>2
      <4>2. PICK b : Call(a, b)
        BY <4>1
      <4>3. stack' = <<b, a>>
        BY <1>4, <4>2 DEF Call
      <4> QED
        BY <1>5, <4>3 DEF Base
    <3> QED
      BY <2>1, <3>1, <3>2
  <2> QED
    BY <2>2 DEF PadsUndisturbed
<1>8. CASE ClosePadding
  <2>1. bytes < ContentLength
    BY <1>2, <1>7, <1>8, ConstantsAssumption DEF ClosePadding, PadsUndisturbed
  <2>2. room \in 0..(SizeMod - 1) /\ Wrap(room) = room
    BY <1>2, <2>1, ConstantsAssumption DEF Wrap
  <2>3. stack' = <<Padding(room), rest("request")>>
    BY <1>4, <1>7, <1>8, <2>2 DEF ClosePadding, Call, rest
  <2>4. bytes' + room + 1 = ContentLength
    BY <1>1, <1>2, ConstantsAssumption
  <2> HIDE DEF room
  <2> QED
    BY <1>1, <1>2, <1>5, <2>2, <2>3, <2>4, PadStart
<1>9. CASE CloseRequest
  <2>1. stack' = <<close, rest("disconnect")>>
    BY <1>4, <1>9 DEF CloseRequest, Call, rest
  <2>2. PadsUndisturbed /\ Top.pc = "request"
    BY <1>1, <1>6, <1>7, <1>9 DEF CloseRequest, At, PadsUndisturbed, conn
  <2>3. bytes + 1 = ContentLength
    <3>1. ~(Len(stack) >= 2)
      BY <1>3
    <3>2. AskedFor = 0 /\ BeingWritten = 0 /\ Counted = bytes
      BY <1>1, <3>1 DEF AskedFor, BeingWritten, Counted, At
    <3>3. Ahead = bytes
      BY <1>2, <3>2 DEF Ahead, Owed
    <3> QED
      BY <1>1, <1>6, <2>2, <3>3 DEF PadInv, Padded, CloseInv
  <2>4. /\ close.fn = "request" /\ close.req = "CLOSE" /\ close.pc = "budget"
        /\ Sized(close) = 1
    BY DEF Request, Frame, Sized, RequestSize, HasData
  <2> HIDE DEF close
  <2>5. /\ Len(stack') = 2 /\ Top' = close /\ stack'[Len(stack') - 1] = close
        /\ Base' = rest("disconnect") /\ Len(stack') <= 3
    BY <2>1 DEF Base, Top
  <2>6. AskedFor' = 0 /\ BeingWritten' = 1 /\ Counted' = bytes
    BY <1>1, <2>4, <2>5
       DEF AskedFor, Filler, BeingWritten, Counted, At, Sized, RequestSize
  <2>7. Ahead' = ContentLength
    BY <1>2, <2>3, <2>6 DEF Ahead, Owed
  <2>8. PadStack'
    BY <1>5, <2>4, <2>5 DEF PadStack, Filler
  <2>9. BlockInv' /\ CloseInv'
    BY <1>5, <2>4, <2>5, <2>7 DEF BlockInv, CloseInv
  <2> QED
    BY <2>8, <2>9 DEF Padded
<1> QED
  BY <1>8, <1>9

\* From any length, the padding to the next multiple of a block.
LEMMA NextBlock ==
    ASSUME NEW x \in Nat, NEW b \in Nat, b > 0
    PROVE  (x + (b - (x % b))) % b = 0 /\ b - (x % b) \in 1..b
<1>1. /\ x = b * (x \div b) + (x % b)
      /\ x % b \in 0..(b - 1) /\ (x \div b) \in Nat
  OBVIOUS
<1>2. x + (b - (x % b)) = b * ((x \div b) + 1)
  BY <1>1
<1>3. \A q \in Nat : (b * q) % b = 0
  OBVIOUS
<1> QED
  BY <1>1, <1>2, <1>3

\* tunnel_maybe_pad pads to the next block, or to the end of the body.
LEMMA PadMaybePad ==
    ASSUME TypeInv, MaybePad, PadsUndisturbed'
    PROVE  Padded'
<1> DEFINE room == ContentLength - bytes
           pad(b) == b - (bytes % b)
           len(b) == IF pad(b) > room THEN room ELSE pad(b)
           g(b) == Frame("maybepad", "none", b, "done")
<1>1. /\ bytes \in Nat /\ bytes' = bytes /\ up /\ ~broken /\ stack = <<>>
  BY DEF MaybePad, Start, conn, Idle, TypeInv, TypeOK, PadsUndisturbed
<1>2. bytes < ContentLength
  BY <1>1 DEF TypeInv, BytesInv, Live, At
<1>3. room \in 1..ContentLength /\ Wrap(room) = room
  BY <1>1, <1>2, ConstantsAssumption DEF Wrap
<1>4. PICK b \in Blocks : stack' = <<Padding(len(b)), g(b)>>
  BY <1>3 DEF MaybePad, Start
<1>5. b \in Nat /\ b > 0 /\ b < SizeMod
  BY ConstantsAssumption
<1>6. (bytes + pad(b)) % b = 0 /\ pad(b) \in 1..b
  BY <1>1, <1>5, NextBlock
<1>7. g(b).fn = "maybepad" /\ g(b).len = b
  BY DEF Frame
<1> HIDE DEF pad, room, g
<1>8. /\ len(b) \in 0..(SizeMod - 1) /\ len(b) > 0
      /\ \/ len(b) = pad(b) /\ len(b) <= room
         \/ len(b) = room
  BY <1>3, <1>5, <1>6, ConstantsAssumption
<1> HIDE DEF len
<1>9. /\ bytes' + len(b) <= ContentLength
      /\ \/ (bytes' + len(b)) % b = 0
         \/ bytes' + len(b) = ContentLength /\ len(b) > 0
  BY <1>1, <1>3, <1>6, <1>8, ConstantsAssumption DEF room
<1> QED
  BY <1>1, <1>4, <1>5, <1>7, <1>8, <1>9, PadStart

\* Only these operations pad a body to a length.
LEMMA PadBegin ==
    ASSUME TypeInv, Begin, PadsUndisturbed'
    PROVE  Padded'
<1>1. CASE MaybePad
  BY <1>1, PadMaybePad
<1>2. CASE TunnelClose
  <2> DEFINE g == Frame("close", "none", 0, "pad")
  <2>1. stack' = <<g>>
    BY <1>2 DEF TunnelClose, Start
  <2>2. g.fn = "close" /\ g.pc = "pad"
    BY DEF Frame
  <2> HIDE DEF g
  <2>3. Len(stack') = 1 /\ ~(Len(stack') >= 2) /\ Top' = g /\ Base' = g
    BY <2>1 DEF Top, Base
  <2> QED
    BY <2>2, <2>3 DEF Padded, PadStack, BlockInv, CloseInv
<1>3. CASE TunnelAccept \/ TunnelReadAccept \/ DestroyDown
  BY <1>3 DEF TunnelAccept, TunnelReadAccept, DestroyDown, PadsUndisturbed
<1>4. CASE TunnelConnect \/ DeviceInput \/ KeepAlive
  <2>1. \E f : \E fn \in {"connect", "device", "keepalive"}, n \in Int :
          stack' = <<f, Frame(fn, "none", n, "done")>>
    BY <1>4, ConstantsAssumption
       DEF TunnelConnect, DeviceInput, KeepAlive, Start
  <2>2. Base'.fn \in {"connect", "device", "keepalive"}
    <3>1. PICK f : \E fn \in {"connect", "device", "keepalive"}, n \in Int :
            stack' = <<f, Frame(fn, "none", n, "done")>>
      BY <2>1
    <3>2. PICK fn \in {"connect", "device", "keepalive"}, n \in Int :
            stack' = <<f, Frame(fn, "none", n, "done")>>
      BY <3>1
    <3>3. Base' = Frame(fn, "none", n, "done")
      BY <3>2 DEF Base
    <3> QED
      BY <3>3 DEF Frame
  <2> QED
    BY <2>2 DEF PadsUndisturbed
<1> QED
  BY <1>1, <1>2, <1>3, <1>4 DEF Begin
-----------------------------------------------------------------------------
(***************************************************************************)
(* The invariant.                                                          *)
(***************************************************************************)
FillsInv == BodyInv /\ PadInv /\ StrictCloseFills

\* The initial states satisfy the invariant.
LEMMA FillsInit == Init => FillsInv
BY BodyInit
   DEF Init, FillsInv, PadInv, PadsUndisturbed, StrictCloseFills, NotClosed

\* Every step keeps what is ahead of an operation that pads.
LEMMA PadNext == BodyInv /\ PadInv /\ [Next]_vars => PadInv'
<1> SUFFICES ASSUME BodyInv, PadInv, [Next]_vars, PadsUndisturbed'
             PROVE  Padded'
  BY DEF PadInv
<1>1. /\ TypeInv /\ ("wrapped" \notin upset => Sound)
      /\ Sound' /\ upset' = {} /\ ~broken'
  BY BodyNext DEF BodyInv, PadsUndisturbed
<1>2. CASE RequestStep
  BY <1>1, <1>2, PadRequestStep
<1>3. CASE LoopStep
  <2>1. upset = {}
    BY <1>1, <1>3
       DEF LoopStep, NextChunk, ChunkDone, LoopDone, NextPad1, Pad1sDone,
           history
  <2> QED
    BY <1>1, <1>3, <2>1, PadLoopStep
<1>4. CASE ClosePadding \/ CloseRequest
  <2>1. upset = {}
    BY <1>1, <1>4 DEF ClosePadding, CloseRequest, history
  <2> QED
    BY <1>1, <1>4, <2>1, PadClosing
<1>5. CASE \/ TunnelConnectDone \/ DeviceInputDone \/ PaddingDone
           \/ CloseDisconnect
  <2>1. stack' = <<>>
    BY <1>5 DEF TunnelConnectDone, DeviceInputDone, PaddingDone,
                CloseDisconnect, Finish
  <2> QED
    BY <2>1 DEF PadsUndisturbed
<1>6. CASE Begin
  BY <1>1, <1>6, PadBegin
<1>7. CASE GrowOld \/ UNCHANGED vars
  <2>1. UNCHANGED <<up, broken, bytes, stack, ret, upset>>
    BY <1>7 DEF GrowOld, vars, conn, history
  <2> QED
    BY <2>1
       DEF PadInv, Padded, PadsUndisturbed, PadStack, BlockInv, CloseInv, Base,
           Top, Ahead, Owed, Counted, BeingWritten, AskedFor, At, Filler, Rest,
           Sized
<1> QED
  BY <1>2, <1>3, <1>4, <1>5, <1>6, <1>7 DEF Next, Running, OperationStep

\* tunnel_close disconnects a body that is not full only if it was disturbed.
LEMMA ClosingFills ==
    ASSUME BodyInv, PadInv, CloseDisconnect, Strict, up, ~broken
    PROVE  upset # {}
<1> SUFFICES ASSUME upset = {} PROVE FALSE
  OBVIOUS
<1>1. /\ TypeInv /\ StackInv /\ stack # <<>> /\ Top.fn = "close"
      /\ Top.pc = "disconnect"
  BY DEF BodyInv, Sound, CloseDisconnect, At
<1>2. Top = stack[1] /\ Len(stack) \in Nat /\ Len(stack) >= 1
  BY <1>1, StackFacts
<1>3. Len(stack) = 1
  <2>1. 1 \in 1..Len(stack) /\ stack[1].fn \in Operations
    BY <1>1, <1>2 DEF Operations
  <2> QED
    BY <1>1, <1>2, <2>1, OperationAlone
<1>4. Base = Top
  BY <1>2, <1>3 DEF Base
<1>5. PadsUndisturbed /\ CloseInv
  BY <1>1, <1>4 DEF PadInv, Padded, PadsUndisturbed
<1> QED
  BY <1>1, <1>3, <1>4, <1>5 DEF CloseInv

\* Every step keeps the invariant.
LEMMA FillsNext == FillsInv /\ [Next]_vars => FillsInv'
<1> SUFFICES ASSUME FillsInv, [Next]_vars PROVE FillsInv'
  OBVIOUS
<1>1. BodyInv' /\ PadInv'
  BY BodyNext, PadNext DEF FillsInv
<1>2. StrictCloseFills'
  <2>1. CASE closed' = closed \/ closed'.why # "close"
    BY <2>1 DEF StrictCloseFills, FillsInv
  <2>2. CASE ~(closed' = closed \/ closed'.why # "close")
    <3>1. CloseDisconnect
      <4>1. CASE RequestStep
        <5>1. \/ \E total \in {bytes + 1, bytes + 2 + Top.len} :
                   EndRequest(total)
              \/ closed' = closed
              \/ closed'.why \in {"age", "torn"}
          BY <4>1
             DEF RequestStep, CheckBudget, StillYoung, CloseAged,
                 CloseAgedFails,
                 StillConnected, Reconnect, WriteRequest, WriteRequestFails,
                 WriteRequestEPIPE, RewriteRequest, RewriteRequestFails,
                 WritePayload, WritePayloadFails, RequestByteSent,
                   OutDisconnect,
                 history
        <5> QED
          BY <2>2, <5>1 DEF EndRequest, OutDisconnect
      <4>2. CASE LoopStep
        BY <2>2, <4>2
           DEF LoopStep, NextChunk, ChunkDone, LoopDone, NextPad1, Pad1sDone,
               history
      <4>3. CASE OperationStep
        BY <2>2, <4>3
           DEF OperationStep, TunnelConnectDone, DeviceInputDone, PaddingDone,
               ClosePadding, CloseRequest, history
      <4>4. CASE Begin
        BY <2>2, <4>4
           DEF Begin, TunnelConnect, TunnelAccept, TunnelReadAccept,
               DeviceInput,
               KeepAlive, MaybePad, TunnelClose, DestroyDown, Start, NotClosed,
               OutDisconnect, history
      <4>5. CASE GrowOld \/ UNCHANGED vars
        BY <2>2, <4>5 DEF GrowOld, vars, history
      <4> QED
        BY <4>1, <4>2, <4>3, <4>4, <4>5 DEF Next, Running
    <3>2. up /\ ~broken /\ closed'.upset = upset
      BY <2>2, <3>1 DEF CloseDisconnect, OutDisconnect
    <3> QED
      BY <3>1, <3>2, ClosingFills DEF StrictCloseFills, FillsInv
  <2> QED
    BY <2>1, <2>2
<1> QED
  BY <1>1, <1>2 DEF FillsInv

(***************************************************************************)
(* After tunnel_maybe_pad the body ends on a block of the proxy's buffer,  *)
(* or it was full and has been completed: the pieces in which              *)
(* tunnel_write_or_padding writes the padding add up, headers included.    *)
(***************************************************************************)
THEOREM PadAlignedCorrect == Spec => []PadAligned
<1>1. FillsInv => PadAligned
  <2> SUFFICES ASSUME FillsInv, At("maybepad", "done"), upset = {}, ~broken
               PROVE  bytes % Top.len = 0
    BY DEF PadAligned
  <2>1. /\ TypeInv /\ StackInv /\ stack # <<>> /\ Top.fn = "maybepad"
    BY DEF FillsInv, BodyInv, Sound, At
  <2>2. Top = stack[1] /\ Len(stack) \in Nat /\ Len(stack) >= 1 /\ bytes \in Nat
    BY <2>1, StackFacts
  <2>3. Len(stack) = 1
    <3>1. 1 \in 1..Len(stack) /\ stack[1].fn \in Operations
      BY <2>1, <2>2 DEF Operations
    <3> QED
      BY <2>1, <2>2, <3>1, OperationAlone
  <2>4. Base = Top /\ ~(Len(stack) >= 2)
    BY <2>2, <2>3 DEF Base
  <2>5. PadsUndisturbed
    BY <2>1, <2>4 DEF PadsUndisturbed
  <2>6. AskedFor = 0 /\ BeingWritten = 0 /\ Counted = bytes
    BY <2>1, <2>4 DEF AskedFor, BeingWritten, Counted, At
  <2>7. Owed = 0 /\ Ahead = bytes
    BY <2>2, <2>6 DEF Owed, Ahead
  <2> QED
    BY <2>1, <2>4, <2>5, <2>7 DEF FillsInv, PadInv, Padded, BlockInv
<1> QED
  BY <1>1, FillsInit, FillsNext, PTL DEF Spec

(***************************************************************************)
(* With --strict-content-length tunnel_close leaves a body that lacks      *)
(* exactly TUNNEL_CLOSE, which then completes and ends it: what            *)
(* tunnel_close disconnects itself was disturbed on the way.               *)
(***************************************************************************)
THEOREM StrictCloseFillsCorrect == Spec => []StrictCloseFills
<1>1. FillsInv => StrictCloseFills
  BY DEF FillsInv
<1> QED
  BY <1>1, FillsInit, FillsNext, PTL DEF Spec
=============================================================================
