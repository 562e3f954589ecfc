-------------------------- MODULE TunnelOutProofs --------------------------
(***************************************************************************)
(* Theorems about TunnelOut and their proofs.                              *)
(*                                                                         *)
(* TypeOK is not inductive: that bytes and the padding computed from it    *)
(* stay in range depends on how many bytes a connection can have left      *)
(* behind, hence on the point that the call in progress has reached.       *)
(* TypeInv adds these facts; each action is shown to preserve it.          *)
(***************************************************************************)
EXTENDS TunnelOut, TLAPS

\* The connection is there and works.
Live == up /\ ~broken

\* A request waits for another only while padding is written for it.
WaitInv ==
    \A i \in 2..Len(stack) : stack[i].fn = "request" => stack[i].pc = "age"

\* A body that can go on has a byte free for TUNNEL_DISCONNECT and one more;
\* one that broke has at most part of a header too many.
BytesInv ==
    /\ bytes <= ContentLength + 2
    /\ At("request", "payload") => Live /\ bytes >= 1
    /\ Live => IF At("request", "payload") THEN bytes <= ContentLength
                                           ELSE bytes < ContentLength
    /\ phase = "new" => ~up /\ stack = <<>>

TypeInv == TypeOK /\ WaitInv /\ BytesInv
-----------------------------------------------------------------------------
(***************************************************************************)
(* Sizes, frames and the stack.                                            *)
(***************************************************************************)
\* The conversion of a size to a Length yields a Length.
LEMMA AsLengthType == \A n \in Nat : AsLength(n) \in 0..MaxLength
BY ConstantsAssumption DEF AsLength

\* size_t arithmetic yields a size_t.
LEMMA WrapType == \A x \in (-SizeMod)..(2 * SizeMod - 1) : Wrap(x) \in 0..(SizeMod - 1)
BY ConstantsAssumption DEF Wrap

\* The room that is left in a body, for padding and at the end of a tunnel.
LEMMA RoomType ==
    ASSUME TypeInv
    PROVE  /\ Wrap(ContentLength - bytes) \in 0..(SizeMod - 1)
           /\ Wrap(ContentLength - bytes - 1) \in 0..(SizeMod - 1)
<1>1. bytes \in Nat /\ bytes <= ContentLength + 2
  BY DEF TypeInv, TypeOK, BytesInv
<1>2. /\ ContentLength - bytes \in (-SizeMod)..(2 * SizeMod - 1)
      /\ ContentLength - bytes - 1 \in (-SizeMod)..(2 * SizeMod - 1)
  BY <1>1, ConstantsAssumption
<1> QED
  BY <1>2, WrapType

\* The calls that are made are frames of the stack.
LEMMA FrameType ==
    ASSUME NEW r \in Requests, NEW n \in 0..(SizeMod - 1)
    PROVE  /\ Request(r, n) \in Frames /\ Loop(r, n) \in Frames
           /\ Padding(n) \in Frames
BY ConstantsAssumption
   DEF Request, Loop, Padding, Frame, Frames, Requests, Header, ProgramPoints

\* The endings that are recorded are endings.
LEMMA EndingType ==
    ASSUME NEW w \in {"none", "full", "age", "torn", "accept", "close"},
           NEW t \in Nat, NEW u \in SUBSET Upsets
    PROVE  [why |-> w, total |-> t, upset |-> u] \in Endings
BY DEF Endings

\* The call in progress is the first element of the stack.
LEMMA TopFrame ==
    ASSUME TypeOK, stack # <<>>
    PROVE  Top = stack[1] /\ Top \in Frames /\ Len(stack) \in Nat /\ Len(stack) >= 1
BY DEF TypeOK, Top

\* The stack after a step that stays in the same call.
LEMMA AfterGoto ==
    ASSUME TypeOK, WaitInv, stack # <<>>, NEW p \in ProgramPoints, Goto(p)
    PROVE  /\ stack' \in Seq(Frames) /\ stack' # <<>> /\ Len(stack') = Len(stack)
           /\ Head(stack') = [Top EXCEPT !.pc = p] /\ stack'[1] = Head(stack')
           /\ Head(stack').fn = Top.fn /\ Head(stack').pc = p
           /\ \A i \in 2..Len(stack) : stack'[i] = stack[i]
           /\ WaitInv'
<1> DEFINE a == [Top EXCEPT !.pc = p]
<1>1. a \in Frames /\ a.fn = Top.fn /\ a.pc = p
  BY TopFrame DEF Frames
<1>2. stack' = <<a>> \o Tail(stack)
  BY DEF Goto
<1> HIDE DEF a
<1>3. stack \in Seq(Frames)
  BY DEF TypeOK
<1>4. /\ stack' \in Seq(Frames) /\ stack' # <<>> /\ Len(stack') = Len(stack)
      /\ Head(stack') = a /\ stack'[1] = a
      /\ \A i \in 2..Len(stack) : stack'[i] = stack[i]
  BY <1>1, <1>2, <1>3
<1> QED
  BY <1>1, <1>4 DEF a, WaitInv

\* The stack after a step that calls.
LEMMA AfterCall ==
    ASSUME TypeOK, WaitInv, stack # <<>>, NEW a \in Frames, NEW b \in Frames,
           a.fn = "request" => a.pc = "age", Call(a, b)
    PROVE  /\ stack' \in Seq(Frames) /\ stack' # <<>> /\ Len(stack') = Len(stack) + 1
           /\ Head(stack') = b /\ stack'[1] = b /\ stack'[2] = a
           /\ \A i \in 3..Len(stack') : stack'[i] = stack[i - 1]
           /\ WaitInv'
<1>1. /\ stack' \in Seq(Frames) /\ stack' # <<>> /\ Len(stack') = Len(stack) + 1
      /\ Head(stack') = b /\ stack'[1] = b /\ stack'[2] = a
      /\ \A i \in 3..Len(stack') : stack'[i] = stack[i - 1]
  BY DEF TypeOK, Call
<1>2. WaitInv'
  BY <1>1, TopFrame DEF WaitInv
<1> QED
  BY <1>1, <1>2

\* The stack after a step that returns; the caller of a call is
\* never in the middle of writing a payload itself.
LEMMA AfterReturn ==
    ASSUME TypeOK, WaitInv, stack # <<>>, NEW v, Return(v)
    PROVE  /\ stack' \in Seq(Frames) /\ Len(stack') = Len(stack) - 1 /\ ret' = v
           /\ \A i \in 1..Len(stack') : stack'[i] = stack[i + 1]
           /\ stack' # <<>> => /\ Head(stack') = stack[2] /\ Len(stack) >= 2
                               /\ stack'[1] = Head(stack')
           /\ WaitInv'
           /\ ~At("request", "payload")'
<1>1. /\ stack' \in Seq(Frames) /\ Len(stack') = Len(stack) - 1 /\ ret' = v
      /\ \A i \in 1..Len(stack') : stack'[i] = stack[i + 1]
      /\ stack' # <<>> => /\ Head(stack') = stack[2] /\ Len(stack) >= 2
                          /\ stack'[1] = Head(stack')
  BY DEF TypeOK, Return
<1>2. WaitInv'
  BY <1>1, TopFrame DEF WaitInv
<1>3. ~At("request", "payload")'
  BY <1>1, TopFrame DEF WaitInv, At, Top
<1> QED
  BY <1>1, <1>2, <1>3

\* A request that has been written leaves less than a full body
\* behind: else tunnel_write_request has ended the body.
LEMMA TypeEndRequest ==
    ASSUME TypeInv, stack # <<>>, NEW total \in Nat, EndRequest(total),
           UNCHANGED <<phase, aged>>, padOnly' \in BOOLEAN, Live
    PROVE  TypeInv'
<1>1. TypeOK /\ WaitInv /\ Return(0)
  BY DEF TypeInv, EndRequest
<1>2. /\ stack' \in Seq(Frames) /\ ret' = 0
      /\ WaitInv' /\ ~At("request", "payload")'
  BY <1>1, AfterReturn
<1>3. Top.len \in Nat
  BY <1>1, TopFrame, ConstantsAssumption DEF Frames
<1>6. taken' \in Nat /\ stream' \in {"whole", "cut", "gapped"}
  BY <1>1, <1>3 DEF EndRequest, TypeOK
<1>4. CASE total < ContentLength
  <2>1. bytes' = total /\ UNCHANGED <<up, broken, closed, upset>>
    BY <1>4 DEF EndRequest
  <2>2. TypeOK'
    BY <1>2, <1>3, <2>1 DEF TypeInv, TypeOK, EndRequest, Live
  <2>3. BytesInv'
    BY <1>1, <1>2, <1>4, <2>1, ConstantsAssumption DEF TypeInv, BytesInv, Live, TypeOK, Return
  <2> QED
    BY <1>2, <2>2, <2>3 DEF TypeInv
<1>5. CASE ~(total < ContentLength)
  <2>0. \E w \in {"full", "torn"}, t \in Nat :
          /\ OutDisconnect(w, t, upset')
          /\ upset' \in {upset, upset \cup {"failed"}}
    BY <1>5 DEF EndRequest
  <2>1. PICK w \in {"full", "torn"}, t \in Nat :
          /\ OutDisconnect(w, t, upset')
          /\ upset' \in {upset, upset \cup {"failed"}}
    BY <2>0
  <2>2. upset' \subseteq Upsets
    BY <1>1, <2>1 DEF TypeOK, Upsets
  <2>3. closed' \in Endings
    BY <2>1, <2>2, EndingType DEF OutDisconnect
  <2>4. up' = FALSE /\ broken' = FALSE /\ bytes' = 0
    BY <2>1 DEF OutDisconnect
  <2>a. up' \in BOOLEAN /\ broken' \in BOOLEAN /\ aged' \in BOOLEAN
    BY <1>1, <2>4, Zenon DEF TypeOK
  <2>b. ret' \in Int /\ phase' \in Phases /\ bytes' \in Nat /\ (~up' => bytes' = 0 /\ ~broken')
    BY <1>1, <1>2, <2>4 DEF TypeOK
  <2>5. TypeOK'
    BY <1>1, <1>2, <1>6, <2>2, <2>3, <2>a, <2>b, Zenon DEF TypeOK
  <2>6. BytesInv'
    BY <1>1, <1>2, <2>4, ConstantsAssumption DEF TypeInv, BytesInv, Live, Return
  <2> QED
    BY <1>2, <2>5, <2>6 DEF TypeInv
<1> QED
  BY <1>4, <1>5

\* A step that leaves the connection alone preserves BytesInv,
LEMMA SameConnection ==
    ASSUME TypeInv, stack # <<>>, UNCHANGED <<phase, up, broken, bytes>>,
           ~At("request", "payload"), ~At("request", "payload")'
    PROVE  BytesInv'
BY DEF TypeInv, BytesInv, Live

\* so does one that breaks it, or finds it broken or down,
LEMMA NoConnection ==
    ASSUME TypeInv, stack # <<>>, UNCHANGED phase,
           up' = FALSE \/ broken' = TRUE, bytes' \in 0..(ContentLength + 2),
           ~At("request", "payload")'
    PROVE  BytesInv'
BY DEF TypeInv, BytesInv, Live

\* and one that opens another or closes it.
LEMMA FreshConnection ==
    ASSUME TypeInv, stack # <<>>, UNCHANGED phase,
           bytes' = 0, ~At("request", "payload")'
    PROVE  BytesInv'
BY ConstantsAssumption DEF TypeInv, BytesInv, Live, Header

\* The actions of tunnel_write_request, in the order of the code.
LEMMA TypeRequestByteSent ==
    ASSUME TypeInv, At("request", "write") \/ At("request", "rewrite"), Live,
           RequestByteSent, UNCHANGED <<phase, aged>>, padOnly' \in BOOLEAN
    PROVE  TypeInv'
<1>1. TypeOK /\ WaitInv /\ stack # <<>> /\ ~At("request", "payload")
  BY DEF TypeInv, At
<1>2. CASE HasData(Top.req)
  <2>1. Goto("payload") /\ bytes' = bytes + 1 /\ UNCHANGED <<up, broken, ret, history>>
    BY <1>2 DEF RequestByteSent
  <2>2. stack' \in Seq(Frames) /\ WaitInv'
    BY <1>1, <2>1, AfterGoto DEF ProgramPoints
  <2>3. TypeOK'
    BY <1>1, <2>1, <2>2 DEF TypeOK, history, Live
  <2>4. At("request", "payload")'
    BY <1>1, <2>1, AfterGoto DEF At, Top, ProgramPoints
  <2>5. /\ bytes' <= ContentLength /\ bytes' >= 1
        /\ Live' /\ phase' # "new"
    BY <1>1, <2>1, ConstantsAssumption DEF TypeInv, TypeOK, BytesInv, Live
  <2>6. BytesInv'
    BY <1>1, <2>1, <2>4, <2>5, ConstantsAssumption DEF TypeOK, BytesInv
  <2> QED
    BY <2>2, <2>3, <2>6 DEF TypeInv
<1>3. CASE ~HasData(Top.req)
  <2>1. EndRequest(bytes + 1) /\ bytes + 1 \in Nat
    BY <1>1, <1>3 DEF RequestByteSent, TypeOK
  <2> QED
    BY <1>1, <2>1, TypeEndRequest
<1> QED
  BY <1>2, <1>3

\* The check of the room that is left in the body, and the call of tunnel_padding.
LEMMA TypeCheckBudget == ASSUME TypeInv, CheckBudget PROVE TypeInv'
<1> DEFINE pad == Padding(Wrap(ContentLength - bytes))
           rest == [Top EXCEPT !.pc = "age"]
<1>1. /\ TypeOK /\ WaitInv /\ stack # <<>> /\ Top.fn = "request" /\ Top.pc = "budget"
      /\ UNCHANGED <<phase, up, broken, bytes, aged, padOnly, ret, closed, upset, taken, stream>>
  BY DEF TypeInv, CheckBudget, At, conn, history
<1>2. Call(rest, pad) \/ Goto("age")
  BY DEF CheckBudget
<1>3. /\ rest \in Frames /\ rest.pc = "age" /\ pad \in Frames
      /\ pad.pc # "payload"
  <2>1. Wrap(ContentLength - bytes) \in 0..(SizeMod - 1)
    BY RoomType
  <2>2. pad \in Frames
    BY <2>1, FrameType DEF Requests
  <2>3. pad.pc = "test"
    BY DEF Padding, Loop, Frame
  <2> QED
    BY <1>1, <2>2, <2>3, TopFrame DEF Frames, ProgramPoints
<1> HIDE DEF pad, rest
<1>4. stack' \in Seq(Frames) /\ WaitInv' /\ ~At("request", "payload")'
  <2>1. CASE Call(rest, pad)
    BY <1>1, <1>3, <2>1, AfterCall DEF At, Top
  <2>2. CASE Goto("age")
    BY <1>1, <2>2, AfterGoto DEF At, Top, ProgramPoints
  <2> QED
    BY <1>2, <2>1, <2>2
<1>5. TypeOK'
  BY <1>1, <1>4 DEF TypeOK
<1>6. BytesInv'
  BY <1>1, <1>4, SameConnection DEF At
<1> QED
  BY <1>4, <1>5, <1>6 DEF TypeInv

\* The connection is young enough, or is there already.
LEMMA TypeGoOn == ASSUME TypeInv, StillYoung \/ StillConnected PROVE TypeInv'
<1>1. /\ TypeOK /\ WaitInv /\ stack # <<>> /\ ~At("request", "payload")
      /\ (Goto("connect") \/ Goto("write"))
      /\ UNCHANGED <<phase, up, broken, bytes, aged, padOnly, ret, closed, upset, taken, stream>>
  BY DEF TypeInv, StillYoung, StillConnected, At, conn, history
<1>2. stack' \in Seq(Frames) /\ WaitInv' /\ ~At("request", "payload")'
  BY <1>1, AfterGoto DEF At, Top, ProgramPoints
<1>3. TypeOK'
  BY <1>1, <1>2 DEF TypeOK
<1>4. BytesInv'
  BY <1>1, <1>2, SameConnection
<1> QED
  BY <1>2, <1>3, <1>4 DEF TypeInv

\* The padding of an aged connection fits its body but for one byte.
LEMMA AgePaddingType ==
    ASSUME TypeOK, bytes < ContentLength
    PROVE  AgePadding \in 0..(ContentLength - bytes)
BY ConstantsAssumption DEF AgePadding, RoomToPad, TypeOK

\* The body of an aged connection is ended.
LEMMA TypeCloseAged == ASSUME TypeInv, CloseAged PROVE TypeInv'
<1>1. /\ TypeOK /\ WaitInv /\ stack # <<>> /\ Goto("connect") /\ Live
      /\ ~At("request", "payload")
      /\ UNCHANGED <<phase, aged, padOnly, ret, taken, stream>>
  BY DEF TypeInv, CloseAged, At, Live, Expired
<1>2. stack' \in Seq(Frames) /\ WaitInv' /\ ~At("request", "payload")'
  BY <1>1, AfterGoto DEF At, Top, ProgramPoints
<1>3. bytes + AgePadding + 1 \in Nat
  BY <1>1, AgePaddingType DEF TypeInv, BytesInv, TypeOK
<1>4. upset' \subseteq Upsets /\ OutDisconnect("age", bytes + AgePadding + 1, upset')
  BY <1>1 DEF CloseAged, TypeOK, Upsets
<1>5. up' = FALSE /\ broken' = FALSE /\ bytes' = 0 /\ closed' \in Endings
  BY <1>3, <1>4, EndingType DEF OutDisconnect
<1>6. TypeOK'
  BY <1>1, <1>2, <1>4, <1>5 DEF TypeOK
<1>7. BytesInv'
  BY <1>1, <1>2, <1>5, FreshConnection
<1> QED
  BY <1>2, <1>6, <1>7 DEF TypeInv

\* The body of an aged connection cannot be ended.
LEMMA TypeCloseAgedFails == ASSUME TypeInv, CloseAgedFails PROVE TypeInv'
<1>1. /\ TypeOK /\ WaitInv /\ stack # <<>> /\ Return(-1) /\ up /\ broken' = TRUE
      /\ ~At("request", "payload")
      /\ UNCHANGED <<phase, up, aged, padOnly, closed, taken, stream>>
  BY DEF TypeInv, CloseAgedFails, At, Expired
<1>2. stack' \in Seq(Frames) /\ WaitInv' /\ ~At("request", "payload")' /\ ret' = -1
  BY <1>1, AfterReturn
<1>3. bytes' \in 0..(ContentLength + 2)
  <2>1. CASE broken
    BY <1>1, <2>1 DEF CloseAgedFails, TypeInv, BytesInv, TypeOK
  <2>2. CASE ~broken
    <3>1. AgePadding \in 0..(ContentLength - bytes)
      BY <1>1, <2>2, AgePaddingType DEF TypeInv, BytesInv, Live
    <3> QED
      BY <1>1, <2>2, <3>1, ConstantsAssumption DEF CloseAgedFails, TypeOK
  <2> QED
    BY <2>1, <2>2
<1>4. upset' \subseteq Upsets
  BY <1>1 DEF CloseAgedFails, TypeOK, Upsets
<1>5. TypeOK'
  BY <1>1, <1>2, <1>3, <1>4 DEF TypeOK
<1>6. BytesInv'
  BY <1>1, <1>2, <1>3, NoConnection
<1> QED
  BY <1>2, <1>5, <1>6 DEF TypeInv

\* A connection is opened where there is none.
LEMMA TypeReconnect == ASSUME TypeInv, Reconnect PROVE TypeInv'
<1>1. /\ TypeOK /\ WaitInv /\ stack # <<>> /\ ~At("request", "payload")
      /\ UNCHANGED <<phase, closed, taken, stream>>
      /\ \/ Goto("write") /\ ret' = ret
         \/ Return(-1)
  BY DEF TypeInv, Reconnect, At
<1>2. stack' \in Seq(Frames) /\ WaitInv' /\ ~At("request", "payload")' /\ ret' \in Int
  <2>1. CASE Goto("write") /\ ret' = ret
    BY <1>1, <2>1, AfterGoto DEF At, Top, ProgramPoints, TypeOK
  <2>2. CASE Return(-1)
    BY <1>1, <2>2, AfterReturn
  <2> QED
    BY <1>1, <2>1, <2>2
<1>3. /\ bytes' = 0 /\ aged' \in BOOLEAN /\ padOnly' \in BOOLEAN
      /\ up' \in BOOLEAN /\ broken' \in BOOLEAN /\ (~up' => ~broken')
  BY <1>1 DEF Reconnect, Connected, Refused, HeaderLost, TypeOK
<1>4. upset' \subseteq Upsets
  BY <1>1 DEF Reconnect, TypeOK, Upsets, Swapped
<1>5. TypeOK'
  BY <1>1, <1>2, <1>3, <1>4 DEF TypeOK
<1>6. BytesInv'
  BY <1>1, <1>2, <1>3, FreshConnection
<1> QED
  BY <1>2, <1>5, <1>6 DEF TypeInv

\* The request byte is written.
LEMMA TypeWriteRequest ==
    ASSUME TypeInv, WriteRequest \/ RewriteRequest PROVE TypeInv'
<1>1. /\ At("request", "write") \/ At("request", "rewrite")
      /\ Live /\ RequestByteSent /\ UNCHANGED <<phase, aged>>
  BY DEF WriteRequest, RewriteRequest, Live
<1>2. padOnly' \in BOOLEAN
  BY DEF WriteRequest, RewriteRequest, PadOnlyNow, TypeInv, TypeOK
<1> QED
  BY <1>1, <1>2, TypeRequestByteSent

\* A write fails.
LEMMA TypeWriteFails ==
    ASSUME TypeInv,
           WriteRequestFails \/ RewriteRequestFails \/ WritePayloadFails
    PROVE  TypeInv'
<1>1. /\ TypeOK /\ WaitInv /\ stack # <<>> /\ Return(-1)
      /\ UNCHANGED <<phase, up, aged, closed, taken, stream>>
  BY DEF TypeInv, WriteRequestFails, RewriteRequestFails, WritePayloadFails, At
<1>2. stack' \in Seq(Frames) /\ WaitInv' /\ ~At("request", "payload")' /\ ret' = -1
  BY <1>1, AfterReturn
<1>3. /\ bytes' \in 0..(ContentLength + 2) /\ (~up => bytes' = bytes)
      /\ broken' = up
  <2>1. CASE WriteRequestFails \/ RewriteRequestFails
    BY <1>1, <2>1 DEF TypeInv, WriteRequestFails, RewriteRequestFails, TypeOK, BytesInv
  <2>2. CASE WritePayloadFails
    <3>1. up = TRUE /\ bytes <= ContentLength /\ bytes \in Nat
      BY <1>1, <2>2 DEF TypeInv, WritePayloadFails, BytesInv, Live, TypeOK
    <3>2. broken' = TRUE /\ bytes' \in {bytes, bytes + 2}
      BY <2>2 DEF WritePayloadFails
    <3> QED
      BY <3>1, <3>2, ConstantsAssumption
  <2> QED
    BY <2>1, <2>2
<1>4. upset' \subseteq Upsets /\ padOnly' \in BOOLEAN
  BY <1>1 DEF WriteRequestFails, RewriteRequestFails, WritePayloadFails,
              PadOnlyNow, TypeOK, Upsets
<1>5. TypeOK'
  BY <1>1, <1>2, <1>3, <1>4 DEF TypeOK
<1>6. BytesInv'
  <2>1. up' = FALSE \/ broken' = TRUE
    BY <1>1, <1>3 DEF TypeOK
  <2> QED
    BY <1>1, <1>2, <1>3, <2>1, NoConnection
<1> QED
  BY <1>2, <1>5, <1>6 DEF TypeInv

\* The write of the request byte meets EPIPE.
LEMMA TypeWriteRequestEPIPE == ASSUME TypeInv, WriteRequestEPIPE PROVE TypeInv'
<1>1. /\ TypeOK /\ WaitInv /\ stack # <<>> /\ ~At("request", "payload")
      /\ UNCHANGED <<phase, taken, stream>>
      /\ \/ Goto("rewrite") /\ ret' = ret
         \/ Return(-1)
      /\ closed' = [why |-> "torn", total |-> bytes, upset |-> upset]
  BY DEF TypeInv, WriteRequestEPIPE, At
<1>2. stack' \in Seq(Frames) /\ WaitInv' /\ ~At("request", "payload")' /\ ret' \in Int
  <2>1. CASE Goto("rewrite") /\ ret' = ret
    BY <1>1, <2>1, AfterGoto DEF At, Top, ProgramPoints, TypeOK
  <2>2. CASE Return(-1)
    BY <1>1, <2>2, AfterReturn
  <2> QED
    BY <1>1, <2>1, <2>2
<1>3. /\ bytes' = 0 /\ aged' \in BOOLEAN /\ padOnly' \in BOOLEAN
      /\ up' \in BOOLEAN /\ broken' \in BOOLEAN /\ (~up' => ~broken')
  BY <1>1 DEF WriteRequestEPIPE, Connected, Refused, HeaderLost, TypeOK, PadOnlyNow
<1>4. upset' \subseteq Upsets
  BY <1>1 DEF WriteRequestEPIPE, TypeOK, Upsets, Swapped
<1>5. closed' \in Endings
  BY <1>1, EndingType DEF TypeOK
<1>6. TypeOK'
  BY <1>1, <1>2, <1>3, <1>4, <1>5 DEF TypeOK
<1>7. BytesInv'
  BY <1>1, <1>2, <1>3, FreshConnection
<1> QED
  BY <1>2, <1>6, <1>7 DEF TypeInv

\* The length and the data are written.
LEMMA TypeWritePayload == ASSUME TypeInv, WritePayload PROVE TypeInv'
<1>1. /\ TypeOK /\ stack # <<>> /\ At("request", "payload")
      /\ EndRequest(bytes + 2 + Top.len) /\ UNCHANGED <<phase, aged, padOnly>>
  BY DEF TypeInv, WritePayload, At
<1>2. Top.len \in Nat
  BY <1>1, TopFrame, ConstantsAssumption DEF Frames
<1>3. bytes + 2 + Top.len \in Nat /\ Live /\ padOnly' \in BOOLEAN
  BY <1>1, <1>2 DEF TypeInv, TypeOK, BytesInv
<1> QED
  BY <1>1, <1>3, TypeEndRequest

\* tunnel_write_or_padding computes a size_t.
LEMMA ChunkType ==
    ASSUME TypeInv, NEW left \in 1..(SizeMod - 1), NEW r \in Requests
    PROVE  Chunk(r, left) \in 0..(SizeMod - 1)
<1>1. bytes \in 0..(ContentLength + 2)
  BY ConstantsAssumption DEF TypeInv, TypeOK, BytesInv
<1>2. FittingChunk(left) \in 0..(SizeMod - 1)
  BY <1>1, ConstantsAssumption DEF FittingChunk, Header
<1>3. Wrap(left - Header) \in 0..(SizeMod - 1)
  BY WrapType, ConstantsAssumption DEF Header
<1> QED
  BY <1>2, <1>3, ConstantsAssumption DEF Chunk

\* tunnel_write_or_padding cuts the next chunk.
LEMMA TypeNextChunk == ASSUME TypeInv, NextChunk PROVE TypeInv'
<1> DEFINE n == Chunk(Top.req, Top.left)
           eaten == IF Top.req = "PADDING" THEN Wrap(n + Header) ELSE n
           rest == [Top EXCEPT !.n = eaten, !.pc = "called"]
           next == Request(Top.req, AsLength(n))
<1>1. /\ TypeOK /\ WaitInv /\ stack # <<>> /\ Top.fn = "loop" /\ Top.left > 0
      /\ Top.pc = "test"
      /\ UNCHANGED <<phase, up, broken, bytes, aged, padOnly, ret, closed, taken, stream>>
  BY DEF TypeInv, NextChunk, At, conn
<1>2. Top \in Frames
  BY <1>1, TopFrame
<1>3. n \in 0..(SizeMod - 1)
  BY <1>1, <1>2, ChunkType DEF Frames
<1>4. eaten \in 0..(SizeMod - 1) /\ AsLength(n) \in 0..(SizeMod - 1)
  BY <1>3, WrapType, AsLengthType, ConstantsAssumption DEF Header
<1>5. rest \in Frames /\ rest.fn = "loop" /\ next \in Frames /\ next.pc = "budget"
  <2>1. next \in Frames
    BY <1>2, <1>4, FrameType DEF Frames
  <2>2. next.pc = "budget"
    BY DEF Request, Frame
  <2> HIDE DEF n, eaten
  <2>3. rest \in Frames /\ rest.fn = "loop"
    BY <1>1, <1>2, <1>4 DEF Frames, ProgramPoints
  <2> QED
    BY <2>1, <2>2, <2>3
<1>6. Call(rest, next) /\ upset' \in {upset, upset \cup {"wrapped"}}
  BY DEF NextChunk
<1> HIDE DEF rest, next
<1>7. stack' \in Seq(Frames) /\ WaitInv' /\ ~At("request", "payload")'
  BY <1>1, <1>5, <1>6, AfterCall DEF At, Top
<1>8. upset' \subseteq Upsets
  BY <1>1, <1>6 DEF TypeOK, Upsets
<1>9. TypeOK'
  BY <1>1, <1>7, <1>8 DEF TypeOK
<1>10. BytesInv'
  BY <1>1, <1>7, SameConnection DEF At
<1> QED
  BY <1>7, <1>9, <1>10 DEF TypeInv

\* tunnel_write_or_padding looks at the result of a chunk.
LEMMA TypeChunkDone == ASSUME TypeInv, ChunkDone PROVE TypeInv'
<1> DEFINE rest == [Top EXCEPT !.left = Wrap(@ - Top.n), !.pc = "test"]
<1>0. /\ TypeOK /\ WaitInv /\ stack # <<>> /\ Top.fn = "loop"
      /\ UNCHANGED <<phase, up, broken, bytes, aged, padOnly, closed, upset, taken, stream>>
  BY DEF TypeInv, ChunkDone, At, conn, history
<1>1. \/ Return(Top.len - Top.left)
      \/ stack' = <<rest>> \o Tail(stack) /\ ret' = ret
  BY Zenon DEF ChunkDone
<1>2. Top \in Frames /\ rest \in Frames /\ rest.fn = "loop"
  <2>1. Top \in Frames
    BY <1>0, <1>1, TopFrame
  <2>2. Wrap(Top.left - Top.n) \in 0..(SizeMod - 1)
    BY <2>1, WrapType, ConstantsAssumption DEF Frames
  <2> QED
    BY <1>0, <1>1, <2>1, <2>2 DEF Frames, ProgramPoints
<1> HIDE DEF rest
<1>3. stack' \in Seq(Frames) /\ WaitInv' /\ ~At("request", "payload")' /\ ret' \in Int
  <2>1. CASE Return(Top.len - Top.left)
    <3>1. Top.len - Top.left \in Int
      BY <1>2, ConstantsAssumption DEF Frames
    <3> QED
      BY <1>0, <1>1, <2>1, <3>1, AfterReturn
  <2>2. CASE stack' = <<rest>> \o Tail(stack) /\ ret' = ret
    <3>1. /\ stack' \in Seq(Frames) /\ Len(stack') = Len(stack)
          /\ Head(stack') = rest
          /\ \A i \in 2..Len(stack) : stack'[i] = stack[i]
      BY <1>0, <1>1, <1>2, <2>2 DEF TypeOK
    <3> QED
      BY <1>0, <1>1, <1>2, <2>2, <3>1 DEF WaitInv, At, Top, TypeOK
  <2> QED
    BY <1>0, <1>1, <2>1, <2>2
<1>4. TypeOK'
  BY <1>0, <1>1, <1>3 DEF TypeOK
<1>5. BytesInv'
  BY <1>0, <1>1, <1>3, SameConnection DEF At
<1> QED
  BY <1>3, <1>4, <1>5 DEF TypeInv

\* Both loops return.
LEMMA TypePaddingReturns ==
    ASSUME TypeInv, LoopDone \/ Pad1sDone PROVE TypeInv'
<1>1. /\ TypeOK /\ WaitInv /\ stack # <<>> /\ Top.fn # "request" /\ Return(Top.len)
      /\ UNCHANGED <<phase, up, broken, bytes, aged, padOnly, closed, upset, taken, stream>>
  BY DEF TypeInv, LoopDone, Pad1sDone, At, conn, history
<1>2. Top.len \in Int
  BY <1>1, TopFrame DEF Frames
<1>3. stack' \in Seq(Frames) /\ WaitInv' /\ ~At("request", "payload")' /\ ret' \in Int
  BY <1>1, <1>2, AfterReturn
<1>4. TypeOK'
  BY <1>1, <1>3 DEF TypeOK
<1>5. BytesInv'
  BY <1>1, <1>3, SameConnection DEF At
<1> QED
  BY <1>3, <1>4, <1>5 DEF TypeInv

\* tunnel_padding writes the next PAD1.
LEMMA TypeNextPad1 == ASSUME TypeInv, NextPad1 PROVE TypeInv'
<1> DEFINE rest == [Top EXCEPT !.left = @ - 1]
           next == Request("PAD1", 0)
<1>1. /\ TypeOK /\ WaitInv /\ stack # <<>> /\ Top.fn = "pad1s" /\ Top.left > 0
      /\ Call(rest, next)
      /\ UNCHANGED <<phase, up, broken, bytes, aged, padOnly, ret, closed, upset, taken, stream>>
  BY DEF TypeInv, NextPad1, At, conn, history
<1>2. rest \in Frames /\ rest.fn = "pad1s" /\ next \in Frames /\ next.pc = "budget"
  <2>1. next \in Frames /\ next.pc = "budget"
    BY FrameType, ConstantsAssumption DEF Request, Frame, Requests
  <2>2. Top \in Frames
    BY <1>1, TopFrame
  <2>3. Top.left - 1 \in 0..(SizeMod - 1)
    BY <1>1, <2>2, ConstantsAssumption DEF Frames
  <2>4. rest \in Frames /\ rest.fn = "pad1s"
    BY <1>1, <2>2, <2>3 DEF Frames
  <2> QED
    BY <2>1, <2>4
<1> HIDE DEF rest, next
<1>3. stack' \in Seq(Frames) /\ WaitInv' /\ ~At("request", "payload")'
  BY <1>1, <1>2, AfterCall DEF At, Top
<1>4. TypeOK'
  BY <1>1, <1>3 DEF TypeOK
<1>5. BytesInv'
  BY <1>1, <1>3, SameConnection DEF At
<1> QED
  BY <1>3, <1>4, <1>5 DEF TypeInv

\* The top-level operations.
LEMMA TypeStart ==
    ASSUME TypeInv, stack = <<>>, NEW f \in Frames, NEW g \in Frames,
           Start(<<f, g>>) \/ Start(<<f>>), f.pc # "payload", g.fn # "request",
           phase' \in Phases, phase' # "new", phase # "new" \/ ~up
    PROVE  TypeInv'
<1>1. /\ TypeOK
      /\ (stack' = <<f, g>> \/ stack' = <<f>>)
      /\ UNCHANGED <<up, broken, bytes, aged, padOnly, ret, upset, taken, stream>>
      /\ closed' = [why |-> "none", total |-> 0, upset |-> {}]
  BY DEF TypeInv, Start, conn, NotClosed
<1>2. /\ stack' \in Seq(Frames) /\ Head(stack') = f
      /\ \A i \in 2..Len(stack') : stack'[i] = g
  <2>1. CASE stack' = <<f, g>>
    <3>1. stack' \in Seq(Frames) /\ Head(stack') = f /\ Len(stack') = 2 /\ stack'[2] = g
      BY <2>1
    <3> QED
      BY <3>1
  <2>2. CASE stack' = <<f>>
    <3>1. stack' \in Seq(Frames) /\ Head(stack') = f /\ Len(stack') = 1
      BY <2>2
    <3> QED
      BY <3>1
  <2> QED
    BY <1>1, <2>1, <2>2
<1>3. WaitInv' /\ ~At("request", "payload")'
  BY <1>2 DEF WaitInv, At, Top
<1>4. closed' \in Endings
  BY <1>1, EndingType
<1>5. TypeOK'
  BY <1>1, <1>2, <1>4 DEF TypeOK
<1>6. BytesInv'
  BY <1>1, <1>3 DEF TypeInv, BytesInv, Live, At
<1> QED
  BY <1>3, <1>5, <1>6 DEF TypeInv

\* The frames of the top-level operations are frames.
LEMMA BottomType ==
    ASSUME NEW fn \in {"connect", "device", "keepalive", "maybepad", "close"},
           NEW n \in 0..(SizeMod - 1), NEW pc \in {"done", "pad"}
    PROVE  /\ Frame(fn, "none", n, pc) \in Frames
           /\ Frame(fn, "none", n, pc).fn # "request"
           /\ Frame(fn, "none", n, pc).pc # "payload"
BY ConstantsAssumption DEF Frame, Frames, Requests, ProgramPoints

\* A call begins before its payload.
LEMMA BeginningPC ==
    \A r, n : /\ Request(r, n).pc # "payload" /\ Loop(r, n).pc # "payload"
              /\ Padding(n).pc # "payload"
BY DEF Request, Loop, Padding, Frame

\* An operation begins.
LEMMA TypeBegin ==
    ASSUME TypeInv,
           TunnelConnect \/ DeviceInput \/ KeepAlive \/ MaybePad \/ TunnelClose
    PROVE  TypeInv'
<1>1. TypeOK /\ (phase = "new" => ~up)
  BY DEF TypeInv, BytesInv
<1>2. CASE TunnelConnect
  <2> DEFINE f == Request("OPEN", 1)
             g == Frame("connect", "none", 0, "done")
  <2>1. f \in Frames /\ g \in Frames /\ f.pc # "payload" /\ g.fn # "request"
    BY FrameType, BottomType, BeginningPC, ConstantsAssumption DEF Requests
  <2>2. Start(<<f, g>>) /\ phase' = "connecting" /\ stack = <<>> /\ phase = "new"
    BY <1>2 DEF TunnelConnect
  <2> HIDE DEF f, g
  <2> QED
    BY <1>1, <2>1, <2>2, TypeStart DEF Phases
<1>3. CASE DeviceInput
  <2>1. PICK n \in Inputs :
          Start(<<Loop("DATA", n), Frame("device", "none", n, "done")>>)
    BY <1>3 DEF DeviceInput
  <2> DEFINE f == Loop("DATA", n)
             g == Frame("device", "none", n, "done")
  <2>2. n \in 0..(SizeMod - 1)
    BY ConstantsAssumption
  <2>3. f \in Frames /\ g \in Frames /\ f.pc # "payload" /\ g.fn # "request"
    BY <2>2, FrameType, BottomType, BeginningPC DEF Requests
  <2>4. Start(<<f, g>>) /\ phase' = "open" /\ stack = <<>> /\ phase = "open"
    BY <1>3, <2>1 DEF DeviceInput, Idle
  <2> HIDE DEF f, g
  <2> QED
    BY <1>1, <2>3, <2>4, TypeStart DEF Phases
<1>4. CASE KeepAlive
  <2> DEFINE f == Padding(1)
             g == Frame("keepalive", "none", 1, "done")
  <2>1. f \in Frames /\ g \in Frames /\ f.pc # "payload" /\ g.fn # "request"
    BY FrameType, BottomType, BeginningPC, ConstantsAssumption DEF Requests
  <2>2. Start(<<f, g>>) /\ phase' = "open" /\ stack = <<>> /\ phase = "open"
    BY <1>4 DEF KeepAlive, Idle
  <2> HIDE DEF f, g
  <2> QED
    BY <1>1, <2>1, <2>2, TypeStart DEF Phases
<1>5. CASE MaybePad
  <2> DEFINE room == Wrap(ContentLength - bytes)
             len(b) == IF b - (bytes % b) > room THEN room ELSE b - (bytes % b)
  <2>1. PICK b \in Blocks :
          Start(<<Padding(len(b)), Frame("maybepad", "none", b, "done")>>)
    BY <1>5 DEF MaybePad
  <2> DEFINE f == Padding(len(b))
             g == Frame("maybepad", "none", b, "done")
  <2>2. b \in 1..(SizeMod - 1) /\ bytes \in Nat /\ bytes <= ContentLength + 2
    BY <1>1, ConstantsAssumption DEF TypeInv, TypeOK, BytesInv
  <2>3. b - (bytes % b) \in 0..(SizeMod - 1)
    BY <2>2, ConstantsAssumption
  <2>4. room \in 0..(SizeMod - 1)
    BY RoomType
  <2>5. len(b) \in 0..(SizeMod - 1)
    BY <2>3, <2>4
  <2> HIDE DEF len
  <2>6. f \in Frames /\ g \in Frames /\ f.pc # "payload" /\ g.fn # "request"
    BY <2>2, <2>5, FrameType, BottomType, BeginningPC, ConstantsAssumption DEF Requests
  <2>7. Start(<<f, g>>) /\ phase' = "open" /\ stack = <<>> /\ phase = "open"
    BY <1>5, <2>1 DEF MaybePad, Idle
  <2> HIDE DEF f, g
  <2> QED
    BY <1>1, <2>6, <2>7, TypeStart DEF Phases
<1>6. CASE TunnelClose
  <2> DEFINE f == Frame("close", "none", 0, "pad")
  <2>1. f \in Frames /\ f.pc # "payload" /\ f.fn # "request"
    BY BottomType, ConstantsAssumption
  <2>2. Start(<<f>>) /\ phase' \in {"open", "closing"} /\ stack = <<>> /\ phase' = phase
    BY <1>6 DEF TunnelClose
  <2> HIDE DEF f
  <2> QED
    BY <1>1, <2>1, <2>2, TypeStart DEF Phases
<1> QED
  BY <1>2, <1>3, <1>4, <1>5, <1>6

\* hts accepts at the head of its main loop.
LEMMA TypeTunnelAccept == ASSUME TypeInv, TunnelAccept PROVE TypeInv'
<1>1. /\ TypeOK /\ stack = <<>> /\ phase' = "open"
      /\ UNCHANGED <<padOnly, stack, ret, closed, upset, taken, stream>>
  BY DEF TypeInv, TunnelAccept, history
<1>2. /\ bytes' = 0 /\ aged' \in BOOLEAN /\ up' \in BOOLEAN /\ broken' = FALSE
  BY <1>1 DEF TunnelAccept, Connected, Refused, TypeOK
<1>3. TypeOK'
  BY <1>1, <1>2 DEF TypeOK, Phases
<1>4. WaitInv'
  BY <1>1 DEF TypeInv, WaitInv
<1>5. BytesInv'
  BY <1>1, <1>2, ConstantsAssumption DEF BytesInv, At, Header
<1> QED
  BY <1>3, <1>4, <1>5 DEF TypeInv

\* hts accepts while it reads.
LEMMA TypeTunnelReadAccept == ASSUME TypeInv, TunnelReadAccept PROVE TypeInv'
<1>1. /\ TypeOK /\ stack = <<>> /\ phase # "new"
      /\ UNCHANGED <<phase, padOnly, stack, ret, upset, taken, stream>>
  BY DEF TypeInv, TunnelReadAccept
<1>2. /\ bytes' = 0 /\ aged' \in BOOLEAN /\ up' \in BOOLEAN /\ broken' = FALSE
      /\ closed' \in Endings
  <2>1. CASE Connected /\ UNCHANGED closed
    BY <1>1, <2>1 DEF Connected, TypeOK
  <2>2. CASE OutDisconnect("accept", bytes, upset) /\ UNCHANGED aged
    <3>1. closed' \in Endings
      BY <1>1, <2>2, EndingType DEF OutDisconnect, TypeOK
    <3> QED
      BY <1>1, <2>2, <3>1 DEF OutDisconnect, TypeOK
  <2> QED
    BY <2>1, <2>2 DEF TunnelReadAccept
<1>3. TypeOK'
  BY <1>1, <1>2 DEF TypeOK
<1>4. WaitInv'
  BY <1>1 DEF TypeInv, WaitInv
<1>5. BytesInv'
  BY <1>1, <1>2, ConstantsAssumption DEF BytesInv, At, Header
<1> QED
  BY <1>3, <1>4, <1>5 DEF TypeInv

\* An operation returns to the main loop.
LEMMA TypeFinish ==
    ASSUME TypeInv, stack # <<>>, Finish, UNCHANGED <<conn, closed>>,
           phase' \in Phases \ {"new"},
           stream' \in {"whole", "cut", "gapped"},
           ~At("request", "payload")
    PROVE  TypeInv'
<1>1. /\ TypeOK /\ stack' = <<>> /\ ret' = 0 /\ taken' = 0
      /\ UNCHANGED <<up, broken, bytes, aged, padOnly, closed>>
  BY DEF TypeInv, Finish, conn
<1>2. upset' \subseteq Upsets
  BY <1>1 DEF Finish, TypeOK
<1>3. TypeOK'
  BY <1>1, <1>2 DEF TypeOK
<1>4. WaitInv'
  BY <1>1 DEF WaitInv
<1>5. BytesInv'
  BY <1>1 DEF TypeInv, BytesInv, At, Live
<1> QED
  BY <1>3, <1>4, <1>5 DEF TypeInv

\* An operation of the main loop is done.
LEMMA TypeOperationDone ==
    ASSUME TypeInv, TunnelConnectDone \/ DeviceInputDone \/ PaddingDone
    PROVE  TypeInv'
<1>1. /\ TypeOK /\ stack # <<>> /\ Finish /\ UNCHANGED <<conn, closed>>
      /\ ~At("request", "payload") /\ phase # "new"
  BY DEF TypeInv, BytesInv, TunnelConnectDone, DeviceInputDone, PaddingDone, At
<1>2. phase' \in Phases \ {"new"}
  BY <1>1 DEF TunnelConnectDone, DeviceInputDone, PaddingDone, Phases, TypeOK
<1>3. stream' \in {"whole", "cut", "gapped"}
  BY <1>1 DEF TunnelConnectDone, DeviceInputDone, PaddingDone, TypeOK
<1> QED
  BY <1>1, <1>2, <1>3, TypeFinish

\* tunnel_close pads and writes TUNNEL_CLOSE.
LEMMA TypeClosing ==
    ASSUME TypeInv, ClosePadding \/ CloseRequest PROVE TypeInv'
<1> DEFINE rest(p) == [Top EXCEPT !.pc = p]
           pad == Padding(Wrap(ContentLength - bytes - 1))
           close == Request("CLOSE", 0)
<1>1. /\ TypeOK /\ WaitInv /\ stack # <<>> /\ Top.fn = "close"
      /\ UNCHANGED <<phase, up, broken, bytes, aged, padOnly, ret, closed, taken, stream>>
  BY DEF TypeInv, ClosePadding, CloseRequest, At, conn, history
<1>2. \/ Call(rest("request"), pad)
      \/ Call(rest("disconnect"), close)
      \/ Goto("request")
  BY DEF ClosePadding, CloseRequest
<1>3. \A p \in ProgramPoints : rest(p) \in Frames /\ rest(p).fn = "close"
  BY <1>1, TopFrame DEF Frames
<1>4. /\ pad \in Frames /\ pad.pc # "payload"
      /\ close \in Frames /\ close.pc # "payload"
  <2>1. Wrap(ContentLength - bytes - 1) \in 0..(SizeMod - 1)
    BY RoomType
  <2> QED
    BY <2>1, FrameType, BeginningPC, ConstantsAssumption DEF Requests
<1>5. {"request", "disconnect"} \subseteq ProgramPoints
  BY DEF ProgramPoints
<1> HIDE DEF rest, pad, close
<1>6. stack' \in Seq(Frames) /\ WaitInv' /\ ~At("request", "payload")'
  <2>1. CASE Call(rest("request"), pad)
    BY <1>1, <1>3, <1>4, <1>5, <2>1, AfterCall DEF At, Top
  <2>2. CASE Call(rest("disconnect"), close)
    BY <1>1, <1>3, <1>4, <1>5, <2>2, AfterCall DEF At, Top
  <2>3. CASE Goto("request")
    BY <1>1, <1>5, <2>3, AfterGoto DEF At, Top
  <2> QED
    BY <1>2, <2>1, <2>2, <2>3
<1>7. upset' \subseteq Upsets
  BY <1>1 DEF ClosePadding, CloseRequest, TypeOK, Upsets, history
<1>8. TypeOK'
  BY <1>1, <1>6, <1>7 DEF TypeOK
<1>9. BytesInv'
  BY <1>1, <1>6, SameConnection DEF At
<1> QED
  BY <1>6, <1>8, <1>9 DEF TypeInv

\* A tunnel is closed or destroyed.
LEMMA TypeNewTunnel ==
    ASSUME TypeInv, CloseDisconnect \/ DestroyDown PROVE TypeInv'
<1>1. TypeOK /\ NewTunnel /\ stack' = <<>> /\ up' = FALSE
  BY DEF TypeInv, TypeOK, CloseDisconnect, DestroyDown, OutDisconnect
<1>2. /\ bytes' = 0 /\ broken' = FALSE /\ ret' \in Int /\ taken' \in Nat
      /\ closed' \in Endings
  <2>1. CASE up /\ CloseDisconnect
    <3>1. PICK w \in {"torn", "close"} : OutDisconnect(w, bytes, upset)
      BY <2>1 DEF CloseDisconnect
    <3>2. closed' \in Endings
      BY <1>1, <3>1, EndingType DEF OutDisconnect, TypeOK
    <3> QED
      BY <2>1, <3>1, <3>2 DEF OutDisconnect, CloseDisconnect
  <2>2. CASE ~up /\ CloseDisconnect
    BY <1>1, <2>2 DEF CloseDisconnect, TypeOK
  <2>3. CASE DestroyDown
    BY <1>1, <2>3 DEF DestroyDown, TypeOK
  <2> QED
    BY <2>1, <2>2, <2>3
<1>3. /\ phase' = "new" /\ stream' = "whole" /\ upset' = {}
      /\ aged' \in BOOLEAN /\ padOnly' \in BOOLEAN
  BY <1>1 DEF NewTunnel, TypeOK
<1>4. TypeOK'
  <2>1. up' \in BOOLEAN /\ broken' \in BOOLEAN /\ upset' \subseteq Upsets
    BY <1>1, <1>2, <1>3, Zenon
  <2>2. bytes' \in Nat /\ stack' \in Seq(Frames)
    BY <1>1, <1>2
  <2> QED
    BY <1>2, <1>3, <2>1, <2>2, Zenon DEF TypeOK, Phases
<1>5. WaitInv'
  BY <1>1 DEF WaitInv
<1>6. BytesInv'
  BY <1>1, <1>2, ConstantsAssumption DEF BytesInv, At, Live
<1> QED
  BY <1>4, <1>5, <1>6 DEF TypeInv

\* The connection ages.
LEMMA TypeGrowOld == ASSUME TypeInv, GrowOld PROVE TypeInv'
<1>1. /\ aged' = TRUE
      /\ UNCHANGED <<phase, up, broken, bytes, padOnly, stack, ret, closed, upset, taken, stream>>
  BY DEF GrowOld, history
<1>2. TypeOK'
  <2>1. aged' \in BOOLEAN
    BY <1>1, Zenon
  <2> QED
    BY <1>1, <2>1, Zenon DEF TypeInv, TypeOK
<1>3. WaitInv'
  BY <1>1 DEF TypeInv, WaitInv
<1>4. BytesInv'
  BY <1>1 DEF TypeInv, BytesInv, At, Top, Live
<1> QED
  BY <1>2, <1>3, <1>4 DEF TypeInv

\* The initial states satisfy the invariant, and every step keeps it.
LEMMA TypeInit == Init => TypeInv
<1> SUFFICES ASSUME Init PROVE TypeInv
  OBVIOUS
<1>1. closed \in Endings
  BY EndingType DEF Init, NotClosed
<1>2. TypeOK
  <2>1. up \in BOOLEAN /\ broken \in BOOLEAN /\ ~broken
    BY Zenon DEF Init
  <2>2. bytes \in Nat /\ ret \in Int /\ taken \in Nat /\ stack \in Seq(Frames)
    BY DEF Init
  <2> QED
    BY <1>1, <2>1, <2>2, Zenon DEF Init, TypeOK, Phases
<1>3. WaitInv /\ BytesInv
  BY ConstantsAssumption DEF Init, WaitInv, BytesInv, At, Live
<1> QED
  BY <1>2, <1>3 DEF TypeInv

\* The initial states satisfy the invariant, and every step keeps it.
LEMMA TypeNext == TypeInv /\ [Next]_vars => TypeInv'
<1> SUFFICES ASSUME TypeInv, [Next]_vars PROVE TypeInv'
  OBVIOUS
<1>1. CASE RequestStep
  BY <1>1, TypeCheckBudget, TypeGoOn, TypeCloseAged, TypeCloseAgedFails,
     TypeReconnect, TypeWriteRequest, TypeWriteFails, TypeWriteRequestEPIPE,
     TypeWritePayload
     DEF RequestStep
<1>2. CASE LoopStep
  BY <1>2, TypeNextChunk, TypeChunkDone, TypePaddingReturns, TypeNextPad1
     DEF LoopStep
<1>3. CASE OperationStep
  BY <1>3, TypeOperationDone, TypeClosing, TypeNewTunnel DEF OperationStep
<1>4. CASE Begin
  BY <1>4, TypeBegin, TypeTunnelAccept, TypeTunnelReadAccept, TypeNewTunnel
     DEF Begin
<1>5. CASE GrowOld
  BY <1>5, TypeGrowOld
<1>6. CASE UNCHANGED vars
  BY <1>6 DEF vars, conn, history, TypeInv, TypeOK, WaitInv, BytesInv, At, Top, Live
<1> QED
  BY <1>1, <1>2, <1>3, <1>4, <1>5, <1>6 DEF Next, Running

(***************************************************************************)
(* Type correctness, for every announced length, every width of Length and *)
(* of size_t, every size of input and proxy buffer: the size_t arithmetic  *)
(* of tunnel_write_or_padding, tunnel_padding and tunnel_close yields      *)
(* sizes, and a connection that is down counts no bytes.                   *)
(***************************************************************************)
THEOREM TypeCorrect == Spec => []TypeOK
<1>1. TypeInv => TypeOK
  BY DEF TypeInv
<1> QED
  BY <1>1, TypeInit, TypeNext, PTL DEF Spec
=============================================================================
