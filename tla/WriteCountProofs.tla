-------------------------- MODULE WriteCountProofs --------------------------
(***************************************************************************)
(* tunnel_write returns what it has written: the proof for TunnelOut.      *)
(*                                                                         *)
(* The count is the sum of two that are kept in different calls: "taken"   *)
(* grows when a DATA request is complete, tunnel_write_or_padding counts   *)
(* remaining down when the call has returned.  Between the two, padding of *)
(* any depth may run on top of the stack and return results of its own.    *)
(* CallInv says which call is made by which, CountInv what holds of the    *)
(* counts at each depth.                                                   *)
(***************************************************************************)
EXTENDS TunnelOutProofs

\* The operations of the main loop: the bottom of the stack.
Operations == {"connect", "device", "keepalive", "maybepad", "close"}

DataLoop(f) == f.fn = "loop" /\ f.req = "DATA"
DataRequest(f) == f.fn = "request" /\ f.req = "DATA"

\* The call f was made by the call g: data is written for the device only,
\* and the chunk that is being written is counted in g.n.
CalledBy(f, g) ==
    /\ f.fn \notin Operations
    /\ g.fn = "device" <=> DataLoop(f)
    /\ DataLoop(g) <=> DataRequest(f)
    /\ DataLoop(g) => g.pc = "called" /\ g.n = f.len /\ g.n <= g.left

\* The call in progress, if it cuts data into chunks.
TopLoop ==
    DataLoop(Top) => \/ Top.pc = "test"
                     \/ Top.pc = "called" /\ Top.n <= Top.left

CallInv ==
    /\ \A i \in 2..Len(stack) : CalledBy(stack[i - 1], stack[i])
    /\ stack # <<>> => stack[Len(stack)].fn \in Operations /\ TopLoop

\* What tunnel_write_or_padding has counted so far.
Written(f) == f.len - f.left

\* A chunk that has been written and is not counted yet.
JustWritten(f) == IF f.pc = "called" /\ ret # -1 THEN f.n ELSE 0

TopCount ==
    /\ Top.fn = "device" => ret = taken
    /\ DataLoop(Top) => taken = Written(Top) + JustWritten(Top)

CountInv ==
    /\ IF stack = <<>> THEN taken = 0 ELSE TopCount
    /\ \A i \in 2..Len(stack) : DataLoop(stack[i]) => taken = Written(stack[i])

WriteInv == TypeInv /\ CallInv /\ CountInv
-----------------------------------------------------------------------------
(***************************************************************************)
(* The ways in which a step changes the stack.                             *)
(***************************************************************************)
\* The call in progress goes on.
LEMMA CountStay ==
    ASSUME WriteInv, stack # <<>>, NEW a \in Frames,
           stack' = <<a>> \o Tail(stack), taken' = taken,
           a.fn = Top.fn, a.req = Top.req, a.len = Top.len, a.fn # "device",
           DataLoop(a) => a.pc = "test" /\ taken = Written(a)
    PROVE  CallInv' /\ CountInv'
<1>1. /\ CallInv /\ CountInv /\ stack \in Seq(Frames) /\ taken \in Nat
      /\ Top = stack[1] /\ Top \in Frames /\ Len(stack) \in Nat /\ Len(stack) >= 1
  BY TopFrame DEF WriteInv, TypeInv, TypeOK
<1>2. /\ stack' # <<>> /\ Len(stack') = Len(stack) /\ Top' = a /\ stack'[1] = a
      /\ \A i \in 2..Len(stack) : stack'[i] = stack[i]
  BY <1>1 DEF Top
<1>3. DataRequest(a) <=> DataRequest(Top)
  BY DEF DataRequest
<1>4. \A i \in 2..Len(stack') : CalledBy(stack'[i - 1], stack'[i])
  <2> SUFFICES ASSUME NEW i \in 2..Len(stack)
               PROVE  CalledBy(stack'[i - 1], stack'[i])
    BY <1>2
  <2>1. CalledBy(stack[i - 1], stack[i]) /\ stack'[i] = stack[i]
    BY <1>1, <1>2 DEF CallInv
  <2>2. CASE i = 2
    <3>1. CalledBy(a, stack[2])
      BY <1>1, <1>3, <2>1, <2>2 DEF CalledBy, DataLoop
    <3> QED
      BY <1>2, <2>1, <2>2, <3>1
  <2>3. CASE i # 2
    <3>1. i - 1 \in 2..Len(stack)
      BY <1>1, <2>3
    <3> QED
      BY <1>2, <2>1, <3>1
  <2> QED
    BY <2>2, <2>3
<1>5. stack'[Len(stack')].fn \in Operations
  <2>1. stack[Len(stack)].fn \in Operations
    BY <1>1 DEF CallInv
  <2>2. CASE Len(stack) = 1
    BY <1>1, <1>2, <2>1, <2>2
  <2>3. CASE Len(stack) # 1
    BY <1>1, <1>2, <2>1, <2>3
  <2> QED
    BY <2>2, <2>3
<1>6. CallInv'
  <2>1. TopLoop'
    BY <1>2 DEF TopLoop, DataLoop
  <2> QED
    BY <1>4, <1>5, <2>1 DEF CallInv
<1>7. CountInv'
  <2>1. TopCount'
    <3>1. Top'.fn # "device" /\ Top' = a
      BY <1>2
    <3>2. DataLoop(a) => taken = Written(a) + 0 /\ a.pc # "called"
      BY <1>1 DEF Written
    <3> QED
      BY <3>1, <3>2 DEF TopCount, DataLoop, Written, JustWritten
  <2> QED
    BY <1>1, <1>2, <2>1 DEF CountInv, DataLoop, Written
<1> QED
  BY <1>6, <1>7

\* A call that writes no data, or the next chunk of data, is made.
LEMMA CountCall ==
    ASSUME WriteInv, stack # <<>>, NEW a \in Frames, NEW b \in Frames, Call(a, b),
           a.fn = Top.fn, a.req = Top.req, a.len = Top.len,
           a.fn = "request" => a.pc = "age", a.fn # "device", taken' = taken,
           b.fn \notin Operations, ~DataLoop(b),
           DataRequest(b) <=> DataLoop(a),
           DataLoop(a) => /\ Top.pc = "test" /\ a.pc = "called"
                          /\ a.left = Top.left /\ a.n = b.len /\ a.n <= a.left
    PROVE  CallInv' /\ CountInv'
<1>1. /\ CallInv /\ CountInv /\ TypeOK /\ WaitInv /\ taken \in Nat
      /\ Top = stack[1] /\ Top \in Frames /\ Len(stack) \in Nat /\ Len(stack) >= 1
  BY TopFrame DEF WriteInv, TypeInv, TypeOK
<1>2. /\ stack' # <<>> /\ Len(stack') = Len(stack) + 1
      /\ stack'[1] = b /\ stack'[2] = a /\ Top' = b
      /\ \A i \in 3..Len(stack') : stack'[i] = stack[i - 1]
  BY <1>1, AfterCall DEF Top
<1>3. DataRequest(a) <=> DataRequest(Top)
  BY DEF DataRequest
<1>4. ASSUME NEW i \in 2..Len(stack')
      PROVE  CalledBy(stack'[i - 1], stack'[i])
  <2>1. CASE i = 2
    BY <1>2, <2>1 DEF CalledBy
  <2>2. CASE i = 3
    <3>1. 2 \in 2..Len(stack) /\ 2 - 1 = 1
      BY <1>1, <1>2, <2>2
    <3>2. CalledBy(Top, stack[2])
      BY <1>1, <3>1 DEF CallInv
    <3>3. CalledBy(a, stack[2])
      BY <1>3, <3>2 DEF CalledBy, DataLoop
    <3> QED
      BY <1>2, <2>2, <3>3
  <2>3. CASE i > 3
    <3>1. /\ i - 1 \in 2..Len(stack) /\ i - 1 \in 3..Len(stack')
          /\ i \in 3..Len(stack')
      BY <1>1, <1>2, <2>3
    <3>2. CalledBy(stack[(i - 1) - 1], stack[i - 1])
      BY <1>1, <3>1 DEF CallInv
    <3> QED
      BY <1>2, <3>1, <3>2
  <2> QED
    BY <2>1, <2>2, <2>3
<1>5. stack'[Len(stack')].fn \in Operations
  <2>1. stack[Len(stack)].fn \in Operations
    BY <1>1 DEF CallInv
  <2>2. CASE Len(stack) = 1
    BY <1>1, <1>2, <2>1, <2>2
  <2>3. CASE Len(stack) # 1
    BY <1>1, <1>2, <2>1, <2>3
  <2> QED
    BY <2>2, <2>3
<1>6. CallInv'
  <2>1. TopLoop'
    BY <1>2 DEF TopLoop, DataLoop
  <2> QED
    BY <1>2, <1>4, <1>5, <2>1 DEF CallInv
<1>7. ASSUME NEW i \in 2..Len(stack'), DataLoop(stack'[i])
      PROVE  taken' = Written(stack'[i])
  <2>1. CASE i = 2
    <3>1. DataLoop(a) /\ stack'[i] = a /\ DataLoop(Top)
      BY <1>2, <1>7, <2>1 DEF DataLoop
    <3>2. taken = Written(Top) + 0
      BY <1>1, <3>1 DEF CountInv, TopCount, JustWritten
    <3> QED
      BY <1>1, <3>1, <3>2, ConstantsAssumption DEF Written, Frames
  <2>2. CASE i = 3
    <3>1. 2 \in 2..Len(stack) /\ stack'[3] = stack[2]
      BY <1>1, <1>2, <2>2
    <3> QED
      BY <1>1, <1>7, <2>2, <3>1 DEF CountInv
  <2>3. CASE i > 3
    <3>1. i - 1 \in 2..Len(stack) /\ stack'[i] = stack[i - 1]
      BY <1>1, <1>2, <2>3
    <3> QED
      BY <1>1, <1>7, <3>1 DEF CountInv
  <2> QED
    BY <2>1, <2>2, <2>3
<1>8. TopCount'
  BY <1>2 DEF TopCount, DataLoop, Operations
<1>9. CountInv'
  BY <1>2, <1>7, <1>8 DEF CountInv, DataLoop, Written
<1> QED
  BY <1>6, <1>9

\* A call returns to the one that made it.
LEMMA CallReturn ==
    ASSUME WriteInv, stack # <<>>, Top.fn \notin Operations, NEW v, Return(v)
    PROVE  /\ CallInv' /\ stack' # <<>> /\ ret' = v
           /\ Len(stack) \in Nat /\ Len(stack) >= 2 /\ Len(stack') = Len(stack) - 1
           /\ Top = stack[1] /\ Top' = stack[2] /\ CalledBy(Top, stack[2])
           /\ \A i \in 1..Len(stack') : stack'[i] = stack[i + 1]
<1>1. /\ TypeOK /\ WaitInv /\ CallInv
      /\ Top = stack[1] /\ Len(stack) \in Nat /\ Len(stack) >= 1
  BY TopFrame DEF WriteInv, TypeInv
<1>2. Len(stack) >= 2
  <2>1. stack[Len(stack)].fn \in Operations
    BY <1>1 DEF CallInv
  <2> QED
    BY <1>1, <2>1
<1>3. /\ Len(stack') = Len(stack) - 1 /\ ret' = v
      /\ \A i \in 1..Len(stack') : stack'[i] = stack[i + 1]
      /\ stack' \in Seq(Frames)
  BY <1>1, AfterReturn
<1>4. stack' # <<>>
  BY <1>1, <1>2, <1>3
<1>5. Top' = stack[2]
  BY <1>1, <1>4, AfterReturn DEF Top
<1>6. CalledBy(Top, stack[2])
  <2>1. 2 \in 2..Len(stack) /\ 2 - 1 = 1
    BY <1>1, <1>2
  <2> QED
    BY <1>1, <2>1 DEF CallInv
<1>7. CallInv'
  <2>1. \A i \in 2..Len(stack') : CalledBy(stack'[i - 1], stack'[i])
    <3> SUFFICES ASSUME NEW i \in 2..Len(stack')
                 PROVE  CalledBy(stack'[i - 1], stack'[i])
      OBVIOUS
    <3>1. i + 1 \in 2..Len(stack) /\ i \in 1..Len(stack') /\ i - 1 \in 1..Len(stack')
      BY <1>1, <1>3
    <3>2. stack'[i] = stack[i + 1] /\ stack'[i - 1] = stack[i] /\ (i + 1) - 1 = i
      BY <1>3, <3>1
    <3>3. CalledBy(stack[(i + 1) - 1], stack[i + 1])
      BY <1>1, <3>1 DEF CallInv
    <3> QED
      BY <3>2, <3>3
  <2>2. stack'[Len(stack')].fn \in Operations
    <3>1. stack'[Len(stack')] = stack[Len(stack)]
      BY <1>1, <1>2, <1>3
    <3> QED
      BY <1>1, <3>1 DEF CallInv
  <2>3. TopLoop'
    BY <1>5, <1>6 DEF TopLoop, CalledBy, DataLoop
  <2> QED
    BY <2>1, <2>2, <2>3 DEF CallInv
<1> QED
  BY <1>1, <1>2, <1>3, <1>4, <1>5, <1>6, <1>7

\* A request returns.
LEMMA CountRequest ==
    ASSUME WriteInv, stack # <<>>, Top.fn = "request", NEW v \in {0, -1}, Return(v),
           taken' = taken + (IF v = 0 /\ Top.req = "DATA" THEN Top.len ELSE 0)
    PROVE  CallInv' /\ CountInv'
<1>1. /\ CallInv' /\ stack' # <<>> /\ ret' = v
      /\ Len(stack) \in Nat /\ Len(stack) >= 2 /\ Len(stack') = Len(stack) - 1
      /\ Top = stack[1] /\ Top' = stack[2] /\ CalledBy(Top, stack[2])
      /\ \A i \in 1..Len(stack') : stack'[i] = stack[i + 1]
  BY CallReturn DEF Operations
<1>2. /\ TypeOK /\ taken \in Nat /\ Top.len \in Nat
      /\ \A i \in 2..Len(stack) : DataLoop(stack[i]) => taken = Written(stack[i])
  BY TopFrame, ConstantsAssumption DEF WriteInv, TypeInv, CountInv, TypeOK, Frames
<1>3. TopCount'
  <2>1. Top'.fn # "device"
    BY <1>1 DEF CalledBy, DataLoop
  <2>2. ASSUME DataLoop(stack[2])
        PROVE  taken' = Written(stack[2]) + (IF stack[2].pc = "called" /\ v # -1 THEN stack[2].n ELSE 0)
    <3>1. DataRequest(Top) /\ stack[2].pc = "called" /\ stack[2].n = Top.len
      BY <1>1, <2>2 DEF CalledBy
    <3>2. taken = Written(stack[2])
      BY <1>1, <1>2, <2>2
    <3> QED
      BY <1>2, <3>1, <3>2 DEF DataRequest
  <2> QED
    BY <1>1, <2>1, <2>2 DEF TopCount, DataLoop, Written, JustWritten
<1>4. ASSUME NEW i \in 2..Len(stack'), DataLoop(stack'[i])
      PROVE  taken' = Written(stack'[i])
  <2>1. i + 1 \in 3..Len(stack) /\ stack'[i] = stack[i + 1]
    BY <1>1
  <2>2. taken = Written(stack'[i])
    BY <1>2, <1>4, <2>1
  <2>3. ~DataRequest(Top)
    <3> SUFFICES ASSUME DataRequest(Top) PROVE FALSE
      OBVIOUS
    <3>1. DataLoop(stack[2]) /\ CalledBy(stack[2], stack[3])
      <4>1. 3 \in 2..Len(stack) /\ 3 - 1 = 2
        BY <1>1, <2>1
      <4> QED
        BY <1>1, <4>1 DEF CalledBy, WriteInv, CallInv
    <3>2. stack[3].fn = "device"
      BY <3>1 DEF CalledBy
    <3>3. Len(stack) >= 4
      BY <1>1, <1>4, <2>1, <3>2 DEF DataLoop
    <3>4. CalledBy(stack[3], stack[4])
      <4>1. 4 \in 2..Len(stack) /\ 4 - 1 = 3
        BY <1>1, <3>3
      <4> QED
        BY <4>1 DEF WriteInv, CallInv
    <3> QED
      BY <3>2, <3>4 DEF CalledBy, Operations
  <2> QED
    BY <1>2, <2>2, <2>3 DEF DataRequest
<1>5. CountInv'
  BY <1>1, <1>3, <1>4 DEF CountInv, DataLoop, Written
<1> QED
  BY <1>1, <1>5

\* A loop of padding returns, or tunnel_write_or_padding with its count.
LEMMA CountLoop ==
    ASSUME WriteInv, stack # <<>>, Top.fn \in {"loop", "pad1s"}, NEW v, Return(v),
           DataLoop(Top) => v = taken, taken' = taken
    PROVE  CallInv' /\ CountInv'
<1>1. /\ CallInv' /\ stack' # <<>> /\ ret' = v
      /\ Len(stack) \in Nat /\ Len(stack) >= 2 /\ Len(stack') = Len(stack) - 1
      /\ Top = stack[1] /\ Top' = stack[2] /\ CalledBy(Top, stack[2])
      /\ \A i \in 1..Len(stack') : stack'[i] = stack[i + 1]
  BY CallReturn DEF Operations
<1>2. TopCount'
  <2>1. ~DataRequest(Top)
    BY DEF DataRequest
  <2>2. ~DataLoop(stack[2])
    BY <1>1, <2>1 DEF CalledBy
  <2>3. stack[2].fn = "device" => v = taken
    BY <1>1 DEF CalledBy
  <2> QED
    BY <1>1, <2>2, <2>3 DEF TopCount, DataLoop
<1>3. ASSUME NEW i \in 2..Len(stack'), DataLoop(stack'[i])
      PROVE  taken' = Written(stack'[i])
  <2>1. i + 1 \in 2..Len(stack) /\ stack'[i] = stack[i + 1]
    BY <1>1
  <2> QED
    BY <1>3, <2>1 DEF WriteInv, CountInv
<1>4. CountInv'
  BY <1>1, <1>2, <1>3 DEF CountInv, DataLoop, Written
<1> QED
  BY <1>1, <1>4

-----------------------------------------------------------------------------
(***************************************************************************)
(* The steps.                                                              *)
(***************************************************************************)
\* Padding writes no data.
LEMMA PaddingWritesNoData ==
    \A n : /\ ~DataLoop(Padding(n)) /\ ~DataRequest(Padding(n))
           /\ Padding(n).fn \in {"loop", "pad1s"}
BY DEF Padding, Loop, Frame, DataLoop, DataRequest

\* What a request does to the stack and to the count.
LEMMA RequestSteps ==
    ASSUME WriteInv, RequestStep
    PROVE  /\ stack # <<>> /\ Top.fn = "request"
           /\ \/ (\E p \in ProgramPoints : Goto(p)) /\ taken' = taken
              \/ \E v \in {0, -1} :
                   /\ Return(v)
                   /\ taken' = taken + (IF v = 0 /\ Top.req = "DATA" THEN Top.len ELSE 0)
              \/ CheckBudget
<1>1. stack # <<>> /\ Top.fn = "request"
  BY DEF RequestStep, CheckBudget, StillYoung, CloseAged, CloseAgedFails,
         StillConnected, Reconnect, WriteRequest, WriteRequestFails,
         WriteRequestEPIPE, RewriteRequest, RewriteRequestFails, WritePayload,
         WritePayloadFails, At
<1>2. taken \in Nat
  BY DEF WriteInv, TypeInv, TypeOK
<1>3. CASE StillYoung \/ CloseAged \/ StillConnected
  BY <1>1, <1>3 DEF StillYoung, CloseAged, StillConnected, ProgramPoints, history
<1>4. CASE CloseAgedFails \/ WriteRequestFails \/ RewriteRequestFails \/ WritePayloadFails
  BY <1>1, <1>2, <1>4
     DEF CloseAgedFails, WriteRequestFails, RewriteRequestFails, WritePayloadFails
<1>5. CASE Reconnect \/ WriteRequestEPIPE
  BY <1>1, <1>2, <1>5 DEF Reconnect, WriteRequestEPIPE, ProgramPoints
<1>6. CASE WriteRequest \/ RewriteRequest \/ WritePayload
  <2>1. \/ Goto("payload") /\ taken' = taken
        \/ Return(0) /\ taken' = taken + (IF Top.req = "DATA" THEN Top.len ELSE 0)
    BY <1>6 DEF WriteRequest, RewriteRequest, WritePayload, RequestByteSent,
                EndRequest, history
  <2> QED
    BY <1>1, <2>1 DEF ProgramPoints
<1> QED
  BY <1>1, <1>3, <1>4, <1>5, <1>6 DEF RequestStep

\* A request is too large for what is left of the body.
LEMMA CountCheckBudget ==
    ASSUME WriteInv, CheckBudget PROVE CallInv' /\ CountInv'
<1> DEFINE pad == Padding(Wrap(ContentLength - bytes))
           rest == [Top EXCEPT !.pc = "age"]
<1>1. /\ TypeOK /\ stack # <<>> /\ Top.fn = "request" /\ Top \in Frames
      /\ taken' = taken
  BY TopFrame DEF WriteInv, TypeInv, CheckBudget, At, history
<1>2. Call(rest, pad) \/ Goto("age")
  BY DEF CheckBudget
<1>3. /\ rest \in Frames /\ rest.pc = "age" /\ rest.fn = Top.fn
      /\ rest.req = Top.req /\ rest.len = Top.len /\ rest.left = Top.left
  BY <1>1 DEF Frames, ProgramPoints
<1>4. pad \in Frames
  <2>1. Wrap(ContentLength - bytes) \in 0..(SizeMod - 1)
    BY RoomType DEF WriteInv
  <2> QED
    BY <2>1, FrameType DEF Requests
<1>5. ~DataLoop(pad) /\ ~DataRequest(pad) /\ pad.fn \notin Operations
  BY PaddingWritesNoData DEF Operations
<1>6. ~DataLoop(rest) /\ rest.fn # "device"
  BY <1>1, <1>3 DEF DataLoop
<1>7. Goto("age") => stack' = <<rest>> \o Tail(stack)
  BY DEF Goto
<1> HIDE DEF pad, rest
<1> QED
  BY <1>1, <1>2, <1>3, <1>4, <1>5, <1>6, <1>7, CountCall, CountStay

\* tunnel_write_request.
LEMMA CountRequestStep ==
    ASSUME WriteInv, RequestStep PROVE CallInv' /\ CountInv'
<1>1. stack # <<>> /\ Top.fn = "request"
  BY RequestSteps
<1>2. CASE (\E p \in ProgramPoints : Goto(p)) /\ taken' = taken
  <2>1. PICK p \in ProgramPoints : Goto(p)
    BY <1>2
  <2> DEFINE a == [Top EXCEPT !.pc = p]
  <2>2. Top \in Frames
    BY <1>1, TopFrame DEF WriteInv, TypeInv
  <2>3. /\ a \in Frames /\ a.fn = Top.fn /\ a.req = Top.req /\ a.len = Top.len
        /\ stack' = <<a>> \o Tail(stack)
    BY <2>1, <2>2 DEF Frames, Goto
  <2> HIDE DEF a
  <2>4. ~DataLoop(a)
    BY <1>1, <2>3 DEF DataLoop
  <2> QED
    BY <1>1, <1>2, <2>3, <2>4, CountStay
<1>3. CASE \E v \in {0, -1} :
             /\ Return(v)
             /\ taken' = taken + (IF v = 0 /\ Top.req = "DATA" THEN Top.len ELSE 0)
  BY <1>1, <1>3, CountRequest
<1>4. CASE CheckBudget
  BY <1>4, CountCheckBudget
<1> QED
  BY <1>2, <1>3, <1>4, RequestSteps

\* A chunk of data is no more than what remains, and fits in a Length.
LEMMA DataChunk ==
    ASSUME TypeInv, NEW left \in 1..(SizeMod - 1)
    PROVE  /\ Chunk("DATA", left) \in 0..left
           /\ AsLength(Chunk("DATA", left)) = Chunk("DATA", left)
<1>1. bytes \in 0..(ContentLength + 2)
  BY ConstantsAssumption DEF TypeInv, TypeOK, BytesInv
<1>2. FittingChunk(left) \in 0..left
  BY <1>1, ConstantsAssumption DEF FittingChunk, Wrap, Header
<1>3. Chunk("DATA", left) \in 0..left /\ Chunk("DATA", left) <= MaxLength
  BY <1>2, ConstantsAssumption DEF Chunk
<1> QED
  BY <1>3, ConstantsAssumption DEF AsLength

\* tunnel_write_or_padding writes the next chunk.
LEMMA CountNextChunk ==
    ASSUME WriteInv, NextChunk PROVE CallInv' /\ CountInv'
<1> DEFINE n == Chunk(Top.req, Top.left)
           eaten == IF Top.req = "PADDING" THEN Wrap(n + Header) ELSE n
           rest == [Top EXCEPT !.n = eaten, !.pc = "called"]
           next == Request(Top.req, AsLength(n))
<1>1. /\ TypeInv /\ TypeOK /\ stack # <<>> /\ Top.fn = "loop" /\ Top.left > 0
      /\ Top.pc = "test" /\ taken' = taken /\ Call(rest, next)
  BY DEF WriteInv, TypeInv, NextChunk, At
<1>2. Top \in Frames /\ Top.left \in 1..(SizeMod - 1)
  BY <1>1, TopFrame, ConstantsAssumption DEF Frames
<1>3. n \in 0..(SizeMod - 1)
  BY <1>1, <1>2, ChunkType DEF Frames
<1>4. eaten \in 0..(SizeMod - 1) /\ AsLength(n) \in 0..(SizeMod - 1)
  BY <1>3, WrapType, AsLengthType, ConstantsAssumption DEF Header
<1>5. next \in Frames /\ next.fn = "request" /\ next.req = Top.req /\ next.len = AsLength(n)
  BY <1>2, <1>4, FrameType DEF Frames, Request, Frame
<1>6. DataLoop(Top) => eaten = AsLength(n) /\ eaten <= Top.left
  BY <1>2, DataChunk, <1>1 DEF DataLoop
<1> HIDE DEF n, eaten
<1>7. /\ rest \in Frames /\ rest.fn = "loop" /\ rest.req = Top.req
      /\ rest.len = Top.len /\ rest.left = Top.left
      /\ rest.n = eaten /\ rest.pc = "called"
  BY <1>1, <1>2, <1>4 DEF Frames, ProgramPoints
<1> HIDE DEF rest, next
<1>8. /\ DataRequest(next) <=> DataLoop(rest)
      /\ ~DataLoop(next) /\ next.fn \notin Operations
      /\ DataLoop(rest) => rest.n = next.len /\ rest.n <= rest.left
  BY <1>1, <1>5, <1>6, <1>7 DEF DataRequest, DataLoop, Operations
<1> QED
  BY <1>1, <1>5, <1>7, <1>8, CountCall

\* tunnel_write_or_padding counts what the request has written, or returns.
LEMMA CountChunkDone ==
    ASSUME WriteInv, ChunkDone PROVE CallInv' /\ CountInv'
<1> DEFINE rest == [Top EXCEPT !.left = Wrap(@ - Top.n), !.pc = "test"]
<1>1. /\ TypeOK /\ stack # <<>> /\ Top.fn = "loop" /\ Top.pc = "called"
      /\ taken' = taken /\ TopLoop /\ TopCount
  BY DEF WriteInv, TypeInv, CallInv, CountInv, ChunkDone, At, history
<1>2. Top \in Frames
  BY <1>1, TopFrame
<1>3. CASE ret = -1
  <2>1. Return(Top.len - Top.left)
    BY <1>3 DEF ChunkDone
  <2>2. DataLoop(Top) => Top.len - Top.left = taken
    <3>1. DataLoop(Top) => taken = Written(Top) + 0
      BY <1>1, <1>3 DEF TopCount, JustWritten
    <3> QED
      BY <1>2, <3>1, ConstantsAssumption DEF Written, Frames
  <2> QED
    BY <1>1, <2>1, <2>2, CountLoop
<1>4. CASE ret # -1
  <2>1. stack' = <<rest>> \o Tail(stack)
    BY <1>4 DEF ChunkDone
  <2>2. Wrap(Top.left - Top.n) \in 0..(SizeMod - 1)
    BY <1>2, WrapType, ConstantsAssumption DEF Frames
  <2>3. /\ rest \in Frames /\ rest.fn = "loop" /\ rest.req = Top.req
        /\ rest.len = Top.len /\ rest.left = Wrap(Top.left - Top.n) /\ rest.pc = "test"
    BY <1>1, <1>2, <2>2 DEF Frames, ProgramPoints
  <2> HIDE DEF rest
  <2>4. DataLoop(rest) => taken = Written(rest)
    <3> SUFFICES ASSUME DataLoop(rest) PROVE taken = Written(rest)
      OBVIOUS
    <3>1. DataLoop(Top) /\ Top.n <= Top.left
      BY <1>1, <2>3 DEF DataLoop, TopLoop
    <3>2. Wrap(Top.left - Top.n) = Top.left - Top.n
      BY <1>2, <3>1, ConstantsAssumption DEF Wrap, Frames
    <3>3. taken = Written(Top) + Top.n
      BY <1>1, <1>4, <3>1 DEF TopCount, JustWritten
    <3> QED
      BY <1>2, <2>3, <3>2, <3>3, ConstantsAssumption DEF Written, Frames
  <2> QED
    BY <1>1, <2>1, <2>3, <2>4, CountStay
<1> QED
  BY <1>3, <1>4

\* The loops end, and padding is written one byte at a time.
LEMMA CountLoopStep ==
    ASSUME WriteInv, LoopStep PROVE CallInv' /\ CountInv'
<1>1. TypeOK /\ taken \in Nat
  BY DEF WriteInv, TypeInv, TypeOK
<1>2. CASE NextChunk
  BY <1>2, CountNextChunk
<1>3. CASE ChunkDone
  BY <1>3, CountChunkDone
<1>4. CASE LoopDone \/ Pad1sDone
  <2>1. /\ stack # <<>> /\ Top.fn \in {"loop", "pad1s"} /\ Top.pc = "test"
        /\ Top.left = 0 /\ Return(Top.len) /\ taken' = taken
    BY <1>4 DEF LoopDone, Pad1sDone, At, history
  <2>2. DataLoop(Top) => taken = Written(Top) + 0
    BY <2>1 DEF WriteInv, CountInv, TopCount, JustWritten
  <2>3. DataLoop(Top) => Top.len = taken
    BY <1>1, <2>1, <2>2, TopFrame, ConstantsAssumption DEF Written, Frames
  <2> QED
    BY <2>1, <2>3, CountLoop
<1>5. CASE NextPad1
  <2> DEFINE rest == [Top EXCEPT !.left = @ - 1]
             next == Request("PAD1", 0)
  <2>1. /\ stack # <<>> /\ Top.fn = "pad1s" /\ Top.left > 0 /\ taken' = taken
        /\ Call(rest, next)
    BY <1>5 DEF NextPad1, At, history
  <2>2. next \in Frames /\ next.fn = "request" /\ next.req = "PAD1"
    BY FrameType, ConstantsAssumption DEF Request, Frame, Requests
  <2>3. Top \in Frames
    BY <1>1, <2>1, TopFrame
  <2>4. Top.left - 1 \in 0..(SizeMod - 1)
    BY <2>1, <2>3, ConstantsAssumption DEF Frames
  <2>5. rest \in Frames /\ rest.fn = "pad1s" /\ rest.req = Top.req /\ rest.len = Top.len
    BY <2>1, <2>3, <2>4 DEF Frames
  <2> HIDE DEF rest, next
  <2>6. ~DataLoop(next) /\ ~DataRequest(next) /\ next.fn \notin Operations /\ ~DataLoop(rest)
    BY <2>1, <2>2, <2>5 DEF DataLoop, DataRequest, Operations
  <2> QED
    BY <2>1, <2>2, <2>5, <2>6, CountCall
<1> QED
  BY <1>2, <1>3, <1>4, <1>5 DEF LoopStep

\* tunnel_close writes padding and TUNNEL_CLOSE.
LEMMA CountClosing ==
    ASSUME WriteInv, ClosePadding \/ CloseRequest PROVE CallInv' /\ CountInv'
<1> DEFINE rest(p) == [Top EXCEPT !.pc = p]
           pad == Padding(Wrap(ContentLength - bytes - 1))
           close == Request("CLOSE", 0)
<1>1. /\ TypeOK /\ stack # <<>> /\ Top.fn = "close" /\ Top \in Frames /\ taken' = taken
  BY TopFrame DEF WriteInv, TypeInv, ClosePadding, CloseRequest, At, history
<1>2. \/ Call(rest("request"), pad)
      \/ Call(rest("disconnect"), close)
      \/ stack' = <<rest("request")>> \o Tail(stack)
  BY DEF ClosePadding, CloseRequest, Goto
<1>3. \A p \in ProgramPoints :
        /\ rest(p) \in Frames /\ rest(p).fn = "close" /\ rest(p).req = Top.req
        /\ rest(p).len = Top.len
  BY <1>1 DEF Frames
<1>4. pad \in Frames /\ close \in Frames
  <2>1. Wrap(ContentLength - bytes - 1) \in 0..(SizeMod - 1)
    BY RoomType DEF WriteInv
  <2> QED
    BY <2>1, FrameType, ConstantsAssumption DEF Requests
<1>5. /\ ~DataLoop(pad) /\ ~DataRequest(pad) /\ pad.fn \notin Operations
      /\ ~DataLoop(close) /\ ~DataRequest(close) /\ close.fn \notin Operations
  BY PaddingWritesNoData DEF Operations, DataLoop, DataRequest, Request, Frame
<1>6. {"request", "disconnect"} \subseteq ProgramPoints
  BY DEF ProgramPoints
<1> HIDE DEF rest, pad, close
<1>7. \A p \in ProgramPoints : ~DataLoop(rest(p))
  BY <1>3 DEF DataLoop
<1>8. CASE Call(rest("request"), pad)
  BY <1>1, <1>3, <1>4, <1>5, <1>6, <1>7, <1>8, CountCall
<1>9. CASE Call(rest("disconnect"), close)
  BY <1>1, <1>3, <1>4, <1>5, <1>6, <1>7, <1>9, CountCall
<1>10. CASE stack' = <<rest("request")>> \o Tail(stack)
  BY <1>1, <1>3, <1>6, <1>7, <1>10, CountStay
<1> QED
  BY <1>2, <1>8, <1>9, <1>10

\* The main loop runs with an empty stack and with nothing written.
LEMMA CountEmpty ==
    ASSUME stack' = <<>>, taken' = 0 PROVE CallInv' /\ CountInv'
BY DEF CallInv, CountInv

\* An operation of the main loop begins.
LEMMA CountStart ==
    ASSUME WriteInv, stack = <<>>, NEW f, NEW g, taken' = taken,
           stack' = <<f, g>>, CalledBy(f, g), g.fn \in Operations, ~DataLoop(g),
           DataLoop(f) => f.pc = "test" /\ Written(f) = 0
    PROVE  CallInv' /\ CountInv'
<1>1. /\ taken = 0 /\ stack' # <<>> /\ Len(stack') = 2 /\ Top' = f
      /\ stack'[1] = f /\ stack'[2] = g
  BY DEF WriteInv, CountInv, Top
<1>2. CallInv'
  <2>1. \A i \in 2..Len(stack') : CalledBy(stack'[i - 1], stack'[i])
    <3> SUFFICES ASSUME NEW i \in 2..2 PROVE CalledBy(stack'[i - 1], stack'[i])
      BY <1>1
    <3>1. i = 2 /\ i - 1 = 1
      OBVIOUS
    <3> QED
      BY <1>1, <3>1
  <2>2. TopLoop'
    BY <1>1 DEF TopLoop, DataLoop
  <2> QED
    BY <1>1, <2>1, <2>2 DEF CallInv
<1>3. TopCount'
  <2>1. DataLoop(f) => taken' = Written(f) + 0 /\ f.pc # "called"
    BY <1>1
  <2> QED
    BY <1>1, <2>1 DEF TopCount, DataLoop, Written, JustWritten, CalledBy, Operations
<1>4. \A i \in 2..Len(stack') : ~DataLoop(stack'[i])
  BY <1>1
<1> QED
  BY <1>1, <1>2, <1>3, <1>4 DEF CountInv, DataLoop, Written

\* The main loop pads.
LEMMA CountStartPadding ==
    ASSUME WriteInv, stack = <<>>, taken' = taken,
           NEW n, NEW m, NEW fn \in {"keepalive", "maybepad"},
           stack' = <<Padding(n), Frame(fn, "none", m, "done")>>
    PROVE  CallInv' /\ CountInv'
<1> DEFINE f == Padding(n)
           g == Frame(fn, "none", m, "done")
<1>1. ~DataLoop(f) /\ ~DataRequest(f) /\ f.fn \in {"loop", "pad1s"}
  BY PaddingWritesNoData
<1>2. g.fn \in Operations /\ g.fn # "device" /\ ~DataLoop(g)
  BY DEF Frame, DataLoop, Operations
<1>3. stack' = <<f, g>>
  OBVIOUS
<1> HIDE DEF f, g
<1>4. CalledBy(f, g)
  BY <1>1, <1>2 DEF CalledBy, Operations
<1> QED
  BY <1>1, <1>2, <1>3, <1>4, CountStart

\* Every operation of the main loop begins with nothing written.
LEMMA CountBegin ==
    ASSUME WriteInv, Begin PROVE CallInv' /\ CountInv'
<1>1. taken \in Nat
  BY DEF WriteInv, TypeInv, TypeOK
<1>2. CASE TunnelConnect
  <2>1. /\ stack = <<>> /\ taken' = taken
        /\ stack' = <<Request("OPEN", 1), Frame("connect", "none", 0, "done")>>
    BY <1>2 DEF TunnelConnect, Start
  <2> QED
    BY <2>1, CountStart DEF Request, Frame, CalledBy, DataLoop, DataRequest, Operations
<1>3. CASE DeviceInput
  <2>1. PICK n \in Inputs :
          /\ stack = <<>> /\ taken' = taken
          /\ stack' = <<Loop("DATA", n), Frame("device", "none", n, "done")>>
    BY <1>3 DEF DeviceInput, Start, Idle
  <2>2. Written(Loop("DATA", n)) = 0
    BY ConstantsAssumption DEF Written, Loop, Frame
  <2> QED
    BY <2>1, <2>2, CountStart
       DEF Loop, Frame, CalledBy, DataLoop, DataRequest, Operations
<1>4. CASE KeepAlive \/ MaybePad
  <2>1. CASE KeepAlive
    BY <2>1, CountStartPadding DEF KeepAlive, Start, Idle
  <2>2. CASE MaybePad
    <3>1. stack = <<>> /\ taken' = taken
      BY <2>2 DEF MaybePad, Start, Idle
    <3>2. \E n, b : stack' = <<Padding(n), Frame("maybepad", "none", b, "done")>>
      BY <2>2 DEF MaybePad, Start
    <3> QED
      BY <3>1, <3>2, CountStartPadding
  <2> QED
    BY <1>4, <2>1, <2>2
<1>5. CASE TunnelClose
  <2> DEFINE f == Frame("close", "none", 0, "pad")
  <2>1. stack = <<>> /\ taken' = taken /\ stack' = <<f>>
    BY <1>5 DEF TunnelClose, Start
  <2>2. f.fn = "close"
    BY DEF Frame
  <2> HIDE DEF f
  <2>3. stack' # <<>> /\ Len(stack') = 1 /\ Top' = f /\ stack'[1] = f
    BY <2>1 DEF Top
  <2>4. \A i \in 2..Len(stack') : FALSE
    BY <2>3
  <2> QED
    BY <2>2, <2>3, <2>4
       DEF CallInv, CountInv, TopLoop, TopCount, DataLoop, Operations
<1>6. CASE TunnelAccept \/ TunnelReadAccept \/ DestroyDown
  BY <1>6, CountEmpty
     DEF TunnelAccept, TunnelReadAccept, DestroyDown, history, WriteInv, CountInv
<1> QED
  BY <1>2, <1>3, <1>4, <1>5, <1>6 DEF Begin

\* The initial states satisfy the invariant.
LEMMA WriteInit == Init => WriteInv
BY TypeInit DEF Init, WriteInv, CallInv, CountInv

\* Every step keeps the invariant.
LEMMA WriteNext == WriteInv /\ [Next]_vars => WriteInv'
<1> SUFFICES ASSUME WriteInv, [Next]_vars PROVE WriteInv'
  OBVIOUS
<1>1. TypeInv'
  BY TypeNext DEF WriteInv
<1>2. CallInv' /\ CountInv'
  <2>1. CASE RequestStep
    BY <2>1, CountRequestStep
  <2>2. CASE LoopStep
    BY <2>2, CountLoopStep
  <2>3. CASE OperationStep
    BY <2>3, CountClosing, CountEmpty
       DEF OperationStep, TunnelConnectDone, DeviceInputDone, PaddingDone,
           CloseDisconnect, Finish
  <2>4. CASE Begin
    BY <2>4, CountBegin
  <2>5. CASE GrowOld \/ UNCHANGED vars
    <3>1. UNCHANGED <<stack, ret, taken>>
      BY <2>5 DEF GrowOld, vars, history
    <3> QED
      BY <3>1 DEF WriteInv, CallInv, CountInv, TopLoop, TopCount, Top,
                  DataLoop, Written, JustWritten
  <2> QED
    BY <2>1, <2>2, <2>3, <2>4, <2>5 DEF Next, Running
<1> QED
  BY <1>1, <1>2 DEF WriteInv

(***************************************************************************)
(* handle_device_input decides by the result of tunnel_write whether the   *)
(* tunnel is closed: whatever was padded, refused, reopened or lost on the *)
(* way, the result is the number of data bytes in whole DATA requests.     *)
(***************************************************************************)
THEOREM WriteCountCorrect == Spec => []WriteCountExact
<1>1. WriteInv => WriteCountExact
  BY DEF WriteInv, CountInv, TopCount, WriteCountExact, At
<1> QED
  BY <1>1, WriteInit, WriteNext, PTL DEF Spec
=============================================================================
