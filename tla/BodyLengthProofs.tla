-------------------------- MODULE BodyLengthProofs --------------------------
(***************************************************************************)
(* Bodies have the announced length: the proof for TunnelOut.              *)
(*                                                                         *)
(* A request is measured when it begins, written later, and in between the *)
(* padding it asks for may fill the body, end it, or be written to another *)
(* body altogether.  StackInv says which calls can be under way together,  *)
(* FillInv what the padding of a body owes to a request that waits for it, *)
(* and RequestInv, LoopInv and WaitingLoopInv what the calls on top of the *)
(* stack owe to the body.                                                  *)
(***************************************************************************)
EXTENDS WriteCountProofs

\* The bytes of a request, and what tunnel_padding counts for it.
Sized(f) == RequestSize(f.req, f.len)
Eaten(f) == IF f.req = "PADDING" THEN f.len + Header ELSE f.len
Pad1Request(f) == f.fn = "request" /\ f.req = "PAD1"

\* The call f was made by the call g.  Only padding of less than a header is
\* asked for by a request, never by one of padding, and a PAD1 asks for none.
MadeBy(f, g) ==
    /\ f.fn \notin Operations
    /\ f.fn = "request" => Sized(f) <= ContentLength
    /\ g.fn = "request" => /\ f.fn = "pad1s" /\ f.left <= Header
                           /\ g.req # "PADDING"
                           /\ g.req = "PAD1" => f.left = 0
    /\ g.fn \in {"loop", "pad1s", "connect"} => f.fn = "request"
    /\ g.fn = "pad1s" => f.req = "PAD1"
    /\ g.fn = "loop" => /\ f.req = g.req /\ g.pc = "called"
                        /\ g.n = Eaten(f) /\ g.n <= g.left

StackInv ==
    /\ \A i \in 2..Len(stack) : MadeBy(stack[i - 1], stack[i])
    /\ \A i \in 3..Len(stack) : ~Pad1Request(stack[i])
    /\ stack # <<>> => stack[Len(stack)].fn \in Operations
    /\ \A i \in 1..Len(stack) :
         stack[i].fn = "loop" =>
           \/ stack[i].req = "DATA" /\ stack[i].left < SizeMod - ContentLength
           \/ stack[i].req = "PADDING"

\* A request that begins after b bytes fits, or its connection has just taken the
\* place of another.
Fits(f, b) ==
    \/ b + Sized(f) <= ContentLength
    \/ "swapped" \in upset /\ b <= Header

\* The request on top of the stack.
RequestInv ==
    Top.fn = "request" =>
      /\ Top.pc = "budget" =>
           \/ bytes + Sized(Top) <= ContentLength
           \/ ContentLength - bytes <= Header /\ Top.req # "PADDING"
      /\ Top.pc \in {"age", "connect", "write", "rewrite"} /\ Live => Fits(Top, bytes)
      /\ Top.pc = "payload" => HasData(Top.req) /\ Fits(Top, bytes - 1)

\* The loop on top of the stack.
LoopInv ==
    Top.fn = "loop" =>
      /\ Top.pc \in {"test", "called"}
      /\ Top.pc = "called" => Top.n <= Top.left
      /\ Top.req = "PADDING" =>
           IF Top.pc = "test" THEN bytes + Top.left <= ContentLength
                              ELSE ret # -1 => bytes + Top.left - Top.n <= ContentLength

\* The loop that waits for the request on top of the stack.
Begun == IF Top.pc = "payload" THEN bytes - 1 ELSE bytes
WaitingLoopInv ==
    Len(stack) >= 2 /\ stack[2].fn = "loop" /\ stack[2].req = "PADDING" =>
      Begun + stack[2].left <= ContentLength

\* A request that waits while the body is filled: m bytes are missing.
Missing(i) == stack[i].left + (IF i = 1 THEN 0 ELSE 1)
FillInv ==
    \A i \in 2..Len(stack) :
      stack[i].fn = "request" /\ stack[i].req # "PAD1" =>
        /\ Missing(i - 1) <= Header
        /\ Live => \/ bytes + Missing(i - 1) = ContentLength
                   \/ "swapped" \in upset /\ bytes + Missing(i - 1) <= Header

Sound ==
    /\ bytes <= ContentLength
    /\ StackInv /\ FillInv
    /\ stack # <<>> => RequestInv /\ LoopInv /\ WaitingLoopInv

\* A size that wraps around voids the rest of the tunnel.
BodyInv ==
    /\ TypeInv
    /\ "wrapped" \notin upset => Sound
    /\ FullIsExact /\ OvershootBounded
-----------------------------------------------------------------------------
(***************************************************************************)
(* The stack.                                                              *)
(***************************************************************************)
\* The stack as the steps below see it.
LEMMA StackFacts ==
    ASSUME TypeInv, stack # <<>>
    PROVE  /\ stack \in Seq(Frames) /\ Top = stack[1] /\ Top \in Frames
           /\ Len(stack) \in Nat /\ Len(stack) >= 1
           /\ \A i \in 1..Len(stack) : stack[i] \in Frames
           /\ WaitInv /\ bytes \in Nat
BY TopFrame DEF TypeInv, TypeOK

\* The call below the top has made the call on top.
LEMMA SecondCall ==
    ASSUME TypeInv, StackInv, stack # <<>>, Top.fn \notin Operations
    PROVE  Len(stack) >= 2 /\ MadeBy(Top, stack[2]) /\ stack[2] \in Frames
<1>1. /\ Top = stack[1] /\ Len(stack) \in Nat /\ Len(stack) >= 1
      /\ \A i \in 1..Len(stack) : stack[i] \in Frames
  BY StackFacts
<1>2. Len(stack) >= 2
  <2>1. stack[Len(stack)].fn \in Operations
    BY DEF StackInv
  <2> QED
    BY <1>1, <2>1
<1>3. 2 \in 2..Len(stack) /\ 2 - 1 = 1 /\ 2 \in 1..Len(stack)
  BY <1>1, <1>2
<1> QED
  BY <1>1, <1>2, <1>3 DEF StackInv

\* An operation of the main loop is alone.
LEMMA OperationAlone ==
    ASSUME TypeInv, StackInv, NEW i \in 1..Len(stack), stack[i].fn \in Operations
    PROVE  i = Len(stack)
<1>1. Len(stack) \in Nat
  BY DEF TypeInv, TypeOK
<1>2. i + 1 \in 2..Len(stack) => MadeBy(stack[(i + 1) - 1], stack[i + 1])
  BY DEF StackInv
<1>3. (i + 1) - 1 = i
  BY <1>1
<1> QED
  BY <1>1, <1>2, <1>3 DEF MadeBy

\* Where a request may wait for another call.
LEMMA Waiting ==
    ASSUME TypeInv, StackInv, stack # <<>>, NEW i \in 2..Len(stack),
           stack[i].fn = "request"
    PROVE  \/ Top.fn = "pad1s" /\ i \in {2, 4}
           \/ Pad1Request(Top) /\ i = 3
<1>1. /\ Top = stack[1] /\ Len(stack) \in Nat /\ i \in Nat /\ i >= 2
  BY StackFacts
<1>2. stack[i - 1].fn = "pad1s"
  BY DEF StackInv, MadeBy
<1>3. CASE i = 2
  BY <1>1, <1>2, <1>3
<1>4. CASE i # 2
  <2>1. i - 1 \in 2..Len(stack) /\ (i - 1) - 1 = i - 2
    BY <1>1, <1>4
  <2>2. Pad1Request(stack[i - 2])
    BY <1>2, <2>1 DEF StackInv, MadeBy, Pad1Request
  <2>3. ~(i - 2 \in 3..Len(stack))
    BY <2>2 DEF StackInv
  <2>4. i \in {3, 4}
    BY <1>1, <1>4, <2>3
  <2>5. CASE i = 3
    BY <1>1, <2>2, <2>5
  <2>6. CASE i = 4
    <3>1. 2 \in 2..Len(stack) /\ 2 - 1 = 1
      BY <1>1, <2>6
    <3>2. stack[1].fn = "pad1s"
      BY <2>2, <2>6, <3>1 DEF StackInv, MadeBy, Pad1Request
    <3> QED
      BY <1>1, <2>6, <3>2
  <2> QED
    BY <2>4, <2>5, <2>6
<1> QED
  BY <1>3, <1>4

\* The sizes in a frame are natural numbers.
LEMMA FrameSizes ==
    \A f \in Frames : f.left \in Nat /\ f.len \in Nat /\ f.left <= SizeMod - 1
<1> SUFFICES ASSUME NEW f \in Frames
             PROVE  f.left \in Nat /\ f.len \in Nat /\ f.left <= SizeMod - 1
  OBVIOUS
<1>1. f.left \in 0..(SizeMod - 1) /\ f.len \in 0..(SizeMod - 1)
  BY DEF Frames
<1> QED
  BY <1>1, ConstantsAssumption

\* The call in progress goes on.
LEMMA StackStay ==
    ASSUME TypeInv, StackInv, stack # <<>>, NEW a \in Frames,
           stack' = <<a>> \o Tail(stack),
           a.fn = Top.fn, a.req = Top.req, a.len = Top.len,
           a.fn # "pad1s", a.left <= Top.left
    PROVE  /\ StackInv' /\ stack' # <<>> /\ Top' = a /\ Len(stack') = Len(stack)
           /\ \A i \in 2..Len(stack) : stack'[i] = stack[i]
<1>1. /\ stack \in Seq(Frames) /\ Top = stack[1] /\ Top \in Frames
      /\ Len(stack) \in Nat /\ Len(stack) >= 1
  BY StackFacts
<1>2. /\ stack' # <<>> /\ Top' = a /\ stack'[1] = a /\ Len(stack') = Len(stack)
      /\ \A i \in 2..Len(stack) : stack'[i] = stack[i]
  BY <1>1 DEF Top
<1>3. ASSUME NEW i \in 2..Len(stack')
      PROVE  MadeBy(stack'[i - 1], stack'[i])
  <2>1. MadeBy(stack[i - 1], stack[i]) /\ stack'[i] = stack[i]
    BY <1>2, <1>3 DEF StackInv
  <2>2. CASE i = 2
    <3>1. stack[i - 1] = Top /\ stack'[i - 1] = a
      BY <1>1, <1>2, <2>2
    <3>2. MadeBy(a, stack[i])
      BY <2>1, <3>1 DEF MadeBy, Sized, Eaten
    <3> QED
      BY <2>1, <3>1, <3>2
  <2>3. CASE i # 2
    <3>1. i - 1 \in 2..Len(stack)
      BY <1>1, <1>2, <2>3
    <3> QED
      BY <1>2, <2>1, <3>1
  <2> QED
    BY <2>2, <2>3
<1>4. \A i \in 3..Len(stack') : ~Pad1Request(stack'[i])
  BY <1>1, <1>2 DEF StackInv
<1>5. stack'[Len(stack')].fn \in Operations
  <2>1. stack[Len(stack)].fn \in Operations
    BY DEF StackInv
  <2>2. CASE Len(stack) = 1
    BY <1>1, <1>2, <2>1, <2>2
  <2>3. CASE Len(stack) # 1
    BY <1>1, <1>2, <2>1, <2>3
  <2> QED
    BY <2>2, <2>3
<1>6. ASSUME NEW i \in 1..Len(stack'), stack'[i].fn = "loop"
      PROVE  \/ stack'[i].req = "DATA" /\ stack'[i].left < SizeMod - ContentLength
             \/ stack'[i].req = "PADDING"
  <2>1. CASE i = 1
    <3>1. \/ Top.req = "DATA" /\ Top.left < SizeMod - ContentLength
          \/ Top.req = "PADDING"
      BY <1>1, <1>2, <1>6, <2>1 DEF StackInv
    <3> QED
      <4>1. a.left \in Nat /\ Top.left \in Nat
        BY <1>1, FrameSizes, ConstantsAssumption
      <4> QED
        BY <1>2, <2>1, <3>1, <4>1, ConstantsAssumption
  <2>2. CASE i # 1
    <3>1. i \in 2..Len(stack) /\ i \in 1..Len(stack)
      BY <1>1, <1>2, <2>2
    <3> QED
      BY <1>2, <1>6, <3>1 DEF StackInv
  <2> QED
    BY <2>1, <2>2
<1>7. StackInv'
  BY <1>3, <1>4, <1>5, <1>6 DEF StackInv, Pad1Request
<1> QED
  BY <1>2, <1>7

\* A call is made.
LEMMA StackCall ==
    ASSUME TypeInv, StackInv, stack # <<>>, NEW a \in Frames, NEW b \in Frames,
           Call(a, b), a.fn = "request" => a.pc = "age",
           a.fn = Top.fn, a.req = Top.req, a.len = Top.len, a.left <= Top.left,
           MadeBy(b, a), Len(stack) >= 2 => ~Pad1Request(stack[2]),
           b.fn = "loop" => \/ b.req = "DATA" /\ b.left < SizeMod - ContentLength
                            \/ b.req = "PADDING"
    PROVE  /\ StackInv' /\ stack' # <<>> /\ Top' = b /\ Len(stack') = Len(stack) + 1
           /\ stack'[1] = b /\ stack'[2] = a
           /\ \A i \in 3..Len(stack') : stack'[i] = stack[i - 1]
<1>1. /\ TypeOK /\ stack \in Seq(Frames) /\ Top = stack[1] /\ Top \in Frames
      /\ Len(stack) \in Nat /\ Len(stack) >= 1 /\ WaitInv
  BY StackFacts DEF TypeInv
<1>0. a.left \in Nat /\ Top.left \in Nat
  BY <1>1, FrameSizes, ConstantsAssumption
<1>2. /\ stack' # <<>> /\ Top' = b /\ Len(stack') = Len(stack) + 1
      /\ stack'[1] = b /\ stack'[2] = a
      /\ \A i \in 3..Len(stack') : stack'[i] = stack[i - 1]
  BY <1>1, AfterCall DEF Top
<1>3. ASSUME NEW i \in 2..Len(stack')
      PROVE  MadeBy(stack'[i - 1], stack'[i])
  <2>1. CASE i = 2
    BY <1>2, <2>1
  <2>2. CASE i = 3
    <3>1. 2 \in 2..Len(stack) /\ 2 - 1 = 1
      BY <1>1, <1>2, <2>2
    <3>2. MadeBy(Top, stack[2])
      BY <1>1, <3>1 DEF StackInv
    <3>3. MadeBy(a, stack[2])
      <4>1. ~Pad1Request(stack[2])
        BY <1>1, <3>1
      <4> QED
        BY <1>0, <3>2, <4>1 DEF MadeBy, Sized, Eaten, Header, Pad1Request
    <3> QED
      BY <1>2, <2>2, <3>3
  <2>3. CASE i > 3
    <3>1. /\ i - 1 \in 2..Len(stack) /\ i - 1 \in 3..Len(stack')
          /\ i \in 3..Len(stack')
      BY <1>1, <1>2, <2>3
    <3>2. MadeBy(stack[(i - 1) - 1], stack[i - 1])
      BY <1>1, <3>1 DEF StackInv
    <3> QED
      BY <1>2, <3>1, <3>2
  <2> QED
    BY <2>1, <2>2, <2>3
<1>4. ASSUME NEW i \in 3..Len(stack')
      PROVE  ~Pad1Request(stack'[i])
  <2>1. CASE i = 3
    BY <1>1, <1>2, <1>4, <2>1
  <2>2. CASE i # 3
    <3>1. i - 1 \in 3..Len(stack)
      BY <1>1, <1>2, <2>2
    <3> QED
      BY <1>2, <3>1 DEF StackInv
  <2> QED
    BY <2>1, <2>2
<1>5. stack'[Len(stack')].fn \in Operations
  <2>1. stack[Len(stack)].fn \in Operations
    BY DEF StackInv
  <2>2. CASE Len(stack) = 1
    BY <1>1, <1>2, <2>1, <2>2
  <2>3. CASE Len(stack) # 1
    BY <1>1, <1>2, <2>1, <2>3
  <2> QED
    BY <2>2, <2>3
<1>6. ASSUME NEW i \in 1..Len(stack'), stack'[i].fn = "loop"
      PROVE  \/ stack'[i].req = "DATA" /\ stack'[i].left < SizeMod - ContentLength
             \/ stack'[i].req = "PADDING"
  <2>1. CASE i = 1
    BY <1>2, <1>6, <2>1
  <2>2. CASE i = 2
    <3>1. \/ Top.req = "DATA" /\ Top.left < SizeMod - ContentLength
          \/ Top.req = "PADDING"
      BY <1>1, <1>2, <1>6, <2>2 DEF StackInv
    <3> QED
      BY <1>0, <1>2, <2>2, <3>1, ConstantsAssumption
  <2>3. CASE i > 2
    <3>1. i - 1 \in 1..Len(stack) /\ stack'[i] = stack[i - 1]
      BY <1>1, <1>2, <2>3
    <3> QED
      BY <1>6, <3>1 DEF StackInv
  <2> QED
    BY <2>1, <2>2, <2>3
<1>7. StackInv'
  BY <1>3, <1>4, <1>5, <1>6 DEF StackInv, Pad1Request
<1> QED
  BY <1>2, <1>7

\* A call returns.
LEMMA StackReturn ==
    ASSUME TypeInv, StackInv, stack # <<>>, Top.fn \notin Operations, NEW v, Return(v)
    PROVE  /\ StackInv' /\ stack' # <<>> /\ ret' = v
           /\ Top' = stack[2] /\ Len(stack') = Len(stack) - 1 /\ Len(stack) >= 2
           /\ \A i \in 1..Len(stack') : stack'[i] = stack[i + 1]
<1>1. /\ TypeOK /\ stack \in Seq(Frames) /\ Len(stack) \in Nat /\ WaitInv
  BY StackFacts DEF TypeInv
<1>2. Len(stack) >= 2
  BY SecondCall
<1>3. /\ ret' = v /\ Len(stack') = Len(stack) - 1 /\ stack' \in Seq(Frames)
      /\ \A i \in 1..Len(stack') : stack'[i] = stack[i + 1]
  BY <1>1, AfterReturn
<1>4. stack' # <<>>
  BY <1>1, <1>2, <1>3
<1>5. Top' = stack[2]
  BY <1>1, <1>4, AfterReturn DEF Top
<1>6. ASSUME NEW i \in 2..Len(stack')
      PROVE  MadeBy(stack'[i - 1], stack'[i])
  <2>1. i + 1 \in 2..Len(stack) /\ i \in 1..Len(stack') /\ i - 1 \in 1..Len(stack')
    BY <1>1, <1>3
  <2>2. stack'[i] = stack[i + 1] /\ stack'[i - 1] = stack[i] /\ (i + 1) - 1 = i
    BY <1>3, <2>1
  <2>3. MadeBy(stack[(i + 1) - 1], stack[i + 1])
    BY <2>1 DEF StackInv
  <2> QED
    BY <2>2, <2>3
<1>7. ASSUME NEW i \in 3..Len(stack')
      PROVE  ~Pad1Request(stack'[i])
  <2>1. i + 1 \in 3..Len(stack) /\ stack'[i] = stack[i + 1]
    BY <1>1, <1>3
  <2> QED
    BY <2>1 DEF StackInv
<1>8. stack'[Len(stack')].fn \in Operations
  <2>1. stack'[Len(stack')] = stack[Len(stack)]
    BY <1>1, <1>2, <1>3
  <2> QED
    BY <2>1 DEF StackInv
<1>9. ASSUME NEW i \in 1..Len(stack'), stack'[i].fn = "loop"
      PROVE  \/ stack'[i].req = "DATA" /\ stack'[i].left < SizeMod - ContentLength
             \/ stack'[i].req = "PADDING"
  <2>1. i + 1 \in 1..Len(stack) /\ stack'[i] = stack[i + 1]
    BY <1>1, <1>3
  <2> QED
    BY <1>9, <2>1 DEF StackInv
<1>10. StackInv'
  BY <1>6, <1>7, <1>8, <1>9 DEF StackInv, Pad1Request
<1> QED
  BY <1>2, <1>3, <1>4, <1>5, <1>10
-----------------------------------------------------------------------------
(***************************************************************************)
(* The ways in which tunnel_write_request changes the stack and the body.  *)
(***************************************************************************)
\* What is below a request.
LEMMA BelowRequest ==
    ASSUME TypeInv, StackInv, stack # <<>>, Top.fn = "request"
    PROVE  /\ Len(stack) >= 2 /\ MadeBy(Top, stack[2]) /\ stack[2] \in Frames
           /\ stack[2].fn # "request"
           /\ Len(stack) >= 3 => stack[3].fn # "loop"
           /\ Sized(Top) <= ContentLength /\ Sized(Top) \in Nat /\ Sized(Top) >= 1
           /\ HasData(Top.req) => Sized(Top) = Header + Top.len /\ Top.len \in Nat
<1>1. Top \in Frames /\ Len(stack) \in Nat
  BY StackFacts
<1>2. Len(stack) >= 2 /\ MadeBy(Top, stack[2]) /\ stack[2] \in Frames
  BY SecondCall DEF Operations
<1>3. stack[2].fn # "request" /\ Sized(Top) <= ContentLength
  BY <1>2 DEF MadeBy
<1>4. Len(stack) >= 3 => stack[3].fn # "loop"
  <2>1. Len(stack) >= 3 => 3 \in 2..Len(stack) /\ 3 - 1 = 2
    BY <1>1
  <2> QED
    BY <1>3, <2>1 DEF StackInv, MadeBy
<1>5. Top.len \in Nat
  BY <1>1, FrameSizes, ConstantsAssumption
<1> QED
  BY <1>2, <1>3, <1>4, <1>5 DEF Sized, RequestSize, Header

\* The request goes on, to the same connection or to one that is empty.
LEMMA SoundGoto ==
    ASSUME TypeInv, Sound, stack # <<>>, Top.fn = "request", Top.pc # "payload",
           NEW p \in {"age", "connect", "write", "rewrite"}, Goto(p),
           upset \subseteq upset',
           \/ bytes' = bytes /\ (Live' => Live) /\ (Live => Fits(Top, bytes))
           \/ bytes' = 0 /\ (Live' /\ Nested => "swapped" \in upset')
    PROVE  Sound'
<1> DEFINE a == [Top EXCEPT !.pc = p]
<1>1. /\ StackInv /\ FillInv /\ RequestInv /\ WaitingLoopInv
      /\ Top \in Frames /\ Len(stack) \in Nat /\ bytes \in Nat
      /\ bytes <= ContentLength /\ \A i \in 1..Len(stack) : stack[i] \in Frames
  BY StackFacts DEF Sound
<1>2. /\ a \in Frames /\ a.fn = "request" /\ a.req = Top.req /\ a.len = Top.len
      /\ a.left = Top.left /\ a.pc = p /\ stack' = <<a>> \o Tail(stack)
  BY <1>1 DEF Frames, ProgramPoints, Goto
<1> HIDE DEF a
<1>3. a.left <= Top.left
  BY <1>1, <1>2, FrameSizes, ConstantsAssumption
<1>4. /\ StackInv' /\ stack' # <<>> /\ Top' = a /\ Len(stack') = Len(stack)
      /\ \A i \in 2..Len(stack) : stack'[i] = stack[i]
  BY <1>1, <1>2, <1>3, StackStay
<1>5. /\ Sized(Top) <= ContentLength /\ Sized(Top) \in Nat /\ Len(stack) >= 2
      /\ stack[2] \in Frames
  BY <1>1, BelowRequest
<1>6. bytes' <= ContentLength /\ bytes' \in Nat
  BY <1>1, ConstantsAssumption
<1>7. RequestInv'
  <2>1. Live' => Fits(Top, bytes') \/ ("swapped" \in upset /\ bytes' <= Header)
    BY <1>1, <1>5, ConstantsAssumption DEF Fits
  <2> QED
    BY <1>2, <1>4, <2>1 DEF RequestInv, Fits, Sized, RequestSize
<1>8. LoopInv'
  BY <1>2, <1>4 DEF LoopInv
<1>9. WaitingLoopInv'
  <2>1. stack'[2] = stack[2]
    BY <1>1, <1>4, <1>5
  <2>2. stack[2].left \in Nat
    BY <1>5, FrameSizes, ConstantsAssumption
  <2>3. stack[2].fn = "loop" /\ stack[2].req = "PADDING" => bytes' + stack[2].left <= ContentLength
    <3>1. bytes' <= bytes
      BY <1>1
    <3>2. stack[2].fn = "loop" /\ stack[2].req = "PADDING" => bytes + stack[2].left <= ContentLength
      BY <1>1, <1>5 DEF WaitingLoopInv, Begun
    <3> QED
      BY <1>1, <1>6, <2>2, <3>1, <3>2, ConstantsAssumption
  <2> QED
    BY <1>2, <1>4, <2>1, <2>3 DEF WaitingLoopInv, Begun
<1>10. FillInv'
  <2> SUFFICES ASSUME NEW i \in 2..Len(stack),
                      stack[i].fn = "request", stack[i].req # "PAD1"
               PROVE  LET m == stack'[i - 1].left + (IF i - 1 = 1 THEN 0 ELSE 1)
                      IN  /\ m <= Header
                          /\ Live' => \/ bytes' + m = ContentLength
                                      \/ "swapped" \in upset' /\ bytes' + m <= Header
    BY <1>4 DEF FillInv, Missing
  <2>1. i = 3 /\ Pad1Request(Top)
    BY <1>1, Waiting
  <2> DEFINE m == stack[2].left + 1
  <2>2. m \in Nat /\ stack'[i - 1] = stack[2]
    BY <1>4, <1>5, <2>1, FrameSizes, ConstantsAssumption
  <2>3. /\ m <= Header
        /\ Live => \/ bytes + m = ContentLength
                   \/ "swapped" \in upset /\ bytes + m <= Header
    BY <1>1, <2>1 DEF FillInv, Missing
  <2>4. Nested
    BY <2>1 DEF Nested
  <2> HIDE DEF m
  <2>5. Live' => \/ bytes' + m = ContentLength
                 \/ "swapped" \in upset' /\ bytes' + m <= Header
    BY <1>1, <2>2, <2>3, <2>4
  <2> QED
    BY <2>1, <2>2, <2>3, <2>5 DEF m
<1> QED
  BY <1>4, <1>6, <1>7, <1>8, <1>9, <1>10 DEF Sound

\* The first byte of a request with data has been written.
LEMMA SoundPayload ==
    ASSUME TypeInv, Sound, stack # <<>>, Top.fn = "request", Top.pc # "payload",
           Goto("payload"), bytes' = bytes + 1, UNCHANGED <<up, broken, upset>>,
           HasData(Top.req), Live, Fits(Top, bytes)
    PROVE  Sound'
<1> DEFINE a == [Top EXCEPT !.pc = "payload"]
<1>1. /\ StackInv /\ WaitingLoopInv /\ Top \in Frames /\ Len(stack) \in Nat
      /\ bytes \in Nat /\ bytes < ContentLength
  BY StackFacts DEF Sound, TypeInv, BytesInv, At
<1>2. /\ a \in Frames /\ a.fn = "request" /\ a.req = Top.req /\ a.len = Top.len
      /\ a.left = Top.left /\ a.pc = "payload" /\ stack' = <<a>> \o Tail(stack)
  BY <1>1 DEF Frames, ProgramPoints, Goto
<1> HIDE DEF a
<1>3. a.left <= Top.left
  BY <1>1, <1>2, FrameSizes, ConstantsAssumption
<1>4. /\ StackInv' /\ stack' # <<>> /\ Top' = a /\ Len(stack') = Len(stack)
      /\ \A i \in 2..Len(stack) : stack'[i] = stack[i]
  BY <1>1, <1>2, <1>3, StackStay
<1>5. Len(stack) >= 2
  BY <1>1, BelowRequest
<1>6. bytes' <= ContentLength /\ bytes' - 1 = bytes
  BY <1>1, ConstantsAssumption
<1>7. RequestInv'
  BY <1>2, <1>4, <1>6 DEF RequestInv, Fits, Sized, RequestSize, HasData
<1>8. LoopInv'
  BY <1>2, <1>4 DEF LoopInv
<1>9. WaitingLoopInv'
  <2>1. stack'[2] = stack[2]
    BY <1>1, <1>4, <1>5
  <2>2. stack[2].fn = "loop" /\ stack[2].req = "PADDING" => bytes + stack[2].left <= ContentLength
    BY <1>1, <1>5 DEF WaitingLoopInv, Begun
  <2> QED
    BY <1>2, <1>4, <1>6, <2>1, <2>2 DEF WaitingLoopInv, Begun
<1>10. FillInv'
  <2>1. \A i \in 2..Len(stack) : stack[i].fn # "request"
    BY <1>1, Waiting DEF Pad1Request, HasData
  <2> QED
    BY <1>4, <2>1 DEF FillInv
<1> QED
  BY <1>4, <1>6, <1>7, <1>8, <1>9, <1>10 DEF Sound

\* The request fails, and with it the connection.
LEMMA SoundFail ==
    ASSUME TypeInv, Sound, stack # <<>>, Top.fn = "request", Return(-1),
           ~Live', bytes' <= ContentLength, upset \subseteq upset'
    PROVE  Sound'
<1>1. /\ StackInv /\ FillInv /\ Len(stack) \in Nat
      /\ \A i \in 1..Len(stack) : stack[i] \in Frames
  BY StackFacts DEF Sound
<1>2. /\ Len(stack) >= 2 /\ MadeBy(Top, stack[2]) /\ stack[2].fn # "request"
      /\ Len(stack) >= 3 => stack[3].fn # "loop"
  BY <1>1, BelowRequest
<1>3. /\ StackInv' /\ stack' # <<>> /\ ret' = -1
      /\ Top' = stack[2] /\ Len(stack') = Len(stack) - 1
      /\ \A i \in 1..Len(stack') : stack'[i] = stack[i + 1]
  BY <1>1, StackReturn DEF Operations
<1>4. RequestInv' /\ LoopInv'
  BY <1>2, <1>3 DEF RequestInv, LoopInv, MadeBy
<1>5. WaitingLoopInv'
  <2>1. Len(stack') >= 2 => stack'[2] = stack[3] /\ Len(stack) >= 3
    BY <1>1, <1>3
  <2> QED
    BY <1>2, <2>1 DEF WaitingLoopInv
<1>6. FillInv'
  <2> SUFFICES ASSUME NEW i \in 2..Len(stack'),
                      stack'[i].fn = "request", stack'[i].req # "PAD1"
               PROVE  stack'[i - 1].left + (IF i - 1 = 1 THEN 0 ELSE 1) <= Header
    BY DEF FillInv, Missing, Live
  <2>1. i + 1 \in 2..Len(stack) /\ stack'[i] = stack[i + 1]
    BY <1>1, <1>3
  <2>2. i + 1 = 3
    BY <1>1, <2>1, Waiting DEF Pad1Request
  <2>3. i - 1 = 1 /\ stack'[i - 1] = stack[2] /\ i = 2
    BY <1>2, <1>3, <2>1, <2>2
  <2>4. stack[2].left + 1 <= Header
    BY <1>1, <2>1, <2>3 DEF FillInv, Missing
  <2>5. stack[2].left \in Nat
    BY <1>1, <1>2, FrameSizes, ConstantsAssumption
  <2> QED
    BY <2>3, <2>4, <2>5 DEF Header
<1> QED
  BY <1>3, <1>4, <1>5, <1>6 DEF Sound

\* The bytes of the body when the request on top has been written.
Completed == Begun + Sized(Top)

\* A request ends where it was measured to end, or less than a header later.
LEMMA CompletedFits ==
    ASSUME TypeInv, Sound, stack # <<>>, Top.fn = "request",
           Top.pc \in {"write", "rewrite", "payload"}, Live
    PROVE  /\ Completed \in Nat
           /\ Completed <= ContentLength + Header
           /\ "swapped" \notin upset => Completed <= ContentLength
<1>1. /\ StackInv /\ RequestInv /\ bytes \in Nat
  BY StackFacts DEF Sound
<1>2. Sized(Top) <= ContentLength /\ Sized(Top) \in Nat
  BY <1>1, BelowRequest
<1>3. Begun \in Nat /\ Fits(Top, Begun)
  BY <1>1 DEF Begun, RequestInv, TypeInv, BytesInv, At
<1> QED
  BY <1>2, <1>3, ConstantsAssumption DEF Completed, Fits, Header

\* The request has been written: the body goes on, or ends.
LEMMA SoundDone ==
    ASSUME TypeInv, Sound, stack # <<>>, Top.fn = "request",
           Top.pc \in {"write", "rewrite", "payload"}, Live,
           HasData(Top.req) <=> Top.pc = "payload", EndRequest(Completed)
    PROVE  Sound'
<1>1. /\ StackInv /\ FillInv /\ WaitingLoopInv /\ Len(stack) \in Nat
      /\ Top = stack[1] /\ Top \in Frames
      /\ \A i \in 1..Len(stack) : stack[i] \in Frames
      /\ bytes \in Nat /\ bytes <= ContentLength
  BY StackFacts DEF Sound
<1>2. /\ Len(stack) >= 2 /\ MadeBy(Top, stack[2]) /\ stack[2].fn # "request"
      /\ Len(stack) >= 3 => stack[3].fn # "loop"
      /\ HasData(Top.req) => Sized(Top) = Header + Top.len /\ Top.len \in Nat
      /\ stack[2] \in Frames
  BY <1>1, BelowRequest
<1>3. /\ StackInv' /\ stack' # <<>> /\ ret' = 0
      /\ Top' = stack[2] /\ Len(stack') = Len(stack) - 1
      /\ \A i \in 1..Len(stack') : stack'[i] = stack[i + 1]
  BY <1>1, StackReturn DEF Operations, EndRequest
<1>4. Completed \in Nat
  BY CompletedFits
<1>5. /\ upset \subseteq upset'
      /\ \/ Completed < ContentLength /\ bytes' = Completed
         \/ bytes' = 0 /\ ~Live'
  BY DEF EndRequest, OutDisconnect, Live
<1>6. bytes' <= ContentLength /\ bytes' \in Nat
  BY <1>4, <1>5, ConstantsAssumption
<1>7. RequestInv'
  BY <1>2, <1>3 DEF RequestInv
<1>8. LoopInv'
  <2> SUFFICES ASSUME stack[2].fn = "loop"
               PROVE  /\ stack[2].pc = "called" /\ stack[2].n <= stack[2].left
                      /\ stack[2].req = "PADDING" =>
                           bytes' + stack[2].left - stack[2].n <= ContentLength
    BY <1>3 DEF LoopInv
  <2>1. /\ stack[2].pc = "called" /\ stack[2].n <= stack[2].left
        /\ stack[2].req = Top.req /\ stack[2].n = Eaten(Top)
    BY <1>2 DEF MadeBy
  <2>2. ASSUME stack[2].req = "PADDING"
        PROVE  bytes' + stack[2].left - stack[2].n <= ContentLength
    <3>1. stack[2].n = Sized(Top) /\ stack[2].n \in Nat
      BY <1>2, <2>1, <2>2 DEF Eaten, HasData, Header
    <3>2. Begun + stack[2].left <= ContentLength
      BY <1>1, <1>2, <2>2 DEF WaitingLoopInv
    <3>3. Begun \in Nat
      BY <1>1 DEF Begun, TypeInv, BytesInv, At
    <3>4. stack[2].left \in Nat
      BY <1>2, FrameSizes, ConstantsAssumption
    <3>5. CASE bytes' = Begun + stack[2].n
      BY <3>1, <3>2, <3>3, <3>4, <3>5, ConstantsAssumption
    <3>6. CASE bytes' = 0
      BY <3>1, <3>2, <3>3, <3>4, <3>6, ConstantsAssumption
    <3> QED
      BY <1>5, <3>1, <3>5, <3>6 DEF Completed
  <2> QED
    BY <2>1, <2>2
<1>9. WaitingLoopInv'
  <2>1. Len(stack') >= 2 => stack'[2] = stack[3] /\ Len(stack) >= 3
    BY <1>1, <1>3
  <2> QED
    BY <1>2, <2>1 DEF WaitingLoopInv
<1>10. FillInv'
  <2> SUFFICES ASSUME NEW i \in 2..Len(stack'),
                      stack'[i].fn = "request", stack'[i].req # "PAD1"
               PROVE  LET m == stack'[i - 1].left + (IF i - 1 = 1 THEN 0 ELSE 1)
                      IN  /\ m <= Header
                          /\ Live' => \/ bytes' + m = ContentLength
                                      \/ "swapped" \in upset' /\ bytes' + m <= Header
    BY DEF FillInv, Missing
  <2>1. i + 1 \in 2..Len(stack) /\ stack'[i] = stack[i + 1]
    BY <1>1, <1>3
  <2>2. i + 1 = 3 /\ Top.req = "PAD1"
    BY <1>1, <2>1, Waiting DEF Pad1Request
  <2> DEFINE m == stack[2].left
  <2>3. i - 1 = 1 /\ stack'[i - 1] = stack[2] /\ m \in Nat
    BY <1>2, <1>3, <2>1, <2>2, FrameSizes, ConstantsAssumption
  <2>4. /\ m + 1 <= Header
        /\ \/ bytes + m + 1 = ContentLength
           \/ "swapped" \in upset /\ bytes + m + 1 <= Header
    BY <1>1, <2>1, <2>2, <2>3 DEF FillInv, Missing
  <2>5. Completed = bytes + 1
    BY <2>2 DEF Completed, Begun, Sized, RequestSize, HasData
  <2> HIDE DEF m
  <2>6. Live' => \/ bytes' + m = ContentLength
                 \/ "swapped" \in upset' /\ bytes' + m <= Header
    <3>1. Live' => bytes' = bytes + 1
      BY <1>5, <2>5
    <3> QED
      BY <1>1, <1>5, <2>3, <2>4, <3>1, ConstantsAssumption DEF Header
  <2> QED
    BY <2>3, <2>4, <2>6 DEF m, Header
<1> QED
  BY <1>3, <1>6, <1>7, <1>8, <1>9, <1>10 DEF Sound

\* Less than a header of padding is written byte by byte.
LEMMA PaddingFrames ==
    ASSUME NEW n \in 0..(SizeMod - 1)
    PROVE  /\ Padding(n) \in Frames /\ Padding(n).pc = "test" /\ Padding(n).left = n
           /\ IF n <= Header THEN Padding(n).fn = "pad1s"
                             ELSE Padding(n).fn = "loop" /\ Padding(n).req = "PADDING"
<1>1. Padding(n) \in Frames
  BY FrameType DEF Requests
<1> QED
  BY <1>1 DEF Padding, Loop, Frame, Header

\* The request does not fit: what is left of the body is filled.
LEMMA SoundCheckBudget ==
    ASSUME TypeInv, Sound, CheckBudget PROVE Sound'
<1> DEFINE room == ContentLength - bytes
           pad == Padding(Wrap(ContentLength - bytes))
           rest == [Top EXCEPT !.pc = "age"]
<1>1. /\ stack # <<>> /\ Top.fn = "request" /\ Top.pc = "budget"
      /\ UNCHANGED <<up, broken, bytes, upset>>
  BY DEF CheckBudget, At, conn, history
<1>2. /\ StackInv /\ FillInv /\ RequestInv /\ WaitingLoopInv
      /\ Top \in Frames /\ Len(stack) \in Nat /\ Top = stack[1]
      /\ bytes \in Nat /\ bytes <= ContentLength
  BY <1>1, StackFacts DEF Sound
<1>3. CASE bytes + Sized(Top) > ContentLength
  <2>1. room <= Header /\ room \in Nat /\ Top.req # "PADDING"
    <3>1. Sized(Top) \in Nat
      BY <1>1, <1>2, BelowRequest
    <3> QED
      BY <1>1, <1>2, <1>3, <3>1, ConstantsAssumption DEF RequestInv
  <2>2. Wrap(room) = room /\ room \in 0..(SizeMod - 1)
    BY <1>2, <2>1, ConstantsAssumption DEF Wrap
  <2>3. pad \in Frames /\ pad.fn = "pad1s" /\ pad.left = room
    BY <2>1, <2>2, PaddingFrames
  <2>4. /\ rest \in Frames /\ rest.fn = "request" /\ rest.req = Top.req
        /\ rest.len = Top.len /\ rest.left = Top.left /\ rest.pc = "age"
    BY <1>1, <1>2 DEF Frames, ProgramPoints
  <2>5. Call(rest, pad)
    BY <1>3 DEF CheckBudget, Sized
  <2>6. Top.req = "PAD1" => room = 0
    BY <1>2, <1>3, <2>1, ConstantsAssumption DEF Sized, RequestSize, HasData
  <2> HIDE DEF rest, pad, room
  <2>7. MadeBy(pad, rest)
    BY <2>1, <2>3, <2>4, <2>6 DEF MadeBy, Operations
  <2>8. /\ rest.left <= Top.left
        /\ Len(stack) >= 2 => ~Pad1Request(stack[2])
    <3>1. rest.left <= Top.left
      BY <1>2, <2>4, FrameSizes, ConstantsAssumption
    <3> QED
      BY <1>1, <1>2, <3>1, BelowRequest DEF Pad1Request
  <2>9. /\ StackInv' /\ stack' # <<>> /\ Top' = pad /\ Len(stack') = Len(stack) + 1
        /\ stack'[1] = pad /\ stack'[2] = rest
        /\ \A i \in 3..Len(stack') : stack'[i] = stack[i - 1]
    BY <1>1, <1>2, <2>3, <2>4, <2>5, <2>7, <2>8, StackCall
  <2>10. RequestInv' /\ LoopInv' /\ WaitingLoopInv'
    BY <2>3, <2>4, <2>9 DEF RequestInv, LoopInv, WaitingLoopInv
  <2>11. FillInv'
    <3> SUFFICES ASSUME NEW i \in 2..Len(stack'),
                        stack'[i].fn = "request", stack'[i].req # "PAD1"
                 PROVE  LET m == stack'[i - 1].left + (IF i - 1 = 1 THEN 0 ELSE 1)
                        IN  /\ m <= Header
                            /\ Live' => \/ bytes' + m = ContentLength
                                        \/ "swapped" \in upset' /\ bytes' + m <= Header
      BY DEF FillInv, Missing
    <3>1. CASE i = 2
      BY <1>1, <1>2, <2>1, <2>3, <2>9, <3>1, ConstantsAssumption DEF room
    <3>2. CASE i # 2
      <4>1. i - 1 \in 2..Len(stack) /\ stack'[i] = stack[i - 1]
        BY <1>2, <2>9, <3>2
      <4>2. i - 1 = 3 /\ Pad1Request(Top)
        BY <1>1, <1>2, <4>1, Waiting
      <4>3. stack'[i - 1] = stack[2] /\ i - 1 # 1 /\ (i - 1) - 1 = 2
        BY <1>2, <2>9, <4>1, <4>2
      <4>4. /\ stack[2].left + 1 <= Header
            /\ Live => \/ bytes + (stack[2].left + 1) = ContentLength
                       \/ "swapped" \in upset /\ bytes + (stack[2].left + 1) <= Header
        BY <1>2, <4>1, <4>2, <4>3 DEF FillInv, Missing
      <4> QED
        BY <1>1, <4>3, <4>4 DEF Live
    <3> QED
      BY <3>1, <3>2
  <2> QED
    BY <1>1, <1>2, <2>9, <2>10, <2>11 DEF Sound
<1>4. CASE ~(bytes + Sized(Top) > ContentLength)
  <2>1. Goto("age")
    BY <1>4 DEF CheckBudget, Sized
  <2>2. Sized(Top) \in Nat
    BY <1>1, <1>2, BelowRequest
  <2>3. Fits(Top, bytes)
    BY <1>2, <1>4, <2>2, ConstantsAssumption DEF Fits
  <2>4. Live' = Live
    BY <1>1 DEF Live
  <2> QED
    BY <1>1, <2>1, <2>3, <2>4, SoundGoto
<1> QED
  BY <1>3, <1>4

\* The padding of an aged body is no longer than the room that is left.
LEMMA AgePaddingFits ==
    ASSUME TypeInv, Sound
    PROVE  \A k \in 0..AgePadding : bytes + k <= ContentLength
<1>1. bytes \in Nat /\ bytes <= ContentLength
  BY DEF Sound, TypeInv, TypeOK
<1> QED
  BY <1>1, ConstantsAssumption DEF AgePadding, RoomToPad

\* A request that is being written has its room.
LEMMA LiveRequestFits ==
    ASSUME Sound, stack # <<>>, Top.fn = "request", Live,
           Top.pc \in {"age", "connect", "write", "rewrite"}
    PROVE  Fits(Top, bytes)
BY DEF Sound, RequestInv

\* tunnel_write_request, until it writes.
LEMMA SoundConnects ==
    ASSUME TypeInv, Sound, StillYoung \/ CloseAged \/ StillConnected \/ Reconnect
    PROVE  Sound'
<1>1. /\ stack # <<>> /\ Top.fn = "request" /\ Top.pc \in {"age", "connect"}
  BY DEF StillYoung, CloseAged, StillConnected, Reconnect, At
<1>2. /\ Live => Fits(Top, bytes)
      /\ bytes \in Nat
  BY <1>1, LiveRequestFits DEF TypeInv, TypeOK
<1>3. CASE StillYoung \/ StillConnected
  <2>1. /\ UNCHANGED <<up, broken, bytes, upset>>
        /\ Goto("connect") \/ Goto("write")
    BY <1>3 DEF StillYoung, StillConnected, conn, history
  <2>2. Live' = Live
    BY <2>1 DEF Live
  <2> QED
    BY <1>1, <1>2, <2>1, <2>2, SoundGoto
<1>4. CASE CloseAged
  <2>1. Goto("connect") /\ bytes' = 0 /\ up' = FALSE /\ upset \subseteq upset'
    BY <1>4 DEF CloseAged, OutDisconnect
  <2>2. ~Live'
    BY <2>1 DEF Live
  <2> QED
    BY <1>1, <2>1, <2>2, SoundGoto
<1>5. CASE Reconnect
  <2>1. \/ /\ Goto("write") /\ bytes' = 0 /\ upset' = upset \cup Swapped
        \/ /\ Return(-1) /\ (Refused \/ HeaderLost) /\ upset' = upset \cup {"failed"}
        \/ /\ Goto("write") /\ Refused /\ upset' = upset \cup {"failed"}
    BY <1>5 DEF Reconnect, Connected
  <2>2. CASE Goto("write") /\ bytes' = 0 /\ upset' = upset \cup Swapped
    BY <1>1, <2>2, SoundGoto DEF Swapped
  <2>3. CASE /\ Return(-1) /\ (Refused \/ HeaderLost) /\ upset' = upset \cup {"failed"}
    <3>1. ~Live' /\ bytes' = 0
      BY <2>3 DEF Live, Refused, HeaderLost
    <3> QED
      BY <1>1, <2>3, <3>1, SoundFail, ConstantsAssumption
  <2>4. CASE Goto("write") /\ Refused /\ upset' = upset \cup {"failed"}
    <3>1. ~Live' /\ bytes' = 0
      BY <2>4 DEF Live, Refused
    <3> QED
      BY <1>1, <2>4, <3>1, SoundGoto
  <2> QED
    BY <2>1, <2>2, <2>3, <2>4
<1> QED
  BY <1>3, <1>4, <1>5

\* A request byte goes out, or all that follows it.
LEMMA SoundWrites ==
    ASSUME TypeInv, Sound, WriteRequest \/ RewriteRequest \/ WritePayload
    PROVE  Sound'
<1>1. /\ stack # <<>> /\ Top.fn = "request" /\ Top.pc \in {"write", "rewrite", "payload"}
      /\ StackInv /\ RequestInv /\ bytes \in Nat
  BY DEF WriteRequest, RewriteRequest, WritePayload, At, Sound, TypeInv, TypeOK
<1>2. Live
  BY DEF WriteRequest, RewriteRequest, WritePayload, TypeInv, BytesInv, Live
<1>3. HasData(Top.req) => Sized(Top) = Header + Top.len /\ Top.len \in Nat
  BY <1>1, BelowRequest
<1>4. CASE Top.pc = "payload"
  <2>1. HasData(Top.req) /\ EndRequest(bytes + 2 + Top.len)
    BY <1>1, <1>4 DEF RequestInv, WriteRequest, RewriteRequest, WritePayload, At
  <2>2. bytes + 2 + Top.len = Completed
    BY <1>1, <1>3, <1>4, <2>1 DEF Completed, Begun, Header
  <2> QED
    BY <1>1, <1>2, <1>4, <2>1, <2>2, SoundDone
<1>5. CASE Top.pc # "payload" /\ HasData(Top.req)
  <2>1. RequestByteSent
    BY <1>5 DEF WriteRequest, RewriteRequest, WritePayload, At
  <2>2. Goto("payload") /\ bytes' = bytes + 1 /\ UNCHANGED <<up, broken, upset>>
    BY <1>5, <2>1 DEF RequestByteSent, history
  <2>3. Fits(Top, bytes)
    BY <1>1, <1>2, <1>5, LiveRequestFits
  <2> QED
    BY <1>1, <1>2, <1>5, <2>2, <2>3, SoundPayload
<1>6. CASE Top.pc # "payload" /\ ~HasData(Top.req)
  <2>1. RequestByteSent
    BY <1>6 DEF WriteRequest, RewriteRequest, WritePayload, At
  <2>2. EndRequest(bytes + 1)
    BY <1>6, <2>1 DEF RequestByteSent
  <2>3. bytes + 1 = Completed
    BY <1>6 DEF Completed, Begun, Sized, RequestSize
  <2> QED
    BY <1>1, <1>2, <1>6, <2>2, <2>3, SoundDone
<1> QED
  BY <1>4, <1>5, <1>6

\* A write fails.
LEMMA SoundWriteFails ==
    ASSUME TypeInv, Sound,
           \/ CloseAgedFails \/ WriteRequestFails \/ WriteRequestEPIPE
           \/ RewriteRequestFails \/ WritePayloadFails
    PROVE  Sound'
<1>1. /\ stack # <<>> /\ Top.fn = "request" /\ upset \subseteq upset'
      /\ bytes \in Nat /\ bytes <= ContentLength /\ RequestInv /\ StackInv
  BY DEF CloseAgedFails, WriteRequestFails, WriteRequestEPIPE, RewriteRequestFails,
         WritePayloadFails, At, Sound, TypeInv, TypeOK
<1>2. CASE CloseAgedFails
  <2>1. Return(-1) /\ broken' = TRUE
    BY <1>2 DEF CloseAgedFails
  <2>2. bytes' <= ContentLength
    <3>1. PICK k \in 0..(IF broken THEN 0 ELSE AgePadding) : bytes' = bytes + k
      BY <1>2 DEF CloseAgedFails
    <3> QED
      BY <1>1, <3>1, AgePaddingFits, ConstantsAssumption
  <2>3. ~Live'
    BY <2>1 DEF Live
  <2> QED
    BY <1>1, <2>1, <2>2, <2>3, SoundFail
<1>3. CASE WriteRequestFails \/ RewriteRequestFails
  <2>1. Return(-1) /\ (broken' = up) /\ UNCHANGED <<up, bytes>>
    BY <1>3 DEF WriteRequestFails, RewriteRequestFails
  <2>2. ~Live'
    BY <2>1 DEF Live
  <2> QED
    BY <1>1, <2>1, <2>2, SoundFail
<1>4. CASE WriteRequestEPIPE
  <2>1. Top.pc = "write"
    BY <1>4 DEF WriteRequestEPIPE, At
  <2>2. \/ Connected /\ Goto("rewrite")
        \/ (HeaderLost \/ Refused) /\ Goto("rewrite")
        \/ Refused /\ Return(-1)
    BY <1>4 DEF WriteRequestEPIPE
  <2>3. Nested => "swapped" \in upset'
    BY <1>4 DEF WriteRequestEPIPE, Swapped
  <2>4. bytes' = 0 /\ (HeaderLost \/ Refused => ~Live')
    BY <2>2 DEF Connected, HeaderLost, Refused, Live
  <2> QED
    BY <1>1, <2>1, <2>2, <2>3, <2>4, SoundGoto, SoundFail, ConstantsAssumption
<1>5. CASE WritePayloadFails
  <2>1. Top.pc = "payload" /\ Return(-1) /\ broken' = TRUE /\ bytes' \in {bytes, bytes + 2}
    BY <1>5 DEF WritePayloadFails, At
  <2>2. bytes + 2 <= ContentLength
    <3>1. HasData(Top.req) /\ Fits(Top, bytes - 1)
      BY <1>1, <2>1 DEF RequestInv
    <3>2. Sized(Top) = Header + Top.len /\ Top.len \in Nat
      BY <1>1, <3>1, BelowRequest
    <3> QED
      BY <1>1, <3>1, <3>2, ConstantsAssumption DEF Fits, Header
  <2>3. bytes' <= ContentLength /\ ~Live'
    BY <1>1, <2>1, <2>2, ConstantsAssumption DEF Live
  <2> QED
    BY <1>1, <2>1, <2>3, SoundFail
<1> QED
  BY <1>2, <1>3, <1>4, <1>5

\* Every step of tunnel_write_request.
LEMMA SoundRequestStep ==
    ASSUME TypeInv, Sound, RequestStep PROVE Sound'
BY SoundCheckBudget, SoundConnects, SoundWrites, SoundWriteFails DEF RequestStep
-----------------------------------------------------------------------------
(***************************************************************************)
(* The loops of tunnel_write_or_padding and tunnel_padding.                *)
(***************************************************************************)
\* A chunk fits in what is left of the body, unless less than a header is.
LEMMA DataChunkFits ==
    ASSUME TypeInv, bytes <= ContentLength,
           NEW left \in 1..(SizeMod - ContentLength - 1)
    PROVE  LET n == Chunk("DATA", left)
           IN  /\ Header + n <= ContentLength
               /\ \/ bytes + Header + n <= ContentLength
                  \/ ContentLength - bytes <= Header
<1>1. bytes \in 0..ContentLength
  BY ConstantsAssumption DEF TypeInv, TypeOK
<1>2. Wrap(bytes + left) = bytes + left
  BY <1>1, ConstantsAssumption DEF Wrap
<1>3. /\ FittingChunk(left) \in Nat
      /\ Header + FittingChunk(left) <= ContentLength
      /\ \/ bytes + Header + FittingChunk(left) <= ContentLength
         \/ ContentLength - bytes <= Header
  BY <1>1, <1>2, ConstantsAssumption DEF FittingChunk, Header
<1>4. Chunk("DATA", left) \in Nat /\ Chunk("DATA", left) <= FittingChunk(left)
  BY <1>3, ConstantsAssumption DEF Chunk
<1> QED
  BY <1>1, <1>3, <1>4, ConstantsAssumption DEF Header

\* A piece of padding is no more than what is asked for, headers included.
LEMMA PaddingChunkFits ==
    ASSUME TypeInv, NEW left \in 1..(SizeMod - 1), Chunk("PADDING", left) <= MaxLength
    PROVE  LET n == Chunk("PADDING", left)
           IN  n \in Nat /\ n + Header <= left
<1>1. bytes \in 0..(ContentLength + 2)
  BY ConstantsAssumption DEF TypeInv, TypeOK, BytesInv
<1>2. FittingChunk(left) \in Nat
  BY <1>1, ConstantsAssumption DEF FittingChunk, Header
<1> DEFINE n == IF FittingChunk(left) > MaxLength THEN MaxLength ELSE FittingChunk(left)
<1>3. n \in Nat
  BY <1>2, ConstantsAssumption
<1>4. Chunk("PADDING", left) = IF n + Header > left THEN Wrap(left - Header) ELSE n
  BY DEF Chunk
<1> HIDE DEF n
<1>5. CASE n + Header > left
  <2>1. Wrap(left - Header) <= MaxLength
    BY <1>4, <1>5
  <2>2. left >= Header
    BY <2>1, ConstantsAssumption DEF Wrap, Header
  <2>3. Wrap(left - Header) = left - Header
    BY <2>2, ConstantsAssumption DEF Wrap, Header
  <2> QED
    BY <1>4, <1>5, <2>2, <2>3, ConstantsAssumption DEF Header
<1>6. CASE ~(n + Header > left)
  BY <1>3, <1>4, <1>6, ConstantsAssumption DEF Header
<1> QED
  BY <1>5, <1>6

\* The next chunk is asked for.
LEMMA SoundNextChunk ==
    ASSUME TypeInv, Sound, NextChunk, "wrapped" \notin upset' PROVE Sound'
<1> DEFINE n == Chunk(Top.req, Top.left)
           eaten == IF Top.req = "PADDING" THEN Wrap(n + Header) ELSE n
           rest == [Top EXCEPT !.n = eaten, !.pc = "called"]
           next == Request(Top.req, AsLength(n))
<1>1. /\ stack # <<>> /\ Top.fn = "loop" /\ Top.left > 0 /\ Top.pc = "test"
      /\ UNCHANGED <<up, broken, bytes>> /\ Call(rest, next)
      /\ IF n > MaxLength THEN upset' = upset \cup {"wrapped"} ELSE upset' = upset
  <2>1. /\ stack # <<>> /\ Top.fn = "loop" /\ Top.left > 0 /\ Top.pc = "test"
        /\ UNCHANGED <<up, broken, bytes>>
    BY DEF NextChunk, At, conn
  <2>2. Call(rest, next)
    BY DEF NextChunk
  <2>3. upset' = IF n > MaxLength THEN upset \cup {"wrapped"} ELSE upset
    BY DEF NextChunk
  <2> QED
    BY <2>1, <2>2, <2>3
<1>2. /\ StackInv /\ LoopInv /\ Top \in Frames /\ Len(stack) \in Nat /\ Len(stack) >= 1
      /\ Top = stack[1] /\ bytes \in Nat /\ bytes <= ContentLength
  BY <1>1, StackFacts DEF Sound
<1>3. Top.left \in 1..(SizeMod - 1) /\ Top.len \in 0..(SizeMod - 1) /\ Top.req \in Requests
  <2>1. /\ Top.left \in 0..(SizeMod - 1) /\ Top.len \in 0..(SizeMod - 1)
        /\ Top.req \in Requests
    BY <1>2 DEF Frames
  <2>2. Top.left > 0
    BY <1>1
  <2> QED
    BY <2>1, <2>2, ConstantsAssumption
<1>4. /\ n \in 0..MaxLength /\ upset' = upset
  <2>1. n \in 0..(SizeMod - 1)
    BY <1>2, <1>3, ChunkType
  <2>2. ~(n > MaxLength)
    BY <1>1
  <2> QED
    BY <1>1, <2>1, <2>2, ConstantsAssumption
<1>5. AsLength(n) = n
  BY <1>4, ConstantsAssumption DEF AsLength
<1>6. \/ Top.req = "DATA" /\ Top.left < SizeMod - ContentLength
      \/ Top.req = "PADDING" /\ bytes + Top.left <= ContentLength
  <2>1. 1 \in 1..Len(stack)
    BY <1>2
  <2>2. \/ Top.req = "DATA" /\ Top.left < SizeMod - ContentLength
        \/ Top.req = "PADDING"
    BY <1>1, <1>2, <2>1 DEF StackInv
  <2> QED
    BY <1>1, <1>2, <2>2 DEF LoopInv
<1>7. /\ next \in Frames /\ next.fn = "request" /\ next.req = Top.req
      /\ next.len = n /\ next.pc = "budget"
  BY <1>3, <1>4, <1>5, FrameType, ConstantsAssumption DEF Request, Frame
<1>8. /\ eaten = Eaten(next) /\ eaten <= Top.left /\ eaten \in 0..(SizeMod - 1)
      /\ Sized(next) = Header + n /\ Sized(next) <= ContentLength
      /\ \/ bytes + Sized(next) <= ContentLength
         \/ ContentLength - bytes <= Header /\ Top.req # "PADDING"
  <2>1. Sized(next) = Header + n
    BY <1>6, <1>7 DEF Sized, RequestSize, HasData
  <2>2. CASE Top.req = "DATA"
    <3>1. Top.left \in 1..(SizeMod - ContentLength - 1)
      BY <1>3, <1>6, <2>2, ConstantsAssumption
    <3>2. /\ Header + n <= ContentLength
          /\ \/ bytes + Header + n <= ContentLength
             \/ ContentLength - bytes <= Header
      BY <1>2, <2>2, <3>1, DataChunkFits
    <3>3. n \in 0..Top.left
      BY <1>3, <2>2, DataChunk
    <3> QED
      BY <1>2, <1>3, <1>4, <1>7, <2>1, <2>2, <3>2, <3>3, ConstantsAssumption DEF Eaten, Header
  <2>3. CASE Top.req = "PADDING"
    <3>1. n + Header <= Top.left
      BY <1>3, <1>4, <2>3, PaddingChunkFits
    <3>2. Wrap(n + Header) = n + Header
      BY <1>3, <1>4, <3>1, ConstantsAssumption DEF Wrap, Header
    <3> QED
      BY <1>2, <1>3, <1>4, <1>6, <1>7, <2>1, <2>3, <3>1, <3>2, ConstantsAssumption
         DEF Eaten, Header
  <2> QED
    BY <1>6, <2>2, <2>3
<1> HIDE DEF n, eaten, next
<1>9. /\ rest \in Frames /\ rest.fn = "loop" /\ rest.req = Top.req
      /\ rest.len = Top.len /\ rest.left = Top.left
      /\ rest.n = eaten /\ rest.pc = "called"
  BY <1>1, <1>2, <1>8 DEF Frames, ProgramPoints
<1> HIDE DEF rest
<1>10. /\ MadeBy(next, rest) /\ rest.left <= Top.left
       /\ Len(stack) >= 2 => ~Pad1Request(stack[2])
  <2>1. MadeBy(next, rest)
    BY <1>7, <1>8, <1>9 DEF MadeBy, Operations
  <2>2. Len(stack) >= 2 => ~Pad1Request(stack[2])
    BY <1>1, <1>2, SecondCall DEF MadeBy, Pad1Request, Operations
  <2> QED
    BY <1>3, <1>9, <2>1, <2>2
<1>11. /\ StackInv' /\ stack' # <<>> /\ Top' = next /\ Len(stack') = Len(stack) + 1
       /\ stack'[1] = next /\ stack'[2] = rest
       /\ \A i \in 3..Len(stack') : stack'[i] = stack[i - 1]
  BY <1>1, <1>2, <1>7, <1>9, <1>10, StackCall
<1>12. RequestInv' /\ LoopInv'
  BY <1>1, <1>7, <1>8, <1>9, <1>11 DEF RequestInv, LoopInv, Sized, RequestSize
<1>13. WaitingLoopInv'
  BY <1>1, <1>2, <1>6, <1>7, <1>9, <1>11 DEF WaitingLoopInv, Begun
<1>14. FillInv'
  <2> SUFFICES ASSUME NEW i \in 2..Len(stack'), stack'[i].fn = "request"
               PROVE  FALSE
    BY DEF FillInv
  <2>1. i # 2
    BY <1>9, <1>11
  <2>2. i - 1 \in 2..Len(stack) /\ stack'[i] = stack[i - 1]
    BY <1>2, <1>11, <2>1
  <2> QED
    BY <1>1, <1>2, <2>2, Waiting DEF Pad1Request
<1> QED
  BY <1>1, <1>2, <1>11, <1>12, <1>13, <1>14 DEF Sound

\* A loop that an operation of the main loop has called returns to it.
LEMMA SoundReturnsToOperation ==
    ASSUME TypeInv, Sound, stack # <<>>, Top.fn \in {"loop", "pad1s"},
           stack[2].fn # "request", NEW v, Return(v),
           UNCHANGED <<up, broken, bytes, upset>>
    PROVE  Sound'
<1>1. StackInv /\ Len(stack) \in Nat
  BY StackFacts DEF Sound
<1>2. Len(stack) >= 2 /\ MadeBy(Top, stack[2]) /\ stack[2] \in Frames
  BY <1>1, SecondCall DEF Operations
<1>3. stack[2].fn \in Operations
  BY <1>2 DEF MadeBy, Frames, Operations
<1>4. Len(stack) = 2
  <2>1. 2 \in 1..Len(stack)
    BY <1>1, <1>2
  <2> QED
    BY <1>1, <1>3, <2>1, OperationAlone
<1>5. StackInv' /\ stack' # <<>> /\ Top' = stack[2] /\ Len(stack') = Len(stack) - 1
  BY <1>1, StackReturn DEF Operations
<1>6. RequestInv' /\ LoopInv' /\ WaitingLoopInv' /\ FillInv'
  BY <1>3, <1>4, <1>5 DEF RequestInv, LoopInv, WaitingLoopInv, FillInv, Operations
<1> QED
  BY <1>5, <1>6 DEF Sound

\* The result of a chunk has come back.
LEMMA SoundChunkDone ==
    ASSUME TypeInv, Sound, ChunkDone PROVE Sound'
<1> DEFINE rest == [Top EXCEPT !.left = Wrap(@ - Top.n), !.pc = "test"]
<1>1. /\ stack # <<>> /\ Top.fn = "loop" /\ Top.pc = "called"
      /\ UNCHANGED <<up, broken, bytes, upset>>
  BY DEF ChunkDone, At, conn, history
<1>2. /\ StackInv /\ LoopInv /\ Top \in Frames /\ Len(stack) \in Nat
      /\ bytes \in Nat /\ bytes <= ContentLength
  BY <1>1, StackFacts DEF Sound
<1>3. Len(stack) >= 2 /\ MadeBy(Top, stack[2])
  BY <1>1, <1>2, SecondCall DEF Operations
<1>4. stack[2].fn \notin {"request", "loop"}
  BY <1>1, <1>3 DEF MadeBy
<1>5. CASE ret = -1
  <2>1. Return(Top.len - Top.left)
    BY <1>5 DEF ChunkDone
  <2> QED
    BY <1>1, <1>4, <2>1, SoundReturnsToOperation
<1>6. CASE ret # -1
  <2>1. stack' = <<rest>> \o Tail(stack)
    BY <1>6 DEF ChunkDone
  <2>2. Top.n \in 0..(SizeMod - 1) /\ Top.left \in 0..(SizeMod - 1) /\ Top.n <= Top.left
    BY <1>1, <1>2, ConstantsAssumption DEF LoopInv, Frames
  <2>3. Wrap(Top.left - Top.n) = Top.left - Top.n /\ Top.left - Top.n \in 0..(SizeMod - 1)
    BY <2>2, ConstantsAssumption DEF Wrap
  <2>4. /\ rest \in Frames /\ rest.fn = "loop" /\ rest.req = Top.req
        /\ rest.len = Top.len /\ rest.left = Top.left - Top.n /\ rest.pc = "test"
    BY <1>1, <1>2, <2>3 DEF Frames, ProgramPoints
  <2> HIDE DEF rest
  <2>5. rest.left <= Top.left
    BY <2>2, <2>4, ConstantsAssumption
  <2>6. /\ StackInv' /\ stack' # <<>> /\ Top' = rest /\ Len(stack') = Len(stack)
        /\ \A i \in 2..Len(stack) : stack'[i] = stack[i]
    BY <1>1, <1>2, <2>1, <2>4, <2>5, StackStay
  <2>7. LoopInv'
    <3>1. Top.req = "PADDING" => bytes + Top.left - Top.n <= ContentLength
      BY <1>1, <1>2, <1>6 DEF LoopInv
    <3>2. Top.req = "PADDING" => bytes + rest.left <= ContentLength
      BY <1>2, <2>2, <2>4, <3>1, ConstantsAssumption
    <3> QED
      BY <1>1, <2>4, <2>6, <3>2 DEF LoopInv
  <2>8. RequestInv' /\ WaitingLoopInv'
    BY <1>2, <1>3, <1>4, <2>4, <2>6 DEF RequestInv, WaitingLoopInv
  <2>9. FillInv'
    <3>1. \A i \in 2..Len(stack) : stack[i].fn # "request"
      BY <1>1, <1>2, Waiting DEF Pad1Request
    <3> QED
      BY <2>6, <3>1 DEF FillInv
  <2> QED
    BY <1>1, <1>2, <2>6, <2>7, <2>8, <2>9 DEF Sound
<1> QED
  BY <1>5, <1>6

\* The next TUNNEL_PAD1.
LEMMA SoundNextPad1 ==
    ASSUME TypeInv, Sound, NextPad1 PROVE Sound'
<1> DEFINE rest == [Top EXCEPT !.left = @ - 1]
           next == Request("PAD1", 0)
<1>1. /\ stack # <<>> /\ Top.fn = "pad1s" /\ Top.left > 0 /\ Call(rest, next)
      /\ UNCHANGED <<up, broken, bytes, upset>>
  BY DEF NextPad1, At, conn, history
<1>2. /\ StackInv /\ FillInv /\ Top \in Frames /\ Len(stack) \in Nat /\ Len(stack) >= 1
      /\ Top = stack[1] /\ bytes \in Nat /\ bytes <= ContentLength
  BY <1>1, StackFacts DEF Sound
<1>3. /\ next \in Frames /\ next.fn = "request" /\ next.req = "PAD1" /\ next.pc = "budget"
      /\ Sized(next) = 1
  BY FrameType, ConstantsAssumption DEF Request, Frame, Requests, Sized, RequestSize, HasData
<1>4. Top.left - 1 \in 0..(SizeMod - 1) /\ Top.left \in Nat
  BY <1>1, <1>2, FrameSizes, ConstantsAssumption
<1>5. /\ rest \in Frames /\ rest.fn = "pad1s" /\ rest.req = Top.req /\ rest.len = Top.len
      /\ rest.left = Top.left - 1 /\ rest.left <= Top.left
  BY <1>1, <1>2, <1>4 DEF Frames
<1> HIDE DEF rest, next
<1>6. /\ MadeBy(next, rest)
      /\ Len(stack) >= 2 => ~Pad1Request(stack[2])
  <2>1. MadeBy(next, rest)
    BY <1>3, <1>5, ConstantsAssumption DEF MadeBy, Operations, Header
  <2>2. Len(stack) >= 2 => MadeBy(Top, stack[2])
    BY <1>1, <1>2, SecondCall DEF Operations
  <2> QED
    BY <1>1, <2>1, <2>2 DEF MadeBy, Pad1Request
<1>7. /\ StackInv' /\ stack' # <<>> /\ Top' = next /\ Len(stack') = Len(stack) + 1
      /\ stack'[1] = next /\ stack'[2] = rest
      /\ \A i \in 3..Len(stack') : stack'[i] = stack[i - 1]
  BY <1>1, <1>2, <1>3, <1>5, <1>6, StackCall
<1>8. RequestInv' /\ LoopInv' /\ WaitingLoopInv'
  <2>1. bytes + 1 <= ContentLength \/ ContentLength - bytes <= Header
    BY <1>2, ConstantsAssumption DEF Header
  <2> QED
    BY <1>1, <1>3, <1>5, <1>7, <2>1
       DEF RequestInv, LoopInv, WaitingLoopInv, Sized, RequestSize
<1>9. FillInv'
  <2> SUFFICES ASSUME NEW i \in 2..Len(stack'),
                      stack'[i].fn = "request", stack'[i].req # "PAD1"
               PROVE  LET m == stack'[i - 1].left + (IF i - 1 = 1 THEN 0 ELSE 1)
                      IN  /\ m <= Header
                          /\ Live => \/ bytes + m = ContentLength
                                     \/ "swapped" \in upset /\ bytes + m <= Header
    BY <1>1 DEF FillInv, Missing, Live
  <2>1. i # 2
    BY <1>5, <1>7
  <2>2. i - 1 \in 2..Len(stack) /\ stack'[i] = stack[i - 1]
    BY <1>2, <1>7, <2>1
  <2>3. LET m == stack[(i - 1) - 1].left + (IF (i - 1) - 1 = 1 THEN 0 ELSE 1)
        IN  /\ m <= Header
            /\ Live => \/ bytes + m = ContentLength
                       \/ "swapped" \in upset /\ bytes + m <= Header
    BY <1>2, <2>2 DEF FillInv, Missing
  <2>4. i - 1 \in {2, 4}
    BY <1>1, <1>2, <2>2, Waiting DEF Pad1Request
  <2>5. CASE i - 1 = 2
    <3>1. i = 3 /\ stack'[i - 1] = rest /\ stack[(i - 1) - 1] = Top
      BY <1>2, <1>7, <2>2, <2>5
    <3>2. rest.left + 1 = Top.left + 0
      BY <1>4, <1>5
    <3> QED
      BY <2>3, <3>1, <3>2
  <2>6. CASE i - 1 = 4
    <3>1. i = 5 /\ stack'[i - 1] = stack[(i - 1) - 1]
      BY <1>2, <1>7, <2>2, <2>6
    <3> QED
      BY <2>3, <3>1
  <2> QED
    BY <2>4, <2>5, <2>6
<1> QED
  BY <1>1, <1>2, <1>7, <1>8, <1>9 DEF Sound

\* The loop of PAD1s ends: a request that waited goes on, to a body that
\* has been ended or replaced meanwhile.
LEMMA SoundPad1sDone ==
    ASSUME TypeInv, Sound, Pad1sDone PROVE Sound'
<1>1. /\ stack # <<>> /\ Top.fn = "pad1s" /\ Top.pc = "test" /\ Top.left = 0
      /\ Return(Top.len) /\ UNCHANGED <<up, broken, bytes, upset>>
  BY DEF Pad1sDone, At, conn, history
<1>2. /\ StackInv /\ FillInv /\ Len(stack) \in Nat /\ Top = stack[1] /\ WaitInv
      /\ bytes \in Nat /\ bytes <= ContentLength
  BY <1>1, StackFacts DEF Sound
<1>3. Len(stack) >= 2 /\ MadeBy(Top, stack[2])
  BY <1>1, <1>2, SecondCall DEF Operations
<1>4. CASE stack[2].fn # "request"
  BY <1>1, <1>4, SoundReturnsToOperation
<1>5. CASE stack[2].fn = "request"
  <2>1. /\ StackInv' /\ stack' # <<>> /\ Top' = stack[2] /\ Len(stack') = Len(stack) - 1
        /\ \A i \in 1..Len(stack') : stack'[i] = stack[i + 1]
    BY <1>1, <1>2, StackReturn DEF Operations
  <2>2. 2 \in 2..Len(stack) /\ stack[2].pc = "age" /\ stack[2].req # "PADDING"
    BY <1>2, <1>3, <1>5 DEF WaitInv, MadeBy
  <2>3. Live => bytes < ContentLength
    BY <1>1 DEF TypeInv, BytesInv, At
  <2>4. Live => bytes + Sized(stack[2]) <= ContentLength
                \/ ("swapped" \in upset /\ bytes <= Header)
    <3>1. CASE stack[2].req = "PAD1"
      BY <1>2, <2>3, <3>1, ConstantsAssumption DEF Sized, RequestSize, HasData
    <3>2. CASE stack[2].req # "PAD1"
      <4>1. Live => \/ bytes + 0 = ContentLength
                    \/ "swapped" \in upset /\ bytes + 0 <= Header
        <5>1. /\ 2 - 1 = 1 /\ stack[1].left + 0 = 0
          BY <1>1, <1>2
        <5> QED
          BY <1>1, <1>2, <1>5, <2>2, <3>2, <5>1 DEF FillInv, Missing
      <4> QED
        BY <1>2, <2>3, <4>1, ConstantsAssumption
    <3> QED
      BY <3>1, <3>2
  <2>5. RequestInv'
    BY <1>1, <2>1, <2>2, <2>4 DEF RequestInv, Fits, Sized, RequestSize, Live
  <2>6. LoopInv' /\ WaitingLoopInv'
    <3>1. LoopInv'
      BY <1>5, <2>1 DEF LoopInv
    <3>2. Len(stack') >= 2 => stack'[2] = stack[3] /\ 3 \in 2..Len(stack) /\ 3 - 1 = 2
      BY <1>2, <2>1
    <3>3. Len(stack') >= 2 => MadeBy(stack[2], stack'[2])
      BY <1>2, <3>2 DEF StackInv
    <3> QED
      BY <2>2, <3>1, <3>3 DEF WaitingLoopInv, MadeBy
  <2>7. FillInv'
    <3> SUFFICES ASSUME NEW i \in 2..Len(stack'),
                        stack'[i].fn = "request", stack'[i].req # "PAD1"
                 PROVE  LET m == stack'[i - 1].left + (IF i - 1 = 1 THEN 0 ELSE 1)
                        IN  /\ m <= Header
                            /\ Live => \/ bytes + m = ContentLength
                                       \/ "swapped" \in upset /\ bytes + m <= Header
      BY <1>1 DEF FillInv, Missing, Live
    <3>1. i + 1 \in 2..Len(stack) /\ stack'[i] = stack[i + 1]
      BY <1>2, <2>1
    <3>2. i + 1 = 4
      BY <1>1, <1>2, <3>1, Waiting DEF Pad1Request
    <3>3. i - 1 = 2 /\ (i + 1) - 1 = 3 /\ stack'[i - 1] = stack[3]
      BY <1>2, <2>1, <3>1, <3>2
    <3>4. LET m == stack[(i + 1) - 1].left + (IF (i + 1) - 1 = 1 THEN 0 ELSE 1)
          IN  /\ m <= Header
              /\ Live => \/ bytes + m = ContentLength
                         \/ "swapped" \in upset /\ bytes + m <= Header
      BY <1>2, <3>1 DEF FillInv, Missing
    <3> QED
      BY <3>3, <3>4
  <2> QED
    BY <1>1, <1>2, <2>1, <2>5, <2>6, <2>7 DEF Sound
<1> QED
  BY <1>4, <1>5

\* Every step of the loops.
LEMMA SoundLoopStep ==
    ASSUME TypeInv, Sound, LoopStep, "wrapped" \notin upset' PROVE Sound'
<1>1. CASE LoopDone
  <2>1. /\ stack # <<>> /\ Top.fn = "loop" /\ Return(Top.len)
        /\ UNCHANGED <<up, broken, bytes, upset>> /\ StackInv
    BY <1>1 DEF LoopDone, At, conn, history, Sound
  <2>2. MadeBy(Top, stack[2])
    BY <2>1, SecondCall DEF Operations
  <2>3. stack[2].fn # "request"
    BY <2>1, <2>2 DEF MadeBy
  <2> QED
    BY <2>1, <2>3, SoundReturnsToOperation
<1> QED
  BY <1>1, SoundNextChunk, SoundChunkDone, SoundNextPad1, SoundPad1sDone DEF LoopStep
-----------------------------------------------------------------------------
(***************************************************************************)
(* The operations of the main loop.                                        *)
(***************************************************************************)
\* Nothing is under way.
LEMMA SoundEmpty ==
    ASSUME stack' = <<>>, bytes' <= ContentLength PROVE Sound'
BY DEF Sound, StackInv, FillInv

\* An operation begins, or calls.
LEMMA SoundStart ==
    ASSUME NEW f, NEW g, stack' = <<f, g>>, bytes' <= ContentLength,
           MadeBy(f, g), g.fn \in Operations,
           f.fn = "request" =>
             /\ f.pc = "budget"
             /\ \/ bytes' + Sized(f) <= ContentLength
                \/ ContentLength - bytes' <= Header /\ f.req # "PADDING",
           f.fn = "loop" => /\ f.pc = "test"
                            /\ \/ f.req = "DATA" /\ f.left < SizeMod - ContentLength
                               \/ f.req = "PADDING" /\ bytes' + f.left <= ContentLength
    PROVE  Sound'
<1>1. stack' # <<>> /\ Len(stack') = 2 /\ Top' = f /\ stack'[1] = f /\ stack'[2] = g
  BY DEF Top
<1>2. StackInv'
  <2>1. \A i \in 2..Len(stack') : MadeBy(stack'[i - 1], stack'[i])
    <3> SUFFICES ASSUME NEW i \in 2..2 PROVE MadeBy(stack'[i - 1], stack'[i])
      BY <1>1
    <3>1. i = 2 /\ i - 1 = 1
      OBVIOUS
    <3> QED
      BY <1>1, <3>1
  <2>2. \A i \in 1..Len(stack') :
          stack'[i].fn = "loop" =>
            \/ stack'[i].req = "DATA" /\ stack'[i].left < SizeMod - ContentLength
            \/ stack'[i].req = "PADDING"
    <3> SUFFICES ASSUME NEW i \in {1, 2}, stack'[i].fn = "loop"
                 PROVE \/ stack'[i].req = "DATA" /\ stack'[i].left < SizeMod - ContentLength
                       \/ stack'[i].req = "PADDING"
      BY <1>1
    <3> QED
      BY <1>1 DEF Operations
  <2>3. \A i \in 3..Len(stack') : ~Pad1Request(stack'[i])
    BY <1>1
  <2> QED
    BY <1>1, <2>1, <2>2, <2>3 DEF StackInv, Pad1Request
<1>3. RequestInv' /\ LoopInv' /\ WaitingLoopInv'
  BY <1>1 DEF RequestInv, LoopInv, WaitingLoopInv, Sized, RequestSize, HasData, Operations
<1>4. FillInv'
  BY <1>1 DEF FillInv, Operations
<1> QED
  BY <1>1, <1>2, <1>3, <1>4 DEF Sound

\* An operation goes on.
LEMMA SoundAlone ==
    ASSUME NEW g, stack' = <<g>>, bytes' <= ContentLength, g.fn \in Operations
    PROVE  Sound'
<1>1. stack' # <<>> /\ Len(stack') = 1 /\ Top' = g /\ stack'[1] = g
  BY DEF Top
<1> QED
  BY <1>1 DEF Sound, StackInv, FillInv, RequestInv, LoopInv, WaitingLoopInv, Operations

\* tunnel_close pads, and writes TUNNEL_CLOSE.
LEMMA SoundClosing ==
    ASSUME TypeInv, Sound, ClosePadding \/ CloseRequest, "wrapped" \notin upset'
    PROVE  Sound'
<1> DEFINE rest(p) == [Top EXCEPT !.pc = p]
           room == ContentLength - bytes - 1
           pad == Padding(Wrap(ContentLength - bytes - 1))
           close == Request("CLOSE", 0)
<1>1. /\ stack # <<>> /\ Top.fn = "close" /\ UNCHANGED bytes
  BY DEF ClosePadding, CloseRequest, At, conn
<1>2. /\ StackInv /\ stack \in Seq(Frames) /\ Top = stack[1] /\ Top \in Frames
      /\ Len(stack) \in Nat /\ Len(stack) >= 1
      /\ bytes \in Nat /\ bytes <= ContentLength
  BY <1>1, StackFacts DEF Sound
<1>3. Len(stack) = 1
  <2>1. 1 \in 1..Len(stack) /\ stack[1].fn \in Operations
    BY <1>1, <1>2 DEF Operations
  <2> QED
    BY <1>2, <2>1, OperationAlone
<1>0. /\ \A a : <<a>> \o Tail(stack) = <<a>>
      /\ \A a, b : <<a, b>> \o Tail(stack) = <<a, b>>
  <2>1. Tail(stack) \in Seq(Frames) /\ Len(Tail(stack)) = 0
    BY <1>2, <1>3
  <2>2. \A t \in Seq(Frames) : Len(t) = 0 => t = <<>>
    OBVIOUS
  <2>3. Tail(stack) = <<>>
    BY <2>1, <2>2
  <2>4. \A a : <<a>> \o <<>> = <<a>>
    OBVIOUS
  <2>5. \A a, b : <<a, b>> \o <<>> = <<a, b>>
    OBVIOUS
  <2> QED
    BY <2>3, <2>4, <2>5
<1>4. \A p \in ProgramPoints :
        rest(p) \in Frames /\ rest(p).fn = "close" /\ rest(p).fn \in Operations
  BY <1>1, <1>2 DEF Frames, Operations
<1>5. {"request", "disconnect"} \subseteq ProgramPoints
  BY DEF ProgramPoints
<1>6. \/ Call(rest("request"), pad) /\ Strict /\ ClosePadding
      \/ Call(rest("disconnect"), close)
      \/ stack' = <<rest("request")>> \o Tail(stack)
  BY DEF ClosePadding, CloseRequest, Goto
<1> HIDE DEF rest
<1>7. CASE Call(rest("request"), pad) /\ Strict /\ ClosePadding
  <2>1. bytes < ContentLength
    BY <1>2, <1>7, ConstantsAssumption DEF ClosePadding
  <2>2. room \in 0..(SizeMod - 1) /\ Wrap(room) = room
    BY <1>2, <2>1, ConstantsAssumption DEF Wrap
  <2>3. /\ pad.pc = "test" /\ pad.left = room
        /\ pad.fn = "pad1s" \/ (pad.fn = "loop" /\ pad.req = "PADDING")
    BY <2>2, PaddingFrames
  <2> HIDE DEF pad
  <2>4. MadeBy(pad, rest("request"))
    BY <1>4, <1>5, <2>3 DEF MadeBy, Operations
  <2>5. stack' = <<pad, rest("request")>>
    BY <1>0, <1>7 DEF Call
  <2>6. bytes' + room <= ContentLength /\ bytes' <= ContentLength
    BY <1>1, <1>2, ConstantsAssumption
  <2> QED
    BY <1>4, <1>5, <2>3, <2>4, <2>5, <2>6, SoundStart
<1>8. CASE Call(rest("disconnect"), close)
  <2>1. close.fn = "request" /\ close.req = "CLOSE" /\ close.pc = "budget" /\ Sized(close) = 1
    BY DEF Request, Frame, Sized, RequestSize, HasData
  <2> HIDE DEF close
  <2>2. MadeBy(close, rest("disconnect"))
    BY <1>4, <1>5, <2>1, ConstantsAssumption DEF MadeBy, Operations, Header
  <2>3. stack' = <<close, rest("disconnect")>>
    BY <1>0, <1>8 DEF Call
  <2>4. /\ bytes' <= ContentLength
        /\ (bytes' + 1 <= ContentLength \/ ContentLength - bytes' <= Header)
    BY <1>1, <1>2, ConstantsAssumption DEF Header
  <2> QED
    BY <1>4, <1>5, <2>1, <2>2, <2>3, <2>4, SoundStart
<1>9. CASE stack' = <<rest("request")>> \o Tail(stack)
  <2>1. stack' = <<rest("request")>>
    BY <1>0, <1>9
  <2> QED
    BY <1>1, <1>2, <1>4, <1>5, <2>1, SoundAlone
<1> QED
  BY <1>6, <1>7, <1>8, <1>9

\* An operation begins.
LEMMA SoundBegin ==
    ASSUME TypeInv, Sound,
           TunnelConnect \/ DeviceInput \/ KeepAlive \/ MaybePad \/ TunnelClose
    PROVE  Sound'
<1>1. bytes \in Nat /\ bytes' = bytes /\ bytes <= ContentLength
  BY DEF Sound, TypeInv, TypeOK, TunnelConnect, DeviceInput, KeepAlive, MaybePad,
         TunnelClose, Start, conn
<1>2. CASE TunnelConnect
  <2> DEFINE f == Request("OPEN", 1)
             g == Frame("connect", "none", 0, "done")
  <2>1. stack' = <<f, g>> /\ bytes = 0
    BY <1>2 DEF TunnelConnect, Start, TypeInv, TypeOK, BytesInv
  <2>2. f.fn = "request" /\ f.req = "OPEN" /\ f.pc = "budget" /\ Sized(f) = 4
    BY DEF Request, Frame, Sized, RequestSize, HasData, Header
  <2>3. g.fn = "connect"
    BY DEF Frame
  <2> HIDE DEF f, g
  <2>4. MadeBy(f, g) /\ bytes' + Sized(f) <= ContentLength
    BY <1>1, <2>1, <2>2, <2>3, ConstantsAssumption DEF MadeBy, Operations, Header
  <2> QED
    BY <1>1, <2>1, <2>2, <2>3, <2>4, SoundStart DEF Operations
<1>3. CASE DeviceInput
  <2>1. PICK n \in Inputs : stack' = <<Loop("DATA", n), Frame("device", "none", n, "done")>>
    BY <1>3 DEF DeviceInput, Start
  <2> DEFINE f == Loop("DATA", n)
             g == Frame("device", "none", n, "done")
  <2>2. f.fn = "loop" /\ f.req = "DATA" /\ f.pc = "test" /\ f.left < SizeMod - ContentLength
    BY ConstantsAssumption DEF Loop, Frame
  <2>3. g.fn = "device"
    BY DEF Frame
  <2> HIDE DEF f, g
  <2>4. MadeBy(f, g)
    BY <2>2, <2>3 DEF MadeBy, Operations
  <2> QED
    BY <1>1, <2>1, <2>2, <2>3, <2>4, SoundStart DEF Operations, f, g
<1>4. CASE KeepAlive
  <2> DEFINE f == Padding(1)
             g == Frame("keepalive", "none", 1, "done")
  <2>1. stack' = <<f, g>>
    BY <1>4 DEF KeepAlive, Start
  <2>2. f.fn = "pad1s"
    BY DEF Padding, Frame, Header
  <2>3. g.fn = "keepalive"
    BY DEF Frame
  <2> HIDE DEF f, g
  <2>4. MadeBy(f, g)
    BY <2>2, <2>3 DEF MadeBy, Operations
  <2> QED
    BY <1>1, <2>1, <2>2, <2>3, <2>4, SoundStart DEF Operations
<1>5. CASE MaybePad
  <2> DEFINE room == Wrap(ContentLength - bytes)
             len(b) == IF b - (bytes % b) > room THEN room ELSE b - (bytes % b)
  <2>1. PICK b \in Blocks :
          stack' = <<Padding(len(b)), Frame("maybepad", "none", b, "done")>>
    BY <1>5 DEF MaybePad, Start
  <2> DEFINE f == Padding(len(b))
             g == Frame("maybepad", "none", b, "done")
  <2>2. room = ContentLength - bytes
    BY <1>1, ConstantsAssumption DEF Wrap
  <2>3. b - (bytes % b) \in 0..(SizeMod - 1)
    BY <1>1, ConstantsAssumption
  <2>4. len(b) \in 0..(SizeMod - 1) /\ bytes + len(b) <= ContentLength
    BY <1>1, <2>2, <2>3, ConstantsAssumption
  <2> HIDE DEF len
  <2>5. /\ f.pc = "test" /\ f.left = len(b)
        /\ f.fn = "pad1s" \/ (f.fn = "loop" /\ f.req = "PADDING")
    BY <2>4, PaddingFrames
  <2>6. g.fn = "maybepad"
    BY DEF Frame
  <2> HIDE DEF f, g
  <2>7. MadeBy(f, g)
    BY <2>5, <2>6 DEF MadeBy, Operations
  <2> QED
    BY <1>1, <2>1, <2>4, <2>5, <2>6, <2>7, SoundStart DEF Operations, f, g
<1>6. CASE TunnelClose
  <2> DEFINE g == Frame("close", "none", 0, "pad")
  <2>1. stack' = <<g>>
    BY <1>6 DEF TunnelClose, Start
  <2>2. g.fn \in Operations
    BY DEF Frame, Operations
  <2> HIDE DEF g
  <2> QED
    BY <1>1, <2>1, <2>2, SoundAlone
<1> QED
  BY <1>2, <1>3, <1>4, <1>5, <1>6

\* The main loop is back, or waits.
LEMMA SoundMainLoop ==
    ASSUME TypeInv, Sound, TunnelConnectDone \/ DeviceInputDone \/ PaddingDone
    PROVE  Sound'
BY SoundEmpty
   DEF Sound, TunnelConnectDone, DeviceInputDone, PaddingDone, Finish, conn

\* A connection is accepted, or the tunnel ends: nothing has been written yet,
\* and what wrapped around is over.
LEMMA SoundNoBytes ==
    ASSUME TypeInv,
           TunnelAccept \/ TunnelReadAccept \/ CloseDisconnect \/ DestroyDown
    PROVE  Sound'
<1>1. stack' = <<>>
  BY DEF TunnelAccept, TunnelReadAccept, CloseDisconnect, DestroyDown
<1>2. bytes' = 0
  <2>1. ~up => bytes = 0
    BY DEF TypeInv, TypeOK
  <2>2. CASE TunnelAccept \/ TunnelReadAccept
    BY <2>2 DEF TunnelAccept, TunnelReadAccept, Connected, Refused, OutDisconnect
  <2>3. CASE CloseDisconnect
    BY <2>1, <2>3 DEF CloseDisconnect, OutDisconnect
  <2>4. CASE DestroyDown
    BY <2>1, <2>4 DEF DestroyDown
  <2> QED
    BY <2>2, <2>3, <2>4
<1> QED
  BY <1>1, <1>2, SoundEmpty, ConstantsAssumption
-----------------------------------------------------------------------------
(***************************************************************************)
(* How connections end.                                                    *)
(***************************************************************************)
Lengths == FullIsExact /\ OvershootBounded

\* No connection ends.
LEMMA SameEnding ==
    ASSUME Lengths, closed' \in {closed, NotClosed} PROVE Lengths'
BY ConstantsAssumption DEF Lengths, FullIsExact, OvershootBounded, NotClosed, Header

\* A connection ends before its body is full.
LEMMA EarlyEnding ==
    ASSUME NEW why \in {"torn", "accept", "close"}, NEW total, NEW disturbed,
           closed' = [why |-> why, total |-> total, upset |-> disturbed],
           "wrapped" \notin disturbed => total <= ContentLength + 1 + Header
    PROVE  Lengths'
BY DEF Lengths, FullIsExact, OvershootBounded

\* A request ends, and perhaps a body with it.
LEMMA LengthsWrites ==
    ASSUME TypeInv, Sound, Lengths, WriteRequest \/ RewriteRequest \/ WritePayload
    PROVE  Lengths'
<1>1. /\ stack # <<>> /\ Top.fn = "request" /\ Live
      /\ Top.pc \in {"write", "rewrite", "payload"}
      /\ StackInv /\ RequestInv /\ bytes \in Nat
  BY DEF WriteRequest, RewriteRequest, WritePayload, At, Sound, TypeInv, TypeOK,
         BytesInv, Live
<1>2. HasData(Top.req) => Sized(Top) = Header + Top.len /\ Top.len \in Nat
  BY <1>1, BelowRequest
<1>3. closed' = closed \/ EndRequest(Completed)
  <2>1. CASE WritePayload
    <3>1. Top.pc = "payload" /\ HasData(Top.req) /\ EndRequest(bytes + 2 + Top.len)
      BY <1>1, <2>1 DEF RequestInv, WritePayload, At
    <3>2. bytes + 2 + Top.len = Completed
      BY <1>1, <1>2, <3>1 DEF Completed, Begun, Header
    <3> QED
      BY <3>1, <3>2
  <2>2. CASE WriteRequest \/ RewriteRequest
    <3>1. RequestByteSent /\ Top.pc # "payload"
      BY <2>2 DEF WriteRequest, RewriteRequest, At
    <3>2. CASE HasData(Top.req)
      BY <3>1, <3>2 DEF RequestByteSent, history
    <3>3. CASE ~HasData(Top.req)
      <4>1. EndRequest(bytes + 1)
        BY <3>1, <3>3 DEF RequestByteSent
      <4>2. bytes + 1 = Completed
        BY <3>1, <3>3 DEF Completed, Begun, Sized, RequestSize
      <4> QED
        BY <4>1, <4>2
    <3> QED
      BY <3>2, <3>3
  <2> QED
    BY <2>1, <2>2
<1>4. /\ Completed \in Nat
      /\ Completed <= ContentLength + Header
      /\ "swapped" \notin upset => Completed <= ContentLength
  BY <1>1, CompletedFits
<1>5. \/ closed' = closed
      \/ /\ closed' = [why |-> "full", total |-> Completed + 1, upset |-> upset]
         /\ Completed >= ContentLength
      \/ closed' = [why |-> "torn", total |-> Completed, upset |-> upset']
  BY <1>3, <1>4, ConstantsAssumption DEF EndRequest, OutDisconnect
<1> HIDE DEF Completed
<1>6. CASE /\ closed' = [why |-> "full", total |-> Completed + 1, upset |-> upset]
           /\ Completed >= ContentLength
  <2>1. FullIsExact'
    BY <1>4, <1>6, ConstantsAssumption DEF FullIsExact
  <2>2. OvershootBounded'
    BY <1>4, <1>6, ConstantsAssumption DEF OvershootBounded, Header
  <2> QED
    BY <2>1, <2>2 DEF Lengths
<1>7. CASE closed' = [why |-> "torn", total |-> Completed, upset |-> upset']
  <2>1. Completed <= ContentLength + 1 + Header
    BY <1>4, ConstantsAssumption DEF Header
  <2> QED
    BY <1>7, <2>1, EarlyEnding
<1> QED
  BY <1>5, <1>6, <1>7, SameEnding

\* A size has wrapped around: every ending says so.
LEMMA LengthsVoid ==
    ASSUME Lengths, closed'.upset = upset \/ closed'.upset = upset',
           "wrapped" \in upset, "wrapped" \in upset'
    PROVE  Lengths'
BY DEF Lengths, FullIsExact, OvershootBounded

\* tunnel_write_request.
LEMMA LengthsRequestStep ==
    ASSUME TypeInv, "wrapped" \notin upset => Sound, Lengths, RequestStep
    PROVE  Lengths'
<1>1. bytes \in Nat /\ bytes <= ContentLength + 2
  BY DEF TypeInv, TypeOK, BytesInv
<1>2. CASE \/ CheckBudget \/ StillYoung \/ CloseAgedFails \/ StillConnected
           \/ Reconnect \/ WriteRequestFails \/ RewriteRequestFails \/ WritePayloadFails
  <2>1. closed' = closed
    BY <1>2 DEF CheckBudget, StillYoung, CloseAgedFails, StillConnected, Reconnect,
                WriteRequestFails, RewriteRequestFails, WritePayloadFails, history
  <2> QED
    BY <2>1, SameEnding
<1>3. CASE CloseAged
  <2>1. closed'.why = "age"
    BY <1>3 DEF CloseAged, OutDisconnect
  <2> QED
    BY <2>1 DEF Lengths, FullIsExact, OvershootBounded
<1>4. CASE WriteRequestEPIPE
  <2>1. closed' = [why |-> "torn", total |-> bytes, upset |-> upset]
    BY <1>4 DEF WriteRequestEPIPE
  <2>2. bytes <= ContentLength + 1 + Header
    BY <1>1, ConstantsAssumption DEF Header
  <2> QED
    BY <2>1, <2>2, EarlyEnding
<1>5. CASE WriteRequest \/ RewriteRequest \/ WritePayload
  <2>1. CASE "wrapped" \notin upset
    BY <1>5, <2>1, LengthsWrites
  <2>2. CASE "wrapped" \in upset
    <3>1. \/ closed' = closed /\ upset' = upset
          \/ /\ closed'.upset = upset \/ closed'.upset = upset'
             /\ upset \subseteq upset'
      <4>1. \/ \E total \in {bytes + 1, bytes + 2 + Top.len} : EndRequest(total)
            \/ UNCHANGED history
        BY <1>5 DEF WriteRequest, RewriteRequest, WritePayload, RequestByteSent
      <4> QED
        BY <4>1 DEF EndRequest, OutDisconnect, history
    <3> QED
      BY <2>2, <3>1, SameEnding, LengthsVoid
  <2> QED
    BY <2>1, <2>2
<1> QED
  BY <1>2, <1>3, <1>4, <1>5 DEF RequestStep

\* The other steps.
LEMMA LengthsNext ==
    ASSUME TypeInv, "wrapped" \notin upset => Sound, Lengths, [Next]_vars
    PROVE  Lengths'
<1>1. CASE RequestStep
  BY <1>1, LengthsRequestStep
<1>2. CASE LoopStep
  <2>1. closed' = closed
    BY <1>2 DEF LoopStep, NextChunk, ChunkDone, LoopDone, NextPad1, Pad1sDone, history
  <2> QED
    BY <2>1, SameEnding
<1>3. CASE CloseDisconnect \/ TunnelReadAccept
  <2>1. \/ closed' = closed
        \/ \E why \in {"torn", "close", "accept"} : OutDisconnect(why, bytes, upset)
    BY <1>3 DEF CloseDisconnect, TunnelReadAccept
  <2>2. bytes <= ContentLength + 1 + Header
    BY ConstantsAssumption DEF TypeInv, TypeOK, BytesInv, Header
  <2> QED
    BY <2>1, <2>2, SameEnding, EarlyEnding DEF OutDisconnect
<1>4. CASE OperationStep /\ ~CloseDisconnect
  <2>1. closed' = closed
    BY <1>4 DEF OperationStep, TunnelConnectDone, DeviceInputDone, PaddingDone,
                ClosePadding, CloseRequest, history
  <2> QED
    BY <2>1, SameEnding
<1>5. CASE Begin /\ ~TunnelReadAccept
  <2>1. closed' \in {closed, NotClosed}
    BY <1>5 DEF Begin, TunnelConnect, TunnelAccept, DeviceInput, KeepAlive, MaybePad,
                TunnelClose, DestroyDown, Start, history
  <2> QED
    BY <2>1, SameEnding
<1>6. CASE GrowOld \/ UNCHANGED vars
  <2>1. closed' = closed
    BY <1>6 DEF GrowOld, vars, history
  <2> QED
    BY <2>1, SameEnding
<1> QED
  BY <1>1, <1>2, <1>3, <1>4, <1>5, <1>6 DEF Next, Running
-----------------------------------------------------------------------------
(***************************************************************************)
(* The invariant.                                                          *)
(***************************************************************************)
\* A size that has wrapped around is remembered until the tunnel ends.
LEMMA WrappedStays ==
    ASSUME RequestStep \/ LoopStep \/ (OperationStep /\ ~CloseDisconnect),
           "wrapped" \in upset
    PROVE  "wrapped" \in upset'
<1>1. CASE RequestStep
  <2>1. CASE WriteRequest \/ RewriteRequest \/ WritePayload
    <3>1. (\E total \in {bytes + 1, bytes + 2 + Top.len} : EndRequest(total)) \/ UNCHANGED history
      BY <2>1 DEF WriteRequest, RewriteRequest, WritePayload, RequestByteSent
    <3> QED
      BY <3>1 DEF EndRequest, history
  <2>2. CASE ~(WriteRequest \/ RewriteRequest \/ WritePayload)
    BY <1>1, <2>2
       DEF RequestStep, CheckBudget, StillYoung, CloseAged, CloseAgedFails,
           StillConnected, Reconnect, WriteRequestFails, WriteRequestEPIPE,
           RewriteRequestFails, WritePayloadFails, history
  <2> QED
    BY <2>1, <2>2
<1>2. CASE LoopStep
  BY <1>2 DEF LoopStep, NextChunk, ChunkDone, LoopDone, NextPad1, Pad1sDone, history
<1>3. CASE OperationStep /\ ~CloseDisconnect
  BY <1>3 DEF OperationStep, TunnelConnectDone, DeviceInputDone, PaddingDone,
              ClosePadding, CloseRequest, Finish, history
<1> QED
  BY <1>1, <1>2, <1>3

\* The initial states satisfy the invariant.
LEMMA BodyInit == Init => BodyInv
<1> SUFFICES ASSUME Init PROVE BodyInv
  OBVIOUS
<1>1. TypeInv
  BY TypeInit
<1>2. Sound
  BY ConstantsAssumption DEF Init, Sound, StackInv, FillInv
<1>3. FullIsExact /\ OvershootBounded
  BY ConstantsAssumption DEF Init, NotClosed, FullIsExact, OvershootBounded, Header
<1> QED
  BY <1>1, <1>2, <1>3 DEF BodyInv

\* Every step keeps the invariant.
LEMMA BodyNext == BodyInv /\ [Next]_vars => BodyInv'
<1> SUFFICES ASSUME BodyInv, [Next]_vars PROVE BodyInv'
  OBVIOUS
<1>1. TypeInv /\ ("wrapped" \notin upset => Sound) /\ Lengths
  BY DEF BodyInv, Lengths
<1>2. TypeInv'
  BY <1>1, TypeNext
<1>3. Lengths'
  BY <1>1, LengthsNext
<1>4. ASSUME "wrapped" \notin upset' PROVE Sound'
  <2>1. CASE RequestStep
    BY <1>1, <1>4, <2>1, WrappedStays, SoundRequestStep
  <2>2. CASE LoopStep
    BY <1>1, <1>4, <2>2, WrappedStays, SoundLoopStep
  <2>3. CASE OperationStep /\ ~CloseDisconnect
    BY <1>1, <1>4, <2>3, WrappedStays, SoundMainLoop, SoundClosing DEF OperationStep
  <2>4. CASE TunnelAccept \/ TunnelReadAccept \/ CloseDisconnect \/ DestroyDown
    BY <1>1, <2>4, SoundNoBytes
  <2>5. CASE TunnelConnect \/ DeviceInput \/ KeepAlive \/ MaybePad \/ TunnelClose
    <3>1. upset' = upset
      BY <2>5 DEF TunnelConnect, DeviceInput, KeepAlive, MaybePad, TunnelClose, Start
    <3> QED
      BY <1>1, <1>4, <2>5, <3>1, SoundBegin
  <2>6. CASE GrowOld \/ UNCHANGED vars
    <3>1. UNCHANGED <<up, broken, bytes, stack, ret, upset>>
      BY <2>6 DEF GrowOld, vars, conn, history
    <3> QED
      BY <1>1, <1>4, <3>1
         DEF Sound, StackInv, FillInv, RequestInv, LoopInv, WaitingLoopInv, Top, Live,
             Fits, Begun, Missing, Sized, MadeBy, Pad1Request, Eaten
  <2> QED
    BY <2>1, <2>2, <2>3, <2>4, <2>5, <2>6 DEF Next, Running, OperationStep, Begin
<1> QED
  BY <1>2, <1>3, <1>4 DEF BodyInv, Lengths

(***************************************************************************)
(* A body that was ended because it was full has the announced length: the *)
(* room that tunnel_write_request measured is still there when it writes,  *)
(* after any padding and whatever failed meanwhile.                        *)
(***************************************************************************)
THEOREM FullIsExactCorrect == Spec => []FullIsExact
<1>1. BodyInv => FullIsExact
  BY DEF BodyInv
<1> QED
  BY <1>1, BodyInit, BodyNext, PTL DEF Spec

(***************************************************************************)
(* No body of a connection that did not age is more than a header longer   *)
(* than announced, even if the connection was replaced inside the padding. *)
(***************************************************************************)
THEOREM OvershootCorrect == Spec => []OvershootBounded
<1>1. BodyInv => OvershootBounded
  BY DEF BodyInv
<1> QED
  BY <1>1, BodyInit, BodyNext, PTL DEF Spec
=============================================================================
