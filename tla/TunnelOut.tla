----------------------------- MODULE TunnelOut -----------------------------
(***************************************************************************)
(* The writing half of one end of httptunnel (src/httptunnel/tunnel.c).    *)
(* The end cuts what it writes into HTTP bodies of a fixed length: htc     *)
(* POSTs bodies, hts answers GETs with them.  tunnel->bytes counts the     *)
(* body written so far, tunnel->content_length is the announced length     *)
(* less the final TUNNEL_DISCONNECT.  The writer is one thread, but        *)
(* tunnel_write_request and tunnel_padding call each other, and a          *)
(* connection can be replaced in the middle of a call because it is too    *)
(* old, broken, or refused.  The model keeps the call stack and makes a    *)
(* step of every stretch of code between two calls or system calls.        *)
(***************************************************************************)
EXTENDS Integers, Sequences

CONSTANTS
    ContentLength,  \* tunnel->content_length
    MaxLength,      \* the largest Length, 65535 in the code
    SizeMod,        \* one more than the largest size_t
    IsClient,       \* htc (TRUE) or hts (FALSE)
    Strict,         \* tunnel->strict_content_length
    Inputs,         \* the sizes a read of the device may return
    Blocks,         \* the proxy buffer sizes, for tunnel_maybe_pad
    CanFail,        \* may connects and writes fail?
    CanExpire       \* may a connection reach max_connection_age?

Header == 3         \* sizeof_header: a Request and a Length

\* A body holds two headers at least.  (With no more than one header in a
\* body tunnel_write_or_padding writes empty requests for ever.)
ASSUME ConstantsAssumption ==
    /\ ContentLength \in Nat /\ ContentLength >= 2 * Header
    /\ MaxLength \in Nat /\ MaxLength >= 3
    /\ SizeMod \in Nat /\ SizeMod % (MaxLength + 1) = 0
    /\ SizeMod > 2 * ContentLength + MaxLength + 4
    /\ Inputs \subseteq 1..(SizeMod - ContentLength - 1)
    /\ Blocks \subseteq 1..(SizeMod - 1)
    /\ {IsClient, Strict, CanFail, CanExpire} \subseteq BOOLEAN

VARIABLES
    phase,    \* where the main loop of htc or hts stands
    up,       \* out_fd # -1
    broken,   \* a write to out_fd has failed: TCP fails the later ones too
    bytes,    \* tunnel->bytes
    aged,     \* out_connect_time is more than max_connection_age ago
    padOnly,  \* tunnel->padding_only
    stack,    \* the calls in progress, the innermost first
    ret,      \* what the last call to return has returned
    closed,   \* history: how the last connection ended
    upset,    \* history: what disturbed the current top-level operation
    taken,    \* history: data bytes in whole requests, this operation
    stream    \* history: is what was sent a prefix of what was read?

conn == <<up, broken, bytes, aged, padOnly>>
history == <<closed, upset, taken, stream>>
vars == <<phase, conn, stack, ret, history>>

Requests == {"OPEN", "DATA", "PADDING", "PAD1", "CLOSE", "none"}
Upsets == {"failed", "expired", "swapped", "wrapped", "misframed"}

\* How a connection may end, and after how many bytes of body.
Endings ==
    [why : {"none", "full", "age", "torn", "accept", "close"},
     total : Nat, upset : SUBSET Upsets]

\* size_t arithmetic, for a result at most one SizeMod away from its range.
Wrap(x) == IF x < 0 THEN x + SizeMod
           ELSE IF x >= SizeMod THEN x - SizeMod ELSE x

\* The conversion of a size_t to the Length parameter of a request.
AsLength(n) == n % (MaxLength + 1)

HasData(req) == req \in {"OPEN", "DATA", "PADDING"}

\* Mutant: the Length field is not counted.
RequestSizeNoLength(req, len) == IF HasData(req) THEN 1 + len ELSE 1

RequestSize(req, len) == IF HasData(req) THEN Header + len ELSE 1

-----------------------------------------------------------------------------
(***************************************************************************)
(* The call stack.                                                         *)
(***************************************************************************)
ProgramPoints ==
    {"budget", "age", "connect", "write", "rewrite", "payload",
     "test", "called", "pad", "request", "disconnect", "done"}

Frames ==
    [fn : {"request", "loop", "pad1s", "connect", "device", "keepalive",
           "maybepad", "close"},
     req : Requests, len : 0..(SizeMod - 1), left : 0..(SizeMod - 1),
     n : 0..(SizeMod - 1), pc : ProgramPoints]

Frame(fn, req, len, pc) ==
    [fn |-> fn, req |-> req, len |-> len, left |-> len, n |-> 0, pc |-> pc]

\* tunnel_write_request (request, data, len)
Request(req, len) == Frame("request", req, len, "budget")

\* tunnel_write_or_padding (request, data, len)
Loop(req, len) == Frame("loop", req, len, "test")

\* tunnel_padding (len): a few PAD1 or a loop of PADDING
Padding(len) == IF len < Header + 1 THEN Frame("pad1s", "PAD1", len, "test")
                                    ELSE Loop("PADDING", len)

Top == Head(stack)
At(fn, pc) == stack # <<>> /\ Top.fn = fn /\ Top.pc = pc

\* Is the request on top part of the padding that another request asked for?
Nested == \E i \in 2..Len(stack) : stack[i].fn = "request"

Goto(pc) == stack' = <<[Top EXCEPT !.pc = pc]>> \o Tail(stack)
Call(caller, callee) == stack' = <<callee, caller>> \o Tail(stack)
Return(value) == stack' = Tail(stack) /\ ret' = value

Idle == phase = "open" /\ stack = <<>>

NotClosed == [why |-> "none", total |-> 0, upset |-> {}]

\* A top-level operation begins and ends; its history is kept meanwhile,
\* that a size has wrapped around for the life of the tunnel.
Start(frames) ==
    /\ stack' = frames
    /\ closed' = NotClosed
    /\ UNCHANGED <<conn, ret, upset, taken, stream>>

Finish ==
    /\ stack' = <<>> /\ ret' = 0
    /\ upset' = upset \cap {"wrapped"} /\ taken' = 0

-----------------------------------------------------------------------------
Init ==
    /\ phase = "new"
    /\ up = FALSE /\ broken = FALSE /\ bytes = 0
    /\ aged \in BOOLEAN /\ padOnly \in BOOLEAN   \* malloc leaves them unset
    /\ stack = <<>> /\ ret = 0
    /\ closed = NotClosed
    /\ upset = {} /\ taken = 0 /\ stream = "whole"

\* Mutant: tunnel->bytes is not reset.
OutDisconnectKeepsBytes(why, total, disturbed) ==
    /\ up' = FALSE /\ broken' = FALSE /\ bytes' = total
    /\ closed' = [why |-> why, total |-> total, upset |-> disturbed]

(***************************************************************************)
(* tunnel_out_disconnect, after "total" bytes of body.                     *)
(***************************************************************************)
OutDisconnect(why, total, disturbed) ==
    /\ up' = FALSE /\ broken' = FALSE /\ bytes' = 0
    /\ closed' = [why |-> why, total |-> total, upset |-> disturbed]

(***************************************************************************)
(* What tunnel_out_connect (or tunnel_accept, in hts) leaves behind: a     *)
(* connection; a socket to which the POST header could not be written;     *)
(* no socket.                                                              *)
(***************************************************************************)
Connected ==
    /\ up' = TRUE /\ broken' = FALSE /\ bytes' = 0
    /\ aged' = (aged /\ ~IsClient)

HeaderLost ==
    /\ IsClient /\ CanFail
    /\ up' = TRUE /\ broken' = TRUE /\ bytes' = 0
    /\ UNCHANGED aged

Refused ==
    /\ CanFail
    /\ up' = FALSE /\ broken' = FALSE /\ bytes' = 0
    /\ UNCHANGED aged

Swapped == IF Nested THEN {"swapped"} ELSE {}

-----------------------------------------------------------------------------
(***************************************************************************)
(* tunnel_write_request.                                                   *)
(***************************************************************************)
CheckBudget ==
    /\ At("request", "budget")
    /\ IF bytes + RequestSize(Top.req, Top.len) > ContentLength
         THEN Call([Top EXCEPT !.pc = "age"],
                   Padding(Wrap(ContentLength - bytes)))
         ELSE Goto("age")
    /\ UNCHANGED <<phase, conn, ret, history>>

Expired == IsClient /\ up /\ aged

StillYoung ==
    /\ At("request", "age") /\ ~Expired
    /\ Goto("connect")
    /\ UNCHANGED <<phase, conn, ret, history>>

\* The bytes of padding that a strict writer puts before TUNNEL_DISCONNECT.
RoomToPad == ContentLength - bytes - 1
AgePadding == IF ~Strict \/ RoomToPad <= 0 THEN 0
              ELSE IF RoomToPad > 3 THEN RoomToPad + 1 ELSE RoomToPad

CloseAged ==
    /\ At("request", "age") /\ Expired /\ ~broken
    /\ LET misframed == Strict /\ RoomToPad > 3 /\ RoomToPad - 2 > MaxLength
           now == upset \cup {"expired"}
                        \cup (IF misframed THEN {"misframed"} ELSE {})
       IN  /\ upset' = now
           /\ OutDisconnect("age", bytes + AgePadding + 1, now)
    /\ Goto("connect")
    /\ UNCHANGED <<phase, aged, padOnly, ret, taken, stream>>

CloseAgedFails ==
    /\ At("request", "age") /\ Expired
    /\ broken \/ CanFail
    /\ \E k \in 0..(IF broken THEN 0 ELSE AgePadding) : bytes' = bytes + k
    /\ broken' = TRUE
    /\ upset' = upset \cup {"failed", "expired"}
    /\ Return(-1)
    /\ UNCHANGED <<phase, up, aged, padOnly, closed, taken, stream>>

StillConnected ==
    /\ At("request", "connect") /\ up
    /\ Goto("write")
    /\ UNCHANGED <<phase, conn, ret, history>>

Reconnect ==
    /\ At("request", "connect") /\ ~up
    /\ \/ /\ Connected
          /\ padOnly' = (padOnly \/ IsClient)
          /\ upset' = upset \cup Swapped
          /\ Goto("write") /\ UNCHANGED ret
       \/ /\ Refused \/ HeaderLost
          /\ upset' = upset \cup {"failed"}
          /\ Return(-1) /\ UNCHANGED padOnly
       \/ /\ ~IsClient /\ Refused       \* tunnel_accept returned 0
          /\ upset' = upset \cup {"failed"}
          /\ Goto("write") /\ UNCHANGED <<ret, padOnly>>
    /\ UNCHANGED <<phase, closed, taken, stream>>

\* The request is on the wire: end the body if that was its last byte.
EndRequest(total) ==
    /\ Return(0)
    /\ taken' = taken + (IF Top.req = "DATA" THEN Top.len ELSE 0)
    /\ stream' = IF Top.req = "DATA" /\ stream = "cut" THEN "gapped"
                                                      ELSE stream
    /\ IF total < ContentLength
         THEN bytes' = total /\ UNCHANGED <<up, broken, closed, upset>>
         ELSE \/ OutDisconnect("full", total + 1, upset)
                 /\ UNCHANGED upset
              \/ /\ CanFail
                 /\ upset' = upset \cup {"failed"}
                 /\ OutDisconnect("torn", total, upset')

RequestByteSent ==
    IF HasData(Top.req)
      THEN /\ bytes' = bytes + 1
           /\ Goto("payload")
           /\ UNCHANGED <<up, broken, ret, history>>
      ELSE EndRequest(bytes + 1)

PadOnlyNow == padOnly /\ Top.req \in {"PADDING", "PAD1"}

WriteRequest ==
    /\ At("request", "write") /\ up /\ ~broken
    /\ padOnly' = PadOnlyNow
    /\ RequestByteSent
    /\ UNCHANGED <<phase, aged>>

\* Any error but EPIPE; EBADF if tunnel_accept returned without a socket.
WriteRequestFails ==
    /\ At("request", "write") /\ CanFail /\ ~broken
    /\ padOnly' = PadOnlyNow
    /\ broken' = up
    /\ upset' = upset \cup {"failed"}
    /\ Return(-1)
    /\ UNCHANGED <<phase, up, bytes, aged, closed, taken, stream>>

\* EPIPE: a client opens a new connection, whatever comes of that.
WriteRequestEPIPE ==
    /\ At("request", "write") /\ up /\ CanFail
    /\ closed' = [why |-> "torn", total |-> bytes, upset |-> upset]
    /\ upset' = upset \cup {"failed"} \cup Swapped
    /\ \/ /\ IsClient /\ Connected
          /\ padOnly' = TRUE
          /\ Goto("rewrite") /\ UNCHANGED ret
       \/ /\ IsClient /\ (HeaderLost \/ Refused)
          /\ padOnly' = PadOnlyNow
          /\ Goto("rewrite") /\ UNCHANGED ret
       \/ /\ ~IsClient /\ Refused
          /\ padOnly' = PadOnlyNow
          /\ Return(-1)
    /\ UNCHANGED <<phase, taken, stream>>

RewriteRequest ==
    /\ At("request", "rewrite") /\ up /\ ~broken
    /\ RequestByteSent
    /\ UNCHANGED <<phase, aged, padOnly>>

RewriteRequestFails ==
    /\ At("request", "rewrite") /\ CanFail
    /\ broken' = up
    /\ upset' = upset \cup {"failed"}
    /\ Return(-1)
    /\ UNCHANGED <<phase, up, bytes, aged, padOnly, closed, taken, stream>>

WritePayload ==
    /\ At("request", "payload")
    /\ EndRequest(bytes + 2 + Top.len)
    /\ UNCHANGED <<phase, aged, padOnly>>

\* The length, or the data after it, cannot be written.
WritePayloadFails ==
    /\ At("request", "payload") /\ CanFail
    /\ bytes' \in {bytes, bytes + 2}
    /\ broken' = TRUE
    /\ upset' = upset \cup {"failed"}
    /\ Return(-1)
    /\ UNCHANGED <<phase, up, aged, padOnly, closed, taken, stream>>

-----------------------------------------------------------------------------
(***************************************************************************)
(* tunnel_write_or_padding and tunnel_padding.                             *)
(***************************************************************************)
\* Mutant: a chunk is never cut to the room that is left.
FittingChunkUncut(left) ==
    IF left > ContentLength - Header THEN ContentLength - Header ELSE left

\* The chunk that fits, before the cap of Length.
FittingChunk(left) ==
    IF Wrap(bytes + left) > ContentLength - Header
       /\ ContentLength - bytes > Header
      THEN ContentLength - Header - bytes
      ELSE IF left > ContentLength - Header THEN ContentLength - Header
                                            ELSE left

Chunk(req, left) ==
    LET n == IF FittingChunk(left) > MaxLength THEN MaxLength
                                               ELSE FittingChunk(left)
    IN  IF req = "PADDING" /\ n + Header > left THEN Wrap(left - Header)
                                                ELSE n

NextChunk ==
    /\ At("loop", "test") /\ Top.left > 0
    /\ LET n == Chunk(Top.req, Top.left)
           eaten == IF Top.req = "PADDING" THEN Wrap(n + Header) ELSE n
       IN  /\ Call([Top EXCEPT !.n = eaten, !.pc = "called"],
                   Request(Top.req, AsLength(n)))
           /\ upset' = IF n > MaxLength THEN upset \cup {"wrapped"} ELSE upset
    /\ UNCHANGED <<phase, conn, ret, closed, taken, stream>>

\* Mutant: what could not be written counts as written.
ChunkDoneCountsAll ==
    /\ At("loop", "called")
    /\ IF ret = -1
         THEN Return(Top.len - Wrap(Top.left - Top.n))
         ELSE /\ stack' = <<[Top EXCEPT !.left = Wrap(@ - Top.n),
                                        !.pc = "test"]>> \o Tail(stack)
              /\ UNCHANGED ret
    /\ UNCHANGED <<phase, conn, history>>

\* Mutant: a chunk that could not be written is tried again.
ChunkDoneRetries ==
    /\ At("loop", "called")
    /\ stack' = <<[Top EXCEPT !.left = IF ret = -1 THEN @ ELSE Wrap(@ - Top.n),
                              !.pc = "test"]>> \o Tail(stack)
    /\ UNCHANGED <<phase, conn, ret, history>>

ChunkDone ==
    /\ At("loop", "called")
    /\ IF ret = -1
         THEN Return(Top.len - Top.left)
         ELSE /\ stack' = <<[Top EXCEPT !.left = Wrap(@ - Top.n),
                                        !.pc = "test"]>> \o Tail(stack)
              /\ UNCHANGED ret
    /\ UNCHANGED <<phase, conn, history>>

LoopDone ==
    /\ At("loop", "test") /\ Top.left = 0
    /\ Return(Top.len)
    /\ UNCHANGED <<phase, conn, history>>

\* The result of the request is not looked at.
NextPad1 ==
    /\ At("pad1s", "test") /\ Top.left > 0
    /\ Call([Top EXCEPT !.left = @ - 1], Request("PAD1", 0))
    /\ UNCHANGED <<phase, conn, ret, history>>

Pad1sDone ==
    /\ At("pad1s", "test") /\ Top.left = 0
    /\ Return(Top.len)
    /\ UNCHANGED <<phase, conn, history>>

-----------------------------------------------------------------------------
(***************************************************************************)
(* The top-level operations: what the main loops of htc and hts do.        *)
(***************************************************************************)
\* htc: tunnel_connect writes TUNNEL_OPEN with one byte of data.
TunnelConnect ==
    /\ IsClient /\ phase = "new" /\ stack = <<>>
    /\ phase' = "connecting"
    /\ Start(<<Request("OPEN", 1), Frame("connect", "none", 0, "done")>>)

\* tunnel_in_connect follows; if either fails htc exits.
TunnelConnectDone ==
    /\ At("connect", "done")
    /\ Finish
    /\ \/ ret # -1 /\ phase' = "open"
       \/ (ret = -1 \/ CanFail) /\ phase' = "exited"
    /\ UNCHANGED <<conn, closed, stream>>

\* hts: tunnel_accept at the head of the main loop; it may return 0 without
\* a connection, if a peer closes before it sends its request.
TunnelAccept ==
    /\ ~IsClient /\ phase = "new" /\ stack = <<>>
    /\ phase' = "open"
    /\ Connected \/ Refused
    /\ UNCHANGED <<padOnly, stack, ret, history>>

\* hts: tunnel_read calls tunnel_accept when a direction is down.  It can
\* bring the output up, or give up and take the output down.
TunnelReadAccept ==
    /\ ~IsClient /\ phase \in {"open", "closing"} /\ stack = <<>>
    /\ \/ ~up /\ Connected /\ UNCHANGED closed
       \/ /\ up /\ CanFail
          /\ OutDisconnect("accept", bytes, upset)
          /\ UNCHANGED aged
    /\ UNCHANGED <<phase, padOnly, stack, ret, upset, taken, stream>>

\* handle_device_input: tunnel_write of what was read.
DeviceInput ==
    /\ Idle /\ UNCHANGED phase
    /\ \E n \in Inputs :
         Start(<<Loop("DATA", n), Frame("device", "none", n, "done")>>)

\* A result of 0 ends the main loop, see handle_input.
DeviceInputDone ==
    /\ At("device", "done")
    /\ phase' = IF ret = 0 THEN "closing" ELSE phase
    /\ stream' = IF ret < Top.len /\ stream = "whole" THEN "cut" ELSE stream
    /\ Finish
    /\ UNCHANGED <<conn, closed>>

\* The main loop times out: tunnel_padding (tunnel, 1).
KeepAlive ==
    /\ Idle /\ UNCHANGED phase
    /\ Start(<<Padding(1), Frame("keepalive", "none", 1, "done")>>)

\* Mutant: pads by the bytes beyond the block, not by those missing.
MaybePadBeyond ==
    /\ IsClient /\ Idle /\ up /\ ~padOnly /\ UNCHANGED phase
    /\ \E b \in Blocks :
         /\ bytes % b # 0
         /\ LET pad == bytes % b
                room == Wrap(ContentLength - bytes)
            IN  Start(<<Padding(IF pad > room THEN room ELSE pad),
                        Frame("maybepad", "none", b, "done")>>)

\* htc with a proxy buffer: tunnel_maybe_pad.
MaybePad ==
    /\ IsClient /\ Idle /\ up /\ ~padOnly /\ UNCHANGED phase
    /\ \E b \in Blocks :
         /\ bytes % b # 0
         /\ LET pad == b - (bytes % b)
                room == Wrap(ContentLength - bytes)
            IN  Start(<<Padding(IF pad > room THEN room ELSE pad),
                        Frame("maybepad", "none", b, "done")>>)

PaddingDone ==
    /\ At("keepalive", "done") \/ At("maybepad", "done")
    /\ Finish
    /\ UNCHANGED <<phase, conn, closed, stream>>

\* tunnel_close, after the peer or the device has closed, or an error.
TunnelClose ==
    /\ phase \in {"open", "closing"} /\ stack = <<>>
    /\ Start(<<Frame("close", "none", 0, "pad")>>)
    /\ UNCHANGED phase

\* Mutant: leaves room for TUNNEL_DISCONNECT a second time.
ClosePaddingShort ==
    /\ At("close", "pad")
    /\ IF Strict
         THEN Call([Top EXCEPT !.pc = "request"],
                   Padding(Wrap(ContentLength - bytes - 2)))
         ELSE Goto("request")
    /\ UNCHANGED <<phase, conn, ret, history>>

ClosePadding ==
    /\ At("close", "pad")
    /\ IF Strict
         THEN Call([Top EXCEPT !.pc = "request"],
                   Padding(Wrap(ContentLength - bytes - 1)))
         ELSE Goto("request")
    /\ upset' = IF Strict /\ bytes >= ContentLength
                  THEN upset \cup {"wrapped"} ELSE upset
    /\ UNCHANGED <<phase, conn, ret, closed, taken, stream>>

CloseRequest ==
    /\ At("close", "request")
    /\ Call([Top EXCEPT !.pc = "disconnect"], Request("CLOSE", 0))
    /\ UNCHANGED <<phase, conn, ret, history>>

\* hts keeps the tunnel for the next client, htc allocates another.
NewTunnel ==
    /\ phase' = "new"
    /\ stream' = "whole" /\ upset' = {}
    /\ IF IsClient THEN aged' \in BOOLEAN /\ padOnly' \in BOOLEAN
                   ELSE UNCHANGED <<aged, padOnly>>

CloseDisconnect ==
    /\ At("close", "disconnect")
    /\ stack' = <<>> /\ ret' = 0 /\ taken' = 0
    /\ IF up THEN OutDisconnect(IF broken THEN "torn" ELSE "close", bytes, upset)
             ELSE UNCHANGED <<up, broken, bytes, closed>>
    /\ NewTunnel

\* htc: tunnel_destroy closes nothing if both directions are down already.
DestroyDown ==
    /\ IsClient /\ phase \in {"open", "closing"} /\ stack = <<>> /\ ~up
    /\ NewTunnel
    /\ UNCHANGED <<up, broken, bytes, stack, ret, closed, taken>>

\* Time passes: the connection outlives max_connection_age.
GrowOld ==
    /\ CanExpire /\ IsClient /\ up /\ ~aged
    /\ aged' = TRUE
    /\ UNCHANGED <<phase, up, broken, bytes, padOnly, stack, ret, history>>

-----------------------------------------------------------------------------
RequestStep ==
    \/ CheckBudget \/ StillYoung \/ CloseAged \/ CloseAgedFails
    \/ StillConnected \/ Reconnect
    \/ WriteRequest \/ WriteRequestFails \/ WriteRequestEPIPE
    \/ RewriteRequest \/ RewriteRequestFails
    \/ WritePayload \/ WritePayloadFails

LoopStep == NextChunk \/ ChunkDone \/ LoopDone \/ NextPad1 \/ Pad1sDone

OperationStep ==
    \/ TunnelConnectDone \/ DeviceInputDone \/ PaddingDone
    \/ ClosePadding \/ CloseRequest \/ CloseDisconnect

Begin ==
    \/ TunnelConnect \/ TunnelAccept \/ TunnelReadAccept
    \/ DeviceInput \/ KeepAlive \/ MaybePad \/ TunnelClose \/ DestroyDown

Running == RequestStep \/ LoopStep \/ OperationStep

Next == Running \/ Begin \/ GrowOld

Spec == Init /\ [][Next]_vars

\* hts is in tunnel_accept, which waits for htc, without a timeout if its input
\* is down too.
AcceptWaits == ~IsClient /\ At("request", "connect") /\ ~up

\* The thread runs: a call in progress takes its next step, unless it waits for
\* a connection that htc may never open.
FairSpec == Spec /\ WF_vars(Running /\ ~AcceptWaits)
-----------------------------------------------------------------------------
(***************************************************************************)
(* Properties.                                                             *)
(***************************************************************************)
Phases == {"new", "connecting", "open", "closing", "exited"}

\* Every variable has its type, and out_fd = -1 has no broken connection
\* behind it and no bytes counted.
TypeOK ==
    /\ phase \in Phases
    /\ up \in BOOLEAN /\ broken \in BOOLEAN
    /\ aged \in BOOLEAN /\ padOnly \in BOOLEAN
    /\ bytes \in Nat
    /\ ~up => bytes = 0 /\ ~broken
    /\ stack \in Seq(Frames)
    /\ ret \in Int
    /\ closed \in Endings
    /\ upset \subseteq Upsets
    /\ taken \in Nat
    /\ stream \in {"whole", "cut", "gapped"}

\* A body that was ended because it was full has the announced length,
\* ContentLength + 1, unless its connection took the place of another in the
\* middle of the padding that was to fill the other one (tunnel_write_request
\* measured the room on the old connection and writes to the new one).
FullIsExact ==
    closed.why = "full" /\ {"swapped", "wrapped"} \cap closed.upset = {}
      => closed.total = ContentLength + 1

\* Even then a body exceeds the announced length by 3 bytes at most: only a
\* remainder too short for a header is filled before a request is written.
OvershootBounded ==
    closed.why # "age" /\ "wrapped" \notin closed.upset
      => closed.total <= ContentLength + 1 + Header

\* tunnel_write returns the number of data bytes that are in whole DATA
\* requests, whatever failed or was reopened on the way: handle_device_input
\* decides by it whether the tunnel is closed.
WriteCountExact ==
    At("device", "done") => ret = taken

\* After tunnel_maybe_pad the body ends on a block of the proxy's buffer, so
\* the proxy passes on what it holds; or it is full and complete.
PadAligned ==
    At("maybepad", "done") /\ upset = {} /\ ~broken => bytes % Top.len = 0

\* With --strict-content-length, tunnel_close ends a body that is not full
\* only if a write failed or a size was misjudged on the way.
StrictCloseFills ==
    Strict /\ closed.why = "close" => closed.upset # {}

\* An operation that has begun ends: neither loop of tunnel_padding and
\* tunnel_write_or_padding spins, whatever fails under it.  Only hts may wait
\* for ever, in one call of tunnel_accept.
OperationEnds == (stack # <<>>) ~> (stack = <<>> \/ []AcceptWaits)

\* htc --help: "always write Content-Length bytes in requests".
StrictLength ==
    Strict /\ closed.upset \subseteq {"expired"}
        /\ closed.why \in {"full", "age", "close"}
      => closed.total = ContentLength + 1

\* HACKING: the length field of PADDING is the length of the padding.
Framed == "misframed" \notin upset

\* tunnel.h: "Watch out for return values less than LENGTH".  Nothing that
\* was read from the device is skipped while later data is sent.
NoGap == stream # "gapped"
=============================================================================
