----------------------------- MODULE HttpTunnel -----------------------------
(***************************************************************************)
(* htc, hts and the TCP connections between them.  htc opens every         *)
(* connection: a POST, whose body carries requests to hts, and a GET,      *)
(* whose answer carries requests to htc.  A body that has reached its      *)
(* Content-Length is ended by TUNNEL_DISCONNECT and another connection     *)
(* takes its place.  hts finds new connections in the queue of one server  *)
(* socket, which it looks at only while one of its directions is down.     *)
(*                                                                         *)
(* Each end is one thread: a step is a stretch of code between two places  *)
(* where it may block (poll, connect, the wait for an answer, a write to a *)
(* full socket).  How a body is cut to its length is the subject of        *)
(* TunnelOut; here a body may end after any request, and a chunk of data   *)
(* is one request.                                                         *)
(*                                                                         *)
(* What can fail is the opening of a connection: connect, the header of a  *)
(* request, the answer to a GET.  A connection that has been opened is     *)
(* lost only because an end closes it.                                     *)
(***************************************************************************)
EXTENDS Naturals, Sequences

CONSTANTS
    MaxItems,   \* bound: how many chunks the device of each end sends
    Sessions,   \* bound: how many tunnels each end opens
    NConns,     \* bound: connections at a time; large enough not to matter
    Capacity,   \* the requests that fit in the socket buffers of a connection
    Backlog,    \* the backlog of the server socket, 1 in the code
    EndChoices, \* each set of ends whose bodies may reach their Content-Length
    Ages,       \* do POSTs reach max_connection_age?
    Hangups,    \* the ends whose device may close, or fail to be written
    KeepAlives, \* the ends that write padding when nothing happens
    Timeouts,   \* may tunnel_accept wait for longer than ACCEPT_TIMEOUT?
    Faults      \* bound: how many connections cannot be opened

End == {"htc", "hts"}
Peer(e) == IF e = "htc" THEN "hts" ELSE "htc"

Conns == 1..NConns
None == 0                  \* a descriptor of -1

ASSUME HttpTunnelAssumption ==
    /\ MaxItems \in [End -> Nat]
    /\ {Sessions, NConns, Capacity, Backlog} \subseteq Nat \ {0}
    /\ EndChoices \subseteq SUBSET End /\ Hangups \subseteq End /\ KeepAlives \subseteq End
    /\ Ages \in BOOLEAN /\ Timeouts \in BOOLEAN /\ Faults \in Nat

VARIABLES
    ends,     \* the ends whose bodies reach their Content-Length
    conn,     \* the TCP connections
    queue,    \* the connections waiting at the server socket
    pc,       \* where each end stands
    call,     \* the request being written, and where the end goes on then
    out,      \* tunnel->out_fd
    in,       \* tunnel->in_fd
    closed,   \* "no", or why the main loop ends
    session,  \* the number of tunnels that each end has opened
    sent,     \* history: the chunks read from each device, this session
    got,      \* history: the chunks written to each device, this session
    opened,   \* history: has hts read TUNNEL_OPEN, this session?
    rejected, \* history: has hts refused a connection?
    faults    \* history: how many connections could not be opened

net == <<conn, queue>>
fds == <<out, in>>
control == <<pc, call, closed>>
history == <<ends, session, sent, got, opened, rejected, faults>>
vars == <<net, fds, control, history>>

Msgs == [req : {"200", "OPEN", "DATA", "PAD", "CLOSE", "DISCONNECT"},
         session : 0..Sessions, n : Nat]
Msg(req) == [req |-> req, session |-> 0, n |-> 0]
NoCall == [msg |-> Msg("PAD"), next |-> "poll"]

\* wire: what is under way; reset: it cannot be used any more, because it
\* could not be opened or because a write has met a closed reader.
Connections ==
    [kind : {"none", "POST", "GET"}, wire : Seq(Msgs),
     writer : BOOLEAN, reader : BOOLEAN, reset : BOOLEAN]
NoConn ==
    [kind |-> "none", wire |-> <<>>,
     writer |-> FALSE, reader |-> FALSE, reset |-> FALSE]
NewConn(kind) == [NoConn EXCEPT !.kind = kind, !.writer = TRUE, !.reader = TRUE]
DeadConn(kind) == [NewConn(kind) EXCEPT !.reset = TRUE]

-----------------------------------------------------------------------------
(***************************************************************************)
(* Sockets.  Each operator is the connections after a system call.         *)
(***************************************************************************)
Free == {c \in Conns : conn[c].kind = "none"}
FirstFree == CHOOSE c \in Free : \A d \in Free : c <= d

\* connect does not return before there is room in the queue.
CanConnect == Free # {} /\ Len(queue) <= Backlog

Break(cs, c) == [cs EXCEPT ![c].reset = TRUE, ![c].wire = <<>>]
Write(cs, c, m) == [cs EXCEPT ![c].wire = Append(@, m)]
Consume(cs, c) == [cs EXCEPT ![c].wire = Tail(@)]

CloseWriter(cs, c) ==
    [cs EXCEPT ![c] = IF cs[c].reader THEN [@ EXCEPT !.writer = FALSE] ELSE NoConn]
CloseReader(cs, c) ==
    [cs EXCEPT ![c] = IF cs[c].writer
                        THEN [@ EXCEPT !.reader = FALSE, !.wire = <<>>] ELSE NoConn]
CloseOut(cs, c) == IF c = None THEN cs ELSE CloseWriter(cs, c)
CloseIn(cs, c) == IF c = None THEN cs ELSE CloseReader(cs, c)

Goto(e, l) == pc' = [pc EXCEPT ![e] = l]
SetOut(e, c) == out' = [out EXCEPT ![e] = c]
SetIn(e, c) == in' = [in EXCEPT ![e] = c]
Close(e, why) ==
    closed' = [closed EXCEPT ![e] = IF @ = "no" THEN why ELSE @]

-----------------------------------------------------------------------------
Init ==
    /\ conn = [c \in Conns |-> NoConn] /\ queue = <<>>
    /\ pc = [e \in End |-> IF e = "htc" THEN "idle" ELSE "accept"]
    /\ call = [e \in End |-> NoCall]
    /\ out = [e \in End |-> None] /\ in = [e \in End |-> None]
    /\ closed = [e \in End |-> "no"]
    /\ session = [e \in End |-> 0]
    /\ sent = [e \in End |-> 0] /\ got = [e \in End |-> <<>>]
    /\ opened = FALSE /\ rejected = FALSE /\ faults = 0
    /\ ends \in EndChoices

BeginSession(e) ==
    /\ session' = [session EXCEPT ![e] = @ + 1]
    /\ sent' = [sent EXCEPT ![e] = 0] /\ got' = [got EXCEPT ![e] = <<>>]
    /\ closed' = [closed EXCEPT ![e] = "no"]
    /\ opened' = (opened /\ e = "htc")
    /\ UNCHANGED <<ends, rejected, faults>>

\* A connection cannot be opened.
Fault ==
    /\ faults < Faults /\ faults' = faults + 1
    /\ UNCHANGED <<ends, session, sent, got, opened, rejected>>

\* A call of tunnel_write_request, and its return.
Request(e, m, next) ==
    /\ Goto(e, "write")
    /\ call' = [call EXCEPT ![e] = [msg |-> m, next |-> next]]
Return(e, next) ==
    /\ Goto(e, next)
    /\ call' = [call EXCEPT ![e] = NoCall]

-----------------------------------------------------------------------------
(***************************************************************************)
(* tunnel_write_request.                                                   *)
(***************************************************************************)
\* "send": the age of the connection has been looked at; "resend": the
\* second and last attempt to write the request.
Writing(e) == pc[e] \in {"write", "send", "resend"}

\* A failure of tunnel_write closes the tunnel, one of tunnel_connect ends
\* htc, one in tunnel_padding or tunnel_close is not looked at.
RequestFails(e) ==
    /\ IF call[e].msg.req = "DATA" THEN Close(e, "error") ELSE UNCHANGED closed
    /\ Return(e, IF call[e].msg.req = "OPEN" THEN "exit" ELSE call[e].next)

CloseAged ==
    /\ pc["htc"] = "write" /\ Ages /\ out["htc"] # None
    /\ LET c == out["htc"]
       IN  \/ /\ conn[c].reader /\ ~conn[c].reset /\ Len(conn[c].wire) < Capacity
              /\ conn' = CloseWriter(Write(conn, c, Msg("DISCONNECT")), c)
           \/ /\ ~conn[c].reader /\ ~conn[c].reset
              /\ conn' = CloseWriter(conn, c)
    /\ SetOut("htc", None)
    /\ UNCHANGED <<queue, in, control, history>>

\* TUNNEL_DISCONNECT cannot be written, and out_fd stays.
CloseAgedFails ==
    /\ pc["htc"] = "write" /\ Ages /\ out["htc"] # None
    /\ ~conn[out["htc"]].reader \/ conn[out["htc"]].reset
    /\ RequestFails("htc")
    /\ UNCHANGED <<net, fds, history>>

Unconnected == pc["htc"] \in {"write", "resend"} /\ out["htc"] = None

OutConnect ==
    /\ Unconnected /\ CanConnect
    /\ conn' = [conn EXCEPT ![FirstFree] = NewConn("POST")]
    /\ queue' = Append(queue, FirstFree)
    /\ SetOut("htc", FirstFree)
    /\ Goto("htc", IF pc["htc"] = "write" THEN "send" ELSE "resend")
    /\ UNCHANGED <<in, call, closed, history>>

\* do_connect fails.  (At "resend" the request is written to no socket.)
OutConnectFails ==
    /\ Unconnected
    /\ RequestFails("htc")
    /\ Fault
    /\ UNCHANGED <<net, fds>>

\* http_post fails: out_fd stays, and tunnel_accept will find the connection.
PostFails ==
    /\ Unconnected /\ CanConnect
    /\ conn' = [conn EXCEPT ![FirstFree] = DeadConn("POST")]
    /\ queue' = Append(queue, FirstFree)
    /\ SetOut("htc", FirstFree)
    /\ RequestFails("htc")
    /\ Fault
    /\ UNCHANGED in

OutAccept ==
    /\ pc["hts"] = "write" /\ out["hts"] = None
    /\ Goto("hts", "acceptWrite")
    /\ UNCHANGED <<net, fds, call, closed, history>>

\* Mutant: the end of a body is written before the request that reaches it.
WriteRequestEndsFirst(e) ==
    /\ Writing(e) /\ out[e] # None
    /\ conn[out[e]].reader /\ ~conn[out[e]].reset
    /\ Len(conn[out[e]].wire) < Capacity
    /\ \/ conn' = Write(conn, out[e], call[e].msg) /\ UNCHANGED out
       \/ /\ e \in ends
          /\ conn' = CloseWriter(Write(Write(conn, out[e], Msg("DISCONNECT")),
                                      out[e], call[e].msg), out[e])
          /\ SetOut(e, None)
    /\ Return(e, call[e].next)
    /\ UNCHANGED <<queue, in, closed, history>>

\* Mutant: a request that reaches the end of a body is written again.
WriteRequestTwice(e) ==
    /\ Writing(e) /\ out[e] # None
    /\ conn[out[e]].reader /\ ~conn[out[e]].reset
    /\ Len(conn[out[e]].wire) < Capacity
    /\ \/ /\ conn' = Write(conn, out[e], call[e].msg) /\ UNCHANGED out
          /\ Return(e, call[e].next)
       \/ /\ e \in ends
          /\ conn' = CloseWriter(Write(conn, out[e], call[e].msg), out[e])
          /\ SetOut(e, None) /\ Goto(e, "resend") /\ UNCHANGED call
    /\ UNCHANGED <<queue, in, closed, history>>

\* A body that reaches its length is ended.
WriteRequest(e) ==
    /\ Writing(e) /\ out[e] # None
    /\ LET c == out[e]
           written == Write(conn, c, call[e].msg)
       IN  /\ conn[c].reader /\ ~conn[c].reset /\ Len(conn[c].wire) < Capacity
           /\ \/ conn' = written /\ UNCHANGED out
              \/ /\ e \in ends
                 /\ conn' = CloseWriter(Write(written, c, Msg("DISCONNECT")), c)
                 /\ SetOut(e, None)
    /\ Return(e, call[e].next)
    /\ UNCHANGED <<queue, in, closed, history>>

\* The reader has closed, and TCP has not yet heard of it.
WriteLost(e) ==
    /\ Writing(e) /\ out[e] # None
    /\ ~conn[out[e]].reader /\ ~conn[out[e]].reset
    /\ \/ conn' = [conn EXCEPT ![out[e]].reset = TRUE] /\ UNCHANGED out
       \/ e \in ends /\ conn' = CloseWriter(conn, out[e]) /\ SetOut(e, None)
    /\ Return(e, call[e].next)
    /\ UNCHANGED <<queue, in, closed, history>>

\* A write to out_fd fails.
Lost(e) == out[e] # None /\ (~conn[out[e]].reader \/ conn[out[e]].reset)

\* EPIPE: htc connects and writes again, hts gives up.
WriteEPIPE(e) ==
    /\ Writing(e) /\ pc[e] # "resend" /\ Lost(e)
    /\ conn' = CloseWriter(conn, out[e]) /\ SetOut(e, None)
    /\ IF e = "htc"
         THEN Goto(e, "resend") /\ UNCHANGED <<call, closed>>
         ELSE RequestFails(e)
    /\ UNCHANGED <<queue, in, history>>

\* ECONNRESET; or EBADF, if tunnel_accept has returned without a connection.
WriteFails(e) ==
    /\ Writing(e)
    /\ \/ Lost(e)
       \/ e = "hts" /\ pc[e] = "send" /\ out[e] = None
    /\ RequestFails(e)
    /\ UNCHANGED <<net, fds, history>>

-----------------------------------------------------------------------------
(***************************************************************************)
(* tunnel_accept, called by the main loop of hts ("accept"), by            *)
(* tunnel_read while the input ("acceptIn") or the output ("acceptOut") is *)
(* down, and by tunnel_write_request ("acceptWrite").                      *)
(***************************************************************************)
Accepting == pc["hts"] \in {"accept", "acceptIn", "acceptOut", "acceptWrite"}
Established == in["hts"] # None /\ out["hts"] # None

\* Mutant: the loop goes on while connections wait.
AcceptPostEager ==
    /\ Accepting /\ queue # <<>>
    /\ conn[Head(queue)].kind = "POST" /\ ~conn[Head(queue)].reset
    /\ queue' = Tail(queue)
    /\ IF in["hts"] = None
         THEN SetIn("hts", Head(queue)) /\ UNCHANGED <<conn, rejected>>
         ELSE /\ conn' = CloseReader(conn, Head(queue))
              /\ rejected' = TRUE /\ UNCHANGED in
    /\ UNCHANGED <<out, control, ends, session, sent, got, opened, faults>>

AcceptPost ==
    /\ Accepting /\ ~Established /\ queue # <<>>
    /\ conn[Head(queue)].kind = "POST" /\ ~conn[Head(queue)].reset
    /\ queue' = Tail(queue)
    /\ IF in["hts"] = None
         THEN SetIn("hts", Head(queue)) /\ UNCHANGED <<conn, rejected>>
         ELSE /\ conn' = CloseReader(conn, Head(queue))
              /\ rejected' = TRUE /\ UNCHANGED in
    /\ UNCHANGED <<out, control, ends, session, sent, got, opened, faults>>

AcceptGet ==
    /\ Accepting /\ ~Established /\ queue # <<>>
    /\ conn[Head(queue)].kind = "GET" /\ ~conn[Head(queue)].reset
    /\ queue' = Tail(queue)
    /\ IF out["hts"] = None
         THEN /\ conn' = Write(conn, Head(queue), Msg("200"))
              /\ SetOut("hts", Head(queue)) /\ UNCHANGED rejected
         ELSE /\ conn' = CloseWriter(conn, Head(queue))
              /\ rejected' = TRUE /\ UNCHANGED out
    /\ UNCHANGED <<in, control, ends, session, sent, got, opened, faults>>

\* The header of the answer cannot be written, and the loop goes on.  htc meets
\* the end of the connection or an error.
AnswerGetFails ==
    /\ Accepting /\ out["hts"] = None /\ queue # <<>>
    /\ conn[Head(queue)].kind = "GET" /\ ~conn[Head(queue)].reset
    /\ queue' = Tail(queue)
    /\ \E cs \in {conn, Break(conn, Head(queue))} : conn' = CloseWriter(cs, Head(queue))
    /\ Fault
    /\ UNCHANGED <<fds, control>>

AcceptReturns ==
    /\ Accepting /\ Established
    /\ IF pc["hts"] = "accept"
         THEN session["hts"] < Sessions /\ BeginSession("hts")
         ELSE UNCHANGED <<closed, history>>
    /\ Goto("hts", IF pc["hts"] = "acceptWrite" THEN "send" ELSE "poll")
    /\ UNCHANGED <<net, fds, call>>

\* http_parse_request meets the end of the connection (the result is 0) or an
\* error (-1).  The socket is left to leak.
AcceptFails ==
    /\ Accepting /\ ~Established /\ queue # <<>> /\ conn[Head(queue)].reset
    /\ queue' = Tail(queue)
    /\ conn' = IF conn[Head(queue)].kind = "POST" THEN CloseReader(conn, Head(queue))
                                                  ELSE CloseWriter(conn, Head(queue))
    /\ \E m \in {"0", "-1"} :
         CASE pc["hts"] = "accept" /\ m = "0" ->
                /\ session["hts"] < Sessions /\ BeginSession("hts")
                /\ Goto("hts", "poll") /\ UNCHANGED call
           [] pc["hts"] = "accept" /\ m = "-1" ->
                UNCHANGED <<control, history>>
           [] pc["hts"] = "acceptWrite" /\ m = "0" ->
                Goto("hts", "send") /\ UNCHANGED <<call, closed, history>>
           [] pc["hts"] = "acceptWrite" /\ m = "-1" ->
                RequestFails("hts") /\ UNCHANGED history
           [] pc["hts"] = "acceptIn" /\ m = "-1" ->
                /\ Close("hts", "error") /\ Goto("hts", "poll")
                /\ UNCHANGED <<call, history>>
           [] OTHER ->
                Goto("hts", "poll") /\ UNCHANGED <<call, closed, history>>
    /\ UNCHANGED fds

\* Mutant: the descriptor that is closed is not forgotten.
AcceptTimeoutKeepsFd ==
    /\ Accepting /\ Timeouts /\ queue = <<>>
    /\ ~Established /\ in["hts"] # None
    /\ conn' = CloseIn(conn, in["hts"])
    /\ UNCHANGED <<queue, fds, control, history>>

\* The input is down and tunnel_read returns -1 with whatever errno is left.
AcceptTimeout ==
    /\ Accepting /\ Timeouts /\ queue = <<>>
    /\ ~Established /\ (in["hts"] # None \/ out["hts"] # None)
    /\ conn' = CloseOut(CloseIn(conn, in["hts"]), out["hts"])
    /\ SetIn("hts", None) /\ SetOut("hts", None)
    /\ UNCHANGED queue
    /\ CASE pc["hts"] = "accept"      -> UNCHANGED <<control, history>>
         [] pc["hts"] = "acceptWrite" -> RequestFails("hts") /\ UNCHANGED history
         [] pc["hts"] = "acceptOut"   ->
              Goto("hts", "poll") /\ UNCHANGED <<call, closed, history>>
         [] pc["hts"] = "acceptIn"    ->
              /\ Goto("hts", "poll")
              /\ Close("hts", "error") \/ UNCHANGED closed
              /\ UNCHANGED <<call, history>>

-----------------------------------------------------------------------------
(***************************************************************************)
(* The main loop.                                                          *)
(***************************************************************************)
\* htc: a local program connects; tunnel_connect writes TUNNEL_OPEN.
TunnelConnect ==
    /\ pc["htc"] = "idle" /\ session["htc"] < Sessions
    /\ BeginSession("htc")
    /\ Request("htc", Msg("OPEN"), "connect")
    /\ UNCHANGED <<net, fds>>

\* tunnel_in_connect, called by tunnel_connect or by tunnel_read.
Connecting == pc["htc"] \in {"connect", "reconnect"}
AwaitsAnswer == pc["htc"] \in {"response", "reresponse"}

InConnect ==
    /\ Connecting /\ CanConnect
    /\ conn' = [conn EXCEPT ![FirstFree] = NewConn("GET")]
    /\ queue' = Append(queue, FirstFree)
    /\ SetIn("htc", FirstFree)
    /\ Goto("htc", IF pc["htc"] = "connect" THEN "response" ELSE "reresponse")
    /\ UNCHANGED <<out, call, closed, history>>

\* tunnel_in_connect returns -1: htc exits before the tunnel is open, and
\* closes the tunnel afterwards.
InFails ==
    /\ UNCHANGED call
    /\ IF pc["htc"] \in {"connect", "response"}
         THEN Goto("htc", "exit") /\ UNCHANGED closed
         ELSE Goto("htc", "poll") /\ Close("htc", "error")

\* do_connect fails.
InConnectFails ==
    /\ Connecting
    /\ InFails
    /\ Fault
    /\ UNCHANGED <<net, fds>>

\* http_get fails: in_fd stays, and tunnel_accept will find the connection.
GetFails ==
    /\ Connecting /\ CanConnect
    /\ conn' = [conn EXCEPT ![FirstFree] = DeadConn("GET")]
    /\ queue' = Append(queue, FirstFree)
    /\ SetIn("htc", FirstFree)
    /\ InFails
    /\ Fault
    /\ UNCHANGED out

\* The connection breaks, or the answer to the GET is not what htc expects.
AnswerLost ==
    /\ AwaitsAnswer /\ ~conn[in["htc"]].reset
    /\ conn' = Break(conn, in["htc"])
    /\ Fault
    /\ UNCHANGED <<queue, fds, control>>

Answered ==
    /\ AwaitsAnswer /\ conn[in["htc"]].wire # <<>>
    /\ conn' = Consume(conn, in["htc"])
    /\ Goto("htc", "poll")
    /\ UNCHANGED <<queue, fds, call, closed, history>>

AnswerFails ==
    /\ AwaitsAnswer /\ conn[in["htc"]].reset
    /\ InFails
    /\ UNCHANGED <<net, fds, history>>

\* The connection ends before the answer: tunnel_in_connect returns 0.
NotAnswered ==
    /\ AwaitsAnswer /\ ~conn[in["htc"]].reset
    /\ conn[in["htc"]].wire = <<>> /\ ~conn[in["htc"]].writer
    /\ Goto("htc", IF pc["htc"] = "response" THEN "exit" ELSE "poll")
    /\ UNCHANGED <<net, fds, call, closed, history>>

\* htc exits, and the system closes its sockets.
Exit ==
    /\ pc["htc"] = "exit"
    /\ conn' = CloseOut(CloseIn(conn, in["htc"]), out["htc"])
    /\ SetIn("htc", None) /\ SetOut("htc", None)
    /\ Goto("htc", "exited")
    /\ Close("htc", "error")
    /\ UNCHANGED <<queue, call, history>>

\* tunnel_pollin_fd, and what poll says of that descriptor.
Readable(e) ==
    IF e = "hts" /\ ~Established THEN queue # <<>>
    ELSE in[e] # None /\ (conn[in[e]].wire # <<>> \/ ~conn[in[e]].writer)

Polling(e) == pc[e] = "poll" /\ closed[e] = "no"

\* handle_tunnel_input follows handle_device_input if poll has reported input
\* from the tunnel, whatever has happened to the tunnel since.
AfterDevice(e) == IF Readable(e) THEN "tunnel" ELSE "poll"

DeviceInput(e) ==
    /\ Polling(e) /\ sent[e] < MaxItems[e]
    /\ sent' = [sent EXCEPT ![e] = @ + 1]
    /\ Request(e, [req |-> "DATA", session |-> session[e], n |-> sent[e] + 1],
               AfterDevice(e))
    /\ UNCHANGED <<net, fds, closed, ends, session, got, opened, rejected, faults>>

DeviceCloses(e) ==
    /\ Polling(e) /\ e \in Hangups
    /\ Close(e, "device")
    /\ Goto(e, AfterDevice(e))
    /\ UNCHANGED <<net, fds, call, history>>

TunnelReady(e) ==
    /\ Polling(e) /\ Readable(e)
    /\ Goto(e, "tunnel")
    /\ UNCHANGED <<net, fds, call, closed, history>>

\* poll times out: tunnel_padding.  Bound: one padding under way at a time.
KeepAlive(e) ==
    /\ Polling(e) /\ ~Readable(e) /\ e \in KeepAlives
    /\ \A c \in Conns, i \in 1..Capacity :
         i <= Len(conn[c].wire) => conn[c].wire[i].req # "PAD"
    /\ Request(e, Msg("PAD"), "poll")
    /\ UNCHANGED <<net, fds, closed, history>>

-----------------------------------------------------------------------------
(***************************************************************************)
(* handle_tunnel_input and tunnel_read.                                    *)
(***************************************************************************)
ReadAccept ==
    /\ pc["hts"] = "tunnel" /\ ~Established
    /\ Goto("hts", IF in["hts"] = None THEN "acceptIn" ELSE "acceptOut")
    /\ UNCHANGED <<net, fds, call, closed, history>>

Reading(e) ==
    /\ pc[e] = "tunnel" /\ in[e] # None
    /\ e = "hts" => Established

\* The input of hts does not block.
ReadAgain ==
    /\ Reading("hts")
    /\ conn[in["hts"]].wire = <<>> /\ conn[in["hts"]].writer
    /\ Goto("hts", "poll")
    /\ UNCHANGED <<net, fds, call, closed, history>>

\* Mutant: htc does not open the connection that takes the place of this one.
ReadDisconnectOnly(e) ==
    /\ Reading(e)
    /\ LET c == conn[in[e]]
       IN  IF c.wire = <<>> THEN ~c.writer ELSE Head(c.wire).req = "DISCONNECT"
    /\ conn' = CloseReader(conn, in[e]) /\ SetIn(e, None)
    /\ Goto(e, "poll")
    /\ UNCHANGED <<queue, out, call, closed, history>>

\* TUNNEL_DISCONNECT, or the end of the body.
ReadDisconnect(e) ==
    /\ Reading(e)
    /\ LET c == conn[in[e]]
       IN  IF c.wire = <<>> THEN ~c.writer ELSE Head(c.wire).req = "DISCONNECT"
    /\ conn' = CloseReader(conn, in[e]) /\ SetIn(e, None)
    /\ Goto(e, IF e = "htc" THEN "reconnect" ELSE "poll")
    /\ UNCHANGED <<queue, out, call, closed, history>>

ReadRequest(e) ==
    /\ Reading(e) /\ conn[in[e]].wire # <<>>
    /\ LET m == Head(conn[in[e]].wire)
       IN  /\ m.req # "DISCONNECT"
           /\ got' = IF m.req = "DATA"
                       THEN [got EXCEPT ![e] = Append(@, <<m.session, m.n>>)]
                       ELSE got
           /\ IF m.req = "CLOSE" THEN Close(e, "peer") ELSE UNCHANGED closed
           /\ opened' = (opened \/ m.req = "OPEN")
    /\ conn' = Consume(conn, in[e])
    /\ Goto(e, "poll")
    /\ UNCHANGED <<queue, fds, call, ends, session, sent, rejected, faults>>

\* The device has closed, and what came for it cannot be written.
ReadUnwritten(e) ==
    /\ Reading(e) /\ conn[in[e]].wire # <<>>
    /\ Head(conn[in[e]].wire).req = "DATA" /\ e \in Hangups
    /\ Close(e, "device")
    /\ conn' = Consume(conn, in[e])
    /\ Goto(e, "poll")
    /\ UNCHANGED <<queue, fds, call, history>>

-----------------------------------------------------------------------------
(***************************************************************************)
(* tunnel_close, which htc calls by way of tunnel_destroy.                 *)
(***************************************************************************)
\* Mutant: the connections are closed without TUNNEL_CLOSE.
TunnelCloseSilent(e) ==
    /\ pc[e] = "poll" /\ closed[e] # "no"
    /\ Goto(e, IF e = "htc" /\ out[e] = None /\ in[e] = None THEN "idle" ELSE "disconnect")
    /\ UNCHANGED <<net, fds, call, closed, history>>

TunnelClose(e) ==
    /\ pc[e] = "poll" /\ closed[e] # "no"
    /\ IF e = "htc" /\ out[e] = None /\ in[e] = None
         THEN Goto(e, "idle") /\ UNCHANGED call
         ELSE Request(e, Msg("CLOSE"), "disconnect")
    /\ UNCHANGED <<net, fds, closed, history>>

\* Mutant: the descriptor that is closed is not forgotten.
DisconnectKeepsFd(e) ==
    /\ pc[e] = "disconnect"
    /\ conn' = CloseOut(conn, out[e])
    /\ Goto(e, "drain")
    /\ UNCHANGED <<queue, fds, call, closed, history>>

Disconnect(e) ==
    /\ pc[e] = "disconnect"
    /\ conn' = CloseOut(conn, out[e]) /\ SetOut(e, None)
    /\ Goto(e, "drain")
    /\ UNCHANGED <<queue, in, call, closed, history>>

DrainMore(e) ==
    /\ pc[e] = "drain" /\ in[e] # None /\ conn[in[e]].wire # <<>>
    /\ conn' = Consume(conn, in[e])
    /\ UNCHANGED <<queue, fds, control, history>>

\* The peer has closed, or nothing came for READ_TRAIL_TIMEOUT.
DrainDone(e) ==
    /\ pc[e] = "drain"
    /\ in[e] # None => conn[in[e]].wire = <<>>
    /\ conn' = CloseIn(conn, in[e]) /\ SetIn(e, None)
    /\ Goto(e, IF e = "htc" THEN "idle" ELSE "accept")
    /\ UNCHANGED <<queue, out, call, closed, history>>

-----------------------------------------------------------------------------
Writes(e) == WriteRequest(e) \/ WriteLost(e) \/ WriteEPIPE(e) \/ WriteFails(e)
Reads(e) == ReadDisconnect(e) \/ ReadRequest(e)
Closes(e) == TunnelClose(e) \/ Disconnect(e) \/ DrainMore(e) \/ DrainDone(e)

\* What an end does without waiting for its device or for a timeout.
Runs(e) ==
    \/ Writes(e) \/ TunnelReady(e) \/ Reads(e) \/ Closes(e)
    \/ e = "htc" /\ (OutConnect \/ InConnect \/ Answered \/ AnswerFails
                       \/ NotAnswered \/ Exit)
    \/ e = "hts" /\ (OutAccept \/ AcceptPost \/ AcceptGet \/ AcceptFails
                       \/ AcceptReturns \/ ReadAccept \/ ReadAgain)

Fails ==
    OutConnectFails \/ PostFails \/ InConnectFails \/ GetFails
    \/ AnswerLost \/ AnswerGetFails

Environment ==
    \/ TunnelConnect \/ CloseAged \/ CloseAgedFails \/ AcceptTimeout \/ Fails
    \/ \E e \in End : DeviceInput(e) \/ DeviceCloses(e) \/ ReadUnwritten(e)

Next == Environment \/ \E e \in End : Runs(e) \/ KeepAlive(e)

Spec == Init /\ [][Next]_vars

\* Each thread runs, and its timers go off.
FairSpec ==
    /\ Spec /\ WF_vars(AcceptTimeout)
    /\ \A e \in End : WF_vars(Runs(e)) /\ WF_vars(KeepAlive(e))
-----------------------------------------------------------------------------
(***************************************************************************)
(* Properties.                                                             *)
(***************************************************************************)
Points ==
    {"idle", "write", "send", "resend", "connect", "reconnect", "response",
     "reresponse", "exit", "exited", "accept", "acceptIn", "acceptOut", "acceptWrite",
     "poll", "tunnel", "disconnect", "drain"}

\* Every variable has its type, a descriptor that is open belongs to a
\* connection of its kind, and what is in the queue has its server side open.
TypeOK ==
    /\ conn \in [Conns -> Connections]
    /\ \A i \in 1..Len(queue) :
         LET c == conn[queue[i]]
         IN  IF c.kind = "POST" THEN c.reader ELSE c.kind = "GET" /\ c.writer
    /\ pc \in [End -> Points]
    /\ call \in [End -> [msg : Msgs, next : Points]]
    /\ out \in [End -> Conns \cup {None}] /\ in \in [End -> Conns \cup {None}]
    /\ \A e \in End : out[e] # None =>
         /\ conn[out[e]].writer
         /\ conn[out[e]].kind = IF e = "htc" THEN "POST" ELSE "GET"
    /\ \A e \in End : in[e] # None =>
         /\ conn[in[e]].reader
         /\ conn[in[e]].kind = IF e = "htc" THEN "GET" ELSE "POST"
    /\ ends \in EndChoices
    /\ closed \in [End -> {"no", "device", "peer", "error"}]
    /\ session \in [End -> 0..Sessions]
    /\ sent \in [End -> Nat]
    /\ opened \in BOOLEAN /\ rejected \in BOOLEAN /\ faults \in 0..Faults

\* The path of one tunnel is the data path that README promises.
Path == INSTANCE DataPath WITH
    got <- [e \in End |-> [i \in 1..Len(got[e]) |-> got[e][i][2]]]
DataPathSpec == Path!Spec

\* hts refuses a connection of its own client only once the tunnel is being
\* closed: "already got a connection" (tunnel_accept) drops what htc wrote.
NeverRejected == rejected => \E e \in End : closed[e] # "no"

\* Is a chunk sent before another?  A chunk is a tunnel of the sender and a
\* number.
Precedes(a, b) == a[1] < b[1] \/ (a[1] = b[1] /\ a[2] < b[2])

\* Whatever is lost, what arrives is neither repeated nor out of order.
Ordered ==
    \A e \in End : \A i, j \in 1..Len(got[e]) :
        i < j => Precedes(got[e][i], got[e][j])

\* What a device sends comes out at the other end, unless an end closes.
Delivered ==
    \A e \in End : \A n \in 1..MaxItems[e] :
        (sent[e] >= n) ~> \/ Len(got[Peer(e)]) >= n
                          \/ \E d \in End : closed[d] # "no"

\* When hts closes, htc hears of it, unless a connection could not be opened:
\* TUNNEL_CLOSE is then written to nobody, and htc may connect to the next
\* tunnel of hts instead.
ServerCloses ==
    (closed["hts"] # "no") ~> (closed["htc"] # "no" \/ faults > 0)

\* When htc closes, hts hears of it, unless its output was down just then (it
\* then looks at the server socket only) or a connection could not be opened:
\* htc then exits, or TUNNEL_CLOSE is written to nobody.
ClientCloses ==
    (closed["htc"] # "no") ~> (closed["hts"] # "no" \/ out["hts"] = None \/ faults > 0)

\* HACKING: "CLOSE is used to close the tunnel."  When the program behind htc
\* hangs up in a tunnel that hts has opened, hts closes the tunnel too.
CloseIsHeard ==
    (opened /\ closed["htc"] = "device") ~> (closed["hts"] # "no")

\* Nothing that one end sends is missing between what the other received.
NoGap ==
    \A e \in End : \A i \in 1..Len(got[e]) : got[e][i][2] = i

\* HACKING: "OPEN is the initial request."
OpenFirst == got["hts"] # <<>> => opened
=============================================================================
