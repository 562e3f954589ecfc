---------------------------- MODULE DataPathProofs ----------------------------
(***************************************************************************)
(* What one tunnel keeps while only one of its directions replaces its     *)
(* bodies, with the proofs.                                                *)
(*                                                                         *)
(* That hts refuses nothing is known only together with where each         *)
(* connection is: which requests are being written (ControlInv), that a    *)
(* connection which could not be opened holds nothing and is not read      *)
(* (ResetInv), that a body is left once it has ended (BodyInv), that a GET *)
(* in the queue is the one htc waits for and what hts writes to is what    *)
(* htc reads (GetInv), that what htc writes to is read or in the queue     *)
(* (PostInv), which connections come first and in which order (FirstInv,   *)
(* OpenInv), that htc does not close a connection without TUNNEL_CLOSE     *)
(* (ClosingInv), and that a connection which is not replaced works         *)
(* (LinkInv).  What is said of the opening, of the writer of a POST and of *)
(* the end of a tunnel need hold only as long as hts may still hear of htc *)
(* (Hears): an opening that fails leaves hts with a part of a tunnel.      *)
(*                                                                         *)
(* On it rests that the tunnel is a DataPath: every chunk that was sent    *)
(* and not received is still on its way, unless it is the last and its     *)
(* sender closes with an error (LossInv), before the end of its body       *)
(* (ChunkInv) and of its tunnel (CloseInv).                                *)
(***************************************************************************)
EXTENDS HttpTunnelProofs

-----------------------------------------------------------------------------
(***************************************************************************)
(* One tunnel, whose bodies are replaced in one direction at most.         *)
(***************************************************************************)
OneDirection ==
    Sessions = 1 /\ ~Ages /\ ~Timeouts /\ \A s \in EndChoices : s # End

HtcPoints ==
    {"idle", "write", "send", "resend", "connect", "reconnect", "response",
     "reresponse", "exit", "exited", "poll", "tunnel", "disconnect", "drain"}
HtsPoints ==
    {"accept", "acceptIn", "acceptOut", "acceptWrite", "write", "send",
     "resend", "poll", "tunnel", "disconnect", "drain"}

\* What is left of the content of a connection
Less(v, w) == v = w \/ v = <<>> \/ (w # <<>> /\ v = Tail(w))

Has(w, r) == \E k \in 1..Len(w) : w[k].req = r
InQueue(q, c) == \E k \in 1..Len(q) : q[k] = c

\* An end is in tunnel_write_request.
Busy(e) == pc[e] \in {"write", "send", "resend", "acceptWrite"}
Waiting == pc["htc"] \in {"response", "reresponse"}

Chunk(k) == [req |-> "DATA", session |-> 1, n |-> k]

\* The calls there are: of tunnel_connect, of the main loop, of tunnel_close
CallOf(e, c) ==
    \/ c.msg = Msg("OPEN") /\ c.next = "connect"
         /\ e = "htc" /\ closed[e] = "no" /\ sent[e] = 0
    \/ c.msg = Msg("PAD") /\ c.next = "poll"
    \/ c.msg = Msg("CLOSE") /\ c.next = "disconnect" /\ closed[e] # "no"
    \/ c.msg = Chunk(sent[e]) /\ c.next \in {"poll", "tunnel"}
         /\ closed[e] = "no"

EndInv(e) ==
    /\ pc[e] \in (IF e = "htc" THEN HtcPoints ELSE HtsPoints)
    /\ IF Busy(e) THEN CallOf(e, call[e]) ELSE call[e] = NoCall
    /\ session[e] = 0 =>
         /\ pc[e] = (IF e = "htc" THEN "idle" ELSE "accept")
         /\ closed[e] = "no" /\ sent[e] = 0 /\ got[e] = <<>>
    /\ pc[e] \in {"disconnect", "drain"} => closed[e] # "no"
    /\ pc[e] \in {"idle", "exited", "accept"} /\ session[e] # 0 =>
         closed[e] # "no"
    /\ pc[e] \in {"connect", "response", "exit", "exited"} => sent[e] = 0

ControlInv == \A e \in End : EndInv(e)

\* Before htc has opened a connection for its input
InputInv ==
    /\ session["htc"] = 0 =>
         queue = <<>> /\ \A e \in End : out[e] = None /\ in[e] = None
    /\ \/ pc["htc"] \in {"connect", "reconnect"}
       \/ call["htc"].msg.req = "OPEN"
       => in["htc"] = None

\* htc is past its only tunnel.
Gone == session["htc"] # 0 /\ pc["htc"] \in {"idle", "exited"}

\* An end has not begun to close, or may still read a request.
Attends(e) ==
    \/ closed[e] = "no" /\ pc[e] \notin {"exit", "exited"}
    \/ pc[e] = "tunnel"
    \/ Busy(e) /\ call[e].next = "tunnel"

\* A connection brings nothing any more.
Over(c) == conn[c].reset \/ (conn[c].wire = <<>> /\ ~conn[c].writer)

\* htc gets no answer, and closes the tunnel with an error,
Doomed == Waiting /\ conn[in["htc"]].reset

\* or exits without having opened it.
Cut ==
    \/ pc["htc"] \in {"exit", "exited"}
    \/ pc["htc"] = "response" /\ Over(in["htc"])

\* An end may still hear of the other: htc while its input is not lost, hts
\* while htc does not exit, and once htc is gone while its output is up.
Hears(e) ==
    /\ Attends(e)
    /\ IF e = "htc" THEN ~Doomed ELSE ~Cut /\ (Gone => out["hts"] # None)

\* A connection that cannot be used holds nothing, hts does not read it, and
\* htc reads it only to learn that.
ResetInv ==
    /\ \A c \in Conns : conn[c].reset \/ ~conn[c].reader => conn[c].wire = <<>>
    /\ in["hts"] # None => ~conn[in["hts"]].reset
    /\ in["htc"] # None /\ conn[in["htc"]].reset => ~Hears("htc")

\* What an end writes to goes on.
BodyInv ==
    /\ \A e \in End : out[e] # None => ~Has(conn[out[e]].wire, "DISCONNECT")
    /\ \A e \in End, c \in Conns :
         e \notin ends /\ conn[c].kind = OutKind(e) =>
             ~Has(conn[c].wire, "DISCONNECT")

\* hts has not answered a GET in its queue, and htc waits for the answer.
GetInv ==
    /\ \A c \in Conns : InQueue(queue, c) /\ conn[c].kind = "GET" =>
         /\ conn[c].wire = <<>>
         /\ conn[c].reset \/ (c = in["htc"] /\ Waiting)
    /\ Waiting =>
         /\ in["htc"] # None
         /\ \/ InQueue(queue, in["htc"]) \/ Over(in["htc"])
            \/ /\ conn[in["htc"]].wire # <<>>
               /\ Head(conn[in["htc"]].wire).req = "200"
    /\ out["hts"] # None => out["hts"] = in["htc"] \/ Gone

\* htc writes to a connection that hts reads or will read, or cannot write.
PostInv ==
    Hears("hts") /\ out["htc"] # None =>
      \/ out["htc"] = in["hts"] \/ InQueue(queue, out["htc"])
      \/ conn[out["htc"]].reset /\ "hts" \notin ends

\* Before the tunnel is open hts finds one POST at most, and while htc writes
\* TUNNEL_OPEN that is the one it writes to.
Young ==
    \/ pc["htc"] \in {"connect", "response", "exit"}
    \/ call["htc"].msg.req = "OPEN"
Found(c) == conn[c].kind = "POST" /\ Place(queue, in, c)
FirstInv ==
    Young =>
      /\ \A c, d \in Conns : Found(c) /\ Found(d) => c = d
      /\ pc["htc"] # "exit" => \A c \in Conns : Found(c) => ~conn[c].reset
      /\ call["htc"].msg.req = "OPEN" => \A c \in Conns : Found(c) => c = out["htc"]

\* While hts waits for the first connections: htc has opened none,
Unopened ==
    /\ \/ session["htc"] = 0
       \/ pc["htc"] = "write" /\ call["htc"].msg.req = "OPEN"
    /\ queue = <<>> /\ in["hts"] = None /\ out["htc"] = None

\* the one that it writes to,
PostOpened ==
    /\ \/ /\ pc["htc"] = "send" /\ call["htc"].msg.req = "OPEN"
          /\ out["htc"] # None
       \/ pc["htc"] = "connect" /\ ("hts" \in ends => out["htc"] # None)
    /\ \/ /\ in["hts"] = None
          /\ \E c \in Conns : queue = <<c>> /\ conn[c].kind = "POST"
       \/ in["hts"] # None /\ queue = <<>>

\* or both.
BothOpened ==
    /\ pc["htc"] = "response" /\ ("hts" \in ends => out["htc"] # None)
    /\ InQueue(queue, in["htc"])
    /\ \/ /\ in["hts"] = None
          /\ \E c, d \in Conns : /\ queue = <<c, d>>
                                 /\ conn[c].kind = "POST"
                                 /\ conn[d].kind = "GET"
       \/ /\ in["hts"] # None
          /\ \E d \in Conns : queue = <<d>> /\ conn[d].kind = "GET"

Opening ==
    /\ out["hts"] = None /\ pc["hts"] = "accept"
    /\ Unopened \/ PostOpened \/ BothOpened

\* The direction whose bodies are not replaced is up.
Up == IF "hts" \in ends THEN in["hts"] # None ELSE out["hts"] # None

OpenInv ==
    Hears("hts") =>
      /\ ~Up => Opening
      /\ Up /\ "hts" \in ends =>
           /\ \A c \in Conns : InQueue(queue, c) => conn[c].kind = "GET"
           /\ pc["htc"] \in {"drain", "idle"} \/ out["htc"] # None

\* TUNNEL_CLOSE was written before the connection is closed.
ClosingInv ==
    Hears("hts") =>
      /\ pc["htc"] = "disconnect" /\ out["htc"] # None =>
           Has(conn[out["htc"]].wire, "CLOSE") \/ conn[out["htc"]].reset
      /\ "hts" \in ends => \A c \in Conns :
           Found(c) /\ c # out["htc"] => Has(conn[c].wire, "CLOSE")

\* A connection of hts that it does not replace works.
LinkInv ==
    Hears("hts") /\ "hts" \notin ends =>
      /\ pc["htc"] \notin {"reconnect", "reresponse"}
      /\ out["hts"] # None /\ ~Gone => ~conn[out["hts"]].reset

CalmInv == rejected => \E e \in End : closed[e] # "no"

PathInv ==
    /\ ControlInv /\ InputInv /\ ResetInv /\ BodyInv /\ GetInv /\ PostInv
    /\ FirstInv /\ OpenInv /\ ClosingInv /\ LinkInv /\ CalmInv
-----------------------------------------------------------------------------
\* What the system calls do to the content of a connection
LEMMA HasLaws ==
    ASSUME NEW w \in Seq(Msgs), NEW r
    PROVE  /\ ~Has(<<>>, r)
           /\ \A m \in Msgs : Has(Append(w, m), r) <=> Has(w, r) \/ m.req = r
           /\ w # <<>> =>
                (Has(w, r) <=> Head(w).req = r \/ Has(Tail(w), r))
<1>1. ~Has(<<>>, r)
  BY EmptySeq DEF Has
<1>2. ASSUME NEW m \in Msgs
      PROVE  Has(Append(w, m), r) <=> Has(w, r) \/ m.req = r
  <2>1. /\ Len(w) \in Nat /\ Len(Append(w, m)) = Len(w) + 1
        /\ \A k \in 1..Len(w) : Append(w, m)[k] = w[k]
        /\ Append(w, m)[Len(w) + 1] = m
    BY LenProperties, AppendProperties
  <2> QED
    BY <2>1 DEF Has
<1>3. ASSUME w # <<>>
      PROVE  Has(w, r) <=> Head(w).req = r \/ Has(Tail(w), r)
  <2>1. /\ Len(w) \in Nat /\ Len(w) > 0 /\ Len(Tail(w)) = Len(w) - 1
        /\ Head(w) = w[1]
        /\ \A k \in 1..Len(Tail(w)) : Tail(w)[k] = w[k + 1]
    BY <1>3, LenProperties, HeadTailProperties, EmptySeq
  <2>2. ASSUME Has(w, r) PROVE Head(w).req = r \/ Has(Tail(w), r)
    <3>1. PICK k \in 1..Len(w) : w[k].req = r
      BY <2>2 DEF Has
    <3>2. CASE k = 1
      BY <2>1, <3>1, <3>2
    <3>3. CASE k # 1
      <4>1. k - 1 \in 1..Len(Tail(w)) /\ Tail(w)[k - 1] = w[k]
        BY <2>1, <3>3
      <4> QED
        BY <3>1, <4>1 DEF Has
    <3> QED
      BY <3>2, <3>3
  <2>3. ASSUME Head(w).req = r \/ Has(Tail(w), r) PROVE Has(w, r)
    BY <2>1, <2>3 DEF Has
  <2> QED
    BY <2>2, <2>3
<1> QED
  BY <1>1, <1>2, <1>3

\* What is in the queue
LEMMA QueueLaws ==
    ASSUME NEW q \in Seq(Conns), NEW d
    PROVE  /\ ~InQueue(<<>>, d)
           /\ \A c \in Conns : InQueue(Append(q, c), d) <=> InQueue(q, d) \/ d = c
           /\ q # <<>> => (InQueue(q, d) <=> d = Head(q) \/ InQueue(Tail(q), d))
<1>1. ~InQueue(<<>>, d)
  BY EmptySeq DEF InQueue
<1>2. ASSUME NEW c \in Conns
      PROVE  InQueue(Append(q, c), d) <=> InQueue(q, d) \/ d = c
  <2>1. /\ Len(q) \in Nat /\ Len(Append(q, c)) = Len(q) + 1
        /\ \A k \in 1..Len(q) : Append(q, c)[k] = q[k]
        /\ Append(q, c)[Len(q) + 1] = c
    BY LenProperties, AppendProperties
  <2> QED
    BY <2>1 DEF InQueue
<1>3. ASSUME q # <<>>
      PROVE  InQueue(q, d) <=> d = Head(q) \/ InQueue(Tail(q), d)
  <2>1. /\ Len(q) \in Nat /\ Len(q) > 0 /\ Len(Tail(q)) = Len(q) - 1
        /\ Head(q) = q[1]
        /\ \A k \in 1..Len(Tail(q)) : Tail(q)[k] = q[k + 1]
    BY <1>3, LenProperties, HeadTailProperties, EmptySeq
  <2>2. ASSUME InQueue(q, d) PROVE d = Head(q) \/ InQueue(Tail(q), d)
    <3>1. PICK k \in 1..Len(q) : q[k] = d
      BY <2>2 DEF InQueue
    <3>2. CASE k = 1
      BY <2>1, <3>1, <3>2
    <3>3. CASE k # 1
      <4>1. k - 1 \in 1..Len(Tail(q)) /\ Tail(q)[k - 1] = q[k]
        BY <2>1, <3>3
      <4> QED
        BY <3>1, <4>1 DEF InQueue
    <3> QED
      BY <3>2, <3>3
  <2>3. ASSUME d = Head(q) \/ InQueue(Tail(q), d) PROVE InQueue(q, d)
    BY <2>1, <2>3 DEF InQueue
  <2> QED
    BY <2>2, <2>3
<1> QED
  BY <1>1, <1>2, <1>3

\* Queues of one and of two connections
LEMMA ShortQueues ==
    ASSUME NEW c \in Conns, NEW d \in Conns
    PROVE  /\ Append(<<>>, c) = <<c>> /\ Append(<<c>>, d) = <<c, d>>
           /\ <<c>> \in Seq(Conns) /\ <<c, d>> \in Seq(Conns)
           /\ <<c>> # <<>> /\ Head(<<c>>) = c /\ Tail(<<c>>) = <<>>
           /\ <<c, d>> # <<>> /\ Head(<<c, d>>) = c /\ Tail(<<c, d>>) = <<d>>
           /\ \A x : InQueue(<<c>>, x) <=> x = c
           /\ \A x : InQueue(<<c, d>>, x) <=> x \in {c, d}
<1>1. /\ <<c>> \in Seq(Conns) /\ <<c, d>> \in Seq(Conns)
      /\ Len(<<c>>) = 1 /\ Len(<<c, d>>) = 2 /\ <<c>>[1] = c
      /\ <<c, d>>[1] = c /\ <<c, d>>[2] = d /\ Len(<<>>) = 0
      /\ <<>> \in Seq(Conns)
  OBVIOUS
<1>2. Append(<<>>, c) = <<c>>
  OBVIOUS
<1>3. Append(<<c>>, d) = <<c, d>>
  <2>1. /\ Append(<<c>>, d) \in Seq(Conns) /\ Len(Append(<<c>>, d)) = 2
        /\ Append(<<c>>, d)[1] = c /\ Append(<<c>>, d)[2] = d
    BY <1>1, AppendProperties
  <2>2. \A k \in 1..2 : Append(<<c>>, d)[k] = <<c, d>>[k]
    <3>1. \A k \in 1..2 : k = 1 \/ k = 2
      OBVIOUS
    <3> QED
      BY <1>1, <2>1, <3>1
  <2> QED
    BY <1>1, <2>1, <2>2, SeqEqual
<1>4. Head(<<c>>) = c /\ <<c>> # <<>> /\ <<c, d>> # <<>> /\ Head(<<c, d>>) = c
  BY <1>1
<1>5. Tail(<<c>>) = <<>>
  BY <1>1
<1>6. Tail(<<c, d>>) = <<d>>
  OBVIOUS
<1>7. \A x : InQueue(<<c>>, x) <=> x = c
  BY <1>1 DEF InQueue
<1>8. \A x : InQueue(<<c, d>>, x) <=> x \in {c, d}
  BY <1>1 DEF InQueue
<1> QED
  BY <1>1, <1>2, <1>3, <1>4, <1>5, <1>6, <1>7, <1>8

\* There is one tunnel.
LEMMA OneSession ==
    ASSUME Rest, OneDirection
    PROVE  /\ \A e \in End : session[e] \in {0, 1}
           /\ Sessions = 1 /\ ~Ages /\ ~Timeouts /\ ends # End
BY HttpTunnelAssumption DEF Rest, OneDirection

\* The bodies of one direction at most come to an end.
LEMMA OneEnd ==
    ASSUME Rest, OneDirection
    PROVE  /\ ends \subseteq End
           /\ "hts" \in ends => "htc" \notin ends
<1>1. ends \in EndChoices /\ EndChoices \subseteq SUBSET End /\ ends # End
  BY HttpTunnelAssumption, OneSession DEF Rest
<1> QED
  BY <1>1 DEF End

\* The calls there are
LEMMA CallsStep ==
    ASSUME NEW e \in End, EndInv(e), Busy(e)
    PROVE  /\ call[e].msg.req \in {"OPEN", "PAD", "CLOSE", "DATA"}
           /\ call[e].msg.req = "OPEN" =>
                /\ e = "htc" /\ call[e].next = "connect"
                /\ closed[e] = "no" /\ sent[e] = 0
           /\ call[e].msg.req = "PAD" => call[e].next = "poll"
           /\ call[e].msg.req = "CLOSE" =>
                call[e].next = "disconnect" /\ closed[e] # "no"
           /\ call[e].msg.req = "DATA" =>
                /\ call[e].msg = Chunk(sent[e]) /\ call[e].next \in {"poll", "tunnel"}
                /\ closed[e] = "no"
<1>1. /\ \A r : Msg(r).req = r
      /\ \A k : Chunk(k).req = "DATA"
  BY DEF Msg, Chunk
<1>2. CallOf(e, call[e])
  BY DEF EndInv
<1> QED
  BY <1>1, <1>2 DEF CallOf

\* What an end does disturbs nothing at the other.
LEMMA OtherEnd ==
    ASSUME ControlInv, NEW e \in End, EndInv(e)',
           \A f \in End \ {e} :
             /\ pc'[f] = pc[f] /\ call'[f] = call[f] /\ closed'[f] = closed[f]
             /\ session'[f] = session[f] /\ sent'[f] = sent[f]
             /\ got'[f] = got[f]
    PROVE  ControlInv'
<1>1. ASSUME NEW f \in End \ {e} PROVE EndInv(f)'
  <2>1. Busy(f)' <=> Busy(f)
    BY DEF Busy
  <2>2. CallOf(f, call[f])' <=> CallOf(f, call[f])
    BY DEF CallOf
  <2> QED
    BY <2>1, <2>2 DEF EndInv, ControlInv
<1> QED
  BY <1>1 DEF ControlInv

\* How tunnel_accept ends when it takes a connection that is lost
LEMMA AcceptFailsCases ==
    ASSUME AcceptFails
    PROVE  \/ /\ session["hts"] < Sessions /\ BeginSession("hts")
              /\ pc["hts"] = "accept" /\ Goto("hts", "poll") /\ UNCHANGED call
           \/ UNCHANGED <<control, history>>
           \/ pc["hts"] = "acceptWrite" /\ RequestFails("hts") /\ UNCHANGED history
           \/ /\ pc["hts"] = "acceptWrite" /\ Goto("hts", "send")
              /\ UNCHANGED <<call, closed, history>>
           \/ /\ pc["hts"] \in {"acceptIn", "acceptOut"} /\ Goto("hts", "poll")
              /\ UNCHANGED <<call, history>>
              /\ UNCHANGED closed \/ Close("hts", "error")
<1> DEFINE Ends(m) ==
      CASE pc["hts"] = "accept" /\ m = "0" ->
             /\ session["hts"] < Sessions /\ BeginSession("hts")
             /\ Goto("hts", "poll") /\ UNCHANGED call
        [] pc["hts"] = "accept" /\ m = "-1" ->
             UNCHANGED <<control, history>>
        [] pc["hts"] = "acceptWrite" /\ m = "0" ->
             Goto("hts", "send") /\ UNCHANGED <<call, closed, history>>
        [] pc["hts"] = "acceptWrite" /\ m = "-1" ->
             RequestFails("hts") /\ UNCHANGED history
        [] pc["hts"] = "acceptIn" /\ m = "-1" ->
             /\ Close("hts", "error") /\ Goto("hts", "poll")
             /\ UNCHANGED <<call, history>>
        [] OTHER ->
             Goto("hts", "poll") /\ UNCHANGED <<call, closed, history>>
<1>1. PICK m \in {"0", "-1"} : Ends(m)
  BY DEF AcceptFails
<1>2. pc["hts"] \in {"accept", "acceptIn", "acceptOut", "acceptWrite"}
  BY DEF AcceptFails, Accepting
<1>3. CASE pc["hts"] = "accept"
  BY <1>1, <1>3
<1>4. CASE pc["hts"] = "acceptWrite"
  BY <1>1, <1>4
<1>5. CASE pc["hts"] \in {"acceptIn", "acceptOut"}
  BY <1>1, <1>5
<1> QED
  BY <1>2, <1>3, <1>4, <1>5

\* What an end does next follows from what it does.
LEMMA ControlStep ==
    ASSUME TypeInv, TypeInv', ControlInv, OneDirection, [Next]_vars
    PROVE  ControlInv'
<1>1. Rest /\ Rest' /\ \A e \in End : session[e] \in {0, 1} /\ EndInv(e)
  BY OneSession DEF TypeInv, ControlInv
<1>2. /\ Sessions = 1 /\ ~Ages /\ ~Timeouts /\ "htc" \in End /\ "hts" \in End
      /\ End = {"htc", "hts"}
  BY <1>1, OneSession DEF End
<1> USE <1>1, <1>2
<1>3. ASSUME NEW e \in End, WriteRequest(e) \/ WriteLost(e) PROVE ControlInv'
  <2>1. /\ Writing(e) /\ pc' = [pc EXCEPT ![e] = call[e].next]
        /\ call' = [call EXCEPT ![e] = NoCall]
        /\ UNCHANGED <<closed, session, sent, got>>
    BY <1>3 DEF WriteRequest, WriteLost, Return, Goto, history
  <2>2. Busy(e) /\ call[e].next \in {"connect", "poll", "disconnect", "tunnel"}
    BY <2>1, CallsStep DEF Writing, Busy
  <2>3. EndInv(e)'
    BY <2>1, <2>2, CallsStep DEF EndInv, Rest, Busy, Writing, HtcPoints, HtsPoints
  <2> QED
    BY <2>1, <2>3, OtherEnd DEF Rest
<1>4. ASSUME NEW e \in End, Busy(e), RequestFails(e), UNCHANGED <<session, sent, got>>
      PROVE  ControlInv'
  <2>1. /\ pc' = [pc EXCEPT ![e] = IF call[e].msg.req = "OPEN" THEN "exit"
                                   ELSE call[e].next]
        /\ call' = [call EXCEPT ![e] = NoCall]
        /\ UNCHANGED <<session, sent, got>>
        /\ \/ closed' = closed
           \/ closed' = [closed EXCEPT ![e] = IF @ = "no" THEN "error" ELSE @]
    BY <1>4 DEF RequestFails, Return, Goto, Close
  <2>2. call[e].next \in {"connect", "poll", "disconnect", "tunnel"}
    BY <1>4, CallsStep
  <2>3. EndInv(e)'
    BY <1>4, <2>1, <2>2, CallsStep DEF EndInv, Rest, Busy, HtcPoints, HtsPoints
  <2> QED
    BY <2>1, <2>3, OtherEnd DEF Rest
<1>5. ASSUME NEW e \in End, NEW l \in {"send", "resend", "acceptWrite"},
             Busy(e), e = "htc" => l # "acceptWrite",
             pc' = [pc EXCEPT ![e] = l], UNCHANGED <<call, closed, history>>
      PROVE  ControlInv'
  <2>1. CallOf(e, call[e])' <=> CallOf(e, call[e])
    BY <1>5 DEF CallOf, history
  <2>2. EndInv(e)'
    BY <1>5, <2>1 DEF EndInv, Rest, Busy, HtcPoints, HtsPoints, history
  <2> QED
    BY <1>5, <2>2, OtherEnd DEF Rest, history
<1>6. ASSUME NEW e \in End, WriteEPIPE(e) \/ WriteFails(e) PROVE ControlInv'
  <2>1. CASE RequestFails(e)
    BY <1>4, <1>6, <2>1 DEF WriteEPIPE, WriteFails, Writing, Busy, history
  <2>2. CASE e = "htc" /\ Goto("htc", "resend") /\ UNCHANGED <<call, closed, history>>
    BY <1>5, <1>6, <2>2 DEF WriteEPIPE, WriteFails, Goto, Writing, Busy
  <2> QED
    BY <1>6, <2>1, <2>2 DEF WriteEPIPE, WriteFails
<1>7. CASE OutConnect \/ OutConnectFails \/ PostFails \/ OutAccept
  <2>1. CASE OutConnect
    BY <1>5, <2>1 DEF OutConnect, Unconnected, Goto, Busy
  <2>2. CASE OutAccept
    BY <1>5, <2>2 DEF OutAccept, Goto, Writing, Busy
  <2>3. CASE OutConnectFails \/ PostFails
    BY <1>4, <2>3 DEF OutConnectFails, PostFails, Unconnected, Fault, Busy
  <2> QED
    BY <1>7, <2>1, <2>2, <2>3
<1>8. ASSUME UNCHANGED <<control, session, sent, got>> PROVE ControlInv'
  <2>1. \A e \in End : CallOf(e, call[e])' <=> CallOf(e, call[e])
    BY <1>8 DEF CallOf, control
  <2> QED
    BY <1>8, <2>1 DEF ControlInv, EndInv, control, Busy
<1>9. CASE \/ AcceptPost \/ AcceptGet \/ AnswerGetFails \/ AnswerLost
           \/ \E e \in End : DrainMore(e)
  BY <1>8, <1>9 DEF AcceptPost, AcceptGet, AnswerGetFails, AnswerLost, Fault,
     DrainMore, history
<1>10. ASSUME UNCHANGED vars PROVE ControlInv'
  BY <1>8, <1>10 DEF vars, history
\* An end that is in no call goes on, and may have ended its loop.
<1>11. ASSUME NEW e \in End, NEW l, ~Busy(e), session[e] # 0,
              pc' = [pc EXCEPT ![e] = l],
              l \in (IF e = "htc" THEN HtcPoints ELSE HtsPoints)
                      \ {"write", "send", "resend", "acceptWrite"},
              closed'[e] = closed[e] \/ closed'[e] # "no",
              \A f \in End \ {e} : closed'[f] = closed[f] /\ got'[f] = got[f],
              l \in {"disconnect", "drain", "idle", "exited", "accept"} =>
                closed'[e] # "no",
              l \in {"connect", "response", "exit", "exited"} =>
                pc[e] \in {"connect", "response", "exit"},
              UNCHANGED <<call, session, sent>>
       PROVE  ControlInv'
  <2>1. EndInv(e)'
    BY <1>11 DEF EndInv, Rest, Busy
  <2> QED
    BY <1>11, <2>1, OtherEnd DEF Rest
<1>12. \A e \in End : session[e] = 0 => pc[e] \in {"idle", "accept"}
  BY DEF EndInv
<1>13. CASE \/ InConnect \/ InConnectFails \/ GetFails
            \/ Answered \/ AnswerFails \/ NotAnswered
  <2>1. ~Busy("htc") /\ session["htc"] # 0
    BY <1>12, <1>13 DEF InConnect, InConnectFails, GetFails, Answered, AnswerFails,
       NotAnswered, Connecting, AwaitsAnswer, Busy
  <2>2. PICK l \in {"response", "reresponse", "poll", "exit"} :
          /\ Goto("htc", l)
          /\ l \in {"response", "exit"} => pc["htc"] \in {"connect", "response"}
    BY <1>13 DEF InConnect, InConnectFails, GetFails, Answered, AnswerFails,
       NotAnswered, Connecting, AwaitsAnswer, InFails
  <2>3. /\ UNCHANGED <<call, session, sent, got>>
        /\ closed'["htc"] = closed["htc"] \/ closed'["htc"] # "no"
        /\ closed'["hts"] = closed["hts"]
    BY <1>13 DEF InConnect, InConnectFails, GetFails, Answered, AnswerFails,
       NotAnswered, InFails, Fault, history, Close, Rest
  <2> QED
    BY <1>11, <2>1, <2>2, <2>3 DEF Goto, HtcPoints
<1>14. CASE Exit
  <2>1. ~Busy("htc") /\ session["htc"] # 0
    BY <1>12, <1>14 DEF Exit, Busy
  <2>2. /\ UNCHANGED <<call, session, sent, got>> /\ closed'["htc"] # "no"
        /\ closed'["hts"] = closed["hts"]
    BY <1>14 DEF Exit, history, Close, Rest
  <2> QED
    BY <1>11, <1>14, <2>1, <2>2 DEF Exit, Goto, HtcPoints
<1>15. ASSUME NEW e \in End, TunnelReady(e) \/ DeviceCloses(e) PROVE ControlInv'
  <2>1. ~Busy(e) /\ session[e] # 0
    BY <1>12, <1>15 DEF TunnelReady, DeviceCloses, Polling, Busy
  <2>2. PICK l \in {"tunnel", "poll"} : Goto(e, l)
    BY <1>15 DEF TunnelReady, DeviceCloses, AfterDevice
  <2>3. /\ UNCHANGED <<call, session, sent, got>>
        /\ closed'[e] = closed[e] \/ closed'[e] # "no"
        /\ \A f \in End \ {e} : closed'[f] = closed[f]
    BY <1>15 DEF TunnelReady, DeviceCloses, history, Close, Rest
  <2> QED
    BY <1>11, <2>1, <2>2, <2>3 DEF Goto, HtcPoints, HtsPoints
<1>16. CASE ReadAccept \/ ReadAgain
  <2>1. ~Busy("hts") /\ session["hts"] # 0
    BY <1>12, <1>16 DEF ReadAccept, ReadAgain, Reading, Busy
  <2>2. PICK l \in {"acceptIn", "acceptOut", "poll"} : Goto("hts", l)
    BY <1>16 DEF ReadAccept, ReadAgain
  <2>3. UNCHANGED <<call, closed, session, sent, got>>
    BY <1>16 DEF ReadAccept, ReadAgain, history
  <2> QED
    BY <1>11, <2>1, <2>2, <2>3 DEF Goto, HtsPoints
<1>17. ASSUME NEW e \in End, ReadDisconnect(e) PROVE ControlInv'
  <2>1. ~Busy(e) /\ session[e] # 0
    BY <1>12, <1>17 DEF ReadDisconnect, Reading, Busy
  <2>2. Goto(e, IF e = "htc" THEN "reconnect" ELSE "poll")
          /\ UNCHANGED <<call, closed, session, sent, got>>
    BY <1>17 DEF ReadDisconnect, history
  <2> QED
    BY <1>11, <2>1, <2>2 DEF Goto, HtcPoints, HtsPoints
<1>18. ASSUME NEW e \in End, ReadRequest(e) \/ ReadUnwritten(e) PROVE ControlInv'
  <2>1. ~Busy(e) /\ session[e] # 0
    BY <1>12, <1>18 DEF ReadRequest, ReadUnwritten, Reading, Busy
  <2>2. /\ Goto(e, "poll") /\ UNCHANGED <<call, session, sent>>
        /\ closed'[e] = closed[e] \/ closed'[e] # "no"
        /\ \A f \in End \ {e} : closed'[f] = closed[f] /\ got'[f] = got[f]
    BY <1>18 DEF ReadRequest, ReadUnwritten, history, Close, Rest
  <2> QED
    BY <1>11, <2>1, <2>2 DEF Goto, HtcPoints, HtsPoints
<1>19. ASSUME NEW e \in End, Disconnect(e) \/ DrainDone(e) PROVE ControlInv'
  <2>1. ~Busy(e) /\ session[e] # 0 /\ closed[e] # "no"
    BY <1>12, <1>19 DEF Disconnect, DrainDone, Busy, EndInv
  <2>2. PICK l \in {"drain", IF e = "htc" THEN "idle" ELSE "accept"} : Goto(e, l)
    BY <1>19 DEF Disconnect, DrainDone
  <2>3. UNCHANGED <<call, closed, session, sent, got>>
    BY <1>19 DEF Disconnect, DrainDone, history
  <2> QED
    BY <1>11, <2>1, <2>2, <2>3 DEF Goto, HtcPoints, HtsPoints
<1>20. ASSUME NEW e \in End, TunnelClose(e) PROVE ControlInv'
  <2>1. ~Busy(e) /\ session[e] # 0 /\ closed[e] # "no"
          /\ UNCHANGED <<closed, session, sent, got>>
    BY <1>12, <1>20 DEF TunnelClose, Busy, history
  <2>2. CASE e = "htc" /\ Goto(e, "idle") /\ UNCHANGED call
    BY <1>11, <2>1, <2>2 DEF Goto, HtcPoints
  <2>3. CASE Request(e, Msg("CLOSE"), "disconnect")
    <3>1. /\ pc' = [pc EXCEPT ![e] = "write"]
          /\ call' = [call EXCEPT ![e] = [msg |-> Msg("CLOSE"), next |-> "disconnect"]]
      BY <2>3 DEF Request, Goto
    <3>2. CallOf(e, call[e])'
      BY <2>1, <3>1 DEF CallOf, Rest
    <3>3. EndInv(e)'
      BY <2>1, <3>1, <3>2 DEF EndInv, Busy, Rest, HtcPoints, HtsPoints
    <3> QED
      BY <2>1, <3>1, <3>3, OtherEnd DEF Rest
  <2> QED
    BY <1>20, <2>2, <2>3 DEF TunnelClose
<1>21. ASSUME NEW e \in End, KeepAlive(e) PROVE ControlInv'
  <2>1. ~Busy(e) /\ session[e] # 0 /\ UNCHANGED <<closed, session, sent, got>>
    BY <1>12, <1>21 DEF KeepAlive, Polling, Busy, history
  <2>2. /\ pc' = [pc EXCEPT ![e] = "write"]
        /\ call' = [call EXCEPT ![e] = [msg |-> Msg("PAD"), next |-> "poll"]]
    BY <1>21 DEF KeepAlive, Request, Goto
  <2>3. CallOf(e, call[e])'
    BY <2>1, <2>2 DEF CallOf, Rest
  <2>4. EndInv(e)'
    BY <2>1, <2>2, <2>3 DEF EndInv, Busy, Rest, HtcPoints, HtsPoints
  <2> QED
    BY <2>1, <2>2, <2>4, OtherEnd DEF Rest
<1>22. ASSUME NEW e \in End, DeviceInput(e) PROVE ControlInv'
  <2>1. /\ ~Busy(e) /\ session[e] = 1 /\ UNCHANGED <<closed, session, got>>
        /\ closed[e] = "no"
        /\ sent' = [sent EXCEPT ![e] = @ + 1]
    BY <1>12, <1>22 DEF DeviceInput, Polling, Busy
  <2>2. PICK l \in {"tunnel", "poll"} :
          /\ pc' = [pc EXCEPT ![e] = "write"]
          /\ call' = [call EXCEPT ![e] = [msg |-> Chunk(sent[e] + 1), next |-> l]]
    BY <1>22, <2>1 DEF DeviceInput, Request, Goto, AfterDevice, Chunk
  <2>3. CallOf(e, call[e])'
    BY <2>1, <2>2 DEF CallOf, Rest
  <2>4. EndInv(e)'
    BY <2>1, <2>2, <2>3 DEF EndInv, Busy, Rest, HtcPoints, HtsPoints
  <2> QED
    BY <2>1, <2>2, <2>4, OtherEnd DEF Rest
<1>23. CASE TunnelConnect
  <2>1. /\ session["htc"] = 0 /\ closed' = [closed EXCEPT !["htc"] = "no"]
        /\ session' = [session EXCEPT !["htc"] = @ + 1]
        /\ sent' = [sent EXCEPT !["htc"] = 0]
        /\ got' = [got EXCEPT !["htc"] = <<>>]
        /\ pc' = [pc EXCEPT !["htc"] = "write"]
        /\ call' = [call EXCEPT !["htc"] = [msg |-> Msg("OPEN"), next |-> "connect"]]
    BY <1>23 DEF TunnelConnect, BeginSession, Request, Goto
  <2>2. CallOf("htc", call["htc"])'
    BY <2>1 DEF CallOf, Rest
  <2>3. EndInv("htc")'
    BY <2>1, <2>2 DEF EndInv, Busy, Rest, HtcPoints
  <2> QED
    BY <2>1, <2>3, OtherEnd DEF Rest
<1>24. ASSUME session["hts"] < Sessions, BeginSession("hts"), pc["hts"] = "accept",
              Goto("hts", "poll"), UNCHANGED call
       PROVE  ControlInv'
  <2>1. /\ session["hts"] = 0 /\ closed' = [closed EXCEPT !["hts"] = "no"]
        /\ session' = [session EXCEPT !["hts"] = @ + 1]
        /\ sent' = [sent EXCEPT !["hts"] = 0]
        /\ got' = [got EXCEPT !["hts"] = <<>>]
        /\ pc' = [pc EXCEPT !["hts"] = "poll"] /\ call' = call
    BY <1>24 DEF BeginSession, Goto
  <2>2. EndInv("hts")'
    BY <1>24, <2>1 DEF EndInv, Busy, Rest, HtsPoints
  <2> QED
    BY <2>1, <2>2, OtherEnd DEF Rest
<1>25. CASE AcceptReturns
  <2>1. CASE pc["hts"] = "acceptWrite"
    BY <1>5, <1>25, <2>1 DEF AcceptReturns, Goto, Busy
  <2>2. CASE pc["hts"] \in {"acceptIn", "acceptOut"}
    <3>1. ~Busy("hts") /\ session["hts"] # 0
            /\ UNCHANGED <<call, closed, session, sent, got>>
            /\ Goto("hts", "poll")
      BY <1>12, <1>25, <2>2 DEF AcceptReturns, Busy, history
    <3> QED
      BY <1>11, <3>1 DEF Goto, HtsPoints
  <2>3. CASE pc["hts"] = "accept"
    BY <1>24, <1>25, <2>3 DEF AcceptReturns
  <2> QED
    BY <1>25, <2>1, <2>2, <2>3 DEF AcceptReturns, Accepting
<1>26. CASE AcceptFails
  <2>1. CASE /\ session["hts"] < Sessions /\ BeginSession("hts")
             /\ pc["hts"] = "accept" /\ Goto("hts", "poll") /\ UNCHANGED call
    BY <1>24, <2>1
  <2>2. CASE UNCHANGED <<control, history>>
    BY <1>8, <2>2 DEF history
  <2>3. CASE pc["hts"] = "acceptWrite" /\ RequestFails("hts") /\ UNCHANGED history
    BY <1>4, <2>3 DEF Busy, history
  <2>4. CASE /\ pc["hts"] = "acceptWrite" /\ Goto("hts", "send")
             /\ UNCHANGED <<call, closed, history>>
    BY <1>5, <2>4 DEF Busy, Goto
  <2>5. CASE /\ pc["hts"] \in {"acceptIn", "acceptOut"} /\ Goto("hts", "poll")
             /\ UNCHANGED <<call, history>>
             /\ UNCHANGED closed \/ Close("hts", "error")
    <3>1. /\ ~Busy("hts") /\ session["hts"] # 0
          /\ closed'["hts"] = closed["hts"] \/ closed'["hts"] # "no"
          /\ closed'["htc"] = closed["htc"]
      BY <1>12, <2>5 DEF Busy, Close, Rest
    <3> QED
      BY <1>11, <2>5, <3>1 DEF Goto, HtsPoints, history
  <2> QED
    BY <1>26, <2>1, <2>2, <2>3, <2>4, <2>5, AcceptFailsCases
<1>27. ~CloseAged /\ ~CloseAgedFails /\ ~AcceptTimeout
  BY DEF CloseAged, CloseAgedFails, AcceptTimeout
<1> QED
  BY <1>3, <1>6, <1>7, <1>9, <1>10, <1>13, <1>14, <1>15, <1>16, <1>17, <1>18,
     <1>19, <1>20, <1>21, <1>22, <1>23, <1>25, <1>26, <1>27, Zenon
     DEF Next, Environment, Fails, Runs, Writes, Reads, Closes

\* An end that has stopped reading does not begin again.
LEMMA AttendsStep ==
    ASSUME Rest, ControlInv, OneDirection, [Next]_vars, NEW e \in End
    PROVE  Attends(e)' => Attends(e)
<1>1. /\ \A f \in End : session[f] \in {0, 1} /\ EndInv(f)
      /\ Sessions = 1 /\ ~Ages /\ ~Timeouts /\ "htc" \in End /\ "hts" \in End
      /\ End = {"htc", "hts"}
  BY OneSession DEF ControlInv, End
<1> DEFINE Fewer ==
      /\ closed'[e] = "no" => closed[e] = "no"
      /\ pc[e] \in {"exit", "exited"} => pc'[e] \in {"exit", "exited"}
      /\ pc'[e] = "tunnel" => Attends(e)
      /\ Busy(e)' /\ call'[e].next = "tunnel" => Attends(e)
<1> USE <1>1
<1>2. SUFFICES Fewer
  BY DEF Attends
<1> HIDE DEF Fewer
<1>3. ASSUME pc'[e] = pc[e], call'[e] = call[e], closed'[e] = closed[e]
      PROVE  Fewer
  BY <1>3 DEF Attends, Busy, Fewer
<1>4. ASSUME NEW f \in End, pc'[f] = call[f].next \/ pc'[f] \in {"exit", "resend"},
             Busy(f), \A g \in End \ {f} : call'[g] = call[g],
             pc'[f] = "resend" => call'[f] = call[f],
             pc'[f] = call[f].next => call'[f] = NoCall,
             \A g \in End \ {f} : pc'[g] = pc[g],
             \A g \in End : closed'[g] = closed[g] \/ closed'[g] # "no"
      PROVE  Fewer
  <2>1. NoCall.next = "poll"
    BY DEF NoCall
  <2>2. call[f].next \in {"connect", "poll", "disconnect", "tunnel"}
    BY <1>4, CallsStep
  <2> QED
    BY <1>4, <2>1, <2>2 DEF Attends, Busy, Rest, Fewer
<1>5. ASSUME NEW f \in End, Busy(f), RequestFails(f) PROVE Fewer
  <2>1. /\ pc'[f] \in {call[f].next, "exit"} /\ pc' = [pc EXCEPT ![f] = pc'[f]]
        /\ pc'[f] # "resend"
        /\ call' = [call EXCEPT ![f] = NoCall]
        /\ \A g \in End : closed'[g] = closed[g] \/ closed'[g] # "no"
    BY <1>5, CallsStep DEF RequestFails, Return, Goto, Rest, Close
  <2> QED
    BY <1>4, <1>5, <2>1 DEF Rest
<1>6. ASSUME NEW f \in End, Writes(f) PROVE Fewer
  <2>1. Writing(f) /\ Busy(f) /\ f \in {"htc", "hts"}
    BY <1>6 DEF Writes, WriteRequest, WriteLost, WriteEPIPE, WriteFails, Writing, Busy
  <2>2. \/ Return(f, call[f].next) /\ closed' = closed
        \/ RequestFails(f)
        \/ f = "htc" /\ Goto(f, "resend") /\ UNCHANGED <<call, closed>>
    BY <1>6 DEF Writes, WriteRequest, WriteLost, WriteEPIPE, WriteFails
  <2>3. CASE Return(f, call[f].next) /\ closed' = closed
    <3>1. pc'[f] = call[f].next /\ pc' = [pc EXCEPT ![f] = pc'[f]]
          /\ call' = [call EXCEPT ![f] = NoCall] /\ call[f].next # "resend"
      BY <2>1, <2>3, CallsStep DEF Return, Goto, Rest, Busy, Writing
    <3> QED
      BY <1>4, <2>1, <2>3, <3>1 DEF Rest
  <2>4. CASE RequestFails(f)
    BY <1>5, <2>1, <2>4
  <2>5. CASE f = "htc" /\ Goto(f, "resend") /\ UNCHANGED <<call, closed>>
    <3>1. call[f].next # "resend"
      BY <2>1, CallsStep DEF Busy, Writing
    <3> QED
      BY <1>4, <2>1, <2>5, <3>1 DEF Goto, Rest
  <2> QED
    BY <2>2, <2>3, <2>4, <2>5
\* An end that goes on, and not to its input
<1>7. ASSUME NEW f \in End, NEW l, pc' = [pc EXCEPT ![f] = l], l # "tunnel",
             pc[f] \in {"exit", "exited"} => l \in {"exit", "exited"},
             \/ call'[f] = call[f] /\ (Busy(f)' => Busy(f))
             \/ call'[f].next # "tunnel",
             \A g \in End \ {f} : call'[g] = call[g],
             \A g \in End : closed'[g] = closed[g] \/ closed'[g] # "no"
      PROVE  Fewer
  BY <1>7 DEF Attends, Busy, Rest, Fewer
<1>8. CASE OutConnect
  BY <1>7, <1>8 DEF OutConnect, Unconnected, Goto, Busy
<1>9. CASE OutConnectFails \/ PostFails
  BY <1>5, <1>9 DEF OutConnectFails, PostFails, Unconnected, Busy
<1>10. CASE OutAccept
  BY <1>7, <1>10 DEF OutAccept, Goto, Busy, Writing
<1>11. CASE \/ AcceptPost \/ AcceptGet \/ AnswerGetFails \/ AnswerLost
           \/ (\E f \in End : DrainMore(f)) \/ UNCHANGED vars
  BY <1>3, <1>11 DEF AcceptPost, AcceptGet, AnswerGetFails, AnswerLost, DrainMore,
     control, vars
<1>12. CASE \/ InConnect \/ InConnectFails \/ GetFails
            \/ Answered \/ AnswerFails \/ NotAnswered
  <2>1. PICK l \in {"response", "reresponse", "poll", "exit"} : Goto("htc", l)
    BY <1>12 DEF InConnect, InConnectFails, GetFails, Answered, AnswerFails,
       NotAnswered, InFails
  <2>2. /\ call' = call /\ pc["htc"] \notin {"exit", "exited"}
        /\ \A g \in End : closed'[g] = closed[g] \/ closed'[g] # "no"
    BY <1>12 DEF InConnect, InConnectFails, GetFails, Answered, AnswerFails,
       NotAnswered, InFails, Connecting, AwaitsAnswer, Close, Rest
  <2>3. Busy("htc")' => Busy("htc")
    BY <2>1 DEF Goto, Busy, Rest
  <2> QED
    BY <1>7, <2>1, <2>2, <2>3 DEF Goto
<1>13. CASE Exit
  <2>1. \A g \in End : closed'[g] = closed[g] \/ closed'[g] # "no"
    BY <1>13 DEF Exit, Close, Rest
  <2>2. ~Busy("htc")' /\ call' = call /\ Goto("htc", "exited")
    BY <1>13 DEF Exit, Goto, Busy, Rest
  <2> QED
    BY <1>7, <2>1, <2>2 DEF Goto
<1>14. ASSUME NEW f \in End, TunnelReady(f) \/ DeviceCloses(f) PROVE Fewer
  <2>1. Polling(f) /\ call' = call
        /\ (pc' = [pc EXCEPT ![f] = "tunnel"] \/ pc' = [pc EXCEPT ![f] = "poll"])
        /\ \A g \in End : closed'[g] = closed[g] \/ closed'[g] # "no"
    BY <1>14 DEF TunnelReady, DeviceCloses, AfterDevice, Goto, Close, Rest
  <2> QED
    BY <2>1 DEF Attends, Busy, Rest, Polling, Fewer
<1>15. CASE ReadAccept \/ ReadAgain
  <2>1. PICK l \in {"acceptIn", "acceptOut", "poll"} : Goto("hts", l)
    BY <1>15 DEF ReadAccept, ReadAgain
  <2>2. /\ UNCHANGED <<call, closed>> /\ pc["hts"] = "tunnel"
        /\ ~Busy("hts")'
    BY <1>15, <2>1 DEF ReadAccept, ReadAgain, Reading, Busy, Goto, Rest
  <2> QED
    BY <1>7, <2>1, <2>2 DEF Goto
<1>16. ASSUME NEW f \in End,
              ReadDisconnect(f) \/ ReadRequest(f) \/ ReadUnwritten(f)
       PROVE  Fewer
  <2>1. PICK l \in {"reconnect", "poll"} : Goto(f, l)
    BY <1>16 DEF ReadDisconnect, ReadRequest, ReadUnwritten
  <2>2. /\ call' = call /\ pc[f] = "tunnel" /\ ~Busy(f)'
        /\ \A g \in End : closed'[g] = closed[g] \/ closed'[g] # "no"
    BY <1>16, <2>1 DEF ReadDisconnect, ReadRequest, ReadUnwritten, Reading, Busy,
       Goto, Rest, Close
  <2> QED
    BY <1>7, <2>1, <2>2 DEF Goto
<1>17. ASSUME NEW f \in End, Disconnect(f) \/ DrainDone(f) PROVE Fewer
  <2>1. PICK l \in {"drain", "idle", "accept"} : Goto(f, l)
    BY <1>17 DEF Disconnect, DrainDone
  <2>2. /\ UNCHANGED <<call, closed>> /\ pc[f] \in {"disconnect", "drain"}
        /\ ~Busy(f)'
    BY <1>17, <2>1 DEF Disconnect, DrainDone, Busy, Goto, Rest
  <2> QED
    BY <1>7, <2>1, <2>2 DEF Goto
<1>18. ASSUME NEW f \in End, NEW m, NEW l, Request(f, m, l),
              l # "tunnel" \/ Attends(f), pc[f] \notin {"exit", "exited"},
              \A g \in End : closed'[g] = "no" => closed[g] = "no"
       PROVE  Fewer
  <2>1. /\ pc' = [pc EXCEPT ![f] = "write"]
        /\ call' = [call EXCEPT ![f] = [msg |-> m, next |-> l]]
    BY <1>18 DEF Request, Goto
  <2> QED
    BY <1>18, <2>1 DEF Attends, Busy, Rest, Fewer
<1>19. ASSUME NEW f \in End, TunnelClose(f) PROVE Fewer
  <2>1. CASE Request(f, Msg("CLOSE"), "disconnect")
    BY <1>18, <1>19, <2>1 DEF TunnelClose
  <2>2. CASE Goto(f, "idle") /\ UNCHANGED call
    BY <1>7, <1>19, <2>2 DEF TunnelClose, Goto, Busy, Rest
  <2> QED
    BY <1>19, <2>1, <2>2 DEF TunnelClose
<1>20. ASSUME NEW f \in End, KeepAlive(f) \/ DeviceInput(f) PROVE Fewer
  BY <1>18, <1>20 DEF KeepAlive, DeviceInput, Polling, Attends
<1>21. CASE TunnelConnect
  <2>1. session["htc"] = 0 /\ closed["htc"] = "no" /\ pc["htc"] = "idle"
        /\ closed' = [closed EXCEPT !["htc"] = "no"]
    BY <1>21 DEF TunnelConnect, EndInv, BeginSession
  <2> QED
    BY <1>18, <1>21, <2>1 DEF TunnelConnect, Rest
<1>22. ASSUME \A g \in End : closed'[g] = closed[g] \/ closed'[g] # "no",
              NEW l \in {"send", "poll"}, Goto("hts", l), Accepting, call' = call,
              l = "send" => pc["hts"] = "acceptWrite"
       PROVE  Fewer
  <2>1. (Busy("hts")' => Busy("hts")) /\ pc["hts"] \notin {"exit", "exited"}
    BY <1>22 DEF Accepting, Busy, Goto, Rest
  <2> QED
    BY <1>7, <1>22, <2>1 DEF Goto
<1>23. ASSUME BeginSession("hts"), session["hts"] < Sessions
       PROVE  \A g \in End : closed'[g] = closed[g] \/ closed'[g] # "no"
  <2>1. closed["hts"] = "no"
    BY <1>23 DEF EndInv
  <2> QED
    BY <1>23, <2>1 DEF BeginSession, Rest
<1>24. CASE AcceptReturns
  BY <1>22, <1>23, <1>24 DEF AcceptReturns
<1>25. CASE AcceptFails
  <2>1. CASE /\ session["hts"] < Sessions /\ BeginSession("hts")
             /\ Goto("hts", "poll") /\ UNCHANGED call
    BY <1>22, <1>23, <1>25, <2>1 DEF AcceptFails
  <2>2. CASE UNCHANGED <<control, history>>
    BY <1>3, <2>2 DEF control
  <2>3. CASE pc["hts"] = "acceptWrite" /\ RequestFails("hts")
    BY <1>5, <2>3 DEF Busy
  <2>4. CASE pc["hts"] = "acceptWrite" /\ Goto("hts", "send") /\ UNCHANGED <<call, closed>>
    BY <1>22, <1>25, <2>4 DEF AcceptFails
  <2>5. CASE Goto("hts", "poll") /\ UNCHANGED call
             /\ (UNCHANGED closed \/ Close("hts", "error"))
    <3>1. \A g \in End : closed'[g] = closed[g] \/ closed'[g] # "no"
      BY <2>5 DEF Close, Rest
    <3> QED
      BY <1>22, <1>25, <2>5, <3>1 DEF AcceptFails
  <2> QED
    BY <1>25, <2>1, <2>2, <2>3, <2>4, <2>5, AcceptFailsCases
<1>26. ~CloseAged /\ ~CloseAgedFails /\ ~AcceptTimeout
  BY DEF CloseAged, CloseAgedFails, AcceptTimeout
<1>27. Fewer
  BY <1>6, <1>8, <1>10, <1>11, <1>12, <1>13, <1>14, <1>15, <1>16, <1>17, <1>19,
     <1>20, <1>21, <1>26, <1>9, <1>24, <1>25, Zenon
     DEF Next, Environment, Fails, Runs, Reads, Closes
<1> QED
  BY <1>2, <1>27

-----------------------------------------------------------------------------
\* What the descriptors and the queue say of a connection
LEMMA NetFacts ==
    ASSUME TypeInv
    PROVE  /\ conn \in [Conns -> Connections] /\ queue \in Seq(Conns)
           /\ None \notin Conns /\ End = {"htc", "hts"}
           /\ \A c : InQueue(queue, c) =>
                /\ c \in Conns /\ c # in["hts"] /\ c # out["hts"] /\ c # None
                /\ \/ conn[c].kind = "POST" /\ conn[c].reader
                   \/ conn[c].kind = "GET" /\ conn[c].writer
           /\ \A e \in End : out[e] # None =>
                /\ out[e] \in Conns /\ conn[out[e]].writer
                /\ conn[out[e]].kind = OutKind(e)
           /\ \A e \in End : in[e] # None =>
                /\ in[e] \in Conns /\ conn[in[e]].reader
                /\ conn[in[e]].kind = InKind(e)
           /\ \A c \in Conns : conn[c].wire \in Seq(Msgs)
           /\ queue # <<>> => InQueue(queue, Head(queue))
<1>1. /\ conn \in [Conns -> Connections] /\ queue \in Seq(Conns)
      /\ None \notin Conns /\ End = {"htc", "hts"}
  BY NoneIsNot DEF TypeInv, Descriptors, End
<1>2. \A k \in 1..Len(queue) : queue[k] \in Conns
  BY <1>1, ElementOfSeq
<1>3. ASSUME NEW c, InQueue(queue, c)
      PROVE  /\ c \in Conns /\ c # in["hts"] /\ c # out["hts"] /\ c # None
             /\ \/ conn[c].kind = "POST" /\ conn[c].reader
                \/ conn[c].kind = "GET" /\ conn[c].writer
  BY <1>1, <1>2, <1>3 DEF InQueue, TypeInv, Descriptors
<1>4. \A e \in End : out[e] # None =>
        /\ out[e] \in Conns /\ conn[out[e]].writer
        /\ conn[out[e]].kind = OutKind(e)
  BY DEF TypeInv, Descriptors
<1>5. \A e \in End : in[e] # None =>
        /\ in[e] \in Conns /\ conn[in[e]].reader
        /\ conn[in[e]].kind = InKind(e)
  BY DEF TypeInv, Descriptors
<1>6. \A c \in Conns : conn[c].wire \in Seq(Msgs)
  BY <1>1, Fields
<1>7. queue # <<>> => InQueue(queue, Head(queue))
  BY <1>1, QueueLaws
<1> QED
  BY <1>1, <1>3, <1>4, <1>5, <1>6, <1>7

-----------------------------------------------------------------------------
\* htc opens a connection, whether the header of its request fails or not.
OpensOut == OutConnect \/ PostFails
OpensIn == InConnect \/ GetFails
Opens == OpensOut \/ OpensIn

\* A connection is of use or not from the first.
LEMMA OpenedReset ==
    ASSUME NEW kind
    PROVE  NewConn(kind).reset = FALSE /\ DeadConn(kind).reset = TRUE
BY DEF NewConn, DeadConn, NoConn

\* What a step does to the connections and the queue: htc opens one,
LEMMA ConnectNet ==
    ASSUME TypeInv, OpensOut \/ OpensIn
    PROVE  \E c \in Conns :
             /\ ~InQueue(queue, c) /\ \A e \in End : in[e] # c /\ out[e] # c
             /\ queue' = Append(queue, c)
             /\ \A d : InQueue(queue', d) <=> InQueue(queue, d) \/ d = c
             /\ \A d \in Conns \ {c} : conn'[d] = conn[d]
             /\ conn[c].kind = "none"
             /\ conn'[c].wire = <<>> /\ conn'[c].writer /\ conn'[c].reader
             /\ OpensOut => /\ conn'[c].kind = "POST" /\ in' = in
                            /\ out' = [out EXCEPT !["htc"] = c]
             /\ OpensIn => /\ conn'[c].kind = "GET" /\ out' = out
                           /\ in' = [in EXCEPT !["htc"] = c]
             /\ OutConnect \/ InConnect => ~conn'[c].reset
             /\ PostFails \/ GetFails => conn'[c].reset
<1>1. PICK c \in Conns : c = FirstFree /\ conn[c].kind = "none"
  BY FirstFreeConn DEF OpensOut, OpensIn, OutConnect, PostFails, InConnect, GetFails
<1>2. ~InQueue(queue, c) /\ \A e \in End : in[e] # c /\ out[e] # c
  BY <1>1, NetFacts DEF OutKind, InKind
<1>3. /\ queue' = Append(queue, c)
      /\ \A d : InQueue(queue', d) <=> InQueue(queue, d) \/ d = c
  <2>1. queue' = Append(queue, c) /\ queue \in Seq(Conns)
    BY <1>1, NetFacts DEF OpensOut, OpensIn, OutConnect, PostFails, InConnect, GetFails
  <2>2. ASSUME NEW d PROVE InQueue(queue', d) <=> InQueue(queue, d) \/ d = c
    BY <2>1, QueueLaws
  <2> QED
    BY <2>1, <2>2
<1>4. ~(pc["htc"] \in {"write", "resend"} /\ pc["htc"] \in {"connect", "reconnect"})
  OBVIOUS
<1>5. ~(OutConnect /\ PostFails) /\ ~(InConnect /\ GetFails)
  <2>1. faults \in Nat
    BY HttpTunnelAssumption DEF TypeInv, Rest
  <2>2. ~(Fault /\ UNCHANGED history)
    BY <2>1 DEF Fault, history
  <2> QED
    BY <2>2 DEF OutConnect, PostFails, InConnect, GetFails
<1>6. CASE OpensOut
  <2>1. /\ in' = in /\ out' = [out EXCEPT !["htc"] = c] /\ ~OpensIn
        /\ \/ OutConnect /\ conn' = [conn EXCEPT ![c] = NewConn("POST")]
           \/ PostFails /\ conn' = [conn EXCEPT ![c] = DeadConn("POST")]
    BY <1>1, <1>4, <1>6 DEF OpensOut, OpensIn, OutConnect, PostFails, InConnect,
       GetFails, Unconnected, Connecting, SetOut
  <2>2. conn'[c].reset <=> PostFails
    <3>1. \/ ~PostFails /\ conn'[c] = NewConn("POST")
          \/ PostFails /\ conn'[c] = DeadConn("POST")
      BY <1>1, <1>5, <2>1, NetFacts
    <3> QED
      BY <3>1, OpenedReset
  <2>3. conn'[c] \in Opened("POST")
    BY <1>1, <2>1, NetFacts DEF Opened
  <2>4. /\ conn'[c].wire = <<>> /\ conn'[c].writer /\ conn'[c].reader
        /\ conn'[c].kind = "POST"
    BY <2>3, NewConnType
  <2>5. \A d \in Conns \ {c} : conn'[d] = conn[d]
    BY <1>1, <2>1, NetFacts
  <2> QED
    BY <1>1, <1>2, <1>3, <1>6, <1>5, <2>1, <2>2, <2>4, <2>5 DEF OpensOut, OpensIn
<1>7. CASE OpensIn
  <2>1. /\ out' = out /\ in' = [in EXCEPT !["htc"] = c] /\ ~OpensOut
        /\ \/ InConnect /\ conn' = [conn EXCEPT ![c] = NewConn("GET")]
           \/ GetFails /\ conn' = [conn EXCEPT ![c] = DeadConn("GET")]
    BY <1>1, <1>4, <1>7 DEF OpensOut, OpensIn, OutConnect, PostFails, InConnect,
       GetFails, Unconnected, Connecting, SetIn
  <2>2. conn'[c].reset <=> GetFails
    <3>1. \/ ~GetFails /\ conn'[c] = NewConn("GET")
          \/ GetFails /\ conn'[c] = DeadConn("GET")
      BY <1>1, <1>5, <2>1, NetFacts
    <3> QED
      BY <3>1, OpenedReset
  <2>3. conn'[c] \in Opened("GET")
    BY <1>1, <2>1, NetFacts DEF Opened
  <2>4. /\ conn'[c].wire = <<>> /\ conn'[c].writer /\ conn'[c].reader
        /\ conn'[c].kind = "GET"
    BY <2>3, NewConnType
  <2>5. \A d \in Conns \ {c} : conn'[d] = conn[d]
    BY <1>1, <2>1, NetFacts
  <2> QED
    BY <1>1, <1>2, <1>3, <1>7, <1>5, <2>1, <2>2, <2>4, <2>5 DEF OpensOut, OpensIn
<1> QED
  BY <1>6, <1>7

\* Only Break makes a connection unusable.
LEMMA ResetEffect ==
    ASSUME NEW cs \in [Conns -> Connections], NEW c \in Conns
    PROVE  /\ \A m : Write(cs, c, m)[c].reset = cs[c].reset
           /\ Consume(cs, c)[c].reset = cs[c].reset
           /\ CloseWriter(cs, c)[c] = NoConn \/
                /\ CloseWriter(cs, c)[c].reset = cs[c].reset
                /\ ~CloseWriter(cs, c)[c].writer
           /\ CloseReader(cs, c)[c] = NoConn \/
                /\ CloseReader(cs, c)[c].reset = cs[c].reset
                /\ ~CloseReader(cs, c)[c].reader
           /\ ~NoConn.reset
<1>1. cs[c] \in Connections
  BY Fields
<1>2. /\ [cs[c] EXCEPT !.writer = FALSE].reset = cs[c].reset
      /\ [cs[c] EXCEPT !.writer = FALSE].writer = FALSE
      /\ [cs[c] EXCEPT !.reader = FALSE, !.wire = <<>>].reset = cs[c].reset
      /\ [cs[c] EXCEPT !.reader = FALSE, !.wire = <<>>].reader = FALSE
      /\ \A w : [cs[c] EXCEPT !.wire = w].reset = cs[c].reset
  BY <1>1 DEF Connections
<1>3. \/ CloseWriter(cs, c)[c] = NoConn
      \/ CloseWriter(cs, c)[c] = [cs[c] EXCEPT !.writer = FALSE]
  BY DEF CloseWriter
<1>4. \/ CloseReader(cs, c)[c] = NoConn
      \/ CloseReader(cs, c)[c] = [cs[c] EXCEPT !.reader = FALSE, !.wire = <<>>]
  BY DEF CloseReader
<1>5. /\ \A m : Write(cs, c, m)[c] = [cs[c] EXCEPT !.wire = Append(cs[c].wire, m)]
      /\ Consume(cs, c)[c] = [cs[c] EXCEPT !.wire = Tail(cs[c].wire)]
  BY DEF Write, Consume
<1>6. ~NoConn.reset
  BY DEF NoConn
<1>7. /\ CloseWriter(cs, c)[c] = NoConn \/
           /\ CloseWriter(cs, c)[c].reset = cs[c].reset
           /\ ~CloseWriter(cs, c)[c].writer
      /\ CloseReader(cs, c)[c] = NoConn \/
           /\ CloseReader(cs, c)[c].reset = cs[c].reset
           /\ ~CloseReader(cs, c)[c].reader
  BY <1>2, <1>3, <1>4, Zenon
<1>8. /\ \A m : Write(cs, c, m)[c].reset = cs[c].reset
      /\ Consume(cs, c)[c].reset = cs[c].reset
  <2>1. \A w : [cs[c] EXCEPT !.wire = w].reset = cs[c].reset
    BY <1>2
  <2>2. ASSUME NEW m PROVE Write(cs, c, m)[c].reset = cs[c].reset
    <3>1. Write(cs, c, m)[c] = [cs[c] EXCEPT !.wire = Append(cs[c].wire, m)]
      BY <1>5
    <3> DEFINE w == Append(cs[c].wire, m)
    <3>2. [cs[c] EXCEPT !.wire = w].reset = cs[c].reset
      BY <2>1
    <3> QED
      BY <3>1, <3>2
  <2>3. Consume(cs, c)[c].reset = cs[c].reset
    BY <1>5, <2>1
  <2> QED
    BY <2>2, <2>3
<1> QED
  BY <1>6, <1>7, <1>8

\* What may become of a connection to which nobody writes: its content is
\* lost if at all, it does not come back to life, and what its reader has
\* closed or what breaks is empty,
Shut(k2, k) ==
    \/ k2.kind = "none" /\ k2.wire = <<>>
    \/ /\ k2.kind = k.kind /\ k2.wire \in {k.wire, <<>>}
       /\ (k.reset => k2.reset) /\ (k2.writer => k.writer) /\ (k2.reader => k.reader)
       /\ k2.reset => k.reset \/ ~k.reader \/ k2.wire = <<>>
       /\ k.reader => k2.reader \/ k2.wire = <<>>
       /\ k2.wire = k.wire \/ k2.reset \/ ~k2.reader

\* or its reader takes a request.
Worn(k2, k) ==
    \/ Shut(k2, k)
    \/ /\ k.wire # <<>> /\ k2.wire = Tail(k.wire) /\ k2.kind = k.kind
       /\ k2.reset = k.reset /\ k2.writer = k.writer /\ k2.reader = k.reader

Takes(e) ==
    ReadRequest(e) \/ ReadUnwritten(e) \/ DrainMore(e) \/ (e = "htc" /\ Answered)

\* What breaks, is closed or is read does not come back.
LEMMA WornLaws ==
    ASSUME NEW cs \in [Conns -> Connections], NEW c \in Conns \cup {None}
    PROVE  /\ \A d \in Conns : /\ Shut(cs[d], cs[d])
                              /\ Shut(CloseIn(cs, c)[d], cs[d])
                              /\ Shut(CloseOut(cs, c)[d], cs[d])
           /\ c # None /\ ~cs[c].reader => \A d \in Conns :
                Shut([cs EXCEPT ![c].reset = TRUE][d], cs[d])
           /\ c # None => \A d \in Conns : Shut(Break(cs, c)[d], cs[d])
           /\ c # None => CloseIn(cs, c) = CloseReader(cs, c)
           /\ c # None => CloseOut(cs, c) = CloseWriter(cs, c)
           /\ c # None /\ cs[c].wire # <<>> => \A d \in Conns :
                Worn(Consume(cs, c)[d], cs[d])
           /\ CloseIn(cs, c) \in [Conns -> Connections]
           /\ CloseOut(cs, c) \in [Conns -> Connections]
<1>1. /\ None \notin Conns
      /\ \A d \in Conns :
            /\ cs[d] \in Connections /\ cs[d].reset \in BOOLEAN
            /\ cs[d].reader \in BOOLEAN /\ cs[d].writer \in BOOLEAN
  BY NoneIsNot, Fields
<1>2. \A d \in Conns : Shut(cs[d], cs[d])
  BY <1>1 DEF Shut
<1>3. CASE c = None
  BY <1>2, <1>3 DEF CloseIn, CloseOut
<1>4. CASE c # None
  <2>1. c \in Conns /\ CloseIn(cs, c) = CloseReader(cs, c)
          /\ CloseOut(cs, c) = CloseWriter(cs, c)
    BY <1>4 DEF CloseIn, CloseOut
  <2>2. /\ \A d \in Conns : Shut(CloseReader(cs, c)[d], cs[d])
        /\ CloseReader(cs, c) \in [Conns -> Connections]
    <3>1. /\ CloseReader(cs, c) \in [Conns -> Connections]
          /\ \A d \in Conns \ {c} : CloseReader(cs, c)[d] = cs[d]
          /\ CloseReader(cs, c)[c].wire = <<>>
          /\ IF cs[c].writer
             THEN /\ CloseReader(cs, c)[c].kind = cs[c].kind
                  /\ CloseReader(cs, c)[c].writer = TRUE
             ELSE CloseReader(cs, c)[c] = NoConn
      BY <2>1, CloseReaderEffect, Zenon
    <3>2. CloseReader(cs, c)[c] = NoConn \/
            /\ CloseReader(cs, c)[c].reset = cs[c].reset
            /\ ~CloseReader(cs, c)[c].reader
      BY <2>1, ResetEffect
    <3>3. Shut(CloseReader(cs, c)[c], cs[c])
      BY <1>1, <2>1, <3>1, <3>2, NoConnType, ResetEffect DEF Shut
    <3> QED
      BY <1>2, <3>1, <3>3
  <2>3. /\ \A d \in Conns : Shut(CloseWriter(cs, c)[d], cs[d])
        /\ CloseWriter(cs, c) \in [Conns -> Connections]
    <3>1. /\ CloseWriter(cs, c) \in [Conns -> Connections]
          /\ \A d \in Conns \ {c} : CloseWriter(cs, c)[d] = cs[d]
          /\ IF cs[c].reader
             THEN /\ CloseWriter(cs, c)[c].kind = cs[c].kind
                  /\ CloseWriter(cs, c)[c].wire = cs[c].wire
                  /\ CloseWriter(cs, c)[c].reader = TRUE
             ELSE CloseWriter(cs, c)[c] = NoConn
      BY <2>1, CloseWriterEffect, Zenon
    <3>2. CloseWriter(cs, c)[c] = NoConn \/
            /\ CloseWriter(cs, c)[c].reset = cs[c].reset
            /\ ~CloseWriter(cs, c)[c].writer
      BY <2>1, ResetEffect
    <3>3. Shut(CloseWriter(cs, c)[c], cs[c])
      BY <1>1, <2>1, <3>1, <3>2, NoConnType, ResetEffect DEF Shut
    <3> QED
      BY <1>2, <3>1, <3>3
  <2>4. ASSUME ~cs[c].reader, NEW d \in Conns
        PROVE  Shut([cs EXCEPT ![c].reset = TRUE][d], cs[d])
    <3>1. [cs EXCEPT ![c].reset = TRUE][d] =
            IF d = c THEN [cs[c] EXCEPT !.reset = TRUE] ELSE cs[d]
      OBVIOUS
    <3> DEFINE r == [cs[c] EXCEPT !.reset = TRUE]
    <3>2. /\ r.kind = cs[c].kind /\ r.wire = cs[c].wire /\ r.reset = TRUE
          /\ r.writer = cs[c].writer /\ r.reader = cs[c].reader
      BY <1>1, <2>1 DEF Connections
    <3> HIDE DEF r
    <3>3. Shut(r, cs[c])
      BY <2>4, <3>2 DEF Shut
    <3> QED
      BY <1>2, <3>1, <3>3 DEF r
  <2>5. \A d \in Conns : Shut(Break(cs, c)[d], cs[d])
    <3>1. \A d \in Conns :
            /\ Break(cs, c)[d].kind = cs[d].kind
            /\ Break(cs, c)[d].writer = cs[d].writer
            /\ Break(cs, c)[d].reader = cs[d].reader
            /\ Break(cs, c)[d].wire = IF d = c THEN <<>> ELSE cs[d].wire
            /\ Break(cs, c)[d].reset = (d = c \/ cs[d].reset)
      BY <2>1, BreakEffect
    <3> QED
      BY <1>1, <3>1 DEF Shut
  <2>6. ASSUME cs[c].wire # <<>>, NEW d \in Conns
        PROVE  Worn(Consume(cs, c)[d], cs[d])
    <3>1. /\ Consume(cs, c)[d].kind = cs[d].kind
          /\ Consume(cs, c)[d].writer = cs[d].writer
          /\ Consume(cs, c)[d].reader = cs[d].reader
          /\ Consume(cs, c)[d].wire =
               IF d = c THEN Tail(cs[c].wire) ELSE cs[d].wire
      BY <2>1, <2>6, ConsumeEffect
    <3>2. Consume(cs, c)[d].reset = cs[d].reset
      BY <2>1, ResetEffect DEF Consume
    <3>3. CASE d = c
      BY <2>6, <3>1, <3>2, <3>3 DEF Worn
    <3>4. CASE d # c
      BY <1>2, <2>1, <3>4 DEF Worn, Consume
    <3> QED
      BY <3>3, <3>4
  <2> QED
    BY <1>2, <2>1, <2>2, <2>3, <2>4, <2>5, <2>6
<1> QED
  BY <1>3, <1>4

\* One thing after another
LEMMA ShutTwice ==
    ASSUME NEW k, NEW k2, NEW k3, Shut(k2, k), Shut(k3, k2)
    PROVE  Shut(k3, k)
BY DEF Shut

\* an end writes a request, after which the body may end,
LEMMA WriteNet ==
    ASSUME TypeInv, NEW e \in End, WriteRequest(e),
           call[e].msg.req # "DISCONNECT", NEW c, c = out[e]
    PROVE  /\ c \in Conns /\ UNCHANGED <<queue, in>>
           /\ \A d \in Conns \ {c} : conn'[d] = conn[d]
           /\ conn'[c].kind = conn[c].kind /\ conn'[c].reader /\ conn[c].reader
           /\ ~conn[c].reset /\ ~conn'[c].reset
           /\ conn'[c].wire # <<>>
           /\ conn[c].wire # <<>> => Head(conn'[c].wire) = Head(conn[c].wire)
           /\ \A r : Has(conn'[c].wire, r) <=>
                \/ Has(conn[c].wire, r) \/ r = call[e].msg.req
                \/ r = "DISCONNECT" /\ out'[e] = None
           /\ conn'[c].wire \in
                {Append(conn[c].wire, call[e].msg),
                 Append(Append(conn[c].wire, call[e].msg), Msg("DISCONNECT"))}
           /\ \/ out' = out /\ conn'[c].writer
              \/ /\ e \in ends /\ out' = [out EXCEPT ![e] = None]
<1> DEFINE m == call[e].msg
           x == Msg("DISCONNECT")
           w == conn[c].wire
           written == Write(conn, c, m)
           last == Write(written, c, x)
<1>1. /\ c \in Conns /\ conn \in [Conns -> Connections] /\ w \in Seq(Msgs)
      /\ conn[c].reader /\ UNCHANGED <<queue, in>> /\ conn[c].writer
  BY NetFacts DEF WriteRequest
<1>2. m \in Msgs /\ x \in Msgs /\ x.req = "DISCONNECT"
  BY MsgType DEF TypeInv
<1>3. \/ conn' = written /\ out' = out
      \/ /\ conn' = CloseWriter(last, c) /\ e \in ends
         /\ out' = [out EXCEPT ![e] = None]
  BY DEF WriteRequest, SetOut
<1>4. /\ Append(w, m) \in Seq(Msgs) /\ Append(w, m) # <<>>
      /\ Append(Append(w, m), x) # <<>>
      /\ w # <<>> => /\ Head(Append(w, m)) = Head(w)
                     /\ Head(Append(Append(w, m), x)) = Head(w)
      /\ \A r : /\ Has(Append(w, m), r) <=> Has(w, r) \/ r = m.req
                /\ Has(Append(Append(w, m), x), r) <=>
                     Has(w, r) \/ r = m.req \/ r = "DISCONNECT"
  <2>1. Append(w, m) \in Seq(Msgs) /\ Append(w, m) # <<>>
    BY <1>1, <1>2, AppendProperties
  <2>2. Append(Append(w, m), x) # <<>>
    BY <1>2, <2>1, AppendProperties
  <2>3. ASSUME w # <<>>
        PROVE  /\ Head(Append(w, m)) = Head(w)
               /\ Head(Append(Append(w, m), x)) = Head(w)
    <3>1. /\ Len(w) \in Nat /\ Len(w) > 0 /\ Head(w) = w[1]
      BY <1>1, <2>3, HeadTailProperties, EmptySeq, LenProperties
    <3>2. /\ Len(Append(w, m)) = Len(w) + 1 /\ Append(w, m)[1] = w[1]
          /\ Head(Append(w, m)) = Append(w, m)[1]
      BY <1>1, <1>2, <2>1, <3>1, AppendProperties, HeadTailProperties
    <3>3. /\ Append(Append(w, m), x)[1] = Append(w, m)[1]
          /\ Append(Append(w, m), x) \in Seq(Msgs)
      BY <1>2, <2>1, <3>1, <3>2, AppendProperties
    <3>4. Head(Append(Append(w, m), x)) = Append(Append(w, m), x)[1]
      BY <2>2, <3>3, HeadTailProperties
    <3> QED
      BY <3>1, <3>2, <3>3, <3>4
  <2>4. \A r : /\ Has(Append(w, m), r) <=> Has(w, r) \/ r = m.req
               /\ Has(Append(Append(w, m), x), r) <=>
                    Has(w, r) \/ r = m.req \/ r = "DISCONNECT"
    <3> TAKE r
    <3>1. Has(Append(w, m), r) <=> Has(w, r) \/ r = m.req
      BY <1>1, <1>2, HasLaws
    <3>2. Has(Append(Append(w, m), x), r) <=>
            Has(Append(w, m), r) \/ r = "DISCONNECT"
      BY <1>2, <2>1, HasLaws
    <3> QED
      BY <3>1, <3>2
  <2> QED
    BY <2>1, <2>2, <2>3, <2>4
<1>5. /\ written \in [Conns -> Connections]
      /\ \A d \in Conns \ {c} : written[d].kind = conn[d].kind
      /\ written[c].kind = conn[c].kind /\ written[c].reader /\ written[c].writer
      /\ written[c].wire = Append(w, m)
  <2>1. /\ written \in [Conns -> Connections]
        /\ \A d \in Conns :
             /\ written[d].kind = conn[d].kind
             /\ written[d].writer = conn[d].writer
             /\ written[d].reader = conn[d].reader
             /\ written[d].wire = IF d = c THEN Append(w, m) ELSE conn[d].wire
    BY <1>1, <1>2, WriteEffect
  <2> HIDE DEF written
  <2> QED
    BY <1>1, <2>1
<1>6. \A d \in Conns \ {c} : written[d] = conn[d] /\ last[d] = written[d]
  BY <1>1 DEF Write
<1>7. /\ last \in [Conns -> Connections]
      /\ last[c].kind = conn[c].kind /\ last[c].reader
      /\ last[c].wire = Append(Append(w, m), x)
  <2> HIDE DEF written
  <2>1. /\ last \in [Conns -> Connections]
        /\ last[c].kind = written[c].kind
        /\ last[c].reader = written[c].reader
        /\ last[c].wire = Append(written[c].wire, x)
    <3>1. /\ last \in [Conns -> Connections]
          /\ \A d \in Conns :
               /\ last[d].kind = written[d].kind
               /\ last[d].writer = written[d].writer
               /\ last[d].reader = written[d].reader
               /\ last[d].wire =
                    IF d = c THEN Append(written[c].wire, x) ELSE written[d].wire
      <4>1. written \in [Conns -> Connections] /\ c \in Conns /\ x \in Msgs
        BY <1>1, <1>2, <1>5
      <4> HIDE DEF x
      <4> QED
        BY <4>1, WriteEffect, Zenon
    <3> HIDE DEF last
    <3> QED
      BY <1>1, <3>1
  <2> QED
    BY <1>5, <2>1
<1> HIDE DEF written, last
<1>8. /\ \A d \in Conns \ {c} : CloseWriter(last, c)[d] = last[d]
      /\ CloseWriter(last, c)[c].kind = last[c].kind
      /\ CloseWriter(last, c)[c].wire = last[c].wire
      /\ CloseWriter(last, c)[c].reader
  <2>1. /\ \A d \in Conns \ {c} : CloseWriter(last, c)[d] = last[d]
        /\ IF last[c].reader
           THEN /\ CloseWriter(last, c)[c].kind = last[c].kind
                /\ CloseWriter(last, c)[c].wire = last[c].wire
                /\ CloseWriter(last, c)[c].reader = TRUE
           ELSE CloseWriter(last, c)[c] = NoConn
    <3>1. last \in [Conns -> Connections] /\ c \in Conns
      BY <1>1, <1>7
    <3> QED
      BY <3>1, CloseWriterEffect, Zenon
  <2> QED
    BY <1>7, <2>1
<1>9. ~conn[c].reset /\ ~conn'[c].reset
  <2>1. ~conn[c].reset
    BY DEF WriteRequest
  <2>2. ~written[c].reset /\ ~last[c].reset /\ last[c].reader
    <3>1. written[c].reset = conn[c].reset
      BY <1>1, ResetEffect, Zenon DEF written
    <3>2. last[c].reset = written[c].reset
      <4>1. \A y : Write(written, c, y)[c].reset = written[c].reset
        BY <1>1, <1>5, ResetEffect
      <4> QED
        BY <4>1, Zenon DEF last
    <3> QED
      BY <1>7, <2>1, <3>1, <3>2
  <2>3. ~CloseWriter(last, c)[c].reset
    <3>1. CloseWriter(last, c)[c] = NoConn \/
            CloseWriter(last, c)[c].reset = last[c].reset
      BY <1>1, <1>7, ResetEffect, Zenon
    <3>2. ~NoConn.reset
      BY DEF NoConn
    <3> QED
      BY <2>2, <3>1, <3>2
  <2> QED
    BY <1>3, <2>1, <2>2, <2>3
<1>10. out[e] # None /\ out \in [End -> Conns \cup {None}]
  BY DEF WriteRequest, TypeInv, Descriptors
<1>11. CASE conn' = written /\ out' = out
  BY <1>1, <1>4, <1>5, <1>6, <1>10, <1>11, <1>9
<1>12. CASE /\ conn' = CloseWriter(last, c) /\ e \in ends
            /\ out' = [out EXCEPT ![e] = None]
  <2>1. out'[e] = None
    BY <1>10, <1>12
  <2> QED
    BY <1>1, <1>4, <1>6, <1>7, <1>8, <1>12, <1>9, <2>1
<1> QED
  BY <1>3, <1>11, <1>12

\* an end writes to a connection that its peer does not read any more,
LEMMA BrokenNet ==
    ASSUME TypeInv, NEW e \in End, WriteLost(e) \/ WriteEPIPE(e),
           NEW c, c = out[e]
    PROVE  /\ c \in Conns /\ UNCHANGED <<queue, in>>
           /\ ~conn[c].reader \/ conn[c].reset
           /\ \A d \in Conns \ {c} : conn'[d] = conn[d]
           /\ \/ /\ conn'[c].kind = conn[c].kind /\ conn'[c].wire = conn[c].wire
                 /\ conn'[c].writer /\ out' = out /\ ~conn[c].reader
              \/ /\ conn'[c] = NoConn /\ out' = [out EXCEPT ![e] = None]
                 /\ ~conn[c].reader
              \/ /\ conn'[c].kind = conn[c].kind /\ conn'[c].wire = conn[c].wire
                 /\ out' = [out EXCEPT ![e] = None] /\ conn[c].reset
           /\ \A d \in Conns : Shut(conn'[d], conn[d])
<1>1. /\ c \in Conns /\ conn \in [Conns -> Connections] /\ conn[c].writer
      /\ ~conn[c].reader \/ conn[c].reset
      /\ UNCHANGED <<queue, in>>
      /\ None \notin Conns /\ c # None
  BY NetFacts, NoneIsNot DEF WriteLost, WriteEPIPE, Lost
<1>2. \A d \in Conns : Shut(conn'[d], conn[d])
  <2>1. /\ \A d \in Conns : Shut(CloseOut(conn, c)[d], conn[d])
        /\ ~conn[c].reader => \A d \in Conns :
             Shut([conn EXCEPT ![c].reset = TRUE][d], conn[d])
        /\ CloseOut(conn, c) = CloseWriter(conn, c)
    BY <1>1, WornLaws
  <2> QED
    BY <2>1 DEF WriteLost, WriteEPIPE
<1>3. \/ conn' = [conn EXCEPT ![c].reset = TRUE] /\ out' = out /\ ~conn[c].reader
      \/ conn' = CloseWriter(conn, c) /\ out' = [out EXCEPT ![e] = None]
  BY DEF WriteLost, WriteEPIPE, SetOut
<1>4. CASE conn' = [conn EXCEPT ![c].reset = TRUE] /\ out' = out /\ ~conn[c].reader
  <2>1. conn[c] \in Connections /\ conn'[c] = [conn[c] EXCEPT !.reset = TRUE]
    BY <1>1, <1>4, Fields
  <2>2. /\ conn'[c].kind = conn[c].kind /\ conn'[c].wire = conn[c].wire
        /\ conn'[c].writer
    BY <1>1, <2>1 DEF Connections
  <2> QED
    BY <1>1, <1>4, <1>2, <2>2
<1>5. CASE conn' = CloseWriter(conn, c) /\ out' = [out EXCEPT ![e] = None]
  <2>1. /\ \A d \in Conns \ {c} : CloseWriter(conn, c)[d] = conn[d]
        /\ IF conn[c].reader
           THEN /\ CloseWriter(conn, c)[c].kind = conn[c].kind
                /\ CloseWriter(conn, c)[c].wire = conn[c].wire
                /\ CloseWriter(conn, c)[c].reader = TRUE
           ELSE CloseWriter(conn, c)[c] = NoConn
    <3>1. conn \in [Conns -> Connections] /\ c \in Conns
      BY <1>1
    <3> QED
      BY <3>1, CloseWriterEffect, Zenon
  <2> QED
    BY <1>1, <1>5, <1>2, <2>1
<1> QED
  BY <1>3, <1>4, <1>5

\* an end closes a connection it writes to or one it reads,
LEMMA CloseNet ==
    ASSUME NEW cs \in [Conns -> Connections], NEW c \in Conns \cup {None}
    PROVE  /\ CloseOut(cs, c) \in [Conns -> Connections]
           /\ CloseIn(cs, c) \in [Conns -> Connections]
           /\ \A d \in Conns \ {c} :
                CloseOut(cs, c)[d] = cs[d] /\ CloseIn(cs, c)[d] = cs[d]
           /\ c \in Conns =>
                /\ \/ /\ cs[c].reader
                      /\ CloseOut(cs, c)[c].kind = cs[c].kind
                      /\ CloseOut(cs, c)[c].wire = cs[c].wire
                   \/ ~cs[c].reader /\ CloseOut(cs, c)[c] = NoConn
                /\ CloseIn(cs, c)[c].kind \in {cs[c].kind, "none"}
                /\ CloseIn(cs, c)[c].wire = <<>>
<1>1. CASE c = None
  BY <1>1, NoneIsNot DEF CloseOut, CloseIn
<1>2. CASE c \in Conns
  <2>1. CloseOut(cs, c) = CloseWriter(cs, c) /\ CloseIn(cs, c) = CloseReader(cs, c)
    BY <1>2, NoneIsNot DEF CloseOut, CloseIn
  <2>2. /\ CloseWriter(cs, c) \in [Conns -> Connections]
        /\ \A d \in Conns \ {c} : CloseWriter(cs, c)[d] = cs[d]
        /\ IF cs[c].reader
           THEN /\ CloseWriter(cs, c)[c].kind = cs[c].kind
                /\ CloseWriter(cs, c)[c].wire = cs[c].wire
                /\ CloseWriter(cs, c)[c].reader = TRUE
           ELSE CloseWriter(cs, c)[c] = NoConn
    BY <1>2, CloseWriterEffect, Zenon
  <2>3. /\ CloseReader(cs, c) \in [Conns -> Connections]
        /\ \A d \in Conns \ {c} : CloseReader(cs, c)[d] = cs[d]
        /\ CloseReader(cs, c)[c].wire = <<>>
        /\ IF cs[c].writer
           THEN /\ CloseReader(cs, c)[c].kind = cs[c].kind
                /\ CloseReader(cs, c)[c].writer = TRUE
           ELSE CloseReader(cs, c)[c] = NoConn
    BY <1>2, CloseReaderEffect, Zenon
  <2>4. cs[c].reader \in BOOLEAN /\ cs[c].writer \in BOOLEAN
    BY <1>2, Fields
  <2>5. CloseReader(cs, c)[c].kind \in {cs[c].kind, "none"}
    BY <2>3, <2>4, NoConnType
  <2>6. \/ /\ cs[c].reader
           /\ CloseWriter(cs, c)[c].kind = cs[c].kind
           /\ CloseWriter(cs, c)[c].wire = cs[c].wire
        \/ ~cs[c].reader /\ CloseWriter(cs, c)[c] = NoConn
    BY <2>2, <2>4
  <2> QED
    BY <2>1, <2>2, <2>3, <2>5, <2>6
<1> QED
  BY <1>1, <1>2

\* hts takes a connection from its queue,
LEMMA TakeNet ==
    ASSUME TypeInv, TypeInv', NEW c, c = Head(queue),
           AcceptPost \/ AcceptGet \/ AnswerGetFails \/ AcceptFails
    PROVE  /\ queue # <<>> /\ queue' = Tail(queue) /\ c \in Conns
           /\ \A d : InQueue(queue, d) <=> d = c \/ InQueue(queue', d)
           /\ ~InQueue(queue', c)
           /\ \A d \in Conns \ {c} : conn'[d] = conn[d]
           /\ AcceptPost =>
                /\ conn[c].kind = "POST" /\ out' = out
                /\ \/ in["hts"] = None /\ in' = [in EXCEPT !["hts"] = c]
                        /\ conn' = conn
                   \/ in["hts"] # None /\ in' = in
                        /\ conn'[c].wire = <<>>
           /\ AcceptGet /\ out["hts"] = None /\ conn[c].wire = <<>> =>
                /\ conn[c].kind = "GET" /\ conn'[c].kind = "GET" /\ in' = in
                /\ conn'[c].wire # <<>> /\ Head(conn'[c].wire).req = "200"
                /\ \A r : Has(conn'[c].wire, r) <=> r = "200"
                /\ conn'[c].writer /\ ~conn'[c].reset
                /\ out' = [out EXCEPT !["hts"] = c]
           /\ AnswerGetFails =>
                /\ conn[c].kind = "GET" /\ ~conn[c].reset /\ out["hts"] = None
                /\ conn'[c].reset \/ ~conn'[c].writer
           /\ AcceptFails => conn[c].reset
           /\ AnswerGetFails \/ AcceptFails => UNCHANGED <<in, out>>
           /\ AcceptPost \/ AnswerGetFails \/ AcceptFails \/
                (AcceptGet /\ out["hts"] # None) =>
                  \A d \in Conns : Shut(conn'[d], conn[d])
<1>1. /\ queue # <<>> /\ queue' = Tail(queue) /\ c \in Conns
      /\ queue \in Seq(Conns) /\ conn \in [Conns -> Connections]
      /\ InQueue(queue, c) /\ None \notin Conns
  BY NetFacts DEF AcceptPost, AcceptGet, AnswerGetFails, AcceptFails
<1>2. \A d : InQueue(queue, d) <=> d = c \/ InQueue(queue', d)
  <2> TAKE d
  <2> QED
    BY <1>1, QueueLaws
<1>3. ~InQueue(queue', c)
  BY <1>1, TakeD DEF InQueue, TypeInv
<1>4. /\ c # None /\ CloseReader(conn, c) = CloseIn(conn, c)
      /\ CloseWriter(conn, c) = CloseOut(conn, c)
      /\ \A d \in Conns : /\ Shut(conn[d], conn[d])
                         /\ Shut(CloseReader(conn, c)[d], conn[d])
                         /\ Shut(CloseWriter(conn, c)[d], conn[d])
                         /\ Shut(Break(conn, c)[d], conn[d])
  BY <1>1, WornLaws
<1>5. ASSUME AcceptPost \/ AnswerGetFails \/ AcceptFails \/
               (AcceptGet /\ out["hts"] # None)
      PROVE  \A d \in Conns : Shut(conn'[d], conn[d])
  <2>1. CASE conn' = CloseWriter(Break(conn, c), c)
    <3>1. Break(conn, c) \in [Conns -> Connections]
      BY <1>1, BreakEffect
    <3>2. \A d \in Conns : Shut(CloseOut(Break(conn, c), c)[d], Break(conn, c)[d])
      BY <1>1, <3>1, WornLaws
    <3>3. CloseOut(Break(conn, c), c) = CloseWriter(Break(conn, c), c)
      BY <1>4 DEF CloseOut
    <3> QED
      BY <1>4, <2>1, <3>2, <3>3, ShutTwice
  <2>2. CASE conn' \in {conn, CloseReader(conn, c), CloseWriter(conn, c)}
    BY <1>4, <2>2
  <2> QED
    BY <1>5, <2>1, <2>2 DEF AcceptPost, AcceptGet, AnswerGetFails, AcceptFails
<1>6. \A k : /\ ~(AcceptPost /\ AcceptGet)
             /\ AcceptPost \/ AcceptGet => ~conn[c].reset
  BY DEF AcceptPost, AcceptGet
<1>7. CASE AnswerGetFails
  <2>1. PICK cs \in {conn, Break(conn, c)} : conn' = CloseWriter(cs, c)
    BY <1>7 DEF AnswerGetFails
  <2>2. /\ conn[c].kind = "GET" /\ ~conn[c].reset /\ out["hts"] = None
        /\ UNCHANGED <<in, out>>
    BY <1>7 DEF AnswerGetFails, fds
  <2>3. /\ cs \in [Conns -> Connections]
        /\ \A d \in Conns \ {c} : cs[d] = conn[d]
    <3>1. Break(conn, c) \in [Conns -> Connections]
      BY <1>1, BreakEffect
    <3>2. \A d \in Conns \ {c} : Break(conn, c)[d] = conn[d]
      BY <1>1 DEF Break
    <3> QED
      BY <1>1, <2>1, <3>1, <3>2
  <2>4. \A d \in Conns \ {c} : CloseWriter(cs, c)[d] = cs[d]
    BY <1>1, <2>3, CloseWriterEffect, Zenon
  <2>5. ~CloseWriter(cs, c)[c].writer
    <3>1. ~NoConn.writer
      BY NoConnType
    <3>2. CloseWriter(cs, c)[c] = NoConn \/ ~CloseWriter(cs, c)[c].writer
      BY <1>1, <2>3, ResetEffect, Zenon
    <3> QED
      BY <3>1, <3>2
  <2>6. ~AcceptPost /\ ~AcceptFails
    BY <1>7, <2>2 DEF AcceptPost, AcceptFails
  <2>7. ~AcceptGet
    <3>1. faults \in Nat
      BY HttpTunnelAssumption DEF TypeInv, Rest
    <3> QED
      BY <1>7, <3>1 DEF AcceptGet, AnswerGetFails, Fault
  <2> QED
    BY <1>1, <1>2, <1>3, <1>5, <1>7, <2>1, <2>2, <2>3, <2>4, <2>5, <2>6, <2>7
<1>8. CASE AcceptFails
  <2>1. /\ conn' = CloseReader(conn, c) \/ conn' = CloseWriter(conn, c)
        /\ conn[c].reset /\ UNCHANGED <<in, out>>
    BY <1>8 DEF AcceptFails, fds
  <2>2. \A d \in Conns \ {c} :
          CloseReader(conn, c)[d] = conn[d] /\ CloseWriter(conn, c)[d] = conn[d]
    <3>1. \A d \in Conns \ {c} : CloseReader(conn, c)[d] = conn[d]
      BY <1>1, CloseReaderEffect, Zenon
    <3>2. \A d \in Conns \ {c} : CloseWriter(conn, c)[d] = conn[d]
      BY <1>1, CloseWriterEffect, Zenon
    <3> QED
      BY <3>1, <3>2
  <2>3. ~AcceptPost /\ ~AcceptGet /\ ~AnswerGetFails
    BY <1>8, <2>1 DEF AcceptPost, AcceptGet, AnswerGetFails
  <2> QED
    BY <1>1, <1>2, <1>3, <1>5, <1>8, <2>1, <2>2, <2>3
<1>9. CASE AcceptPost
  <2>1. /\ conn[c].kind = "POST" /\ out' = out
        /\ \/ in["hts"] = None /\ in' = [in EXCEPT !["hts"] = c] /\ conn' = conn
           \/ in["hts"] # None /\ in' = in /\ conn' = CloseReader(conn, c)
    BY <1>9 DEF AcceptPost, SetIn
  <2>2. /\ \A d \in Conns \ {c} : CloseReader(conn, c)[d] = conn[d]
        /\ CloseReader(conn, c)[c].wire = <<>>
    BY <1>1, CloseReaderEffect, Zenon
  <2>3. ~AcceptGet /\ ~AnswerGetFails /\ ~AcceptFails
    BY <1>9, <1>6, <2>1 DEF AnswerGetFails, AcceptFails
  <2> QED
    BY <1>1, <1>2, <1>3, <1>9, <1>5, <2>1, <2>2, <2>3
<1>10. CASE AcceptGet
  <2>1. /\ conn[c].kind = "GET" /\ in' = in
        /\ \/ /\ out["hts"] = None /\ conn' = Write(conn, c, Msg("200"))
              /\ out' = [out EXCEPT !["hts"] = c]
           \/ out["hts"] # None /\ conn' = CloseWriter(conn, c)
    BY <1>10 DEF AcceptGet, SetOut
  <2>2. \A d \in Conns \ {c} : CloseWriter(conn, c)[d] = conn[d]
    BY <1>1, CloseWriterEffect, Zenon
  <2>3. ~AcceptPost /\ ~AcceptFails /\ (AnswerGetFails => out["hts"] = None)
    BY <1>10, <1>6, <2>1 DEF AcceptPost, AcceptFails, AnswerGetFails
  <2>4. ~AnswerGetFails
    <3>1. faults \in Nat
      BY HttpTunnelAssumption DEF TypeInv, Rest
    <3> QED
      BY <1>10, <3>1 DEF AcceptGet, AnswerGetFails, Fault
  <2>5. ~Write(conn, c, Msg("200"))[c].reset
    BY <1>1, <1>10, <1>6, ResetEffect
  <2>6. ASSUME out["hts"] = None, conn[c].wire = <<>>
        PROVE  /\ conn'[c].kind = "GET" /\ conn'[c].wire = <<Msg("200")>>
               /\ conn'[c].wire = Append(<<>>, Msg("200"))
               /\ conn'[c].writer
    <3>1. Msg("200") \in Msgs
      BY HttpTunnelAssumption DEF Msg, Msgs
    <3>2. /\ Write(conn, c, Msg("200"))[c].kind = conn[c].kind
          /\ Write(conn, c, Msg("200"))[c].writer = conn[c].writer
          /\ Write(conn, c, Msg("200"))[c].wire = Append(conn[c].wire, Msg("200"))
      <4>1. /\ conn \in [Conns -> Connections] /\ c \in Conns
            /\ Msg("200") \in Msgs
        BY <1>1, <3>1
      <4>2. \A d \in Conns :
              /\ Write(conn, c, Msg("200"))[d].kind = conn[d].kind
              /\ Write(conn, c, Msg("200"))[d].writer = conn[d].writer
              /\ Write(conn, c, Msg("200"))[d].reader = conn[d].reader
              /\ Write(conn, c, Msg("200"))[d].wire =
                   IF d = c THEN Append(conn[c].wire, Msg("200"))
                   ELSE conn[d].wire
        BY <4>1, WriteEffect, Zenon
      <4> QED
        BY <4>1, <4>2
    <3>3. conn[c].writer
      BY <1>1, <2>1, NetFacts
    <3>4. Append(<<>>, Msg("200")) = <<Msg("200")>>
      BY <3>1
    <3> QED
      BY <2>1, <2>6, <3>2, <3>3, <3>4
  <2>7. /\ <<Msg("200")>> # <<>> /\ Head(<<Msg("200")>>).req = "200"
        /\ \A r : Has(Append(<<>>, Msg("200")), r) <=> r = "200"
    <3>1. Msg("200") \in Msgs /\ Msg("200").req = "200" /\ <<>> \in Seq(Msgs)
      BY HttpTunnelAssumption DEF Msg, Msgs
    <3>2. ASSUME NEW r PROVE Has(Append(<<>>, Msg("200")), r) <=> r = "200"
      BY <3>1, HasLaws
    <3> QED
      BY <3>1, <3>2
  <2>8. \A d \in Conns \ {c} : Write(conn, c, Msg("200"))[d] = conn[d]
    BY <1>1 DEF Write
  <2> QED
    BY <1>1, <1>2, <1>3, <1>10, <1>5, <2>1, <2>2, <2>3, <2>6, <2>7, <2>8, <2>4, <2>5
<1> QED
  BY <1>10, <1>9, <1>7, <1>8

\* an end takes a request from its input.
LEMMA ConsumeNet ==
    ASSUME TypeInv, NEW e \in End, NEW c \in Conns \cup {None}, c = in[e],
           conn[c].wire # <<>>, conn' = Consume(conn, c)
    PROVE  /\ c \in Conns => conn'[c].wire = Tail(conn[c].wire)
           /\ \A d \in Conns \ {c} : conn'[d] = conn[d]
           /\ \A d \in Conns :
                /\ conn'[d].kind = conn[d].kind
                /\ conn'[d].writer = conn[d].writer
                /\ \A r : Has(conn'[d].wire, r) => Has(conn[d].wire, r)
           /\ c \in Conns => \A r : Has(conn[c].wire, r) <=>
                \/ Has(conn'[c].wire, r) \/ r = Head(conn[c].wire).req
<1>1. conn \in [Conns -> Connections] /\ None \notin Conns
        /\ \A d \in Conns : conn[d].wire \in Seq(Msgs)
  BY NetFacts
<1>2. CASE c = None
  <2>1. conn' = conn
    BY <1>1, <1>2 DEF Consume
  <2> QED
    BY <1>1, <1>2, <2>1
<1>3. CASE c \in Conns
  <2>1. \A d \in Conns :
          /\ conn'[d].kind = conn[d].kind
          /\ conn'[d].writer = conn[d].writer
          /\ conn'[d].wire = IF d = c THEN Tail(conn[c].wire) ELSE conn[d].wire
    <3>1. \A d \in Conns :
            /\ Consume(conn, c)[d].kind = conn[d].kind
            /\ Consume(conn, c)[d].writer = conn[d].writer
            /\ Consume(conn, c)[d].reader = conn[d].reader
            /\ Consume(conn, c)[d].wire =
                 IF d = c THEN Tail(conn[c].wire) ELSE conn[d].wire
      BY <1>1, <1>3, ConsumeEffect
    <3> QED
      BY <3>1
  <2>2. \A d \in Conns \ {c} : conn'[d] = conn[d]
    BY <1>1 DEF Consume
  <2>3. \A r : Has(conn[c].wire, r) <=>
                 Head(conn[c].wire).req = r \/ Has(Tail(conn[c].wire), r)
    BY <1>1, <1>3, HasLaws
  <2> QED
    BY <1>3, <2>1, <2>2, <2>3
<1> QED
  BY <1>2, <1>3

-----------------------------------------------------------------------------
\* A step in which nothing is written and no connection is opened
LEMMA LessNet ==
    ASSUME TypeInv, TypeInv', PathInv, OneDirection, [Next]_vars,
           ~OpensOut, ~OpensIn, ~AcceptGet, \A e \in End : ~WriteRequest(e)
    PROVE  /\ \A d \in Conns :
                /\ Worn(conn'[d], conn[d])
                /\ \/ Shut(conn'[d], conn[d])
                   \/ \E e \in End : d = in[e] /\ Takes(e)
                /\ conn'[d].kind \in {conn[d].kind, "none"}
                /\ Less(conn'[d].wire, conn[d].wire)
           /\ \A d : InQueue(queue', d) => InQueue(queue, d)
           /\ \A e \in End : out'[e] \in {out[e], None}
<1> DEFINE Loss ==
      /\ \A d \in Conns :
            /\ Worn(conn'[d], conn[d])
            /\ \/ Shut(conn'[d], conn[d])
               \/ \E e \in End : d = in[e] /\ Takes(e)
      /\ \A d : InQueue(queue', d) => InQueue(queue, d)
      /\ \A e \in End : out'[e] \in {out[e], None}
<1> SUFFICES Loss
  BY DEF Worn, Shut, Less
<1> HIDE DEF Loss
<1>1. /\ conn \in [Conns -> Connections] /\ None \notin Conns
      /\ out \in [End -> Conns \cup {None}] /\ in \in [End -> Conns \cup {None}]
      /\ ~Ages /\ ~Timeouts /\ "htc" \in End /\ "hts" \in End
  BY NoneIsNot, OneSession DEF TypeInv, Descriptors, End
<1>2. ASSUME UNCHANGED <<conn, queue, out>> PROVE Loss
  <2>1. \A d \in Conns : Shut(conn[d], conn[d])
    BY <1>1, WornLaws
  <2> QED
    BY <1>2, <2>1 DEF Loss, Worn
<1>3. ASSUME NEW e \in End, WriteLost(e) \/ WriteEPIPE(e) PROVE Loss
  BY <1>1, <1>3, BrokenNet DEF Loss, Worn
<1>4. CASE AcceptPost \/ AnswerGetFails \/ AcceptFails
  <2>1. /\ \A d : InQueue(queue', d) => InQueue(queue, d)
        /\ \A d \in Conns : Shut(conn'[d], conn[d])
    BY <1>4, TakeNet
  <2>2. out' = out
    BY <1>4 DEF AcceptPost, AnswerGetFails, AcceptFails, fds
  <2> QED
    BY <2>1, <2>2 DEF Loss, Worn
<1>5. ASSUME NEW e \in End, conn[in[e]].wire # <<>>, conn' = Consume(conn, in[e]),
             UNCHANGED <<queue, out>>, Takes(e)
      PROVE  Loss
  <2>1. CASE in[e] = None
    <3>1. conn' = conn
      BY <1>1, <1>5, <2>1 DEF Consume
    <3> QED
      BY <1>2, <1>5, <3>1
  <2>2. CASE in[e] # None
    <3>1. in[e] \in Conns \cup {None}
      BY <1>1
    <3>2. \A d \in Conns : Worn(Consume(conn, in[e])[d], conn[d])
      BY <1>1, <1>5, <2>2, <3>1, WornLaws
    <3>3. \A d \in Conns : Shut(conn[d], conn[d])
      BY <1>1, WornLaws
    <3>4. \A d \in Conns \ {in[e]} : conn'[d] = conn[d]
      BY <1>5 DEF Consume
    <3> QED
      BY <1>5, <3>2, <3>3, <3>4 DEF Loss
  <2> QED
    BY <2>1, <2>2
<1>6. ASSUME NEW e \in End, conn' = CloseIn(conn, in[e]), UNCHANGED <<queue, out>>
      PROVE  Loss
  <2>1. in[e] \in Conns \cup {None}
    BY <1>1
  <2>2. \A d \in Conns : Shut(CloseIn(conn, in[e])[d], conn[d])
    BY <1>1, <2>1, WornLaws
  <2> QED
    BY <1>6, <2>2 DEF Loss, Worn
<1>7. ASSUME NEW e \in End, Disconnect(e) PROVE Loss
  <2>1. out[e] \in Conns \cup {None}
    BY <1>1
  <2>2. \A d \in Conns : Shut(CloseOut(conn, out[e])[d], conn[d])
    BY <1>1, <2>1, WornLaws
  <2>3. conn' = CloseOut(conn, out[e]) /\ out' = [out EXCEPT ![e] = None]
          /\ queue' = queue
    BY <1>7 DEF Disconnect, SetOut
  <2> QED
    BY <1>1, <2>2, <2>3 DEF Loss, Worn
<1>8. CASE Exit
  <2> DEFINE cs == CloseIn(conn, in["htc"])
  <2>1. in["htc"] \in Conns \cup {None} /\ out["htc"] \in Conns \cup {None}
    BY <1>1
  <2>2. conn' = CloseOut(cs, out["htc"]) /\ out' = [out EXCEPT !["htc"] = None]
          /\ queue' = queue
    BY <1>8 DEF Exit, SetOut
  <2>3. cs \in [Conns -> Connections] /\ \A d \in Conns : Shut(cs[d], conn[d])
    BY <1>1, <2>1, WornLaws
  <2> HIDE DEF cs
  <2>4. \A d \in Conns : Shut(CloseOut(cs, out["htc"])[d], cs[d])
    BY <2>1, <2>3, WornLaws
  <2>5. \A d \in Conns : Shut(conn'[d], conn[d])
    BY <2>2, <2>3, <2>4, ShutTwice
  <2> QED
    BY <1>1, <2>2, <2>5 DEF Loss, Worn
<1>9. ASSUME NEW e \in End, ReadDisconnect(e) \/ DrainDone(e) PROVE Loss
  <2>1. conn' = CloseIn(conn, in[e]) /\ UNCHANGED <<queue, out>>
    BY <1>1, <1>9 DEF ReadDisconnect, DrainDone, Reading, CloseIn
  <2> QED
    BY <1>6, <2>1
<1>10. ASSUME NEW e \in End, ReadRequest(e) \/ ReadUnwritten(e) \/ DrainMore(e)
       PROVE  Loss
  BY <1>5, <1>10 DEF ReadRequest, ReadUnwritten, DrainMore, fds, Takes
<1>11. CASE Answered
  BY <1>1, <1>5, <1>11 DEF Answered, fds, Takes
<1>12. CASE AnswerLost
  <2>1. Waiting /\ conn' = Break(conn, in["htc"]) /\ UNCHANGED <<queue, out>>
    BY <1>12 DEF AnswerLost, AwaitsAnswer, Waiting, fds
  <2>2. in["htc"] \in Conns /\ in["htc"] # None
    BY <1>1, <2>1 DEF PathInv, GetInv
  <2>3. \A d \in Conns : Shut(Break(conn, in["htc"])[d], conn[d])
    BY <1>1, <2>2, WornLaws
  <2> QED
    BY <2>1, <2>3 DEF Loss, Worn
<1>13. ASSUME NEW e \in End,
              \/ WriteFails(e) \/ TunnelReady(e) \/ TunnelClose(e) \/ KeepAlive(e)
              \/ DeviceCloses(e) \/ DeviceInput(e)
       PROVE  Loss
  BY <1>2, <1>13 DEF WriteFails, TunnelReady, TunnelClose, KeepAlive,
     DeviceCloses, DeviceInput, net, fds
<1>14. CASE \/ OutAccept \/ NotAnswered \/ ReadAccept \/ ReadAgain \/ AcceptReturns
            \/ TunnelConnect \/ UNCHANGED vars
  BY <1>2, <1>14 DEF OutAccept, NotAnswered, ReadAccept, ReadAgain, AcceptReturns,
     TunnelConnect, vars, net, fds
<1>15. CASE OutConnectFails \/ InConnectFails \/ AnswerFails
  BY <1>2, <1>15 DEF OutConnectFails, InConnectFails, AnswerFails, net, fds
<1>16. ~CloseAged /\ ~CloseAgedFails /\ ~AcceptTimeout
  BY <1>1 DEF CloseAged, CloseAgedFails, AcceptTimeout
<1> QED
  BY <1>3, <1>4, <1>7, <1>8, <1>9, <1>10, <1>11, <1>12, <1>13, <1>14, <1>15, <1>16,
     Zenon
     DEF Next, Environment, Fails, Runs, Writes, Reads, Closes, OpensOut, OpensIn

\* A connection that brings nothing any more will not bring anything again.
LEMMA LostStays ==
    ASSUME TypeInv, TypeInv', PathInv, OneDirection, [Next]_vars, NEW c \in Conns,
           conn[c].kind # "none", conn'[c].kind # "none"
    PROVE  /\ Over(c) => Over(c)'
           /\ conn[c].reset => conn'[c].reset
<1>1. CASE OpensOut \/ OpensIn
  <2>1. PICK d \in Conns : conn[d].kind = "none" /\ \A f \in Conns \ {d} : conn'[f] = conn[f]
    BY <1>1, ConnectNet
  <2> QED
    BY <2>1 DEF Over
<1>2. CASE AcceptGet
  <2> DEFINE d == Head(queue)
  <2>1. /\ d \in Conns /\ \A f \in Conns \ {d} : conn'[f] = conn[f]
        /\ InQueue(queue, d)
        /\ out["hts"] # None => Shut(conn'[d], conn[d])
    BY <1>2, TakeNet
  <2>2. conn[d].kind = "GET" /\ ~conn[d].reset
    BY <1>2 DEF AcceptGet
  <2>3. conn[d].writer
    BY <2>1, <2>2, NetFacts
  <2> HIDE DEF d
  <2> QED
    BY <2>1, <2>2, <2>3 DEF Over
<1>3. ASSUME NEW e \in End, WriteRequest(e)
      PROVE  /\ Over(c) => Over(c)'
             /\ conn[c].reset => conn'[c].reset
  <2> DEFINE d == out[e]
  <2>1. d \in Conns /\ conn[d].writer /\ ~conn[d].reset
    BY <1>3, NetFacts DEF WriteRequest
  <2>2. \A f \in Conns \ {d} : conn'[f] = conn[f]
    <3>1. call[e].msg.req # "DISCONNECT"
      BY <1>3, CallsStep DEF PathInv, ControlInv, Busy, WriteRequest, Writing
    <3> QED
      BY <1>3, <3>1, WriteNet
  <2> HIDE DEF d
  <2> QED
    BY <2>1, <2>2 DEF Over
<1>4. CASE /\ ~OpensOut /\ ~OpensIn /\ ~AcceptGet
           /\ \A e \in End : ~WriteRequest(e)
  <2>1. Worn(conn'[c], conn[c])
    BY <1>4, LessNet
  <2>2. conn[c].reset => conn[c].wire = <<>>
    BY DEF PathInv, ResetInv
  <2> QED
    BY <2>1, <2>2 DEF Worn, Shut, Over
<1> QED
  BY <1>1, <1>2, <1>3, <1>4

\* While the bodies of one direction only are replaced, what an end writes to
\* is read if it could be opened, hts refuses nothing, and a GET that it takes
\* is the one that htc waits for.
LEMMA CalmFacts ==
    ASSUME TypeInv, PathInv, OneDirection
    PROVE  /\ Hears("hts") /\ out["htc"] # None =>
                \/ conn[out["htc"]].reader
                \/ conn[out["htc"]].reset /\ "hts" \notin ends
           /\ out["hts"] # None /\ ~Gone => conn[out["hts"]].reader
           /\ NotAnswered =>
                in["htc"] # None /\ ~InQueue(queue, in["htc"]) /\ Over(in["htc"])
           /\ AcceptGet \/ AnswerGetFails =>
                out["hts"] = None /\ Head(queue) = in["htc"] /\ Waiting
           /\ AcceptPost /\ Hears("hts") => in["hts"] = None
           /\ AcceptPost /\ ~Hears("hts") =>
                closed["htc"] # "no" \/ closed["hts"] # "no" \/ in["hts"] = None
<1>1. /\ ControlInv /\ BodyInv /\ GetInv /\ PostInv /\ OpenInv
      /\ \A e \in End : EndInv(e)
  BY DEF PathInv, ControlInv
<1>2. \A c \in Conns : Len(conn[c].wire) \in Nat
  BY NetFacts, LenProperties
<1>3. Hears("hts") /\ out["htc"] # None =>
        conn[out["htc"]].reader \/ (conn[out["htc"]].reset /\ "hts" \notin ends)
  <2> SUFFICES ASSUME Hears("hts"), out["htc"] # None,
                      ~(conn[out["htc"]].reset /\ "hts" \notin ends)
               PROVE  conn[out["htc"]].reader
    OBVIOUS
  <2>1. out["htc"] = in["hts"] \/ InQueue(queue, out["htc"])
    BY <1>1 DEF PostInv
  <2>2. conn[out["htc"]].kind = "POST"
    BY NetFacts DEF OutKind
  <2> QED
    BY <2>1, <2>2, NetFacts
<1>4. out["hts"] # None /\ ~Gone => conn[out["hts"]].reader
  BY <1>1, NetFacts DEF GetInv
<1>5. NotAnswered => in["htc"] # None /\ ~InQueue(queue, in["htc"]) /\ Over(in["htc"])
  <2> SUFFICES ASSUME NotAnswered
               PROVE  in["htc"] # None /\ ~InQueue(queue, in["htc"]) /\ Over(in["htc"])
    OBVIOUS
  <2>1. Waiting /\ conn[in["htc"]].wire = <<>> /\ ~conn[in["htc"]].writer
    BY DEF NotAnswered, AwaitsAnswer, Waiting
  <2>2. in["htc"] # None
    BY <1>1, <2>1 DEF GetInv
  <2> QED
    BY <2>1, <2>2, NetFacts DEF InKind, Over
<1>6. AcceptGet \/ AnswerGetFails =>
        out["hts"] = None /\ Head(queue) = in["htc"] /\ Waiting
  <2> SUFFICES ASSUME AcceptGet \/ AnswerGetFails
               PROVE  out["hts"] = None /\ Head(queue) = in["htc"] /\ Waiting
    OBVIOUS
  <2>1. queue # <<>> /\ conn[Head(queue)].kind = "GET" /\ ~conn[Head(queue)].reset
    BY DEF AcceptGet, AnswerGetFails
  <2>2. Head(queue) = in["htc"] /\ Waiting /\ Head(queue) # out["hts"]
    BY <1>1, <2>1, NetFacts DEF GetInv
  <2> QED
    BY <1>1, <2>2 DEF GetInv, Gone, Waiting
<1>7. AcceptPost /\ Hears("hts") => in["hts"] = None
  <2> SUFFICES ASSUME AcceptPost, Hears("hts"), in["hts"] # None PROVE FALSE
    OBVIOUS
  <2>1. /\ queue # <<>> /\ conn[Head(queue)].kind = "POST"
        /\ InQueue(queue, Head(queue)) /\ Head(queue) \in Conns
        /\ out["hts"] = None
    BY NetFacts DEF AcceptPost, Established
  <2>2. CASE Up
    BY <1>1, <2>1, <2>2 DEF OpenInv, Up
  <2>3. CASE ~Up
    <3>1. \E d \in Conns : queue = <<d>> /\ conn[d].kind = "GET"
      BY <1>1, <2>1, <2>3 DEF OpenInv, Opening, Unopened, PostOpened, BothOpened
    <3> QED
      BY <2>1, <3>1, ShortQueues
  <2> QED
    BY <2>2, <2>3
<1>8. AcceptPost /\ ~Hears("hts") =>
        closed["htc"] # "no" \/ closed["hts"] # "no" \/ in["hts"] = None
  <2> SUFFICES ASSUME AcceptPost, ~Hears("hts"), closed["hts"] = "no",
                      in["hts"] # None, closed["htc"] = "no"
               PROVE  FALSE
    OBVIOUS
  <2>1. Attends("hts")
    BY DEF AcceptPost, Accepting, Attends
  <2>2. ~Gone
    BY <1>1 DEF Gone, EndInv, End
  <2>3. Cut
    BY <2>1, <2>2 DEF Hears
  <2>4. pc["htc"] # "exited"
    <3>1. session["htc"] # 0 => pc["htc"] # "exited"
      BY <2>2 DEF Gone
    <3>2. session["htc"] = 0 => pc["htc"] # "exited"
      BY <1>1 DEF EndInv, End
    <3> QED
      BY <3>1, <3>2
  <2>5. Young
    BY <2>3, <2>4 DEF Cut, Young
  <2>6. /\ queue # <<>> /\ conn[Head(queue)].kind = "POST"
        /\ InQueue(queue, Head(queue)) /\ Head(queue) \in Conns
        /\ Head(queue) # in["hts"]
        /\ in["hts"] \in Conns /\ conn[in["hts"]].kind = "POST"
    BY NetFacts DEF AcceptPost, InKind
  <2>7. Found(Head(queue)) /\ Found(in["hts"])
    BY <2>6 DEF Found, Place, InQueue
  <2> QED
    BY <2>5, <2>6, <2>7 DEF PathInv, FirstInv
<1> QED
  BY <1>3, <1>4, <1>5, <1>6, <1>7, <1>8

\* htc goes on from where it waits for an answer, exits or has closed only by
\* a few steps.
LEMMA HtcStays ==
    ASSUME TypeInv, OneDirection, [Next]_vars, Waiting \/ Gone \/ pc["htc"] = "exit"
    PROVE  \/ Answered \/ NotAnswered \/ AnswerFails \/ Exit
           \/ /\ pc'["htc"] = pc["htc"] /\ session'["htc"] = session["htc"]
              /\ in'["htc"] = in["htc"]
<1> DEFINE Same == /\ pc'["htc"] = pc["htc"] /\ session'["htc"] = session["htc"]
                   /\ in'["htc"] = in["htc"]
<1>1. /\ Rest /\ in \in [End -> Conns \cup {None}] /\ Sessions = 1 /\ ~Ages /\ ~Timeouts
      /\ "htc" \in End /\ "hts" \in End /\ End = {"htc", "hts"}
      /\ session["htc"] \in {0, 1}
  BY OneSession DEF TypeInv, Descriptors, End
<1>2. pc["htc"] \in {"response", "reresponse", "exit", "exited", "idle"}
        /\ (pc["htc"] = "idle" => session["htc"] = 1)
  BY <1>1 DEF Waiting, Gone
<1>3. /\ pc \in [End -> Points] /\ session \in [End -> 0..Sessions]
  BY <1>1 DEF Rest
<1>4. ASSUME NEW f \in End, Writes(f) \/ TunnelReady(f) \/ Reads(f) \/ Closes(f)
               \/ DeviceInput(f) \/ DeviceCloses(f) \/ ReadUnwritten(f) \/ KeepAlive(f)
      PROVE  f = "hts"
  BY <1>1, <1>2, <1>4 DEF Writes, WriteRequest, WriteLost, WriteEPIPE, WriteFails,
     Writing, TunnelReady, Reads, ReadDisconnect, ReadRequest, Closes, TunnelClose,
     Disconnect, DrainMore, DrainDone, DeviceInput, DeviceCloses, ReadUnwritten,
     KeepAlive, Reading, Polling
<1>5. ASSUME Writes("hts") PROVE Same
  <2>1. PICK l : pc' = [pc EXCEPT !["hts"] = l]
    BY <1>5 DEF Writes, WriteRequest, WriteLost, WriteEPIPE, WriteFails,
       Return, RequestFails, Goto
  <2>2. UNCHANGED <<in, session>>
    BY <1>5 DEF Writes, WriteRequest, WriteLost, WriteEPIPE, WriteFails,
       history, fds
  <2> QED
    BY <1>3, <2>1, <2>2
<1>6. ASSUME NEW f \in End, f = "hts", TunnelReady(f) \/ Reads(f)
               \/ DeviceInput(f) \/ DeviceCloses(f) \/ ReadUnwritten(f) \/ KeepAlive(f)
      PROVE  Same
  BY <1>1, <1>3, <1>6 DEF TunnelReady, Reads, ReadDisconnect, ReadRequest,
     DeviceInput, DeviceCloses, ReadUnwritten, KeepAlive, Request, Goto, SetIn,
     history, fds
<1>7. ASSUME NEW f \in End, f = "hts", Closes(f) PROVE Same
  BY <1>1, <1>3, <1>7 DEF Closes, TunnelClose, Disconnect, DrainMore, DrainDone,
     Request, Goto, SetIn, history, fds, control
<1>8. CASE OutAccept \/ AcceptPost \/ AcceptGet \/ AcceptReturns \/ AnswerGetFails
           \/ ReadAccept \/ ReadAgain \/ AnswerLost \/ UNCHANGED vars
  BY <1>1, <1>3, <1>8 DEF OutAccept, AcceptPost, AcceptGet, AcceptReturns,
     AnswerGetFails, ReadAccept, ReadAgain, AnswerLost, vars, history, control, fds,
     Goto, SetIn, BeginSession, Fault
<1>9. CASE AcceptFails
  <2>1. UNCHANGED fds
    BY <1>9 DEF AcceptFails
  <2> QED
    BY <1>1, <1>3, <1>9, <2>1, AcceptFailsCases DEF BeginSession, Goto, control,
       history, fds, RequestFails, Return
<1>10. /\ ~OutConnect /\ ~OutConnectFails /\ ~PostFails /\ ~InConnect
       /\ ~InConnectFails /\ ~GetFails /\ ~TunnelConnect
       /\ ~CloseAged /\ ~CloseAgedFails /\ ~AcceptTimeout
  <2>1. ~Unconnected /\ ~Connecting
    BY <1>2 DEF Unconnected, Connecting
  <2>2. ~TunnelConnect
    BY <1>1, <1>2 DEF TunnelConnect
  <2>3. ~CloseAged /\ ~CloseAgedFails /\ ~AcceptTimeout
    BY <1>1 DEF CloseAged, CloseAgedFails, AcceptTimeout
  <2> QED
    BY <2>1, <2>2, <2>3 DEF OutConnect, OutConnectFails, PostFails, InConnect,
       InConnectFails, GetFails
<1> QED
  BY <1>4, <1>5, <1>6, <1>7, <1>8, <1>9, <1>10, Zenon
     DEF Next, Environment, Fails, Runs

\* What has been lost stays lost: htc does not come back, does not get the
\* answer to a connection that broke, and no end hears again.
LEMMA HearsStep ==
    ASSUME TypeInv, TypeInv', PathInv, OneDirection, [Next]_vars
    PROVE  /\ Gone => Gone'
           /\ Cut => Cut'
           /\ \A e \in End : Hears(e)' => Hears(e)
<1>1. /\ Rest /\ ControlInv /\ ResetInv /\ GetInv /\ \A f \in End : EndInv(f)
      /\ "htc" \in End /\ "hts" \in End /\ End = {"htc", "hts"}
      /\ pc \in [End -> Points] /\ closed \in [End -> {"no", "device", "peer", "error"}]
  BY DEF PathInv, ControlInv, End, TypeInv, Rest
<1>2. Gone => Gone'
  <2> SUFFICES ASSUME Gone PROVE Gone'
    OBVIOUS
  <2>1. ~Answered /\ ~NotAnswered /\ ~AnswerFails /\ ~Exit
    BY DEF Gone, Answered, NotAnswered, AnswerFails, AwaitsAnswer, Exit
  <2> QED
    BY <2>1, HtcStays DEF Gone
<1>3. Gone /\ out["hts"] = None => out'["hts"] = None
  <2> SUFFICES ASSUME Gone, out["hts"] = None, out'["hts"] # None PROVE FALSE
    OBVIOUS
  <2>1. ~AcceptGet /\ ~OpensOut /\ ~OpensIn
    BY CalmFacts DEF Gone, Waiting, OpensOut, OutConnect, PostFails, OpensIn,
       InConnect, GetFails, Unconnected, Connecting
  <2>2. CASE \E f \in End : WriteRequest(f)
    <3>1. out \in [End -> Conns \cup {None}]
      BY DEF TypeInv, Descriptors
    <3> QED
      BY <2>2, <3>1, <1>1 DEF WriteRequest, SetOut
  <2>3. CASE \A f \in End : ~WriteRequest(f)
    BY <1>1, <2>1, <2>3, LessNet
  <2> QED
    BY <2>2, <2>3
<1>4. ASSUME Waiting
      PROVE  /\ in["htc"] \in Conns /\ conn[in["htc"]].kind = "GET"
             /\ pc'["htc"] = pc["htc"] /\ in'["htc"] = in["htc"] =>
                  /\ Over(in["htc"]) => Over(in["htc"])'
                  /\ conn[in["htc"]].reset => conn'[in["htc"]].reset
  <2>1. in["htc"] \in Conns /\ in["htc"] # None /\ conn[in["htc"]].kind = "GET"
    BY <1>1, <1>4, NetFacts DEF GetInv, InKind
  <2>2. ASSUME pc'["htc"] = pc["htc"], in'["htc"] = in["htc"]
        PROVE  /\ Over(in["htc"]) => Over(in["htc"])'
               /\ conn[in["htc"]].reset => conn'[in["htc"]].reset
    <3>1. conn'[in["htc"]].kind = "GET"
      BY <1>1, <2>1, <2>2 DEF TypeInv, Descriptors, InKind
    <3>2. ASSUME NEW c \in Conns, conn[c].kind = "GET", conn'[c].kind = "GET"
          PROVE  /\ Over(c) => conn'[c].reset \/ (conn'[c].wire = <<>> /\ ~conn'[c].writer)
                 /\ conn[c].reset => conn'[c].reset
      BY <3>2, LostStays DEF Over
    <3>3. Over(in["htc"])' <=>
            \/ conn'[in'["htc"]].reset
            \/ conn'[in'["htc"]].wire = <<>> /\ ~conn'[in'["htc"]].writer
      BY DEF Over
    <3> QED
      BY <2>1, <2>2, <3>1, <3>2, <3>3
  <2> QED
    BY <2>1, <2>2
<1>5. Waiting /\ Over(in["htc"]) => ~Answered
  BY <1>1, <1>4 DEF Over, ResetInv, Answered
<1>6. Cut => Cut'
  <2> SUFFICES ASSUME Cut PROVE Cut'
    OBVIOUS
  <2>1. CASE pc["htc"] = "exited"
    <3>1. Gone /\ ~Answered /\ ~NotAnswered /\ ~AnswerFails /\ ~Exit
      BY <1>1, <2>1 DEF EndInv, Gone, Answered, NotAnswered, AnswerFails,
         AwaitsAnswer, Exit
    <3> QED
      BY <2>1, <3>1, HtcStays DEF Cut
  <2>2. CASE pc["htc"] = "exit"
    <3>1. CASE Exit
      BY <1>1, <3>1 DEF Exit, Goto, Cut
    <3>2. CASE ~Exit
      <4>1. ~Answered /\ ~NotAnswered /\ ~AnswerFails
        BY <2>2 DEF Answered, NotAnswered, AnswerFails, AwaitsAnswer
      <4> QED
        BY <2>2, <3>2, <4>1, HtcStays DEF Cut
    <3> QED
      BY <3>1, <3>2
  <2>3. CASE pc["htc"] = "response" /\ Over(in["htc"])
    <3>1. Waiting /\ ~Answered /\ ~Exit
      BY <1>5, <2>3 DEF Waiting, Exit
    <3>2. CASE NotAnswered \/ AnswerFails
      BY <1>1, <2>3, <3>2 DEF NotAnswered, AnswerFails, InFails, Goto, Cut
    <3>3. CASE ~NotAnswered /\ ~AnswerFails
      <4>1. pc'["htc"] = pc["htc"] /\ in'["htc"] = in["htc"]
        BY <3>1, <3>3, HtcStays
      <4> QED
        BY <1>4, <2>3, <3>1, <4>1 DEF Cut
    <3> QED
      BY <3>2, <3>3
  <2> QED
    BY <2>1, <2>2, <2>3 DEF Cut
<1>7. Doomed => Doomed' \/ ~Attends("htc")'
  <2> SUFFICES ASSUME Doomed PROVE Doomed' \/ ~Attends("htc")'
    OBVIOUS
  <2>1. Waiting /\ conn[in["htc"]].reset /\ ~Answered /\ ~NotAnswered /\ ~Exit
    BY <1>5 DEF Doomed, Over, NotAnswered, Exit, Waiting
  <2>2. CASE AnswerFails
    <3>1. pc'["htc"] = "exit" \/ (pc'["htc"] = "poll" /\ closed'["htc"] # "no")
      BY <1>1, <2>2 DEF AnswerFails, InFails, Goto, Close
    <3> QED
      BY <3>1 DEF Attends, Busy
  <2>3. CASE ~AnswerFails
    <3>1. pc'["htc"] = pc["htc"] /\ in'["htc"] = in["htc"]
      BY <2>1, <2>3, HtcStays
    <3> QED
      BY <1>4, <2>1, <3>1 DEF Doomed, Waiting
  <2> QED
    BY <2>2, <2>3
<1>8. \A e \in End : Hears(e)' => Hears(e)
  <2> TAKE e \in End
  <2>1. Attends(e)' => Attends(e)
    BY <1>1, AttendsStep
  <2> QED
    BY <1>1, <1>2, <1>3, <1>6, <1>7, <2>1 DEF Hears
<1> QED
  BY <1>2, <1>6, <1>8

\* leaves nothing new in a connection.
LEMMA LossNet ==
    ASSUME TypeInv, TypeInv', PathInv, OneDirection, [Next]_vars,
           ~OpensOut, ~OpensIn, ~AcceptGet, \A e \in End : ~WriteRequest(e)
    PROVE  /\ \A d \in Conns :
                /\ conn'[d].kind \in {conn[d].kind, "none"}
                /\ \A r : Has(conn'[d].wire, r) => Has(conn[d].wire, r)
           /\ \A d : InQueue(queue', d) => InQueue(queue, d)
           /\ \A e \in End : out'[e] \in {out[e], None}
<1>1. ASSUME NEW d \in Conns, NEW r, Has(conn'[d].wire, r)
      PROVE  Has(conn[d].wire, r)
  <2>1. conn[d].wire \in Seq(Msgs) /\ <<>> \in Seq(Msgs)
    BY NetFacts, EmptySeq
  <2>2. Less(conn'[d].wire, conn[d].wire)
    BY LessNet
  <2> QED
    BY <1>1, <2>1, <2>2, HasLaws DEF Less
<1> QED
  BY <1>1, LessNet

\* The choice of the bodies that end stays, an end that has begun to close
\* does so, and only a connection that is taken is refused.
LEMMA Steady ==
    ASSUME Rest, ControlInv, OneDirection, [Next]_vars
    PROVE  /\ ends' = ends
           /\ \A e \in End : closed[e] # "no" => closed'[e] = closed[e]
           /\ rejected' = rejected \/ AcceptPost \/ AcceptGet
<1>1. /\ \A e \in End : EndInv(e) /\ session[e] \in {0, 1}
      /\ Sessions = 1 /\ ~Ages /\ ~Timeouts
      /\ "htc" \in End /\ "hts" \in End /\ End = {"htc", "hts"}
      /\ closed \in [End -> {"no", "device", "peer", "error"}]
  BY OneSession DEF ControlInv, End, Rest
<1> DEFINE Stays == /\ ends' = ends /\ rejected' = rejected
                    /\ \A e \in End : closed[e] # "no" => closed'[e] = closed[e]
<1>2. ASSUME NEW e \in End, NEW why \in {"error", "device", "peer"}, Close(e, why)
      PROVE  \A f \in End : closed[f] # "no" => closed'[f] = closed[f]
  BY <1>1, <1>2 DEF Close
<1>3. ASSUME NEW e \in End, BeginSession(e), session[e] = 0
      PROVE  Stays
  BY <1>1, <1>3 DEF BeginSession, EndInv
<1>4. ASSUME NEW e \in End, Writes(e) PROVE Stays
  <2>1. CASE RequestFails(e) /\ UNCHANGED history
    BY <1>2, <2>1 DEF RequestFails, history
  <2>2. CASE UNCHANGED <<closed, history>>
    BY <2>2 DEF history
  <2> QED
    BY <1>4, <2>1, <2>2 DEF Writes, WriteRequest, WriteLost, WriteEPIPE, WriteFails
<1>5. ASSUME NEW e \in End,
             TunnelReady(e) \/ ReadDisconnect(e) \/ TunnelClose(e) \/ Disconnect(e)
               \/ DrainMore(e) \/ DrainDone(e) \/ DeviceInput(e) \/ KeepAlive(e)
      PROVE  Stays
  BY <1>5 DEF TunnelReady, ReadDisconnect, TunnelClose, Disconnect, DrainMore,
     DrainDone, DeviceInput, KeepAlive, history, control
<1>6. ASSUME NEW e \in End, ReadRequest(e) \/ ReadUnwritten(e) \/ DeviceCloses(e)
      PROVE  Stays
  <2>1. ends' = ends /\ rejected' = rejected
    BY <1>6 DEF ReadRequest, ReadUnwritten, DeviceCloses, history
  <2>2. \/ closed' = closed \/ Close(e, "device") \/ Close(e, "peer")
    BY <1>6 DEF ReadRequest, ReadUnwritten, DeviceCloses
  <2> QED
    BY <1>2, <2>1, <2>2
<1>7. ASSUME \/ OutConnect \/ InConnect \/ Answered \/ NotAnswered \/ OutAccept
             \/ ReadAccept \/ ReadAgain \/ UNCHANGED vars
      PROVE  Stays
  BY <1>7 DEF OutConnect, InConnect, Answered, NotAnswered, OutAccept, ReadAccept,
     ReadAgain, history, control, vars
<1>8. CASE AcceptPost \/ AcceptGet
  BY <1>8 DEF AcceptPost, AcceptGet, control
<1>9. ASSUME Exit PROVE Stays
  BY <1>1, <1>2, <1>9 DEF Exit, history
<1>10. ASSUME TunnelConnect PROVE Stays
  <2>1. session["htc"] = 0 /\ BeginSession("htc")
    BY <1>1, <1>10 DEF TunnelConnect
  <2> QED
    BY <1>1, <1>3, <2>1
<1>11. ASSUME AcceptReturns PROVE Stays
  <2>1. CASE pc["hts"] = "accept"
    <3>1. session["hts"] = 0 /\ BeginSession("hts")
      BY <1>1, <1>11, <2>1 DEF AcceptReturns
    <3> QED
      BY <1>1, <1>3, <3>1
  <2>2. CASE pc["hts"] # "accept"
    BY <1>11, <2>2 DEF AcceptReturns, history
  <2> QED
    BY <2>1, <2>2
<1>12. ASSUME OutConnectFails \/ PostFails PROVE Stays
  <2>1. Fault /\ (UNCHANGED closed \/ Close("htc", "error"))
    BY <1>12 DEF OutConnectFails, PostFails, RequestFails
  <2> QED
    BY <1>1, <1>2, <2>1 DEF Fault
<1>13. ASSUME InConnectFails \/ GetFails \/ AnswerFails PROVE Stays
  <2>1. UNCHANGED closed \/ Close("htc", "error")
    BY <1>13 DEF InConnectFails, GetFails, AnswerFails, InFails
  <2>2. UNCHANGED <<ends, rejected>>
    BY <1>13 DEF InConnectFails, GetFails, AnswerFails, Fault, history
  <2> QED
    BY <1>1, <1>2, <2>1, <2>2
<1>14. ASSUME AnswerLost \/ AnswerGetFails PROVE Stays
  BY <1>14 DEF AnswerLost, AnswerGetFails, Fault, control
<1>15. ASSUME AcceptFails PROVE Stays
  <2>1. CASE session["hts"] < Sessions /\ BeginSession("hts")
    <3>1. session["hts"] = 0
      BY <1>1, <2>1
    <3> QED
      BY <1>1, <1>3, <2>1, <3>1
  <2>2. CASE UNCHANGED history /\ (UNCHANGED closed \/ Close("hts", "error"))
    BY <1>1, <1>2, <2>2 DEF history
  <2> QED
    BY <1>15, <2>1, <2>2, AcceptFailsCases DEF RequestFails, control
<1>16. ~CloseAged /\ ~CloseAgedFails /\ ~AcceptTimeout
  BY <1>1 DEF CloseAged, CloseAgedFails, AcceptTimeout
<1> HIDE DEF Stays
<1>17. Stays \/ AcceptPost \/ AcceptGet
  BY <1>1, <1>4, <1>5, <1>6, <1>7, <1>9, <1>10, <1>11, <1>12, <1>13, <1>14, <1>15,
     <1>16, Zenon
     DEF Next, Environment, Fails, Runs, Reads, Closes
<1> QED
  BY <1>8, <1>17 DEF Stays

-----------------------------------------------------------------------------
\* A body goes on, or has ended and is left.
LEMMA BodyStep ==
    ASSUME TypeInv, TypeInv', PathInv, OneDirection, [Next]_vars
    PROVE  BodyInv'
<1>1. /\ BodyInv /\ \A e \in End : EndInv(e)
      /\ None \notin Conns /\ End = {"htc", "hts"} /\ ends' = ends
      /\ out \in [End -> Conns \cup {None}]
      /\ \A r : ~Has(<<>>, r)
  <2>1. \A r : ~Has(<<>>, r)
    <3>1. <<>> \in Seq(Msgs)
      BY EmptySeq
    <3> QED
      BY <3>1, HasLaws
  <2>2. ends' = ends
    BY Steady DEF PathInv, TypeInv
  <2> QED
    BY <2>1, <2>2, NoneIsNot DEF PathInv, ControlInv, TypeInv, Descriptors, End
<1>2. \A e \in End : out[e] # None => out[e] \in Conns
                                       /\ conn[out[e]].kind = OutKind(e)
  BY NetFacts
<1>3. CASE OpensOut \/ OpensIn
  <2>1. PICK c \in Conns :
             /\ \A e \in End : in[e] # c /\ out[e] # c
             /\ \A d \in Conns \ {c} : conn'[d] = conn[d]
             /\ conn'[c].wire = <<>>
             /\ out' = [out EXCEPT !["htc"] = c] \/ out' = out
    BY <1>3, ConnectNet
  <2>2. \A d \in Conns : Has(conn'[d].wire, "DISCONNECT") =>
          Has(conn[d].wire, "DISCONNECT") /\ conn'[d].kind = conn[d].kind
    BY <1>1, <2>1
  <2>3. \A e \in End : out'[e] = out[e] \/ out'[e] = c
    BY <1>1, <2>1
  <2> QED
    BY <1>1, <1>2, <2>1, <2>2, <2>3 DEF BodyInv
<1>4. ASSUME NEW e \in End, WriteRequest(e) PROVE BodyInv'
  <2> DEFINE c == out[e]
  <2>1. Busy(e)
    BY <1>4 DEF WriteRequest, Writing, Busy
  <2>2. call[e].msg.req # "DISCONNECT"
    BY <1>1, <2>1, CallsStep
  <2>3. /\ c \in Conns
        /\ \A d \in Conns \ {c} : conn'[d] = conn[d]
        /\ conn'[c].kind = conn[c].kind
        /\ Has(conn'[c].wire, "DISCONNECT") <=>
                \/ Has(conn[c].wire, "DISCONNECT") \/ "DISCONNECT" = call[e].msg.req
                \/ "DISCONNECT" = "DISCONNECT" /\ out'[e] = None
        /\ \/ out' = out
           \/ e \in ends /\ out' = [out EXCEPT ![e] = None]
    BY <1>4, <2>2, WriteNet
  <2>4. c # None /\ conn[c].kind = OutKind(e) /\ ~Has(conn[c].wire, "DISCONNECT")
    BY <1>1, <1>2, <2>3 DEF BodyInv
  <2>5. \A f \in End \ {e} : out'[f] = out[f] /\ OutKind(f) # OutKind(e)
    BY <1>1, <2>3 DEF OutKind
  <2> HIDE DEF c
  <2>6. Has(conn'[c].wire, "DISCONNECT") => out'[e] = None /\ e \in ends
    BY <1>1, <2>2, <2>3, <2>4 DEF c
  <2>7. \A f \in End : out'[f] # None => ~Has(conn'[out'[f]].wire, "DISCONNECT")
    BY <1>1, <1>2, <2>3, <2>4, <2>5, <2>6 DEF BodyInv, c
  <2>8. \A f \in End, d \in Conns : f \notin ends /\ conn'[d].kind = OutKind(f) =>
          ~Has(conn'[d].wire, "DISCONNECT")
    BY <1>1, <2>3, <2>4, <2>5, <2>6 DEF BodyInv
  <2> QED
    BY <1>1, <2>7, <2>8 DEF BodyInv
<1>5. CASE AcceptGet
  <2> DEFINE c == Head(queue)
  <2>1. out["hts"] = None /\ c = in["htc"] /\ conn[c].wire = <<>>
    <3>1. InQueue(queue, Head(queue)) /\ conn[Head(queue)].kind = "GET"
            /\ Head(queue) \in Conns
      BY <1>5, NetFacts DEF AcceptGet
    <3> QED
      BY <1>5, <3>1, CalmFacts DEF PathInv, GetInv
  <2>2. /\ c \in Conns
        /\ \A d \in Conns \ {c} : conn'[d] = conn[d]
        /\ \A r : Has(conn'[c].wire, r) <=> r = "200"
        /\ out' = [out EXCEPT !["hts"] = c]
    BY <1>5, <2>1, TakeNet
  <2> HIDE DEF c
  <2>3. \A d \in Conns : Has(conn'[d].wire, "DISCONNECT") =>
          d # c /\ conn'[d] = conn[d]
    BY <2>2
  <2>4. \A e \in End : out'[e] = out[e] \/ out'[e] = c
    BY <1>1, <2>2
  <2> QED
    BY <1>1, <1>2, <2>2, <2>3, <2>4 DEF BodyInv
<1>6. ASSUME ~OpensOut, ~OpensIn, ~AcceptGet, \A e \in End : ~WriteRequest(e)
      PROVE  BodyInv'
  <2>1. /\ \A d \in Conns :
                /\ conn'[d].kind \in {conn[d].kind, "none"}
                /\ \A r : Has(conn'[d].wire, r) => Has(conn[d].wire, r)
        /\ \A e \in End : out'[e] \in {out[e], None}
    BY <1>6, LossNet
  <2>2. \A e \in End : OutKind(e) # "none"
    BY DEF OutKind
  <2> QED
    BY <1>1, <1>2, <2>1, <2>2 DEF BodyInv
<1> QED
  BY <1>3, <1>4, <1>5, <1>6

\* Before htc has opened a connection for its input, there is none.
LEMMA InputStep ==
    ASSUME TypeInv, TypeInv', PathInv, OneDirection, [Next]_vars
    PROVE  InputInv'
<1>1. /\ InputInv /\ \A e \in End : EndInv(e) /\ session[e] \in {0, 1}
      /\ Rest /\ Rest' /\ \A e \in End : EndInv(e)'
      /\ None \notin Conns /\ "htc" \in End /\ "hts" \in End
      /\ End = {"htc", "hts"}
      /\ out \in [End -> Conns \cup {None}] /\ in \in [End -> Conns \cup {None}]
  BY NoneIsNot, OneSession, ControlStep
     DEF PathInv, ControlInv, TypeInv, Descriptors, End
<1>2. /\ \A r : Msg(r).req = r
      /\ NoCall.msg.req = "PAD"
  BY DEF Msg, NoCall
<1> DEFINE Empty == /\ queue = <<>>
                    /\ \A e \in End : out[e] = None /\ in[e] = None
           Before == \/ pc["htc"] \in {"connect", "reconnect"}
                     \/ call["htc"].msg.req = "OPEN"
<1>3. ASSUME session'["htc"] = session["htc"] \/ session'["htc"] # 0,
             Before' => Before \/ in'["htc"] = None,
             session'["htc"] = 0 \/ in'["htc"] # None => in' = in,
             Empty => Empty'
      PROVE  InputInv'
  BY <1>1, <1>3 DEF InputInv
<1>4. CASE OutConnect
  <2>1. pc["htc"] \in {"write", "resend"} /\ in' = in /\ call' = call
        /\ session' = session
        /\ pc'["htc"] \in {"send", "resend"} /\ session["htc"] # 0
    BY <1>1, <1>4 DEF OutConnect, Unconnected, history, Goto, Rest, EndInv
  <2> QED
    BY <1>1, <2>1 DEF InputInv
<1>5. CASE InConnect
  <2>1. /\ pc["htc"] \in {"connect", "reconnect"} /\ call' = call
        /\ pc'["htc"] \in {"response", "reresponse"} /\ session["htc"] # 0
        /\ session' = session /\ call["htc"] = NoCall
    BY <1>1, <1>5 DEF InConnect, Connecting, history, Goto, Rest, EndInv, Busy
  <2> QED
    BY <1>1, <1>2, <2>1 DEF InputInv
<1>6. CASE AcceptPost \/ AcceptGet
  <2>1. queue # <<>> /\ session' = session /\ pc' = pc /\ call' = call
        /\ in'["htc"] = in["htc"]
    BY <1>1, <1>6 DEF AcceptPost, AcceptGet, control, SetIn
  <2> QED
    BY <1>1, <2>1 DEF InputInv
<1>7. ASSUME NEW e \in End, Writes(e) PROVE InputInv'
  <2>1. /\ Busy(e) /\ session' = session /\ in' = in /\ queue' = queue
        /\ out' = out \/ out' = [out EXCEPT ![e] = None]
        /\ pc' = [pc EXCEPT ![e] = pc'[e]] /\ call' = [call EXCEPT ![e] = call'[e]]
        /\ pc'[e] \in {call[e].next, "exit", "resend"}
        /\ call'[e] \in {call[e], NoCall}
    BY <1>1, <1>7 DEF Writes, WriteRequest, WriteLost, WriteEPIPE, WriteFails,
       RequestFails, Return, Goto, SetOut, Writing, Busy, history, Rest, fds, net
  <2>2. /\ call[e].next \in {"connect", "disconnect", "poll", "tunnel"}
        /\ call[e].next = "connect" => call[e].msg.req = "OPEN"
    BY <1>1, <2>1, CallsStep
  <2>3. Before' => Before
    BY <1>1, <1>2, <2>1, <2>2 DEF Rest
  <2>4. Empty => Empty'
    BY <1>1, <2>1
  <2> QED
    BY <1>3, <2>1, <2>3, <2>4
\* An end closes a descriptor of its own.
<1>8. ASSUME NEW e \in End, NEW l, pc' = [pc EXCEPT ![e] = l],
             l \notin {"connect", "reconnect"}, UNCHANGED <<session, call, queue>>,
             in' = in \/ in' = [in EXCEPT ![e] = None],
             out' = out \/ out' = [out EXCEPT ![e] = None]
      PROVE  InputInv'
  BY <1>1, <1>8 DEF InputInv, Rest
<1>9. ASSUME NEW e \in End, Closes(e) PROVE InputInv'
  <2>1. CASE TunnelClose(e)
    <3>1. CASE Goto(e, "idle") /\ UNCHANGED call
      BY <1>8, <2>1, <3>1 DEF TunnelClose, net, fds, history, Goto
    <3>2. CASE Request(e, Msg("CLOSE"), "disconnect")
      <4>1. /\ pc' = [pc EXCEPT ![e] = "write"]
            /\ call' = [call EXCEPT ![e] = [msg |-> Msg("CLOSE"), next |-> "disconnect"]]
            /\ UNCHANGED <<session, in, out, queue>>
        BY <2>1, <3>2 DEF TunnelClose, net, fds, history, Request, Goto
      <4> QED
        BY <1>1, <1>2, <4>1 DEF InputInv, Rest
    <3> QED
      BY <2>1, <3>1, <3>2 DEF TunnelClose
  <2>2. CASE Disconnect(e)
    BY <1>8, <2>2 DEF Disconnect, Goto, SetOut, history
  <2>3. CASE DrainMore(e)
    BY <1>1, <2>3 DEF DrainMore, fds, control, history, InputInv
  <2>4. CASE DrainDone(e)
    <3>1. PICK l \in {"idle", "accept"} : Goto(e, l)
      BY <2>4 DEF DrainDone
    <3> QED
      BY <1>8, <2>4, <3>1 DEF DrainDone, Goto, SetIn, history
  <2> QED
    BY <1>9, <2>1, <2>2, <2>3, <2>4 DEF Closes
<1>10. ASSUME NEW e \in End, ReadDisconnect(e) PROVE InputInv'
  <2>1. /\ in' = [in EXCEPT ![e] = None] /\ UNCHANGED <<session, call, queue, out>>
        /\ pc' = [pc EXCEPT ![e] = IF e = "htc" THEN "reconnect" ELSE "poll"]
    BY <1>10 DEF ReadDisconnect, SetIn, Goto, history
  <2>2. pc["htc"] = "tunnel" \/ e = "hts"
    BY <1>1, <1>10 DEF ReadDisconnect, Reading
  <2>3. in["htc"] = None => in'["htc"] = None
    BY <1>1, <2>1
  <2>4. e = "htc" => in'["htc"] = None
    BY <1>1, <2>1
  <2>5. Before' => Before \/ in'["htc"] = None
    BY <1>1, <2>1, <2>4 DEF Rest
  <2> QED
    BY <1>1, <2>1, <2>3, <2>5 DEF InputInv
<1>11. ASSUME NEW e \in End,
              \/ TunnelReady(e) \/ ReadRequest(e) \/ ReadUnwritten(e)
              \/ DeviceCloses(e)
       PROVE  InputInv'
  <2>1. PICK l \in {"tunnel", "poll"} : Goto(e, l)
    BY <1>11 DEF TunnelReady, ReadRequest, ReadUnwritten, DeviceCloses, AfterDevice
  <2>2. UNCHANGED <<session, call, queue, in, out>>
    BY <1>11 DEF TunnelReady, ReadRequest, ReadUnwritten, DeviceCloses, net,
       fds, history
  <2> QED
    BY <1>8, <2>1, <2>2 DEF Goto
<1>12. CASE \/ OutAccept \/ Answered \/ NotAnswered \/ Exit \/ ReadAccept
            \/ ReadAgain
  <2>1. PICK e \in End, l \in {"acceptWrite", "poll", "exit", "exited", "acceptIn",
                            "acceptOut"} : Goto(e, l) /\ (Exit => e = "htc")
    BY <1>1, <1>12 DEF OutAccept, Answered, NotAnswered, Exit, ReadAccept, ReadAgain
  <2>2. UNCHANGED <<session, call, queue>>
    BY <1>12 DEF OutAccept, Answered, NotAnswered, Exit, ReadAccept, ReadAgain, net,
       history
  <2>3. in' = in \/ in' = [in EXCEPT ![e] = None]
    BY <1>12, <2>1 DEF OutAccept, Answered, NotAnswered, Exit, ReadAccept, ReadAgain,
       fds, SetIn
  <2>4. out' = out \/ out' = [out EXCEPT ![e] = None]
    BY <1>12, <2>1 DEF OutAccept, Answered, NotAnswered, Exit, ReadAccept, ReadAgain,
       fds, SetOut
  <2> QED
    BY <1>8, <2>1, <2>2, <2>3, <2>4 DEF Goto
<1>13. ASSUME NEW e \in End, KeepAlive(e) \/ DeviceInput(e) PROVE InputInv'
  <2>1. PICK m, l : Request(e, m, l) /\ m.req # "OPEN"
    BY <1>2, <1>13 DEF KeepAlive, DeviceInput
  <2>2. UNCHANGED <<session, queue, in, out>>
    BY <1>13 DEF KeepAlive, DeviceInput, net, fds, history
  <2>3. Before' => Before
    BY <1>1, <2>1 DEF Request, Goto, Rest
  <2> QED
    BY <1>1, <2>2, <2>3 DEF InputInv
<1>14. CASE TunnelConnect
  <2>1. session["htc"] = 0 /\ session'["htc"] = 1 /\ in' = in
    BY <1>1, <1>14, OneSession DEF TunnelConnect, BeginSession, fds, Rest
  <2> QED
    BY <1>1, <2>1 DEF InputInv
<1>15. CASE AcceptReturns
  <2>1. PICK l \in {"send", "poll"} : Goto("hts", l)
    BY <1>15 DEF AcceptReturns
  <2>2. /\ session'["htc"] = session["htc"] /\ UNCHANGED <<call, queue, in, out>>
    BY <1>1, <1>15 DEF AcceptReturns, BeginSession, net, fds, history, Rest
  <2> QED
    BY <1>1, <2>1, <2>2 DEF InputInv, Goto, Rest
<1>16. CASE UNCHANGED vars
  BY <1>1, <1>16 DEF vars, net, fds, control, history, InputInv
<1>17. CASE OutConnectFails \/ PostFails
  <2>1. /\ pc["htc"] \in {"write", "resend"} /\ in' = in /\ UNCHANGED session
        /\ RequestFails("htc")
    BY <1>17 DEF OutConnectFails, PostFails, Unconnected, Fault, fds
  <2>2. Busy("htc") /\ session["htc"] # 0
    BY <1>1, <2>1 DEF Busy, EndInv
  <2>3. /\ call["htc"].next \in {"connect", "disconnect", "poll", "tunnel"}
        /\ call["htc"].next = "connect" => call["htc"].msg.req = "OPEN"
    BY <1>1, <2>2, CallsStep
  <2>4. call'["htc"] = NoCall /\ pc'["htc"] \in {"exit", "disconnect", "poll", "tunnel"}
    BY <1>1, <2>1, <2>3 DEF RequestFails, Return, Goto, Rest
  <2> QED
    BY <1>1, <1>2, <2>1, <2>2, <2>4 DEF InputInv
<1>18. CASE InConnectFails \/ GetFails \/ AnswerFails
  <2>1. /\ pc["htc"] \in {"connect", "reconnect", "response", "reresponse"}
        /\ InFails /\ UNCHANGED session
    BY <1>18 DEF InConnectFails, GetFails, AnswerFails, Connecting, AwaitsAnswer,
       Fault, history
  <2>2. /\ session["htc"] # 0 /\ call["htc"] = NoCall /\ call' = call
        /\ pc'["htc"] \in {"exit", "poll"}
    <3>1. session["htc"] # 0 /\ call["htc"] = NoCall
      BY <1>1, <2>1 DEF EndInv, Busy
    <3>2. call' = call /\ pc'["htc"] \in {"exit", "poll"}
      BY <1>1, <2>1 DEF InFails, Goto, Rest
    <3> QED
      BY <3>1, <3>2
  <2> QED
    BY <1>1, <1>2, <2>1, <2>2 DEF InputInv
<1>19. CASE AnswerLost \/ AnswerGetFails
  <2>1. /\ UNCHANGED <<fds, control, session>>
        /\ UNCHANGED queue \/ queue # <<>>
    BY <1>19 DEF AnswerLost, AnswerGetFails, Fault
  <2> QED
    BY <1>1, <2>1 DEF InputInv, fds, control
<1>20. CASE AcceptFails
  <2>1. UNCHANGED fds /\ queue # <<>>
    BY <1>20 DEF AcceptFails
  <2>2. /\ pc'["htc"] = pc["htc"] /\ call'["htc"] = call["htc"]
        /\ session'["htc"] = session["htc"]
    BY <1>1, <1>20, AcceptFailsCases DEF BeginSession, Goto, RequestFails, Return,
       history, control, Rest
  <2> QED
    BY <1>1, <2>1, <2>2 DEF InputInv, fds
<1>21. ~CloseAged /\ ~CloseAgedFails /\ ~AcceptTimeout
  BY OneSession DEF CloseAged, CloseAgedFails, AcceptTimeout, TypeInv
<1> QED
  BY <1>4, <1>5, <1>6, <1>7, <1>9, <1>10, <1>11, <1>12, <1>13, <1>14, <1>15, <1>16,
     <1>17, <1>18, <1>19, <1>20, <1>21, Zenon
     DEF Next, Environment, Fails, Runs, Reads

\* A descriptor changes when its connection is opened, taken or closed, and
\* hts takes what is in the queue.
LEMMA FdsNext ==
    ASSUME TypeInv, OneDirection, [Next]_vars
    PROVE  /\ out'["htc"] \in {out["htc"], None} \/ OpensOut
           /\ out'["hts"] \in {out["hts"], None} \/ AcceptGet
           /\ in'["htc"] \in {in["htc"], None} \/ OpensIn
           /\ in'["hts"] \in {in["hts"], None} \/ AcceptPost
           /\ \/ queue' = queue \/ OpensOut \/ OpensIn
              \/ AcceptPost \/ AcceptGet \/ AnswerGetFails \/ AcceptFails
<1> DEFINE Same ==
      /\ \A e \in End : out'[e] \in {out[e], None} /\ in'[e] \in {in[e], None}
      /\ queue' = queue
<1>1. /\ out \in [End -> Conns \cup {None}] /\ in \in [End -> Conns \cup {None}]
      /\ End = {"htc", "hts"}
      /\ ~CloseAged /\ ~CloseAgedFails /\ ~AcceptTimeout
  BY OneSession DEF TypeInv, Descriptors, End, CloseAged, CloseAgedFails, AcceptTimeout
<1>2. ASSUME NEW e \in End, Writes(e) PROVE Same
  BY <1>1, <1>2 DEF Writes, WriteRequest, WriteLost, WriteEPIPE, WriteFails, SetOut,
     net, fds
<1>3. ASSUME NEW e \in End,
             TunnelReady(e) \/ ReadRequest(e) \/ ReadUnwritten(e) \/ TunnelClose(e)
               \/ DrainMore(e) \/ DeviceInput(e) \/ DeviceCloses(e) \/ KeepAlive(e)
      PROVE  Same
  BY <1>3 DEF TunnelReady, ReadRequest, ReadUnwritten, TunnelClose, DrainMore,
     DeviceInput, DeviceCloses, KeepAlive, net, fds
<1>4. ASSUME \/ OutAccept \/ Answered \/ NotAnswered \/ ReadAccept \/ ReadAgain
             \/ AcceptReturns \/ TunnelConnect \/ UNCHANGED vars
             \/ OutConnectFails \/ InConnectFails \/ AnswerLost \/ AnswerFails
      PROVE  Same
  BY <1>4 DEF OutAccept, Answered, NotAnswered, ReadAccept, ReadAgain, AcceptReturns,
     TunnelConnect, OutConnectFails, InConnectFails, AnswerLost, AnswerFails,
     vars, net, fds
<1>5. ASSUME NEW e \in End, ReadDisconnect(e) \/ DrainDone(e) \/ Disconnect(e)
      PROVE  Same
  BY <1>1, <1>5 DEF ReadDisconnect, DrainDone, Disconnect, SetIn, SetOut
<1>6. ASSUME Exit PROVE Same
  BY <1>1, <1>6 DEF Exit, SetIn, SetOut
<1>7. CASE OpensOut
  <2>1. PICK c \in Conns : in' = in /\ out' = [out EXCEPT !["htc"] = c]
    BY <1>7, ConnectNet
  <2> QED
    BY <1>1, <1>7, <2>1
<1>8. CASE OpensIn
  <2>1. PICK c \in Conns : out' = out /\ in' = [in EXCEPT !["htc"] = c]
    BY <1>8, ConnectNet
  <2> QED
    BY <1>1, <1>8, <2>1
<1>9. CASE AcceptPost \/ AcceptGet \/ AnswerGetFails \/ AcceptFails
  BY <1>1, <1>9 DEF AcceptPost, AcceptGet, AnswerGetFails, AcceptFails, SetIn, SetOut,
     fds
<1> HIDE DEF Same
<1>10. \/ OpensOut \/ OpensIn \/ AcceptPost \/ AcceptGet \/ AnswerGetFails
       \/ AcceptFails \/ Same
  BY <1>1, <1>2, <1>3, <1>4, <1>5, <1>6, Zenon
     DEF Next, Environment, Fails, Runs, Reads, Closes, OpensOut, OpensIn
<1> QED
  BY <1>1, <1>7, <1>8, <1>9, <1>10 DEF Same

\* The system calls of an end that closes or reads do not break a connection.
LEMMA ResetKept ==
    ASSUME NEW cs \in [Conns -> Connections], NEW c \in Conns \cup {None}
    PROVE  \A d \in Conns : /\ CloseIn(cs, c)[d].reset => cs[d].reset
                            /\ CloseOut(cs, c)[d].reset => cs[d].reset
                            /\ Consume(cs, c)[d].reset = cs[d].reset
<1>1. None \notin Conns
  BY NoneIsNot
<1>2. CASE c = None
  <2>1. Consume(cs, c) = cs
    BY <1>1, <1>2 DEF Consume
  <2> QED
    BY <1>2, <2>1 DEF CloseIn, CloseOut
<1>3. CASE c \in Conns
  <2>1. CloseIn(cs, c) = CloseReader(cs, c) /\ CloseOut(cs, c) = CloseWriter(cs, c)
    BY <1>1, <1>3 DEF CloseIn, CloseOut
  <2>2. \A d \in Conns \ {c} : CloseReader(cs, c)[d] = cs[d]
    BY <1>3, CloseReaderEffect, Zenon
  <2>3. \A d \in Conns \ {c} : CloseWriter(cs, c)[d] = cs[d]
    BY <1>3, CloseWriterEffect, Zenon
  <2>4. \A d \in Conns \ {c} : Consume(cs, c)[d] = cs[d]
    BY <1>3 DEF Consume
  <2>5. /\ Consume(cs, c)[c].reset = cs[c].reset
        /\ CloseWriter(cs, c)[c].reset => cs[c].reset
        /\ CloseReader(cs, c)[c].reset => cs[c].reset
    BY <1>3, ResetEffect
  <2> QED
    BY <2>1, <2>2, <2>3, <2>4, <2>5
<1> QED
  BY <1>2, <1>3

\* When a connection that could be used cannot be used any more
LEMMA ResetWhen ==
    ASSUME TypeInv, TypeInv', PathInv, OneDirection, [Next]_vars, NEW c \in Conns,
           ~conn[c].reset, conn'[c].reset
    PROVE  \/ OpensOut /\ out'["htc"] = c /\ conn[c].kind = "none"
           \/ OpensIn /\ in'["htc"] = c /\ conn[c].kind = "none"
           \/ ~conn[c].reader
           \/ AnswerLost /\ c = in["htc"]
           \/ AnswerGetFails /\ c = Head(queue)
<1>1. /\ conn \in [Conns -> Connections] /\ End = {"htc", "hts"} /\ None \notin Conns
      /\ out \in [End -> Conns \cup {None}] /\ in \in [End -> Conns \cup {None}]
      /\ ~CloseAged /\ ~CloseAgedFails /\ ~AcceptTimeout
  BY OneSession, NoneIsNot DEF TypeInv, Descriptors, End, CloseAged, CloseAgedFails,
     AcceptTimeout
<1>2. CASE OpensOut \/ OpensIn
  BY <1>1, <1>2, ConnectNet
<1>3. CASE AcceptGet
  <2>1. /\ \A d \in Conns \ {Head(queue)} : conn'[d] = conn[d]
        /\ Head(queue) \in Conns
    BY <1>3, TakeNet
  <2>2. conn' \in {Write(conn, Head(queue), Msg("200")), CloseWriter(conn, Head(queue))}
    BY <1>3 DEF AcceptGet
  <2>3. conn'[Head(queue)].reset => conn[Head(queue)].reset
    BY <1>1, <2>1, <2>2, ResetEffect
  <2> QED
    BY <2>1, <2>3
<1>4. CASE AcceptPost \/ AcceptFails
  <2>1. /\ \A d \in Conns \ {Head(queue)} : conn'[d] = conn[d]
        /\ Head(queue) \in Conns
    BY <1>4, TakeNet
  <2>2. conn' \in {conn, CloseReader(conn, Head(queue)), CloseWriter(conn, Head(queue))}
    BY <1>4 DEF AcceptPost, AcceptFails
  <2>3. conn'[Head(queue)].reset => conn[Head(queue)].reset
    BY <1>1, <2>1, <2>2, ResetEffect
  <2> QED
    BY <2>1, <2>3
<1>5. CASE AnswerGetFails
  <2>1. \A d \in Conns \ {Head(queue)} : conn'[d] = conn[d]
    BY <1>5, TakeNet
  <2> QED
    BY <1>5, <2>1
<1>6. CASE AnswerLost
  <2>1. \A d \in Conns \ {in["htc"]} : conn'[d] = conn[d]
    BY <1>1, <1>6 DEF AnswerLost, Break
  <2> QED
    BY <1>6, <2>1
<1>7. ASSUME NEW e \in End, WriteRequest(e) PROVE conn'[c].reset => conn[c].reset
  <2>1. call[e].msg.req # "DISCONNECT"
    BY <1>7, CallsStep DEF PathInv, ControlInv, Busy, WriteRequest, Writing
  <2> QED
    BY <1>7, <2>1, WriteNet
<1>8. ASSUME NEW e \in End, WriteLost(e) PROVE ~conn[c].reader
  <2>1. /\ out[e] \in Conns /\ ~conn[out[e]].reader
        /\ \A d \in Conns \ {out[e]} : conn'[d] = conn[d]
    BY <1>1, <1>8, BrokenNet DEF WriteLost
  <2> QED
    BY <2>1
<1>9. ASSUME NEW e \in End, WriteEPIPE(e) \/ Disconnect(e)
      PROVE  conn'[c].reset => conn[c].reset
  <2>1. conn' = CloseOut(conn, out[e]) /\ out[e] \in Conns \cup {None}
    BY <1>1, <1>9 DEF WriteEPIPE, Disconnect, Lost, CloseOut
  <2> QED
    BY <1>1, <2>1, ResetKept
<1>10. ASSUME NEW e \in End,
              \/ ReadDisconnect(e) \/ ReadRequest(e) \/ ReadUnwritten(e)
              \/ DrainMore(e) \/ DrainDone(e) \/ (Answered /\ e = "htc")
       PROVE  conn'[c].reset => conn[c].reset
  <2>1. /\ conn' \in {Consume(conn, in[e]), CloseIn(conn, in[e])}
        /\ in[e] \in Conns \cup {None}
    BY <1>1, <1>10 DEF ReadDisconnect, ReadRequest, ReadUnwritten, DrainMore, DrainDone,
       Answered, Reading, CloseIn
  <2> QED
    BY <1>1, <2>1, ResetKept
<1>11. ASSUME Exit PROVE conn'[c].reset => conn[c].reset
  <2> DEFINE cs == CloseIn(conn, in["htc"])
  <2>1. /\ in["htc"] \in Conns \cup {None} /\ out["htc"] \in Conns \cup {None}
        /\ conn' = CloseOut(cs, out["htc"])
    BY <1>1, <1>11 DEF Exit
  <2>2. cs \in [Conns -> Connections] /\ (cs[c].reset => conn[c].reset)
    BY <1>1, <2>1, CloseNet, ResetKept
  <2> HIDE DEF cs
  <2>3. CloseOut(cs, out["htc"])[c].reset => cs[c].reset
    BY <2>1, <2>2, ResetKept
  <2> QED
    BY <2>1, <2>2, <2>3
<1>12. ASSUME NEW e \in End,
              \/ WriteFails(e) \/ TunnelReady(e) \/ TunnelClose(e) \/ KeepAlive(e)
              \/ DeviceCloses(e) \/ DeviceInput(e)
       PROVE  conn' = conn
  BY <1>12 DEF WriteFails, TunnelReady, TunnelClose, KeepAlive, DeviceCloses,
     DeviceInput, net
<1>13. ASSUME \/ OutAccept \/ NotAnswered \/ ReadAccept \/ ReadAgain \/ AcceptReturns
              \/ TunnelConnect \/ UNCHANGED vars
              \/ OutConnectFails \/ InConnectFails \/ AnswerFails
       PROVE  conn' = conn
  BY <1>13 DEF OutAccept, NotAnswered, ReadAccept, ReadAgain, AcceptReturns,
     TunnelConnect, OutConnectFails, InConnectFails, AnswerFails, vars, net
<1>14. \/ OpensOut \/ OpensIn \/ AcceptGet \/ AcceptPost \/ AcceptFails \/ AnswerGetFails
       \/ AnswerLost \/ Exit \/ \E e \in End : WriteLost(e)
       \/ conn'[c].reset => conn[c].reset
  BY <1>1, <1>7, <1>9, <1>10, <1>12, <1>13, Zenon
     DEF Next, Environment, Fails, Runs, Writes, Reads, Closes, OpensOut, OpensIn
<1> QED
  BY <1>2, <1>3, <1>4, <1>5, <1>6, <1>8, <1>11, <1>14

\* What cannot be used is empty, hts does not read it, and htc does not stay.
LEMMA ResetStep ==
    ASSUME TypeInv, TypeInv', PathInv, OneDirection, [Next]_vars
    PROVE  ResetInv'
<1>1. /\ ResetInv /\ None \notin Conns /\ End = {"htc", "hts"}
      /\ \A e \in End : Hears(e)' => Hears(e)
  BY NoneIsNot, HearsStep DEF PathInv, End
<1>2. \A c \in Conns : conn'[c].reset \/ ~conn'[c].reader => conn'[c].wire = <<>>
  <2> TAKE c \in Conns
  <2>1. CASE OpensOut \/ OpensIn
    BY <1>1, <2>1, ConnectNet DEF ResetInv
  <2>2. ASSUME NEW e \in End, WriteRequest(e)
        PROVE  conn'[c].reset \/ ~conn'[c].reader => conn'[c].wire = <<>>
    <3>1. call[e].msg.req # "DISCONNECT"
      BY <2>2, CallsStep DEF PathInv, ControlInv, Busy, WriteRequest, Writing
    <3> QED
      BY <1>1, <2>2, <3>1, WriteNet DEF ResetInv
  <2>3. CASE AcceptGet
    <3>1. Head(queue) = in["htc"] /\ out["hts"] = None /\ Waiting
      BY <2>3, CalmFacts
    <3>2. InQueue(queue, Head(queue)) /\ Head(queue) \in Conns
            /\ conn[Head(queue)].kind = "GET"
      BY <2>3, NetFacts DEF AcceptGet
    <3>3. conn[Head(queue)].wire = <<>>
      BY <3>2 DEF PathInv, GetInv
    <3>4. /\ \A d \in Conns \ {Head(queue)} : conn'[d] = conn[d]
          /\ ~conn'[Head(queue)].reset /\ in' = in
      BY <2>3, <3>1, <3>3, TakeNet
    <3>5. conn'[Head(queue)].reader
      BY <1>1, <3>1, <3>2, <3>4 DEF TypeInv, Descriptors
    <3> QED
      BY <1>1, <3>4, <3>5 DEF ResetInv
  <2>4. CASE /\ ~OpensOut /\ ~OpensIn /\ ~AcceptGet
             /\ \A e \in End : ~WriteRequest(e)
    <3>1. Worn(conn'[c], conn[c])
      BY <2>4, LessNet
    <3> QED
      BY <1>1, <3>1 DEF Worn, Shut, ResetInv
  <2> QED
    BY <2>1, <2>2, <2>3, <2>4
<1>3. in'["hts"] # None => ~conn'[in'["hts"]].reset
  <2> SUFFICES ASSUME in'["hts"] # None, conn'[in'["hts"]].reset PROVE FALSE
    OBVIOUS
  <2>1. PICK c \in Conns : c = in'["hts"] /\ conn'[c].kind = "POST"
    BY <1>1 DEF TypeInv, Descriptors, InKind
  <2>2. CASE in'["hts"] = in["hts"]
    <3>1. ~conn[c].reset /\ conn[c].reader /\ conn[c].kind = "POST"
      BY <1>1, <2>1, <2>2, NetFacts DEF ResetInv, InKind
    <3>2. AnswerLost => c # in["htc"]
      <4>1. AnswerLost => Waiting
        BY DEF AnswerLost, AwaitsAnswer, Waiting
      <4>2. Waiting => in["htc"] # None
        BY DEF PathInv, GetInv
      <4> QED
        BY <1>1, <3>1, <4>1, <4>2, NetFacts DEF InKind
    <3>3. AnswerGetFails => c # Head(queue)
      BY <3>1 DEF AnswerGetFails
    <3> QED
      BY <2>1, <3>1, <3>2, <3>3, ResetWhen
  <2>3. CASE AcceptPost /\ in'["hts"] # in["hts"]
    <3>1. in \in [End -> Conns \cup {None}]
      BY DEF TypeInv, Descriptors
    <3>2. in' = [in EXCEPT !["hts"] = Head(queue)] /\ conn' = conn
      BY <2>3, TakeNet
    <3>3. ~conn[Head(queue)].reset
      BY <2>3 DEF AcceptPost
    <3> QED
      BY <1>1, <2>1, <3>1, <3>2, <3>3
  <2> QED
    BY <2>2, <2>3, FdsNext
<1>4. in'["htc"] # None /\ conn'[in'["htc"]].reset => ~Hears("htc")'
  <2> SUFFICES ASSUME in'["htc"] # None, conn'[in'["htc"]].reset, Hears("htc")'
               PROVE  FALSE
    OBVIOUS
  <2>1. PICK c \in Conns : c = in'["htc"] /\ conn'[c].kind = "GET"
    BY <1>1 DEF TypeInv, Descriptors, InKind
  <2>2. CASE OpensIn
    <3>1. GetFails
      <4>1. in \in [End -> Conns \cup {None}]
        BY DEF TypeInv, Descriptors
      <4>2. CASE InConnect
        <5>1. PICK d \in Conns : in' = [in EXCEPT !["htc"] = d] /\ ~conn'[d].reset
          BY <2>2, <4>2, ConnectNet
        <5> QED
          BY <1>1, <2>1, <4>1, <5>1
      <4> QED
        BY <2>2, <4>2 DEF OpensIn
    <3>2. pc'["htc"] = "exit" \/ (pc'["htc"] = "poll" /\ closed'["htc"] # "no")
      BY <1>1, <3>1 DEF GetFails, InFails, Goto, Close, TypeInv, Rest
    <3> QED
      BY <3>2 DEF Hears, Attends, Busy
  <2>3. CASE ~OpensIn
    <3>1. in'["htc"] = in["htc"]
      BY <2>3, FdsNext
    <3>2. conn[c].reader /\ ~conn[c].reset /\ conn[c].kind = "GET"
      BY <1>1, <2>1, <3>1, NetFacts DEF ResetInv, InKind
    <3>3. ~OpensOut \/ out'["htc"] # c
      BY <1>1, <2>1 DEF TypeInv, Descriptors, OutKind
    <3>4. Waiting /\ (AnswerLost \/ AnswerGetFails)
      BY <2>1, <2>3, <3>2, <3>3, ResetWhen, CalmFacts DEF AnswerLost, AwaitsAnswer, Waiting
    <3>5. Waiting'
      BY <3>4 DEF AnswerLost, AnswerGetFails, control, Waiting
    <3> QED
      BY <3>5 DEF Hears, Doomed
  <2> QED
    BY <2>2, <2>3
<1> QED
  BY <1>2, <1>3, <1>4 DEF ResetInv

\* What hts finds, it has found before or htc has just opened.
LEMMA FoundStep ==
    ASSUME TypeInv, TypeInv', PathInv, OneDirection, [Next]_vars, NEW c \in Conns,
           Found(c)'
    PROVE  \/ OpensOut /\ out'["htc"] = c
           \/ Found(c)
<1>1. /\ conn'[c].kind = "POST" /\ (c = in'["hts"] \/ InQueue(queue', c))
      /\ None \notin Conns /\ End = {"htc", "hts"}
      /\ out \in [End -> Conns \cup {None}] /\ in \in [End -> Conns \cup {None}]
  BY NoneIsNot DEF Found, Place, InQueue, TypeInv, Descriptors, End
<1>2. ASSUME conn[c].kind = "POST", c = in["hts"] \/ InQueue(queue, c) PROVE Found(c)
  BY <1>2 DEF Found, Place, InQueue
<1>3. CASE OpensOut \/ OpensIn
  BY <1>1, <1>2, <1>3, ConnectNet
<1>4. CASE ~OpensOut /\ ~OpensIn
  <2>1. conn[c].kind = "POST" /\ (InQueue(queue', c) => InQueue(queue, c))
    <3>1. ASSUME NEW e \in End, WriteRequest(e)
          PROVE  conn[c].kind = "POST" /\ (InQueue(queue', c) => InQueue(queue, c))
      <4>1. call[e].msg.req # "DISCONNECT"
        BY <3>1, CallsStep DEF PathInv, ControlInv, Busy, WriteRequest, Writing
      <4> QED
        BY <1>1, <3>1, <4>1, WriteNet
    <3>2. CASE AcceptGet
      <4>1. out["hts"] = None
        BY <3>2, CalmFacts
      <4>2. InQueue(queue, Head(queue)) /\ Head(queue) \in Conns
              /\ conn[Head(queue)].kind = "GET"
        BY <3>2, NetFacts DEF AcceptGet
      <4>3. conn[Head(queue)].wire = <<>>
        BY <4>2 DEF PathInv, GetInv
      <4> QED
        BY <1>1, <3>2, <4>1, <4>3, TakeNet
    <3>3. CASE ~AcceptGet /\ \A e \in End : ~WriteRequest(e)
      BY <1>1, <1>4, <3>3, LessNet
    <3> QED
      BY <3>1, <3>2, <3>3
  <2>2. CASE AcceptPost
    <3>1. \/ in' = [in EXCEPT !["hts"] = Head(queue)] \/ in' = in
      BY <2>2, TakeNet
    <3>2. InQueue(queue, Head(queue))
      BY <2>2, NetFacts DEF AcceptPost
    <3> QED
      BY <1>1, <1>2, <2>1, <3>1, <3>2
  <2>3. CASE ~AcceptPost
    BY <1>1, <1>2, <2>1, <2>3, FdsNext
  <2> QED
    BY <2>2, <2>3
<1> QED
  BY <1>3, <1>4

\* htc does not come back to the first connections.
LEMMA YoungStep ==
    ASSUME TypeInv, PathInv, OneDirection, [Next]_vars, Young', ~TunnelConnect
    PROVE  /\ Young
           /\ pc'["htc"] # "exit" => pc["htc"] # "exit" /\ ~PostFails
           /\ call'["htc"].msg.req = "OPEN" =>
                /\ call["htc"].msg.req = "OPEN"
                /\ \/ out'["htc"] = out["htc"] \/ WriteEPIPE("htc")
                   \/ OpensOut /\ ~PostFails
<1> DEFINE Goal ==
      /\ Young
      /\ pc'["htc"] # "exit" => pc["htc"] # "exit"
      /\ call'["htc"].msg.req = "OPEN" =>
           /\ call["htc"].msg.req = "OPEN"
           /\ \/ out'["htc"] = out["htc"] \/ WriteEPIPE("htc")
              \/ OpensOut /\ ~PostFails
<1>1. /\ Rest /\ EndInv("htc") /\ End = {"htc", "hts"} /\ "htc" \in End /\ "hts" \in End
      /\ pc \in [End -> Points]
      /\ call \in [End -> [msg : Msgs, next : Points]]
      /\ out \in [End -> Conns \cup {None}]
      /\ ~CloseAged /\ ~CloseAgedFails /\ ~AcceptTimeout
  BY OneSession DEF PathInv, ControlInv, TypeInv, Rest, Descriptors, End, CloseAged,
     CloseAgedFails, AcceptTimeout
<1>2. NoCall.msg.req = "PAD" /\ \A r : Msg(r).req = r
  BY DEF NoCall, Msg
<1>3. ~Busy("htc") => call["htc"] = NoCall
  BY <1>1 DEF EndInv
<1>4. Busy("htc") => /\ call["htc"].next \in {"connect", "disconnect", "poll", "tunnel"}
                     /\ call["htc"].next = "connect" => call["htc"].msg.req = "OPEN"
  BY <1>1, CallsStep
\* The other end goes on.
<1>5. ASSUME pc'["htc"] = pc["htc"], call'["htc"] = call["htc"], out'["htc"] = out["htc"]
      PROVE  Goal
  BY <1>5 DEF Young
\* htc returns from tunnel_write_request.
<1>6. ASSUME Busy("htc"), call'["htc"] = NoCall,
             \/ pc'["htc"] = call["htc"].next
             \/ pc'["htc"] = "exit" /\ call["htc"].msg.req = "OPEN"
      PROVE  Goal
  BY <1>2, <1>4, <1>6 DEF Young, Busy
\* htc is past the opening.
<1>7. ASSUME call'["htc"].msg.req # "OPEN",
             pc'["htc"] \notin {"connect", "response", "exit"}
      PROVE  Goal
  BY <1>7 DEF Young
<1>8. ASSUME NEW e \in End, WriteRequest(e) \/ WriteLost(e) PROVE Goal
  <2>1. /\ Busy(e) /\ pc' = [pc EXCEPT ![e] = call[e].next]
        /\ call' = [call EXCEPT ![e] = NoCall]
        /\ out' = out \/ out' = [out EXCEPT ![e] = None]
    BY <1>8 DEF WriteRequest, WriteLost, Return, Goto, Writing, Busy, SetOut
  <2> QED
    BY <1>1, <1>5, <1>6, <2>1
<1>9. ASSUME WriteEPIPE("htc") PROVE Goal
  <2>1. /\ Busy("htc") /\ pc' = [pc EXCEPT !["htc"] = "resend"] /\ call' = call
    BY <1>9 DEF WriteEPIPE, Goto, Writing, Busy
  <2> QED
    BY <1>1, <1>9, <2>1 DEF Young, Busy
<1>10. ASSUME NEW e \in End, WriteFails(e) \/ (WriteEPIPE(e) /\ e = "hts") PROVE Goal
  <2>1. /\ Busy(e) /\ call' = [call EXCEPT ![e] = NoCall]
        /\ pc' = [pc EXCEPT ![e] = IF call[e].msg.req = "OPEN" THEN "exit"
                                   ELSE call[e].next]
        /\ e = "hts" => out'["htc"] = out["htc"]
    BY <1>1, <1>10 DEF WriteFails, WriteEPIPE, RequestFails, Return, Goto, Writing, Busy,
       SetOut, fds
  <2> QED
    BY <1>1, <1>5, <1>6, <2>1
<1>11. ASSUME OutConnectFails \/ PostFails PROVE Goal
  <2>1. /\ Busy("htc") /\ call' = [call EXCEPT !["htc"] = NoCall]
        /\ pc' = [pc EXCEPT !["htc"] = IF call["htc"].msg.req = "OPEN" THEN "exit"
                                       ELSE call["htc"].next]
    BY <1>11 DEF OutConnectFails, PostFails, Unconnected, RequestFails, Return, Goto, Busy
  <2> QED
    BY <1>1, <1>6, <2>1
<1>12. ASSUME OutConnect PROVE Goal
  <2>1. pc["htc"] \in {"write", "resend"} /\ call' = call /\ ~PostFails
          /\ pc' = [pc EXCEPT !["htc"] = pc'["htc"]] /\ pc'["htc"] \in {"send", "resend"}
    <3>1. ~PostFails
      <4>1. faults \in Nat
        BY <1>1, HttpTunnelAssumption DEF Rest
      <4> QED
        BY <1>12, <4>1 DEF OutConnect, PostFails, Fault, history
    <3> QED
      BY <1>1, <1>12, <3>1 DEF OutConnect, Unconnected, Goto
  <2> QED
    BY <1>1, <1>12, <2>1 DEF Young, OpensOut
<1>13. ASSUME InConnect PROVE Goal
  <2>1. /\ pc["htc"] \in {"connect", "reconnect"} /\ call' = call
        /\ pc'["htc"] = IF pc["htc"] = "connect" THEN "response" ELSE "reresponse"
    BY <1>1, <1>13 DEF InConnect, Connecting, Goto
  <2> QED
    BY <1>1, <1>2, <1>3, <2>1 DEF Young, Busy
<1>14. ASSUME InConnectFails \/ GetFails \/ AnswerFails PROVE Goal
  <2>1. /\ pc["htc"] \in {"connect", "reconnect", "response", "reresponse"} /\ InFails
    BY <1>14 DEF InConnectFails, GetFails, AnswerFails, Connecting, AwaitsAnswer
  <2>2. call' = call /\ pc'["htc"] = IF pc["htc"] \in {"connect", "response"}
                                       THEN "exit" ELSE "poll"
    BY <1>1, <2>1 DEF InFails, Goto
  <2> QED
    BY <1>1, <1>2, <1>3, <2>1, <2>2 DEF Young, Busy
<1>15. ASSUME Answered \/ NotAnswered PROVE Goal
  <2>1. /\ pc["htc"] \in {"response", "reresponse"} /\ call' = call
        /\ pc'["htc"] = "poll" \/ (pc'["htc"] = "exit" /\ pc["htc"] = "response")
    BY <1>1, <1>15 DEF Answered, NotAnswered, AwaitsAnswer, Goto
  <2> QED
    BY <1>1, <1>2, <1>3, <2>1 DEF Young, Busy
<1>16. ASSUME Exit PROVE Goal
  <2>1. pc["htc"] = "exit" /\ pc'["htc"] = "exited" /\ call' = call
    BY <1>1, <1>16 DEF Exit, Goto
  <2> QED
    BY <1>2, <1>3, <1>7, <2>1 DEF Busy
<1>17. ASSUME NEW e \in End, KeepAlive(e) \/ DeviceInput(e) PROVE Goal
  <2>1. PICK m, l : Request(e, m, l) /\ m.req # "OPEN"
    BY <1>2, <1>17 DEF KeepAlive, DeviceInput
  <2>2. out' = out
    BY <1>17 DEF KeepAlive, DeviceInput, fds
  <2> QED
    BY <1>1, <1>5, <1>7, <2>1, <2>2 DEF Request, Goto
<1>18. ASSUME NEW e \in End, Closes(e) PROVE Goal
  <2>1. CASE e = "hts"
    <3>1. pc'["htc"] = pc["htc"] /\ call'["htc"] = call["htc"] /\ out'["htc"] = out["htc"]
      BY <1>1, <1>18, <2>1 DEF Closes, TunnelClose, Disconnect, DrainMore, DrainDone,
         Request, Goto, SetOut, fds, control
    <3> QED
      BY <1>5, <3>1
  <2>2. CASE e = "htc"
    <3>1. /\ ~Busy("htc") /\ pc["htc"] \notin {"connect", "response", "exit"}
          /\ pc'["htc"] \notin {"connect", "response", "exit"}
          /\ call'["htc"] = call["htc"] \/ call'["htc"].msg = Msg("CLOSE")
      BY <1>1, <1>18, <2>2 DEF Closes, TunnelClose, Disconnect, DrainMore, DrainDone,
         Request, Goto, Busy, control
    <3> QED
      BY <1>2, <1>3, <1>7, <3>1
  <2> QED
    BY <1>1, <2>1, <2>2
<1>19. ASSUME NEW e \in End,
              TunnelReady(e) \/ Reads(e) \/ ReadUnwritten(e) \/ DeviceCloses(e)
       PROVE  Goal
  <2>1. PICK l \in {"tunnel", "reconnect", "poll"} : pc' = [pc EXCEPT ![e] = l]
    BY <1>19 DEF TunnelReady, Reads, ReadDisconnect, ReadRequest, ReadUnwritten,
       DeviceCloses, AfterDevice, Goto
  <2>2. pc[e] \in {"poll", "tunnel"} /\ UNCHANGED <<call, out>>
    BY <1>19 DEF TunnelReady, Reads, ReadDisconnect, ReadRequest, ReadUnwritten,
       DeviceCloses, Reading, Polling, fds
  <2> QED
    BY <1>1, <1>2, <1>3, <1>5, <1>7, <2>1, <2>2 DEF Busy
<1>20. ASSUME OutAccept \/ AcceptPost \/ AcceptGet \/ AnswerGetFails \/ AcceptReturns
              \/ ReadAccept \/ ReadAgain \/ AnswerLost \/ UNCHANGED vars
       PROVE  Goal
  <2>1. pc'["htc"] = pc["htc"] /\ call' = call /\ out'["htc"] = out["htc"]
    BY <1>1, <1>20 DEF OutAccept, AcceptPost, AcceptGet, AnswerGetFails, AcceptReturns,
       ReadAccept, ReadAgain, AnswerLost, Goto, SetOut, vars, fds, control
  <2> QED
    BY <1>5, <2>1
<1>21. ASSUME AcceptFails PROVE Goal
  <2>1. UNCHANGED fds
    BY <1>21 DEF AcceptFails
  <2>2. pc'["htc"] = pc["htc"] /\ call'["htc"] = call["htc"]
    BY <1>1, <1>21, AcceptFailsCases DEF Goto, RequestFails, Return, control
  <2> QED
    BY <1>5, <2>1, <2>2 DEF fds
<1>22. PostFails => pc'["htc"] = "exit"
  <2> SUFFICES ASSUME PostFails PROVE pc'["htc"] = "exit"
    OBVIOUS
  <2>1. /\ Busy("htc") /\ call' = [call EXCEPT !["htc"] = NoCall]
        /\ pc' = [pc EXCEPT !["htc"] = IF call["htc"].msg.req = "OPEN" THEN "exit"
                                       ELSE call["htc"].next]
    BY DEF PostFails, Unconnected, RequestFails, Return, Goto, Busy
  <2> QED
    BY <1>1, <1>2, <1>4, <2>1 DEF Young
<1> SUFFICES Goal
  BY <1>22
<1> HIDE DEF Goal
<1> QED
  BY <1>1, <1>8, <1>9, <1>10, <1>11, <1>12, <1>13, <1>14, <1>15, <1>16, <1>17, <1>18,
     <1>19, <1>20, <1>21, Zenon
     DEF Next, Environment, Fails, Runs, Writes

\* Before the tunnel is open hts finds one POST at most.
LEMMA FirstStep ==
    ASSUME TypeInv, TypeInv', PathInv, OneDirection, [Next]_vars
    PROVE  FirstInv'
<1>1. /\ FirstInv /\ InputInv /\ GetInv /\ EndInv("htc") /\ None \notin Conns /\ "htc" \in End
      /\ session["htc"] \in {0, 1} /\ Sessions = 1
      /\ conn \in [Conns -> Connections]
      /\ out \in [End -> Conns \cup {None}] /\ call \in [End -> [msg : Msgs, next : Points]]
  BY NoneIsNot, OneSession DEF PathInv, ControlInv, TypeInv, Rest, Descriptors, End
<1> SUFFICES ASSUME Young'
             PROVE  /\ \A c, d \in Conns : Found(c)' /\ Found(d)' => c = d
                    /\ pc'["htc"] # "exit" =>
                         \A c \in Conns : Found(c)' => ~conn'[c].reset
                    /\ call'["htc"].msg.req = "OPEN" =>
                         \A c \in Conns : Found(c)' => c = out'["htc"]
  BY DEF FirstInv
<1>2. CASE TunnelConnect
  <2>1. session["htc"] = 0 /\ pc["htc"] = "idle"
    BY <1>1, <1>2 DEF TunnelConnect
  <2>2. \A c \in Conns : ~Found(c)
    <3>1. in["hts"] = None /\ queue = <<>>
      BY <1>1, <2>1 DEF InputInv, End
    <3>2. \A c : ~InQueue(queue, c)
      BY <3>1, EmptySeq DEF InQueue
    <3> QED
      BY <1>1, <3>1, <3>2 DEF Found, Place, InQueue
  <2>3. ~OpensOut
    BY <2>1 DEF OpensOut, OutConnect, PostFails, Unconnected
  <2> QED
    BY <2>2, <2>3, FoundStep
<1>3. CASE ~TunnelConnect
  <2>1. /\ Young
        /\ pc'["htc"] # "exit" => pc["htc"] # "exit" /\ ~PostFails
        /\ call'["htc"].msg.req = "OPEN" =>
             /\ call["htc"].msg.req = "OPEN"
             /\ \/ out'["htc"] = out["htc"] \/ WriteEPIPE("htc")
                \/ OpensOut /\ ~PostFails
    BY <1>3, YoungStep
  <2>2. OpensOut => \A c \in Conns : ~Found(c)
    <3> SUFFICES ASSUME OpensOut PROVE \A c \in Conns : ~Found(c)
      OBVIOUS
    <3>1. pc["htc"] \in {"write", "resend"} /\ out["htc"] = None
      BY DEF OpensOut, OutConnect, PostFails, Unconnected
    <3> QED
      BY <1>1, <2>1, <3>1 DEF Young, FirstInv
  <2>3. \A c, d \in Conns : Found(c)' /\ Found(d)' => c = d
    BY <1>1, <2>1, <2>2, FoundStep DEF FirstInv
  <2>4. ASSUME pc'["htc"] # "exit", NEW c \in Conns, Found(c)' PROVE ~conn'[c].reset
    <3>1. CASE OpensOut
      BY <1>1, <2>1, <2>2, <2>4, <3>1, FoundStep, ConnectNet DEF OpensOut
    <3>2. CASE ~OpensOut
      <4>1. Found(c) /\ ~conn[c].reset
        BY <1>1, <2>1, <2>4, <3>2, FoundStep DEF FirstInv
      <4>2. conn[c].kind = "POST" /\ conn[c].reader
        <5>1. conn[c].kind = "POST" /\ (c = in["hts"] \/ InQueue(queue, c))
          BY <4>1 DEF Found, Place, InQueue
        <5> QED
          BY <1>1, <5>1, NetFacts
      <4>3. AnswerLost => conn[in["htc"]].kind = "GET"
        <5>1. AnswerLost => Waiting
          BY DEF AnswerLost, AwaitsAnswer, Waiting
        <5> QED
          BY <1>1, <5>1, NetFacts DEF GetInv, InKind
      <4>4. ASSUME conn'[c].reset PROVE FALSE
        <5>1. \/ AnswerLost /\ c = in["htc"]
              \/ AnswerGetFails /\ c = Head(queue)
          BY <3>2, <4>1, <4>2, <4>4, ResetWhen
        <5> QED
          BY <4>2, <4>3, <5>1 DEF AnswerGetFails
      <4> QED
        BY <4>4
    <3> QED
      BY <3>1, <3>2
  <2>5. ASSUME call'["htc"].msg.req = "OPEN", NEW c \in Conns, Found(c)'
        PROVE  c = out'["htc"]
    <3>1. CASE OpensOut
      BY <2>2, <2>5, <3>1, FoundStep
    <3>2. CASE ~OpensOut
      <4>1. Found(c) /\ c = out["htc"] /\ conn[c].kind = "POST"
        BY <1>1, <2>1, <2>5, <3>2, FoundStep DEF FirstInv, Found
      <4>2. conn[c].reader
        BY <4>1, NetFacts DEF Found, Place, InQueue
      <4>3. ~conn[c].reset
        <5>1. pc["htc"] # "exit"
          BY <1>1, <2>1, <2>5 DEF EndInv, Busy, NoCall, Msg
        <5> QED
          BY <1>1, <2>1, <4>1, <5>1 DEF FirstInv
      <4> QED
        BY <2>1, <2>5, <3>2, <4>1, <4>2, <4>3 DEF WriteEPIPE, Lost
    <3> QED
      BY <3>1, <3>2
  <2> QED
    BY <2>3, <2>4, <2>5
<1> QED
  BY <1>2, <1>3

\* htc waits for an answer once it has connected.
LEMMA WaitNext ==
    ASSUME TypeInv, PathInv, OneDirection, [Next]_vars, Waiting'
    PROVE  \/ InConnect
           \/ Waiting /\ in'["htc"] = in["htc"]
<1>1. /\ Rest /\ Sessions = 1 /\ ~Ages /\ ~Timeouts
      /\ \A e \in End : EndInv(e)
      /\ "htc" \in End /\ "hts" \in End /\ End = {"htc", "hts"}
  BY OneSession DEF TypeInv, PathInv, ControlInv, End
<1>2. pc \in [End -> Points]
  BY <1>1 DEF Rest
<1> SUFFICES ASSUME ~InConnect PROVE Waiting
  <2>1. Waiting /\ ~InConnect => in'["htc"] = in["htc"]
    <3>1. pc'["htc"] \in {"response", "reresponse"}
      BY DEF Waiting
    <3>2. \/ Answered \/ NotAnswered \/ AnswerFails \/ Exit
          => pc'["htc"] \in {"poll", "exit", "exited"}
      BY <1>2 DEF Answered, NotAnswered, AnswerFails, Exit, InFails, Goto, End
    <3> QED
      BY <3>1, <3>2, HtcStays
  <2> QED
    BY <2>1
<1>3. ASSUME NEW e \in End, NEW l, pc' = [pc EXCEPT ![e] = l],
             l \notin {"response", "reresponse"}
      PROVE  Waiting
  BY <1>1, <1>2, <1>3 DEF Waiting
<1>4. ASSUME pc' = pc PROVE Waiting
  BY <1>4 DEF Waiting
<1>5. ASSUME NEW e \in End, Writes(e) PROVE Waiting
  <2>1. Busy(e)
    BY <1>5 DEF Writes, WriteRequest, WriteLost, WriteEPIPE, WriteFails, Writing, Busy
  <2>2. call[e].next \in {"connect", "disconnect", "poll", "tunnel"}
    BY <1>1, <2>1, CallsStep
  <2>3. PICK l \in {call[e].next, "resend", "exit"} : pc' = [pc EXCEPT ![e] = l]
    BY <1>5 DEF Writes, WriteRequest, WriteLost, WriteEPIPE, WriteFails,
       Return, RequestFails, Goto
  <2> QED
    BY <1>3, <2>2, <2>3
<1>6. CASE OutConnect \/ OutConnectFails \/ PostFails
  <2>1. Busy("htc")
    BY <1>6 DEF OutConnect, OutConnectFails, PostFails, Unconnected, Busy
  <2>2. call["htc"].next \in {"connect", "disconnect", "poll", "tunnel"}
    BY <1>1, <2>1, CallsStep
  <2>3. PICK l \in {call["htc"].next, "send", "resend", "exit"} :
          pc' = [pc EXCEPT !["htc"] = l]
    BY <1>6 DEF OutConnect, OutConnectFails, PostFails, Return, RequestFails, Goto
  <2> QED
    BY <1>1, <1>3, <2>2, <2>3
<1>7. ASSUME NEW e \in End,
             TunnelReady(e) \/ ReadRequest(e) \/ ReadUnwritten(e) \/ ReadDisconnect(e)
               \/ DeviceInput(e) \/ DeviceCloses(e) \/ KeepAlive(e)
      PROVE  Waiting
  BY <1>3, <1>7 DEF TunnelReady, ReadRequest, ReadUnwritten, ReadDisconnect,
     DeviceInput, DeviceCloses, KeepAlive, AfterDevice, Request, Goto
<1>8. ASSUME NEW e \in End, Closes(e) PROVE Waiting
  BY <1>3, <1>4, <1>8 DEF Closes, TunnelClose, Disconnect, DrainMore, DrainDone,
     Request, Goto, control
<1>9. CASE InConnectFails \/ GetFails \/ AnswerFails \/ Answered \/ NotAnswered
           \/ Exit \/ TunnelConnect
  <2>1. \E l \in {"exit", "poll", "exited", "write"} : pc' = [pc EXCEPT !["htc"] = l]
    BY <1>9 DEF InConnectFails, GetFails, AnswerFails, Answered, NotAnswered, Exit,
       TunnelConnect, InFails, Request, Goto
  <2> QED
    BY <1>1, <1>3, <2>1
<1>10. CASE OutAccept \/ AcceptPost \/ AcceptGet \/ AcceptReturns \/ AnswerGetFails
            \/ ReadAccept \/ ReadAgain \/ AnswerLost \/ UNCHANGED vars
  <2>1. \/ pc' = pc
        \/ \E l \in {"acceptWrite", "send", "poll", "acceptIn", "acceptOut"} :
             pc' = [pc EXCEPT !["hts"] = l]
    BY <1>10 DEF OutAccept, AcceptPost, AcceptGet, AcceptReturns, AnswerGetFails,
       ReadAccept, ReadAgain, AnswerLost, vars, control, Goto
  <2> QED
    BY <1>1, <1>3, <1>4, <2>1
<1>11. CASE AcceptFails
  <2>1. CASE pc["hts"] = "acceptWrite" /\ RequestFails("hts")
    <3>1. call["hts"].next \in {"connect", "disconnect", "poll", "tunnel"}
      BY <1>1, <2>1, CallsStep DEF Busy
    <3>2. PICK l \in {call["hts"].next, "exit"} : pc' = [pc EXCEPT !["hts"] = l]
      BY <2>1 DEF RequestFails, Return, Goto
    <3> QED
      BY <1>1, <1>3, <3>1, <3>2
  <2> QED
    BY <1>1, <1>3, <1>4, <1>11, <2>1, AcceptFailsCases DEF Goto, control
<1>12. ~CloseAged /\ ~CloseAgedFails /\ ~AcceptTimeout
  BY <1>1 DEF CloseAged, CloseAgedFails, AcceptTimeout
<1> QED
  BY <1>5, <1>6, <1>7, <1>8, <1>9, <1>10, <1>11, <1>12, Zenon
     DEF Next, Environment, Fails, Runs, Reads

\* Where an end leaves its connections
LEMMA LeavesInput ==
    ASSUME TypeInv, OneDirection, [Next]_vars, ~OpensIn, ~AcceptPost, NEW e \in End
    PROVE  \/ in'[e] = in[e] \/ ReadDisconnect(e) \/ DrainDone(e)
           \/ e = "htc" /\ Exit
<1>1. /\ in \in [End -> Conns \cup {None}]
      /\ "htc" \in End /\ "hts" \in End /\ End = {"htc", "hts"}
      /\ ~CloseAged /\ ~CloseAgedFails /\ ~AcceptTimeout
  BY OneSession DEF TypeInv, Descriptors, End, CloseAged, CloseAgedFails, AcceptTimeout
<1>2. CASE OpensOut
  BY <1>2, ConnectNet
<1>3. ASSUME NEW f \in End, Writes(f) PROVE in' = in
  BY <1>3 DEF Writes, WriteRequest, WriteLost, WriteEPIPE, WriteFails, fds
<1>4. ASSUME NEW f \in End,
             TunnelReady(f) \/ ReadRequest(f) \/ ReadUnwritten(f) \/ TunnelClose(f)
               \/ DrainMore(f) \/ Disconnect(f) \/ DeviceInput(f) \/ DeviceCloses(f)
               \/ KeepAlive(f)
      PROVE  in' = in
  BY <1>4 DEF TunnelReady, ReadRequest, ReadUnwritten, TunnelClose, DrainMore,
     Disconnect, DeviceInput, DeviceCloses, KeepAlive, fds
<1>5. ASSUME \/ OutAccept \/ Answered \/ NotAnswered \/ ReadAccept \/ ReadAgain
             \/ AcceptReturns \/ TunnelConnect \/ UNCHANGED vars \/ AcceptGet
             \/ OutConnectFails \/ InConnectFails \/ AnswerLost \/ AnswerFails
             \/ AnswerGetFails \/ AcceptFails
      PROVE  in' = in
  BY <1>5 DEF OutAccept, Answered, NotAnswered, ReadAccept, ReadAgain, AcceptReturns,
     TunnelConnect, OutConnectFails, InConnectFails, AnswerLost, AnswerFails,
     AcceptGet, AnswerGetFails, AcceptFails, vars, fds
<1>6. ASSUME NEW f \in End, f # e, ReadDisconnect(f) \/ DrainDone(f) \/ (Exit /\ f = "htc")
      PROVE  in'[e] = in[e]
  BY <1>1, <1>6 DEF ReadDisconnect, DrainDone, Exit, SetIn
<1> QED
  BY <1>1, <1>2, <1>3, <1>4, <1>5, <1>6, Zenon
     DEF Next, Environment, Fails, Runs, Reads, Closes, OpensOut, OpensIn

\* The steps that leave an output
LEMMA LeavesOutput ==
    ASSUME TypeInv, OneDirection, [Next]_vars, ~OpensOut, ~AcceptGet, NEW e \in End
    PROVE  \/ out'[e] = out[e]
           \/ WriteRequest(e) /\ e \in ends
           \/ WriteLost(e) \/ WriteEPIPE(e) \/ Disconnect(e)
           \/ e = "htc" /\ Exit
<1>1. /\ out \in [End -> Conns \cup {None}]
      /\ "htc" \in End /\ "hts" \in End /\ End = {"htc", "hts"}
      /\ ~CloseAged /\ ~CloseAgedFails /\ ~AcceptTimeout
  BY OneSession DEF TypeInv, Descriptors, End, CloseAged, CloseAgedFails, AcceptTimeout
<1>2. CASE OpensIn
  BY <1>2, ConnectNet
<1>3. ASSUME NEW f \in End, WriteFails(f) \/ Reads(f) \/ DrainDone(f)
             \/ TunnelReady(f) \/ ReadUnwritten(f) \/ TunnelClose(f) \/ DrainMore(f)
             \/ DeviceInput(f) \/ DeviceCloses(f) \/ KeepAlive(f)
      PROVE  out' = out
  BY <1>3 DEF WriteFails, Reads, ReadDisconnect, ReadRequest, DrainDone, TunnelReady,
     ReadUnwritten, TunnelClose, DrainMore, DeviceInput, DeviceCloses, KeepAlive, fds
<1>4. ASSUME \/ OutAccept \/ Answered \/ NotAnswered \/ ReadAccept \/ ReadAgain
             \/ AcceptReturns \/ TunnelConnect \/ UNCHANGED vars \/ AcceptPost
             \/ OutConnectFails \/ InConnectFails \/ AnswerLost \/ AnswerFails
             \/ AnswerGetFails \/ AcceptFails
      PROVE  out' = out
  BY <1>4 DEF OutAccept, Answered, NotAnswered, ReadAccept, ReadAgain, AcceptReturns,
     TunnelConnect, OutConnectFails, InConnectFails, AnswerLost, AnswerFails,
     AcceptPost, AnswerGetFails, AcceptFails, vars, fds
<1>5. ASSUME NEW f \in End, f # e,
             \/ WriteRequest(f) \/ WriteLost(f) \/ WriteEPIPE(f) \/ Disconnect(f)
             \/ Exit /\ f = "htc"
      PROVE  out'[e] = out[e]
  BY <1>1, <1>5 DEF WriteRequest, WriteLost, WriteEPIPE, Disconnect, Exit, SetOut
<1>6. WriteRequest(e) => e \in ends \/ out' = out
  BY DEF WriteRequest
<1> QED
  BY <1>1, <1>2, <1>3, <1>4, <1>5, <1>6, Zenon
     DEF Next, Environment, Fails, Runs, Writes, Closes, OpensOut, OpensIn

\* hts answers the GET that htc waits at.
LEMMA GetStep ==
    ASSUME TypeInv, TypeInv', PathInv, OneDirection, [Next]_vars
    PROVE  GetInv'
<1>1. /\ GetInv /\ BodyInv /\ InputInv /\ ResetInv
      /\ Rest /\ Rest' /\ \A e \in End : EndInv(e)
      /\ None \notin Conns /\ "htc" \in End /\ "hts" \in End
      /\ End = {"htc", "hts"} /\ (Gone => Gone')
      /\ out \in [End -> Conns \cup {None}] /\ in \in [End -> Conns \cup {None}]
      /\ conn \in [Conns -> Connections] /\ queue \in Seq(Conns)
      /\ in'["htc"] # None =>
           /\ in'["htc"] \in Conns /\ conn'[in'["htc"]].reader
           /\ conn'[in'["htc"]].kind = "GET"
  BY NoneIsNot, HearsStep
     DEF PathInv, ControlInv, TypeInv, Descriptors, End, InKind
<1>2. /\ out["htc"] # None => conn[out["htc"]].kind = "POST" /\ out["htc"] \in Conns
      /\ out["hts"] # None => conn[out["hts"]].kind = "GET" /\ out["hts"] \in Conns
                                /\ conn[out["hts"]].writer
      /\ in["htc"] # None => conn[in["htc"]].kind = "GET" /\ in["htc"] \in Conns
      /\ \A c : InQueue(queue, c) => c \in Conns /\ c # out["hts"]
      /\ \A c \in Conns : conn[c].wire \in Seq(Msgs)
  BY <1>1, NetFacts DEF OutKind, InKind
<1>3. Opens => ~Waiting
  BY DEF Opens, OpensOut, OpensIn, OutConnect, PostFails, InConnect, GetFails,
     Unconnected, Connecting, Waiting
<1>4. ASSUME NEW e \in End, WriteRequest(e)
      PROVE  /\ UNCHANGED <<queue, in>>
             /\ \A d \in Conns \ {out[e]} : conn'[d] = conn[d]
             /\ \A d \in Conns : conn[d].wire # <<>> =>
                  conn'[d].wire # <<>> /\ Head(conn'[d].wire) = Head(conn[d].wire)
             /\ out[e] # None
  <2>1. call[e].msg.req # "DISCONNECT"
    BY <1>1, <1>4, CallsStep DEF WriteRequest, Writing, Busy
  <2> QED
    BY <1>4, <2>1, WriteNet DEF WriteRequest
<1>5. AcceptGet =>
        /\ out["hts"] = None /\ Waiting /\ in["htc"] = Head(queue)
        /\ conn[in["htc"]].wire = <<>> /\ in["htc"] # None
  <2>1. AcceptGet => out["hts"] = None /\ Head(queue) = in["htc"] /\ Waiting
    BY CalmFacts
  <2>2. AcceptGet => InQueue(queue, Head(queue)) /\ conn[Head(queue)].kind = "GET"
    BY NetFacts DEF AcceptGet
  <2> QED
    BY <1>1, <1>2, <2>1, <2>2 DEF GetInv
<1>6. AcceptGet =>
        /\ \A d : InQueue(queue', d) => InQueue(queue, d) /\ d # in["htc"]
        /\ \A d \in Conns \ {in["htc"]} : conn'[d] = conn[d]
        /\ in' = in /\ out'["hts"] = in["htc"]
        /\ conn'[in["htc"]].wire # <<>> /\ Head(conn'[in["htc"]].wire).req = "200"
  BY <1>1, <1>5, TakeNet
<1>7. Waiting => Waiting' \/ Answered \/ NotAnswered \/ AnswerFails
  BY HtcStays DEF Waiting, Exit
\* A GET in the queue
<1>8. ASSUME NEW c \in Conns, InQueue(queue', c), conn'[c].kind = "GET", ~OpensIn
      PROVE  InQueue(queue, c) /\ conn[c].kind = "GET" /\ conn'[c].wire = <<>>
  <2>1. InQueue(queue, c) /\ conn[c].kind = "GET" => conn[c].wire = <<>>
    BY <1>1 DEF GetInv
  <2>2. CASE OpensOut
    BY <1>8, <2>1, <2>2, ConnectNet
  <2>3. CASE AcceptGet
    BY <1>6, <1>8, <2>1, <2>3
  <2>4. ASSUME NEW e \in End, WriteRequest(e) PROVE InQueue(queue, c) /\ c # out[e]
    <3>1. InQueue(queue, c)
      BY <1>4, <1>8, <2>4
    <3>2. e = "htc" => conn'[out[e]].kind = "POST"
      <4>1. call[e].msg.req # "DISCONNECT"
        BY <1>1, <2>4, CallsStep DEF WriteRequest, Writing, Busy
      <4>2. conn'[out[e]].kind = conn[out[e]].kind
        BY <2>4, <4>1, WriteNet
      <4> QED
        BY <1>2, <1>4, <2>4, <4>2
    <3> QED
      BY <1>1, <1>2, <1>8, <3>1, <3>2
  <2>5. ASSUME NEW e \in End, WriteRequest(e)
        PROVE  InQueue(queue, c) /\ conn[c].kind = "GET" /\ conn'[c].wire = <<>>
    <3>1. InQueue(queue, c) /\ conn'[c] = conn[c]
      BY <1>4, <2>4, <2>5
    <3> QED
      BY <1>8, <2>1, <3>1
  <2>6. CASE ~OpensOut /\ ~AcceptGet /\ \A e \in End : ~WriteRequest(e)
    BY <1>8, <2>1, <2>6, LessNet DEF Less
  <2> QED
    BY <2>2, <2>3, <2>5, <2>6
<1>9. ASSUME NEW c \in Conns, InQueue(queue', c), conn'[c].kind = "GET"
      PROVE  /\ conn'[c].wire = <<>>
             /\ conn'[c].reset \/ (c = in'["htc"] /\ Waiting')
  <2>1. CASE OpensIn
    <3>1. PICK d \in Conns :
             /\ \A x : InQueue(queue', x) <=> InQueue(queue, x) \/ x = d
             /\ \A x \in Conns \ {d} : conn'[x] = conn[x]
             /\ conn'[d].wire = <<>> /\ in' = [in EXCEPT !["htc"] = d]
             /\ GetFails => conn'[d].reset
      BY <2>1, ConnectNet DEF OpensIn
    <3>2. InConnect => Waiting'
      BY <1>1 DEF InConnect, Waiting, Goto, Rest, End
    <3> QED
      BY <1>1, <1>3, <1>9, <2>1, <3>1, <3>2 DEF GetInv, Opens, OpensIn
  <2>2. CASE ~OpensIn
    <3>1. InQueue(queue, c) /\ conn[c].kind = "GET" /\ conn'[c].wire = <<>>
      BY <1>8, <1>9, <2>2
    <3>2. conn[c].wire = <<>> /\ (conn[c].reset \/ (c = in["htc"] /\ Waiting))
      BY <1>1, <3>1 DEF GetInv
    <3>3. conn[c].reset => conn'[c].reset
      BY <1>9, <3>1, LostStays
    <3>4. CASE ~conn[c].reset
      <4>1. c = in["htc"] /\ Waiting
        BY <3>2, <3>4
      <4>2. ~Answered /\ ~AnswerFails
        BY <3>2, <3>4, <4>1 DEF Answered, AnswerFails
      <4>3. ~NotAnswered
        BY <3>1, <4>1, CalmFacts
      <4>4. Waiting' /\ ~InConnect
        BY <1>3, <1>7, <4>1, <4>2, <4>3 DEF Opens, OpensIn
      <4> QED
        BY <3>1, <4>1, <4>4, WaitNext
    <3> QED
      BY <3>1, <3>3, <3>4
  <2> QED
    BY <2>1, <2>2
\* The answer
<1>10. ASSUME Waiting'
       PROVE  /\ in'["htc"] # None
              /\ \/ InQueue(queue', in'["htc"]) \/ conn'[in'["htc"]].reset
                 \/ conn'[in'["htc"]].wire = <<>> /\ ~conn'[in'["htc"]].writer
                 \/ /\ conn'[in'["htc"]].wire # <<>>
                    /\ Head(conn'[in'["htc"]].wire).req = "200"
  <2>1. CASE InConnect
    <3>1. PICK d \in Conns : InQueue(queue', d) /\ in' = [in EXCEPT !["htc"] = d]
      BY <2>1, ConnectNet DEF OpensIn
    <3> QED
      BY <1>1, <3>1
  <2>2. CASE ~InConnect
    <3> PICK c \in Conns : c = in["htc"]
      BY <1>1, <1>2, <1>10, <2>2, WaitNext DEF GetInv
    <3>1. Waiting /\ in'["htc"] = c
      BY <1>10, <2>2, WaitNext
    <3>2. /\ c # None /\ conn[c].kind = "GET"
          /\ \/ InQueue(queue, c) \/ Over(c)
             \/ conn[c].wire # <<>> /\ Head(conn[c].wire).req = "200"
      BY <1>1, <1>2, <3>1 DEF GetInv
    <3>3. ~Opens
      BY <1>3, <3>1
    <3>4. conn'[c].kind = "GET" /\ conn'[c].reader
      BY <1>1, <3>1, <3>2
    <3>5. CASE AcceptGet
      BY <1>5, <1>6, <3>1, <3>5
    <3>6. CASE Over(c)
      <4>1. Over(c)'
        BY <3>2, <3>4, <3>6, LostStays
      <4> QED
        BY <3>1, <3>2, <4>1 DEF Over
    <3>7. CASE InQueue(queue, c) /\ ~AcceptGet /\ ~Over(c)
      <4>1. ~AcceptPost \/ Head(queue) # c
        BY <3>2 DEF AcceptPost
      <4>2. ~AcceptFails \/ Head(queue) # c
        BY <3>2, <3>7, TakeNet DEF Over
      <4>3. AcceptPost \/ AcceptFails => InQueue(queue', c)
        BY <3>7, <4>1, <4>2, TakeNet
      <4>4. CASE AnswerGetFails
        <5>1. c = Head(queue) => conn'[c].reset \/ ~conn'[c].writer
          BY <4>4, TakeNet
        <5>2. Less(conn'[c].wire, conn[c].wire)
          <6>1. ~OpensOut /\ ~OpensIn /\ ~AcceptGet /\ \A e \in End : ~WriteRequest(e)
            <7>1. pc["hts"] \in {"accept", "acceptIn", "acceptOut", "acceptWrite"}
              BY <4>4 DEF AnswerGetFails, Accepting
            <7>2. ~WriteRequest("hts")
              BY <7>1 DEF WriteRequest, Writing
            <7>3. ~WriteRequest("htc")
              BY <3>1 DEF WriteRequest, Writing, Waiting
            <7> QED
              BY <1>1, <3>3, <3>7, <7>2, <7>3 DEF Opens
          <6> QED
            BY <3>2, <6>1, LessNet
        <5>3. conn[c].wire = <<>>
          BY <1>1, <3>2, <3>7 DEF GetInv
        <5>4. InQueue(queue', c) \/ c = Head(queue)
          BY <3>7, <4>4, TakeNet
        <5> QED
          BY <3>1, <3>2, <5>1, <5>2, <5>3, <5>4 DEF Less, Over
      <4>5. queue' = queue \/ AcceptPost \/ AcceptFails \/ AnswerGetFails
        BY <3>3, <3>7, FdsNext DEF Opens
      <4> QED
        BY <3>1, <3>2, <3>7, <4>3, <4>4, <4>5
    <3>8. CASE /\ conn[c].wire # <<>> /\ Head(conn[c].wire).req = "200"
               /\ ~AcceptGet /\ ~Over(c)
      <4>1. CASE \E e \in End : WriteRequest(e)
        BY <1>4, <3>1, <3>2, <3>8, <4>1
      <4>2. CASE \A e \in End : ~WriteRequest(e)
        <5>1. \/ Shut(conn'[c], conn[c])
              \/ \E e \in End : c = in[e] /\ Takes(e)
          BY <3>2, <3>3, <3>8, <4>2, LessNet DEF Opens
        <5>2. ASSUME NEW e \in End, c = in[e], Takes(e) PROVE FALSE
          <6>1. e = "htc"
            BY <1>1, <3>2, <5>2, NetFacts DEF InKind
          <6>2. ~Answered
            BY <1>1, <1>10 DEF Answered, Waiting, Goto, Rest
          <6> QED
            BY <3>1, <5>2, <6>1, <6>2
               DEF Takes, ReadRequest, ReadUnwritten, DrainMore, Reading, Waiting
        <5>3. conn'[c].wire = conn[c].wire \/ conn'[c].reset
          BY <3>4, <5>1, <5>2 DEF Shut
        <5> QED
          BY <3>1, <3>2, <3>8, <5>3 DEF Over
      <4> QED
        BY <4>1, <4>2
    <3> QED
      BY <3>2, <3>5, <3>6, <3>7, <3>8
  <2> QED
    BY <2>1, <2>2
\* What hts writes to
<1>11. ASSUME out'["hts"] # None PROVE out'["hts"] = in'["htc"] \/ Gone'
  <2>1. CASE AcceptGet
    BY <1>6, <2>1
  <2>2. CASE ~AcceptGet
    <3>1. out'["hts"] = out["hts"] /\ out["hts"] # None
      BY <1>11, <2>2, FdsNext
    <3>2. out["hts"] = in["htc"] \/ Gone
      BY <1>1, <3>1 DEF GetInv
    <3>3. ASSUME ~Gone, OpensIn PROVE FALSE
      <4>1. in["htc"] = None
        BY <1>1, <3>3 DEF InputInv, OpensIn, InConnect, GetFails, Connecting
      <4> QED
        BY <3>1, <3>2, <3>3, <4>1
    <3>4. ASSUME ~Gone, ReadDisconnect("htc") PROVE FALSE
      <4>1. /\ in["htc"] = out["hts"] /\ conn[in["htc"]].writer
            /\ ~Has(conn[in["htc"]].wire, "DISCONNECT")
            /\ conn[in["htc"]].wire \in Seq(Msgs)
        BY <1>1, <1>2, <3>1, <3>2, <3>4 DEF BodyInv
      <4>2. /\ conn[in["htc"]].wire # <<>>
            /\ Head(conn[in["htc"]].wire).req = "DISCONNECT"
        BY <3>4, <4>1 DEF ReadDisconnect
      <4> QED
        BY <4>1, <4>2, HasLaws
    <3>5. DrainDone("htc") \/ Exit => Gone'
      BY <1>1 DEF DrainDone, Exit, Gone, Goto, history, EndInv, Rest
    <3> QED
      <4>1. ~AcceptPost \/ in'["htc"] = in["htc"]
        BY <1>1 DEF AcceptPost, SetIn
      <4> QED
        BY <1>1, <3>1, <3>2, <3>3, <3>4, <3>5, <4>1, LeavesInput
  <2> QED
    BY <2>1, <2>2
<1> QED
  BY <1>9, <1>10, <1>11 DEF GetInv, Over

\* While hts hears, what htc opens holds, its connection is read or broken from
\* the start, and hts takes what comes.
LEMMA HeardStep ==
    ASSUME TypeInv, TypeInv', PathInv, OneDirection, [Next]_vars, Hears("hts")'
    PROVE  /\ Hears("hts")
           /\ ~Exit /\ ~WriteLost("htc")
           /\ WriteEPIPE("htc") \/ WriteFails("htc") =>
                out["htc"] # None /\ conn[out["htc"]].reset /\ "hts" \notin ends
           /\ OutConnectFails \/ PostFails => call["htc"].msg.req # "OPEN"
           /\ pc["htc"] \in {"connect", "response"} =>
                /\ ~InConnectFails /\ ~GetFails /\ ~AnswerFails /\ ~NotAnswered
                /\ ~AnswerLost /\ ~AnswerGetFails
           /\ ~Disconnect("hts") /\ ~DrainMore("hts") /\ ~DrainDone("hts")
           /\ ~CloseAged /\ ~CloseAgedFails /\ ~AcceptTimeout
           /\ AcceptPost => in["hts"] = None
           /\ AcceptGet => out["hts"] = None
           /\ ReadDisconnect("hts") => in["hts"] # out["htc"] /\ "hts" \notin ends
           /\ "hts" \in ends => \A c \in Conns :
                InQueue(queue, c) /\ conn[c].kind = "POST" => ~conn[c].reset
<1>1. /\ Hears("hts") /\ Attends("hts") /\ Attends("hts")' /\ ~Cut /\ ~Cut'
      /\ "hts" \in End /\ "htc" \in End /\ EndInv("hts") /\ EndInv("htc")
      /\ Rest /\ None \notin Conns /\ conn \in [Conns -> Connections]
      /\ pc \in [End -> Points] /\ End = {"htc", "hts"}
  BY HearsStep, NetFacts DEF Hears, PathInv, ControlInv, TypeInv, Rest, End
<1>2. pc'["htc"] # "exit" /\ pc["htc"] # "exit" /\ ~Exit
  BY <1>1 DEF Exit, Cut
<1>3. ASSUME "hts" \in ends, NEW c \in Conns, InQueue(queue, c),
             conn[c].kind = "POST"
      PROVE  ~conn[c].reset
  <2>1. CASE Up
    BY <1>1, <1>3, <2>1 DEF PathInv, OpenInv
  <2>2. CASE ~Up
    <3>1. Opening
      BY <1>1, <2>2 DEF PathInv, OpenInv
    <3>2. queue # <<>> /\ Found(c)
      BY <1>3, EmptySeq DEF InQueue, Found, Place
    <3>3. Young
      BY <3>1, <3>2 DEF Opening, Unopened, PostOpened, BothOpened, Young
    <3> QED
      BY <1>2, <3>2, <3>3 DEF PathInv, FirstInv
  <2> QED
    BY <2>1, <2>2
<1>4. ~WriteLost("htc")
  BY <1>1, CalmFacts DEF WriteLost
<1>5. ASSUME WriteEPIPE("htc") \/ WriteFails("htc")
      PROVE  out["htc"] # None /\ conn[out["htc"]].reset /\ "hts" \notin ends
  <2>1. Lost("htc")
    BY <1>5 DEF WriteEPIPE, WriteFails
  <2>2. out["htc"] # None /\ conn[out["htc"]].reset
    BY <1>1, <2>1, CalmFacts DEF Lost
  <2>3. out["htc"] \in Conns /\ conn[out["htc"]].kind = "POST"
    BY <1>1, <2>2, NetFacts DEF OutKind
  <2>4. out["htc"] # in["hts"]
    BY <1>1, <2>2 DEF PathInv, ResetInv
  <2>5. "hts" \in ends => ~InQueue(queue, out["htc"])
    BY <1>3, <2>2, <2>3
  <2> QED
    BY <1>1, <2>2, <2>4, <2>5 DEF PathInv, PostInv
<1>6. OutConnectFails \/ PostFails => call["htc"].msg.req # "OPEN"
  <2> SUFFICES ASSUME OutConnectFails \/ PostFails, call["htc"].msg.req = "OPEN"
               PROVE  pc'["htc"] = "exit"
    BY <1>2
  <2> QED
    BY <1>1 DEF OutConnectFails, PostFails, RequestFails, Return, Goto
<1>7. ASSUME pc["htc"] \in {"connect", "response"}
      PROVE  /\ ~InConnectFails /\ ~GetFails /\ ~AnswerFails /\ ~NotAnswered
             /\ ~AnswerLost /\ ~AnswerGetFails
  <2>1. InConnectFails \/ GetFails \/ AnswerFails => pc'["htc"] = "exit"
    BY <1>1, <1>7 DEF InConnectFails, GetFails, AnswerFails, InFails, Goto
  <2>2. NotAnswered => pc'["htc"] = "exit"
    BY <1>1, <1>7 DEF NotAnswered, AwaitsAnswer, Goto
  <2>3. ASSUME AnswerLost PROVE FALSE
    <3>1. /\ pc' = pc /\ in' = in /\ pc["htc"] = "response" /\ Waiting
          /\ conn' = Break(conn, in["htc"])
      BY <1>7, <2>3 DEF AnswerLost, AwaitsAnswer, Waiting, control, fds
    <3>2. in["htc"] \in Conns
      BY <3>1, NetFacts DEF PathInv, GetInv, End
    <3>3. conn'[in["htc"]].reset
      BY <1>1, <3>1, <3>2, BreakEffect
    <3> QED
      BY <1>1, <3>1, <3>3 DEF Cut, Over
  <2>4. ASSUME AnswerGetFails PROVE FALSE
    <3>1. /\ pc' = pc /\ in' = in /\ Waiting /\ Head(queue) = in["htc"]
          /\ InQueue(queue, in["htc"]) /\ conn[in["htc"]].kind = "GET"
          /\ in["htc"] \in Conns
      BY <2>4, CalmFacts, NetFacts DEF AnswerGetFails, control, fds
    <3>2. pc["htc"] = "response"
      BY <1>7, <3>1 DEF Waiting
    <3>3. conn[in["htc"]].wire = <<>>
      BY <3>1 DEF PathInv, GetInv
    <3>4. conn'[in["htc"]].reset \/ ~conn'[in["htc"]].writer
      BY <2>4, <3>1, TakeNet
    <3>5. conn'[in["htc"]].wire = <<>>
      <4>1. Shut(conn'[in["htc"]], conn[in["htc"]])
        BY <2>4, <3>1, TakeNet
      <4> QED
        BY <3>3, <4>1 DEF Shut
    <3> QED
      BY <1>1, <3>1, <3>2, <3>4, <3>5 DEF Cut, Over
  <2> QED
    BY <1>2, <2>1, <2>2, <2>3, <2>4
<1>8. ~Disconnect("hts") /\ ~DrainMore("hts") /\ ~DrainDone("hts")
  <2>1. ASSUME Disconnect("hts") \/ DrainMore("hts") \/ DrainDone("hts") PROVE FALSE
    <3>1. /\ closed'["hts"] = closed["hts"] /\ closed["hts"] # "no"
          /\ pc'["hts"] \in {"drain", "accept"}
      BY <1>1, <2>1 DEF Disconnect, DrainMore, DrainDone, Goto, control, EndInv
    <3> QED
      BY <1>1, <3>1 DEF Attends, Busy
  <2> QED
    BY <2>1
<1>9. ASSUME ReadDisconnect("hts")
      PROVE  in["hts"] # out["htc"] /\ "hts" \notin ends
  <2> DEFINE c == in["hts"]
  <2>1. c # None
    BY <1>9 DEF ReadDisconnect, Reading
  <2>2. c \in Conns /\ conn[c].kind = "POST" /\ conn[c].wire \in Seq(Msgs)
    BY <1>1, <2>1, NetFacts DEF InKind
  <2>3. \/ conn[c].wire = <<>> /\ ~conn[c].writer
        \/ Has(conn[c].wire, "DISCONNECT")
    <3>1. CASE conn[c].wire = <<>>
      BY <1>9, <3>1 DEF ReadDisconnect
    <3>2. CASE conn[c].wire # <<>>
      <4>1. Head(conn[c].wire).req = "DISCONNECT"
        BY <1>9, <3>2 DEF ReadDisconnect
      <4> QED
        BY <2>2, <3>2, <4>1, HasLaws
    <3> QED
      BY <3>1, <3>2
  <2>4. out["htc"] # None => conn[out["htc"]].writer
                              /\ ~Has(conn[out["htc"]].wire, "DISCONNECT")
    BY <1>1, NetFacts DEF PathInv, BodyInv
  <2>5. c # out["htc"]
    BY <2>1, <2>3, <2>4
  <2>6. ASSUME "hts" \in ends PROVE FALSE
    <3>1. "htc" \notin ends
      BY <1>1, <2>6, OneEnd
    <3>2. ~Has(conn[c].wire, "DISCONNECT")
      BY <1>1, <2>2, <3>1 DEF PathInv, BodyInv, OutKind
    <3>3. Found(c)
      BY <2>2 DEF Found, Place
    <3>4. Has(conn[c].wire, "CLOSE")
      BY <1>1, <2>2, <2>5, <2>6, <3>3 DEF PathInv, ClosingInv
    <3>5. ~Has(<<>>, "CLOSE")
      BY EmptySeq, HasLaws
    <3> QED
      BY <2>3, <3>2, <3>4, <3>5
  <2> QED
    BY <2>5, <2>6
<1>10. ~CloseAged /\ ~CloseAgedFails /\ ~AcceptTimeout
  BY <1>1, OneSession DEF CloseAged, CloseAgedFails, AcceptTimeout
<1>11. /\ AcceptPost => in["hts"] = None
       /\ AcceptGet => out["hts"] = None
  BY <1>1, CalmFacts
<1> QED
  BY <1>1, <1>2, <1>3, <1>4, <1>5, <1>6, <1>7, <1>8, <1>9, <1>10, <1>11

\* hts reads, or will read, what htc writes to.
LEMMA PostStep ==
    ASSUME TypeInv, TypeInv', PathInv, OneDirection, [Next]_vars
    PROVE  PostInv'
<1>1. /\ PostInv /\ Rest /\ "htc" \in End /\ "hts" \in End /\ None \notin Conns
      /\ End = {"htc", "hts"} /\ (ends' = ends)
      /\ out \in [End -> Conns \cup {None}] /\ in \in [End -> Conns \cup {None}]
      /\ out' \in [End -> Conns \cup {None}]
      /\ out'["htc"] # None => conn'[out'["htc"]].kind = "POST"
  BY NetFacts, Steady DEF PathInv, TypeInv, Descriptors, End, OutKind
<1> SUFFICES ASSUME Hears("hts")', out'["htc"] # None
             PROVE  \/ out'["htc"] = in'["hts"] \/ InQueue(queue', out'["htc"])
                    \/ conn'[out'["htc"]].reset /\ "hts" \notin ends'
  BY DEF PostInv
<1> DEFINE o == out["htc"]
<1>2. /\ Hears("hts")
      /\ o # None =>
           /\ o \in Conns /\ conn[o].kind = "POST"
           /\ \/ o = in["hts"] \/ InQueue(queue, o)
              \/ conn[o].reset /\ "hts" \notin ends
  BY <1>1, HeardStep, NetFacts DEF PostInv, OutKind
<1>3. out'["htc"] = o => o # None /\ (conn[o].reset => conn'[o].reset)
  BY <1>1, <1>2, LostStays
<1>4. CASE OpensOut
  BY <1>1, <1>4, ConnectNet
<1>5. CASE OpensIn
  <2>1. PICK c \in Conns :
           /\ \A d : InQueue(queue', d) <=> InQueue(queue, d) \/ d = c
           /\ out' = out /\ in' = [in EXCEPT !["htc"] = c]
    BY <1>5, ConnectNet
  <2> QED
    BY <1>1, <1>2, <1>3, <2>1
<1>6. CASE AcceptPost \/ AcceptGet \/ AnswerGetFails \/ AcceptFails
  <2> DEFINE h == Head(queue)
  <2>1. InQueue(queue, h) /\ \A d : InQueue(queue, d) <=> d = h \/ InQueue(queue', d)
    BY <1>6, TakeNet
  <2>2. CASE AcceptPost
    <3>1. out' = out /\ in' = [in EXCEPT !["hts"] = h]
      BY <2>2, HeardStep, TakeNet
    <3>2. in["hts"] = None
      BY <2>2, HeardStep
    <3> HIDE DEF h
    <3> QED
      BY <1>1, <1>2, <1>3, <2>1, <3>1, <3>2
  <2>3. CASE AcceptGet \/ AnswerGetFails
    <3>1. conn[h].kind = "GET" /\ in' = in /\ out'["htc"] = o
      BY <1>1, <2>3, TakeNet DEF AcceptGet, SetOut
    <3> HIDE DEF h
    <3> QED
      BY <1>1, <1>2, <1>3, <2>1, <3>1
  <2>4. CASE AcceptFails
    <3>1. conn[h].reset /\ in' = in /\ out' = out
      BY <2>4, TakeNet
    <3>2. o = h => conn[o].reset /\ "hts" \notin ends
      BY <1>1, <1>2, <1>3, <2>1, <3>1, HeardStep
    <3> HIDE DEF h
    <3> QED
      BY <1>1, <1>2, <1>3, <2>1, <3>1, <3>2
  <2> QED
    BY <1>6, <2>2, <2>3, <2>4
<1>7. CASE /\ ~OpensOut /\ ~OpensIn
           /\ ~AcceptPost /\ ~AcceptGet /\ ~AnswerGetFails /\ ~AcceptFails
  <2>1. queue' = queue /\ out'["htc"] = o
    BY <1>1, <1>7, FdsNext
  <2>2. in'["hts"] = in["hts"] \/ ReadDisconnect("hts") \/ DrainDone("hts")
    BY <1>1, <1>7, LeavesInput
  <2>3. in'["hts"] = in["hts"] \/ in["hts"] # o
    BY <2>2, HeardStep
  <2> QED
    BY <1>1, <1>2, <1>3, <2>1, <2>3
<1> QED
  BY <1>4, <1>5, <1>6, <1>7

\* TUNNEL_CLOSE stays in a connection that hts reads or will read.
LEMMA CloseStays ==
    ASSUME TypeInv, TypeInv', PathInv, OneDirection, [Next]_vars, Hears("hts")',
           NEW c \in Conns, Found(c), Found(c)', Has(conn[c].wire, "CLOSE")
    PROVE  Has(conn'[c].wire, "CLOSE")
<1>1. /\ "htc" \in End /\ "hts" \in End /\ End = {"htc", "hts"} /\ None \notin Conns
      /\ Rest /\ in \in [End -> Conns \cup {None}]
      /\ \A e \in End : EndInv(e)
      /\ conn[c].kind = "POST" /\ (c = in["hts"] \/ InQueue(queue, c))
      /\ conn'[c].kind = "POST" /\ (c = in'["hts"] \/ InQueue(queue', c))
      /\ conn[c].wire \in Seq(Msgs) /\ conn[c].wire # <<>>
  <2>1. ~Has(<<>>, "CLOSE")
    BY EmptySeq, HasLaws
  <2> QED
    BY <2>1, NetFacts
       DEF PathInv, ControlInv, TypeInv, Descriptors, End, Found, Place, InQueue
<1>2. conn[c].reader /\ conn'[c].reader /\ ~conn[c].reset
  <2>1. conn[c].reader
    BY <1>1, NetFacts
  <2>2. conn'[c].reader
    BY <1>1 DEF TypeInv, Descriptors, InQueue
  <2> QED
    BY <1>1, <2>1, <2>2 DEF PathInv, ResetInv
<1>3. ASSUME NEW e \in End, WriteRequest(e) PROVE Has(conn'[c].wire, "CLOSE")
  <2> DEFINE x == out[e]
  <2>1. call[e].msg.req # "DISCONNECT"
    BY <1>1, <1>3, CallsStep DEF WriteRequest, Writing, Busy
  <2>2. /\ \A d \in Conns \ {x} : conn'[d] = conn[d]
        /\ \A r : Has(conn[x].wire, r) => Has(conn'[x].wire, r)
    BY <1>3, <2>1, WriteNet
  <2> QED
    BY <2>2
<1>4. CASE OpensOut \/ OpensIn
  BY <1>1, <1>4, ConnectNet
<1>5. CASE AcceptGet
  <2> DEFINE x == Head(queue)
  <2>1. conn[x].kind = "GET" /\ \A d \in Conns \ {x} : conn'[d] = conn[d]
    BY <1>5, TakeNet DEF AcceptGet
  <2> QED
    BY <1>1, <2>1
<1>6. ~conn'[c].reset
  <2> SUFFICES ASSUME conn'[c].reset PROVE FALSE
    OBVIOUS
  <2>1. \/ (OpensOut \/ OpensIn) /\ conn[c].kind = "none"
        \/ ~conn[c].reader
        \/ AnswerLost /\ c = in["htc"]
        \/ AnswerGetFails /\ c = Head(queue)
    BY <1>2, ResetWhen
  <2>2. AnswerLost => conn[in["htc"]].kind = "GET"
    <3>1. AnswerLost => Waiting
      BY DEF AnswerLost, AwaitsAnswer, Waiting
    <3> QED
      BY <1>1, <3>1, NetFacts DEF PathInv, GetInv, InKind
  <2>3. AnswerGetFails => conn[Head(queue)].kind = "GET"
    BY DEF AnswerGetFails
  <2> QED
    BY <1>1, <1>2, <2>1, <2>2, <2>3
<1>7. CASE Shut(conn'[c], conn[c])
  BY <1>1, <1>2, <1>6, <1>7 DEF Shut
<1>8. ASSUME NEW e \in End, c = in[e], Takes(e) PROVE Has(conn'[c].wire, "CLOSE")
  <2>1. e = "hts"
    BY <1>1, <1>8, NetFacts DEF InKind
  <2>2. ReadRequest("hts") \/ ReadUnwritten("hts")
    BY <1>8, <2>1, HeardStep DEF Takes
  <2>3. conn' = Consume(conn, c)
    BY <1>8, <2>1, <2>2 DEF ReadRequest, ReadUnwritten
  <2>4. \A r : Has(conn[c].wire, r) <=>
           Has(conn'[c].wire, r) \/ r = Head(conn[c].wire).req
    BY <1>1, <1>8, <2>3, ConsumeNet
  <2>5. Head(conn[c].wire).req # "CLOSE"
    <3>1. CASE ReadRequest("hts")
      <4> SUFFICES ASSUME Head(conn[c].wire).req = "CLOSE" PROVE FALSE
        OBVIOUS
      <4>1. Close("hts", "peer") /\ pc' = [pc EXCEPT !["hts"] = "poll"]
        BY <1>8, <2>1, <3>1 DEF ReadRequest, Goto
      <4>2. closed'["hts"] # "no" /\ pc'["hts"] = "poll"
        BY <1>1, <4>1 DEF Close, Rest
      <4> QED
        BY <4>2 DEF Hears, Attends, Busy
    <3>2. CASE ReadUnwritten("hts")
      BY <1>8, <2>1, <3>2 DEF ReadUnwritten
    <3> QED
      BY <2>2, <3>1, <3>2
  <2> QED
    BY <2>4, <2>5
<1>9. CASE /\ ~OpensOut /\ ~OpensIn /\ ~AcceptGet
           /\ \A e \in End : ~WriteRequest(e)
  <2>1. Shut(conn'[c], conn[c]) \/ \E e \in End : c = in[e] /\ Takes(e)
    BY <1>9, LessNet
  <2> QED
    BY <1>7, <1>8, <2>1
<1> QED
  BY <1>3, <1>4, <1>5, <1>9

\* What htc closes without an error it has written TUNNEL_CLOSE to.
LEMMA ClosingStep ==
    ASSUME TypeInv, TypeInv', PathInv, OneDirection, [Next]_vars
    PROVE  ClosingInv'
<1> SUFFICES ASSUME Hears("hts")' PROVE ClosingInv'
  BY DEF ClosingInv
<1>1. /\ Hears("hts") /\ ClosingInv /\ ResetInv /\ PostInv /\ PostInv' /\ Rest
      /\ "htc" \in End /\ "hts" \in End /\ End = {"htc", "hts"}
      /\ None \notin Conns /\ \A e \in End : EndInv(e)
      /\ out \in [End -> Conns \cup {None}] /\ out' \in [End -> Conns \cup {None}]
      /\ ends' = ends /\ (ends \subseteq End) /\ ("hts" \in ends => "htc" \notin ends)
  <2>1. ends' = ends
    BY Steady DEF PathInv, TypeInv
  <2> QED
    BY <2>1, HeardStep, PostStep, NetFacts, OneEnd
       DEF PathInv, ControlInv, TypeInv, Descriptors, End
<1>2. /\ out["htc"] # None => out["htc"] \in Conns /\ conn[out["htc"]].kind = "POST"
      /\ out'["htc"] # None => out'["htc"] \in Conns /\ conn'[out'["htc"]].kind = "POST"
  BY <1>1, NetFacts DEF TypeInv, Descriptors, OutKind
\* htc leaves what it writes to
<1>3. ASSUME out'["htc"] # out["htc"], out["htc"] # None
      PROVE  \/ WriteRequest("htc") /\ "htc" \in ends
             \/ WriteEPIPE("htc") \/ Disconnect("htc")
  <2>1. ~OpensOut
    BY <1>3 DEF OpensOut, OutConnect, PostFails, Unconnected
  <2>2. AcceptGet => out'["htc"] = out["htc"]
    BY <1>1, HeardStep DEF AcceptGet, SetOut
  <2> QED
    BY <1>1, <1>3, <2>1, <2>2, LeavesOutput, HeardStep
\* and comes to close it.
<1>4. ASSUME pc'["htc"] = "disconnect"
      PROVE  \/ WriteRequest("htc") \/ WriteFails("htc") \/ OutConnectFails \/ PostFails
             \/ pc["htc"] = "disconnect"
  <2>1. CASE \/ OutConnect \/ InConnect \/ Answered \/ TunnelReady("htc")
             \/ TunnelClose("htc") \/ KeepAlive("htc") \/ DeviceInput("htc")
             \/ DeviceCloses("htc") \/ ReadRequest("htc") \/ ReadDisconnect("htc")
             \/ ReadUnwritten("htc") \/ Disconnect("htc") \/ DrainDone("htc")
             \/ TunnelConnect \/ WriteEPIPE("htc") \/ NotAnswered
             \/ InConnectFails \/ GetFails \/ AnswerFails
    <3>1. \E l \in {"send", "resend", "response", "reresponse", "poll", "tunnel",
                    "idle", "write", "reconnect", "drain", "exit"} :
                pc' = [pc EXCEPT !["htc"] = l]
      BY <2>1 DEF OutConnect, InConnect, Answered, TunnelReady, TunnelClose,
         KeepAlive, DeviceInput, DeviceCloses, ReadRequest, ReadDisconnect,
         ReadUnwritten, Disconnect, DrainDone, TunnelConnect, WriteEPIPE, NotAnswered,
         InConnectFails, GetFails, AnswerFails, InFails, Goto, Request, AfterDevice
    <3> QED
      BY <1>1, <1>4, <3>1 DEF Rest
  <2>2. CASE DrainMore("htc") \/ AnswerLost
    BY <1>4, <2>2 DEF DrainMore, AnswerLost, control
  <2>3. CASE Writes("hts")
    <3>1. pc'["htc"] = pc["htc"]
      BY <1>1, <2>3 DEF Writes, WriteRequest, WriteLost, WriteEPIPE, WriteFails,
         RequestFails, Return, Goto, Rest
    <3> QED
      BY <1>4, <3>1
  <2>4. CASE \/ TunnelReady("hts") \/ TunnelClose("hts") \/ KeepAlive("hts")
             \/ DeviceInput("hts") \/ DeviceCloses("hts") \/ ReadRequest("hts")
             \/ ReadDisconnect("hts") \/ ReadUnwritten("hts")
    <3>1. pc'["htc"] = pc["htc"]
      BY <1>1, <2>4 DEF TunnelReady, TunnelClose, KeepAlive, DeviceInput,
         DeviceCloses, ReadRequest, ReadDisconnect, ReadUnwritten, Goto, Request, Rest
    <3> QED
      BY <1>4, <3>1
  <2>5. CASE \/ OutAccept \/ AcceptPost \/ AcceptGet \/ AcceptReturns \/ ReadAccept
             \/ ReadAgain \/ AnswerGetFails \/ UNCHANGED vars
    <3>1. pc'["htc"] = pc["htc"]
      BY <1>1, <2>5 DEF OutAccept, AcceptPost, AcceptGet, AcceptReturns, ReadAccept,
         ReadAgain, AnswerGetFails, Goto, control, vars, Rest
    <3> QED
      BY <1>4, <3>1
  <2>6. CASE AcceptFails
    <3>1. pc' = pc \/ \E l \in Points : pc' = [pc EXCEPT !["hts"] = l]
      BY <1>1, <2>6, AcceptFailsCases DEF control, Goto, RequestFails, Return, Rest, Points
    <3>2. pc'["htc"] = pc["htc"]
      BY <1>1, <3>1 DEF Rest
    <3> QED
      BY <1>4, <3>2
  <2> QED
    BY <1>1, HeardStep, <2>1, <2>2, <2>3, <2>4, <2>5, <2>6, Zenon
       DEF Next, Environment, Fails, Runs, Writes, Reads, Closes
<1>5. ASSUME pc'["htc"] = "disconnect", out'["htc"] # None
      PROVE  \/ Has(conn'[out'["htc"]].wire, "CLOSE") \/ conn'[out'["htc"]].reset
  <2>1. CASE WriteRequest("htc")
    <3> DEFINE c == out["htc"]
    <3>1. /\ Busy("htc") /\ pc'["htc"] = call["htc"].next
      BY <1>1, <2>1 DEF WriteRequest, Return, Goto, Writing, Busy, Rest
    <3>2. call["htc"].msg.req = "CLOSE"
      BY <1>1, <1>5, <3>1, CallsStep
    <3>3. /\ Has(conn'[c].wire, "CLOSE")
          /\ out' = out \/ out' = [out EXCEPT !["htc"] = None]
      BY <1>1, <2>1, <3>2, WriteNet
    <3> QED
      BY <1>1, <1>5, <3>3
  <2>2. CASE WriteFails("htc")
    <3>1. conn' = conn /\ out' = out
      BY <2>2 DEF WriteFails, net, fds
    <3> QED
      BY <2>2, <3>1, HeardStep
  <2>3. CASE OutConnectFails
    BY <1>5, <2>3 DEF OutConnectFails, Unconnected, fds
  <2>4. CASE PostFails
    BY <1>1, <2>4, ConnectNet DEF OpensOut
  <2>5. CASE pc["htc"] = "disconnect"
    <3>1. PICK c \in Conns : c = out["htc"] /\ c # None
      <4>1. ~OpensOut
        BY <2>5 DEF OpensOut, OutConnect, PostFails, Unconnected
      <4>2. out'["htc"] = out["htc"] \/ OpensOut
        BY <1>5, FdsNext
      <4> QED
        BY <1>2, <1>5, <4>1, <4>2
    <3>2. out'["htc"] = c
      <4>1. ~WriteRequest("htc") /\ ~WriteEPIPE("htc")
        BY <2>5 DEF WriteRequest, WriteEPIPE, Writing
      <4>2. ~Disconnect("htc")
        BY <1>1, <1>5 DEF Disconnect, Goto, Rest
      <4> QED
        BY <1>3, <3>1, <4>1, <4>2
    <3>3. Has(conn[c].wire, "CLOSE") \/ conn[c].reset
      BY <1>1, <2>5, <3>1 DEF ClosingInv
    <3>4. conn[c].reset => conn'[c].reset
      BY <1>2, <3>1, <3>2, LostStays
    <3>5. ASSUME ~conn[c].reset, ~conn'[c].reset PROVE Found(c) /\ Found(c)'
      <4>1. c = in["hts"] \/ InQueue(queue, c)
        BY <1>1, <3>1, <3>5 DEF PostInv
      <4>2. c = in'["hts"] \/ InQueue(queue', c)
        BY <1>1, <1>5, <3>1, <3>2, <3>5 DEF PostInv
      <4>3. conn[c].kind = "POST" /\ conn'[c].kind = "POST"
        BY <1>2, <3>1, <3>2
      <4> QED
        BY <4>1, <4>2, <4>3 DEF Found, Place, InQueue
    <3>6. ~conn[c].reset /\ ~conn'[c].reset => Has(conn'[c].wire, "CLOSE")
      BY <3>3, <3>5, CloseStays
    <3> QED
      BY <3>2, <3>3, <3>4, <3>6
  <2> QED
    BY <1>4, <1>5, <2>1, <2>2, <2>3, <2>4, <2>5
<1>6. ASSUME "hts" \in ends', NEW c \in Conns, Found(c)', c # out'["htc"]
      PROVE  Has(conn'[c].wire, "CLOSE")
  <2>1. Found(c)
    BY <1>6, FoundStep
  <2>2. CASE c # out["htc"]
    BY <1>1, <1>6, <2>1, <2>2, CloseStays DEF ClosingInv
  <2>3. CASE c = out["htc"]
    <3>1. Disconnect("htc")
      BY <1>1, <1>3, <1>6, <2>3, HeardStep
    <3>2. Has(conn[c].wire, "CLOSE") \/ conn[c].reset
      BY <1>1, <2>3, <3>1 DEF Disconnect, ClosingInv
    <3>3. ~conn[c].reset
      <4>1. conn[c].kind = "POST" /\ (c = in["hts"] \/ InQueue(queue, c))
        BY <2>1 DEF Found, Place, InQueue
      <4>2. c = in["hts"] => ~conn[c].reset
        BY <1>1 DEF ResetInv
      <4>3. InQueue(queue, c) => ~conn[c].reset
        BY <1>1, <1>6, <4>1, HeardStep
      <4> QED
        BY <4>1, <4>2, <4>3
    <3> QED
      BY <1>6, <2>1, <3>2, <3>3, CloseStays
  <2> QED
    BY <2>2, <2>3
<1> QED
  BY <1>5, <1>6 DEF ClosingInv

\* While hts does not replace its bodies, htc does not leave them.
LEMMA LinkStep ==
    ASSUME TypeInv, TypeInv', PathInv, OneDirection, [Next]_vars
    PROVE  LinkInv'
<1> SUFFICES ASSUME Hears("hts")', "hts" \notin ends'
             PROVE  /\ pc'["htc"] \notin {"reconnect", "reresponse"}
                    /\ out'["hts"] # None /\ ~Gone' => ~conn'[out'["hts"]].reset
  BY DEF LinkInv
<1>1. /\ Hears("hts") /\ Rest /\ "htc" \in End /\ "hts" \in End /\ End = {"htc", "hts"}
      /\ None \notin Conns /\ \A e \in End : EndInv(e)
      /\ ends' = ends /\ "hts" \notin ends /\ (Gone => Gone')
      /\ pc["htc"] \notin {"reconnect", "reresponse"}
      /\ out["hts"] # None /\ ~Gone => ~conn[out["hts"]].reset
  BY HeardStep, HearsStep, Steady, NetFacts
     DEF PathInv, ControlInv, TypeInv, End, LinkInv
<1>2. out["hts"] # None => /\ out["hts"] \in Conns /\ conn[out["hts"]].kind = "GET"
                           /\ conn[out["hts"]].writer
                           /\ conn[out["hts"]].wire \in Seq(Msgs)
  BY <1>1, NetFacts DEF OutKind
<1>3. ~ReadDisconnect("htc")
  <2> SUFFICES ASSUME ReadDisconnect("htc") PROVE FALSE
    OBVIOUS
  <2>1. pc["htc"] = "tunnel"
    BY DEF ReadDisconnect, Reading
  <2>2. ~Opening /\ ~Gone
    BY <1>1, <2>1 DEF Opening, Unopened, PostOpened, BothOpened, Gone, Busy, EndInv
  <2>3. out["hts"] # None /\ out["hts"] = in["htc"]
    BY <1>1, <2>2 DEF PathInv, OpenInv, Up, GetInv
  <2>4. ~Has(conn[in["htc"]].wire, "DISCONNECT")
    BY <1>1, <2>3 DEF PathInv, BodyInv
  <2>5. conn[in["htc"]].wire # <<>> /\ Head(conn[in["htc"]].wire).req = "DISCONNECT"
    BY <1>2, <2>3 DEF ReadDisconnect
  <2> QED
    BY <1>2, <2>3, <2>4, <2>5, HasLaws
<1>4. ASSUME pc'["htc"] \in {"reconnect", "reresponse"} PROVE FALSE
  <2>1. ASSUME NEW l \in Points \ {"reconnect", "reresponse"},
               pc' = [pc EXCEPT !["htc"] = l]
        PROVE  FALSE
    BY <1>1, <1>4, <2>1 DEF Rest
  <2>2. pc'["htc"] # pc["htc"]
    BY <1>1, <1>4
  <2>3. ASSUME NEW l \in Points, pc' = [pc EXCEPT !["hts"] = l] PROVE FALSE
    BY <1>1, <2>2, <2>3 DEF Rest
  <2>4. ASSUME Busy("htc"), RequestFails("htc") PROVE FALSE
    <3>1. call["htc"].next \in {"connect", "disconnect", "poll", "tunnel"}
      BY <1>1, <2>4, CallsStep
    <3>2. pc' = [pc EXCEPT !["htc"] = "exit"] \/ pc' = [pc EXCEPT !["htc"] = call["htc"].next]
      BY <2>4 DEF RequestFails, Return, Goto
    <3> QED
      BY <2>1, <3>1, <3>2 DEF Points
  <2>5. ~WriteFails("htc") /\ ~OutConnectFails /\ ~PostFails
    BY <2>4 DEF WriteFails, OutConnectFails, PostFails, Unconnected, Busy, Writing
  <2>6. ASSUME WriteRequest("htc") \/ WriteLost("htc") PROVE FALSE
    <3>1. Busy("htc") /\ pc' = [pc EXCEPT !["htc"] = call["htc"].next]
      BY <2>6 DEF WriteRequest, WriteLost, Return, Goto, Busy, Writing
    <3>2. call["htc"].next \in {"connect", "disconnect", "poll", "tunnel"}
      BY <1>1, <3>1, CallsStep
    <3> QED
      BY <2>1, <3>1, <3>2 DEF Points
  <2>7. ASSUME \/ OutConnect \/ InConnect \/ Answered \/ TunnelReady("htc")
               \/ TunnelClose("htc") \/ KeepAlive("htc") \/ DeviceInput("htc")
               \/ DeviceCloses("htc") \/ ReadRequest("htc") \/ ReadUnwritten("htc")
               \/ Disconnect("htc") \/ DrainDone("htc") \/ TunnelConnect
               \/ WriteEPIPE("htc") \/ NotAnswered \/ InConnectFails \/ GetFails
               \/ AnswerFails \/ Exit
        PROVE  FALSE
    <3>1. \E l \in {"send", "resend", "response", "poll", "tunnel", "idle", "write",
                    "drain", "exit", "exited"} :
                pc' = [pc EXCEPT !["htc"] = l]
      BY <1>1, <2>7 DEF OutConnect, InConnect, Answered, TunnelReady, TunnelClose,
         KeepAlive, DeviceInput, DeviceCloses, ReadRequest, ReadUnwritten, Disconnect,
         DrainDone, TunnelConnect, WriteEPIPE, NotAnswered, InConnectFails, GetFails,
         AnswerFails, Exit, InFails, Connecting, Goto, Request, AfterDevice
    <3> QED
      BY <2>1, <3>1 DEF Points
  <2>8. ~DrainMore("htc") /\ ~AnswerLost
    BY <2>2 DEF DrainMore, AnswerLost, control
  <2>9. ASSUME \/ Writes("hts") \/ TunnelReady("hts") \/ Reads("hts") \/ KeepAlive("hts")
               \/ Closes("hts") \/ DeviceInput("hts") \/ DeviceCloses("hts")
               \/ ReadUnwritten("hts")
        PROVE  FALSE
    <3>1. pc'["htc"] = pc["htc"]
      BY <1>1, <2>9 DEF Writes, WriteRequest, WriteLost, WriteEPIPE, WriteFails,
         RequestFails, Return, TunnelReady, Reads, ReadDisconnect, ReadRequest,
         KeepAlive, Closes, TunnelClose, Disconnect, DrainMore, DrainDone, DeviceInput,
         DeviceCloses, ReadUnwritten, Goto, Request, control, Rest
    <3> QED
      BY <2>2, <3>1
  <2>10. ASSUME \/ OutAccept \/ AcceptPost \/ AcceptGet \/ AcceptReturns \/ ReadAccept
                \/ ReadAgain \/ AnswerGetFails \/ UNCHANGED vars
         PROVE  FALSE
    <3>1. pc'["htc"] = pc["htc"]
      BY <1>1, <2>10 DEF OutAccept, AcceptPost, AcceptGet, AcceptReturns, ReadAccept,
         ReadAgain, AnswerGetFails, Goto, control, vars, Rest
    <3> QED
      BY <2>2, <3>1
  <2>11. ASSUME AcceptFails PROVE FALSE
    <3>1. pc' = pc \/ \E l \in Points : pc' = [pc EXCEPT !["hts"] = l]
      BY <1>1, <2>11, AcceptFailsCases
         DEF control, Goto, RequestFails, Return, Rest, Points
    <3> QED
      BY <2>2, <2>3, <3>1
  <2>12. ~CloseAged /\ ~CloseAgedFails /\ ~AcceptTimeout
    BY HeardStep
  <2> QED
    BY <1>1, <1>3, <2>5, <2>6, <2>7, <2>8, <2>9, <2>10, <2>11, <2>12, Zenon
       DEF Next, Environment, Fails, Runs, Writes, Reads, Closes
<1>5. ASSUME out'["hts"] # None, ~Gone', conn'[out'["hts"]].reset PROVE FALSE
  <2>1. CASE AcceptGet
    <3> DEFINE h == Head(queue)
    <3>1. out["hts"] = None /\ conn[h].kind = "GET" /\ InQueue(queue, h) /\ h \in Conns
      BY <2>1, HeardStep, NetFacts DEF AcceptGet
    <3>2. conn[h].wire = <<>>
      BY <3>1 DEF PathInv, GetInv
    <3>3. ~conn'[h].reset /\ out' = [out EXCEPT !["hts"] = h]
      BY <2>1, <3>1, <3>2, TakeNet
    <3>4. out'["hts"] = h
      BY <1>1, <3>3 DEF TypeInv, Descriptors
    <3> QED
      BY <1>5, <3>3, <3>4
  <2>2. CASE ~AcceptGet
    <3>1. out'["hts"] = out["hts"]
      BY <1>5, <2>2, FdsNext
    <3>2. PICK c \in Conns : /\ c = out["hts"] /\ conn[c].kind = "GET"
                             /\ ~conn[c].reset /\ conn[c].reader /\ conn'[c].reset
      BY <1>1, <1>2, <1>5, <3>1, CalmFacts
    <3>3. ~AnswerLost
      <4>1. AnswerLost => pc["htc"] = "response"
        BY <1>1 DEF AnswerLost, AwaitsAnswer
      <4> QED
        BY <4>1, HeardStep
    <3>4. AnswerGetFails => out["hts"] = None
      BY CalmFacts
    <3> QED
      BY <1>5, <3>1, <3>2, <3>3, <3>4, ResetWhen
  <2> QED
    BY <2>1, <2>2
<1> QED
  BY <1>4, <1>5

\* hts refuses a connection only when an end has begun to close.
LEMMA CalmStep ==
    ASSUME TypeInv, TypeInv', PathInv, OneDirection, [Next]_vars
    PROVE  CalmInv'
<1>1. /\ CalmInv /\ "htc" \in End /\ "hts" \in End
      /\ \A e \in End : closed[e] # "no" => closed'[e] # "no"
      /\ rejected' = rejected \/ AcceptPost \/ AcceptGet
  BY Steady DEF PathInv, TypeInv, End
<1>2. CASE rejected' = rejected
  BY <1>1, <1>2 DEF CalmInv
<1>3. CASE AcceptPost /\ ~(rejected' = rejected)
  <2>1. in["hts"] # None /\ closed' = closed
    BY <1>3 DEF AcceptPost, control
  <2>2. closed["htc"] # "no" \/ closed["hts"] # "no"
    BY <1>3, <2>1, CalmFacts
  <2> QED
    BY <1>1, <2>1, <2>2 DEF CalmInv
<1>4. CASE AcceptGet /\ ~(rejected' = rejected)
  <2>1. FALSE
    BY <1>4, CalmFacts DEF AcceptGet
  <2> QED
    BY <2>1
<1> QED
  BY <1>1, <1>2, <1>3, <1>4

\* The direction whose bodies are not replaced stays up while hts attends.
LEMMA UpStays ==
    ASSUME TypeInv, TypeInv', PathInv, OneDirection, [Next]_vars, Hears("hts")', Up
    PROVE  Up'
<1>1. /\ "htc" \in End /\ "hts" \in End /\ End = {"htc", "hts"} /\ None \notin Conns
      /\ out \in [End -> Conns \cup {None}] /\ in \in [End -> Conns \cup {None}]
      /\ ends' = ends /\ Hears("hts")
  BY NetFacts, HeardStep, Steady DEF PathInv, TypeInv, Descriptors, End
<1>2. ASSUME "hts" \in ends, in["hts"] # None PROVE in'["hts"] # None
  <2>1. CASE OpensIn
    <3>1. PICK c \in Conns : in' = [in EXCEPT !["htc"] = c]
      BY <2>1, ConnectNet
    <3> QED
      BY <1>1, <1>2, <3>1
  <2>2. CASE ~OpensIn
    <3>1. ~AcceptPost
      BY <1>2, HeardStep
    <3>2. in'["hts"] = in["hts"] \/ ReadDisconnect("hts") \/ DrainDone("hts")
      BY <1>1, <2>2, <3>1, LeavesInput
    <3> QED
      BY <1>2, <3>2, HeardStep
  <2> QED
    BY <2>1, <2>2
<1>3. ASSUME "hts" \notin ends, out["hts"] # None PROVE out'["hts"] # None
  <2>1. CASE OpensOut
    <3>1. PICK c \in Conns : out' = [out EXCEPT !["htc"] = c]
      BY <2>1, ConnectNet
    <3> QED
      BY <1>1, <1>3, <3>1
  <2>2. CASE WriteLost("hts")
    <3>1. out' = out
      BY <1>3, <2>2 DEF WriteLost
    <3> QED
      BY <1>3, <3>1
  <2>3. CASE WriteEPIPE("hts")
    <3>1. out' = [out EXCEPT !["hts"] = None] /\ Lost("hts")
      BY <2>3 DEF WriteEPIPE, SetOut
    <3>2. Gone
      <4>1. ~Gone => conn[out["hts"]].reader
        BY <1>3, CalmFacts
      <4>2. ~Gone => ~conn[out["hts"]].reset
        BY <1>1, <1>3 DEF PathInv, LinkInv
      <4> QED
        BY <3>1, <4>1, <4>2 DEF Lost
    <3>3. Gone' /\ out'["hts"] = None
      BY <1>1, <3>1, <3>2, HearsStep
    <3> QED
      BY <3>3 DEF Hears
  <2>4. CASE ~OpensOut /\ ~WriteLost("hts") /\ ~WriteEPIPE("hts")
    <3>1. ~AcceptGet
      BY <1>3, HeardStep
    <3>2. \/ out'["hts"] = out["hts"]
          \/ WriteRequest("hts") /\ "hts" \in ends
          \/ Disconnect("hts")
      BY <1>1, <2>4, <3>1, LeavesOutput
    <3> QED
      BY <1>3, <3>2, HeardStep
  <2> QED
    BY <2>1, <2>2, <2>3, <2>4
<1> QED
  BY <1>1, <1>2, <1>3 DEF Up

\* What may happen while hts waits for the first connections
LEMMA OpeningSteps ==
    ASSUME TypeInv, TypeInv', PathInv, OneDirection, [Next]_vars, Hears("hts")', Opening
    PROVE  \/ UNCHANGED vars \/ AcceptPost \/ AcceptGet
           \/ pc["htc"] = "idle" /\ TunnelConnect
           \/ pc["htc"] \in {"write", "send"} /\ OutConnect
           \/ pc["htc"] = "send" /\ WriteRequest("htc")
           \/ pc["htc"] = "connect" /\ InConnect
<1>1. /\ Rest /\ "htc" \in End /\ End = {"htc", "hts"} /\ EndInv("htc")
      /\ ~Exit /\ ~WriteLost("htc") /\ ~CloseAged /\ ~CloseAgedFails /\ ~AcceptTimeout
      /\ pc["hts"] = "accept" /\ out["hts"] = None /\ Hears("hts") /\ ~Cut
  <2>1. "htc" \in End /\ End = {"htc", "hts"}
    BY DEF End
  <2>2. Hears("hts")
    BY HeardStep
  <2> QED
    BY <2>1, <2>2, HeardStep DEF PathInv, ControlInv, TypeInv, Opening, Hears
<1>2. pc["htc"] \in {"idle", "write", "send", "connect", "response"}
  BY <1>1 DEF Opening, Unopened, PostOpened, BothOpened, EndInv
\* hts
<1>3. /\ ~Writes("hts") /\ ~TunnelReady("hts") /\ ~Reads("hts") /\ ~Closes("hts")
      /\ ~OutAccept /\ ~AcceptReturns /\ ~ReadAccept /\ ~ReadAgain
      /\ ~DeviceInput("hts") /\ ~DeviceCloses("hts") /\ ~ReadUnwritten("hts")
      /\ ~KeepAlive("hts")
  BY <1>1 DEF Writes, WriteRequest, WriteLost, WriteEPIPE, WriteFails, Writing,
     TunnelReady, Reads, ReadDisconnect, ReadRequest, Closes, TunnelClose,
     Disconnect, DrainMore, DrainDone, OutAccept, AcceptReturns, Established,
     ReadAccept, ReadAgain, Reading, DeviceInput, DeviceCloses, ReadUnwritten,
     KeepAlive, Polling
\* htc
<1>4. /\ ~TunnelReady("htc") /\ ~Reads("htc") /\ ~Closes("htc")
      /\ ~DeviceInput("htc") /\ ~DeviceCloses("htc") /\ ~ReadUnwritten("htc")
      /\ ~KeepAlive("htc")
  BY <1>2 DEF TunnelReady, Reads, ReadDisconnect, ReadRequest, Closes, TunnelClose,
     Disconnect, DrainMore, DrainDone, Reading, DeviceInput, DeviceCloses,
     ReadUnwritten, KeepAlive, Polling
<1>5. ~Answered
  <2> SUFFICES ASSUME Answered PROVE FALSE
    OBVIOUS
  <2>1. pc["htc"] = "response" /\ conn[in["htc"]].wire # <<>>
    BY <1>2 DEF Answered, AwaitsAnswer
  <2>2. /\ InQueue(queue, in["htc"])
    BY <1>1, <2>1 DEF Opening, Unopened, PostOpened, BothOpened, EndInv
  <2>3. in["htc"] \in Conns /\ in["htc"] # None
    BY <2>2, NetFacts
  <2>4. conn[in["htc"]].kind = "GET"
    BY <1>1, <2>3, NetFacts DEF InKind
  <2> QED
    BY <2>1, <2>2, <2>3, <2>4 DEF PathInv, GetInv
<1>6. WriteRequest("htc") => pc["htc"] = "send"
  BY <1>1, <1>2 DEF WriteRequest, Writing, Opening, Unopened, PostOpened, BothOpened,
     EndInv
<1>7. /\ TunnelConnect => pc["htc"] = "idle"
      /\ OutConnect => pc["htc"] \in {"write", "send"}
      /\ InConnect => pc["htc"] = "connect"
  BY <1>2 DEF TunnelConnect, OutConnect, InConnect, Unconnected, Connecting
\* nothing fails: the opening of a connection,
<1>8. ~OutConnectFails /\ ~PostFails
  <2>1. OutConnectFails \/ PostFails => pc["htc"] = "write"
    BY <1>2 DEF OutConnectFails, PostFails, Unconnected
  <2>2. pc["htc"] = "write" => call["htc"].msg.req = "OPEN"
    BY <1>1 DEF Opening, Unopened, PostOpened, BothOpened, EndInv
  <2> QED
    BY <2>1, <2>2, HeardStep
<1>9. /\ ~InConnectFails /\ ~GetFails /\ ~AnswerLost /\ ~AnswerFails /\ ~NotAnswered
      /\ ~AnswerGetFails
  <2>1. \/ InConnectFails \/ GetFails \/ AnswerLost \/ AnswerFails \/ NotAnswered
        => pc["htc"] \in {"connect", "response"}
    BY <1>2 DEF InConnectFails, GetFails, AnswerLost, AnswerFails, NotAnswered,
       Connecting, AwaitsAnswer
  <2>2. AnswerGetFails => Waiting
    BY CalmFacts
  <2>3. Waiting => pc["htc"] = "response"
    BY <1>2 DEF Waiting
  <2> QED
    BY <2>1, <2>2, <2>3, HeardStep
\* and what hts has found works.
<1>10. ASSUME PostOpened \/ BothOpened
       PROVE  \A c \in Conns : Found(c) => ~conn[c].reset
  <2>1. Young /\ pc["htc"] # "exit"
    BY <1>2, <1>10 DEF PostOpened, BothOpened, Young
  <2> QED
    BY <2>1 DEF PathInv, FirstInv
<1>11. ~AcceptFails
  <2> SUFFICES ASSUME AcceptFails PROVE FALSE
    OBVIOUS
  <2> DEFINE h == Head(queue)
  <2>1. queue # <<>> /\ h \in Conns /\ conn[h].reset /\ InQueue(queue, h)
    <3>1. queue # <<>> /\ conn[h].reset
      BY DEF AcceptFails
    <3> QED
      BY <3>1, NetFacts
  <2>2. PostOpened \/ BothOpened
    BY <2>1 DEF Opening, Unopened
  <2>3. conn[h].kind # "POST"
    BY <1>10, <2>1, <2>2 DEF Found, Place, InQueue
  <2>4. BothOpened /\ \E d \in Conns : queue = <<d>>
    <3>1. ASSUME NEW c \in Conns, NEW d \in Conns, queue = <<c>> \/ queue = <<c, d>>
          PROVE  h = c
      BY <3>1, ShortQueues
    <3> QED
      BY <2>1, <2>2, <2>3, <3>1 DEF PostOpened, BothOpened
  <2>5. h = in["htc"]
    <3>1. PICK d \in Conns : queue = <<d>>
      BY <2>4
    <3>2. InQueue(queue, in["htc"])
      BY <2>4 DEF BothOpened
    <3>3. \A x : InQueue(queue, x) <=> x = d
      BY <3>1, ShortQueues
    <3> QED
      BY <2>1, <3>2, <3>3
  <2> QED
    BY <1>1, <2>1, <2>4, <2>5 DEF BothOpened, Cut, Over
<1>12. ~WriteEPIPE("htc") /\ ~WriteFails("htc")
  <2> SUFFICES ASSUME WriteEPIPE("htc") \/ WriteFails("htc") PROVE FALSE
    OBVIOUS
  <2>1. out["htc"] # None /\ conn[out["htc"]].reset /\ Writing("htc")
    BY HeardStep DEF WriteEPIPE, WriteFails
  <2>2. PostOpened /\ call["htc"].msg.req = "OPEN"
    BY <1>1, <2>1 DEF Opening, Unopened, PostOpened, BothOpened, Writing, EndInv
  <2>3. PICK c \in Conns : Found(c)
    <3>1. CASE in["hts"] = None
      <4>1. PICK c \in Conns : queue = <<c>> /\ conn[c].kind = "POST"
        BY <2>2, <3>1 DEF PostOpened
      <4>2. InQueue(queue, c)
        BY <4>1, ShortQueues
      <4> QED
        BY <4>1, <4>2 DEF Found, Place, InQueue
    <3>2. CASE in["hts"] # None
      <4>1. in["hts"] \in Conns /\ conn[in["hts"]].kind = "POST"
        BY <1>1, <3>2, NetFacts DEF InKind
      <4> QED
        BY <4>1 DEF Found, Place
    <3> QED
      BY <3>1, <3>2
  <2>4. c = out["htc"]
    BY <2>2, <2>3 DEF PathInv, FirstInv, Young
  <2> QED
    BY <1>10, <2>1, <2>2, <2>3, <2>4
<1> QED
  BY <1>1, <1>3, <1>4, <1>5, <1>6, <1>7, <1>8, <1>9, <1>11, <1>12, Zenon
     DEF Next, Environment, Fails, Runs, Writes

\* hts waits for the first connections in the order in which htc opens them.
LEMMA OpeningStep ==
    ASSUME TypeInv, TypeInv', PathInv, OneDirection, [Next]_vars, Hears("hts")',
           Opening, ~Up, ~Up'
    PROVE  Opening'
<1>1. /\ Rest /\ Rest' /\ "htc" \in End /\ "hts" \in End /\ End = {"htc", "hts"}
      /\ EndInv("htc") /\ None \notin Conns
      /\ out["hts"] = None /\ pc["hts"] = "accept" /\ ends' = ends
      /\ out \in [End -> Conns \cup {None}] /\ in \in [End -> Conns \cup {None}]
      /\ Unopened \/ PostOpened \/ BothOpened
  <2>1. "htc" \in End /\ "hts" \in End /\ End = {"htc", "hts"}
    BY DEF End
  <2> QED
    BY <2>1, NetFacts, Steady DEF PathInv, ControlInv, TypeInv, Descriptors, Opening
<1>2. CASE UNCHANGED vars
  BY <1>2 DEF vars, net, fds, control, history, Opening, Unopened, PostOpened,
     BothOpened
<1>3. CASE AcceptPost
  <2> DEFINE x == Head(queue)
  <2>1. in["hts"] = None
    BY <1>3, HeardStep
  <2>2. /\ queue # <<>> /\ queue' = Tail(queue) /\ x \in Conns
        /\ conn[x].kind = "POST" /\ out' = out
        /\ in' = [in EXCEPT !["hts"] = x] /\ conn' = conn
    BY <1>3, <2>1, TakeNet
  <2>3. pc' = pc /\ call' = call
    BY <1>3 DEF AcceptPost, control
  <2>4. in'["hts"] # None /\ in'["htc"] = in["htc"]
    BY <1>1, <2>2
  <2>5. CASE PostOpened
    <3>1. PICK c \in Conns : queue = <<c>>
      BY <2>1, <2>5 DEF PostOpened
    <3>2. queue' = <<>>
      BY <2>2, <3>1, ShortQueues
    <3>3. PostOpened'
      BY <1>1, <2>2, <2>3, <2>4, <2>5, <3>2 DEF PostOpened
    <3> QED
      BY <1>1, <2>2, <2>3, <3>3 DEF Opening
  <2>6. CASE BothOpened
    <3>1. PICK c \in Conns, d \in Conns :
             queue = <<c, d>> /\ conn[c].kind = "POST" /\ conn[d].kind = "GET"
      BY <2>1, <2>6 DEF BothOpened
    <3>2. queue' = <<d>> /\ \A y : InQueue(queue', y) <=> y = d
      <4>1. queue' = <<d>>
        BY <2>2, <3>1, ShortQueues
      <4>2. \A y : InQueue(<<d>>, y) <=> y = d
        BY ShortQueues
      <4> QED
        BY <4>1, <4>2
    <3>3. in["htc"] = d
      <4>1. InQueue(queue, in["htc"])
        BY <2>6 DEF BothOpened
      <4>2. in["htc"] \in {c, d}
        BY <3>1, <4>1, ShortQueues
      <4>3. in["htc"] # None => conn[in["htc"]].kind = "GET"
        BY <1>1, NetFacts DEF InKind
      <4> QED
        BY <1>1, <3>1, <4>2, <4>3
    <3>4. BothOpened'
      BY <1>1, <2>2, <2>3, <2>4, <2>6, <3>1, <3>2, <3>3 DEF BothOpened
    <3> QED
      BY <1>1, <2>2, <2>3, <3>4 DEF Opening
  <2> QED
    BY <1>1, <2>2, <2>5, <2>6 DEF Unopened
<1>4. CASE AcceptGet
  <2> DEFINE x == Head(queue)
  <2>1. /\ queue # <<>> /\ x \in Conns /\ conn[x].kind = "GET"
        /\ out' = [out EXCEPT !["hts"] = x] /\ in' = in
    BY <1>1, <1>4, TakeNet DEF AcceptGet, SetOut
  <2>2. out'["hts"] # None
    BY <1>1, <2>1
  <2>3. in["hts"] = None
    BY <1>1, <2>1, <2>2 DEF Up
  <2>4. \E c, d \in Conns : (queue = <<c>> \/ queue = <<c, d>>) /\ conn[c].kind = "POST"
    BY <1>1, <2>1, <2>3 DEF Unopened, PostOpened, BothOpened
  <2>5. conn[x].kind = "POST"
    BY <2>4, ShortQueues
  <2> QED
    BY <2>1, <2>5
<1>5. CASE pc["htc"] = "idle" /\ TunnelConnect
  <2>1. Unopened
    BY <1>1, <1>5 DEF PostOpened, BothOpened
  <2>2. /\ pc' = [pc EXCEPT !["htc"] = "write"] /\ UNCHANGED <<conn, queue, out, in>>
        /\ call'["htc"].msg.req = "OPEN"
    BY <1>1, <1>5 DEF TunnelConnect, Request, Goto, net, fds, Rest, Msg
  <2>3. Unopened'
    BY <1>1, <2>1, <2>2 DEF Unopened, Rest
  <2> QED
    BY <1>1, <2>2, <2>3 DEF Opening, Rest
<1>6. CASE pc["htc"] \in {"write", "send"} /\ OutConnect
  <2>1. /\ Unopened /\ pc["htc"] = "write" /\ call["htc"].msg.req = "OPEN"
        /\ pc' = [pc EXCEPT !["htc"] = "send"] /\ call' = call
    BY <1>1, <1>6 DEF Unopened, PostOpened, BothOpened, EndInv, OutConnect,
       Unconnected, Goto
  <2>2. PICK c \in Conns :
             /\ queue' = Append(queue, c) /\ conn'[c].kind = "POST" /\ in' = in
             /\ out' = [out EXCEPT !["htc"] = c]
    BY <1>6, ConnectNet DEF OpensOut
  <2>3. queue' = <<c>>
    BY <2>1, <2>2, ShortQueues DEF Unopened
  <2>4. PostOpened'
    BY <1>1, <2>1, <2>2, <2>3 DEF Unopened, PostOpened, Rest
  <2> QED
    BY <1>1, <2>1, <2>2, <2>4 DEF Opening, Rest
<1>7. CASE pc["htc"] = "send" /\ WriteRequest("htc")
  <2> DEFINE x == out["htc"]
  <2>1. PostOpened /\ call["htc"].msg.req = "OPEN" /\ x # None
    BY <1>1, <1>7 DEF Unopened, PostOpened, BothOpened, EndInv
  <2>2. call["htc"].next = "connect" /\ pc' = [pc EXCEPT !["htc"] = "connect"]
    <3>1. Busy("htc") /\ pc' = [pc EXCEPT !["htc"] = call["htc"].next]
      BY <1>7 DEF WriteRequest, Return, Goto, Busy
    <3> QED
      BY <1>1, <2>1, <3>1, CallsStep
  <2>3. /\ x \in Conns /\ UNCHANGED <<queue, in>>
        /\ \A d \in Conns \ {x} : conn'[d] = conn[d]
        /\ conn'[x].kind = conn[x].kind
        /\ \/ out' = out
           \/ "htc" \in ends /\ out' = [out EXCEPT !["htc"] = None]
    BY <1>1, <1>7, <2>1, WriteNet
  <2>4. \A d \in Conns : conn'[d].kind = conn[d].kind
    BY <2>3
  <2>5. "hts" \in ends' => out'["htc"] # None
    <3>1. "hts" \in ends => "htc" \notin ends
      BY <1>1, OneEnd
    <3> QED
      BY <1>1, <2>1, <2>3, <3>1
  <2>6. pc'["htc"] = "connect" /\ pc'["hts"] = "accept" /\ out'["hts"] = None
    BY <1>1, <2>2, <2>3 DEF Rest
  <2> HIDE DEF x
  <2>7. PostOpened'
    BY <2>1, <2>3, <2>4, <2>5, <2>6 DEF PostOpened
  <2> QED
    BY <2>6, <2>7 DEF Opening
<1>8. CASE pc["htc"] = "connect" /\ InConnect
  <2>1. PostOpened
    BY <1>1, <1>8 DEF Unopened, BothOpened, EndInv
  <2>2. PICK c \in Conns :
             /\ ~InQueue(queue, c)
             /\ queue' = Append(queue, c)
             /\ \A d : InQueue(queue', d) <=> InQueue(queue, d) \/ d = c
             /\ \A d \in Conns \ {c} : conn'[d] = conn[d]
             /\ conn'[c].kind = "GET" /\ out' = out
             /\ in' = [in EXCEPT !["htc"] = c]
    BY <1>8, ConnectNet DEF OpensIn
  <2>3. pc' = [pc EXCEPT !["htc"] = "response"]
    BY <1>8 DEF InConnect, Goto
  <2>4. /\ pc'["htc"] = "response" /\ pc'["hts"] = "accept" /\ out'["hts"] = None
        /\ in'["htc"] = c /\ in'["hts"] = in["hts"]
    BY <1>1, <2>2, <2>3 DEF Rest
  <2>5. \/ in["hts"] = None /\ \E b \in Conns : queue' = <<b, c>> /\ conn'[b].kind = "POST"
        \/ in["hts"] # None /\ queue' = <<c>>
    <3>1. CASE in["hts"] = None
      <4>1. PICK b \in Conns : queue = <<b>> /\ conn[b].kind = "POST"
        BY <2>1, <3>1 DEF PostOpened
      <4>2. queue' = <<b, c>> /\ b # c
        BY <2>2, <4>1, ShortQueues
      <4> QED
        BY <2>2, <3>1, <4>1, <4>2
    <3>2. CASE in["hts"] # None
      BY <2>1, <2>2, <3>2, ShortQueues DEF PostOpened
    <3> QED
      BY <3>1, <3>2
  <2>6. BothOpened'
    BY <1>1, <1>8, <2>1, <2>2, <2>4, <2>5 DEF BothOpened, PostOpened
  <2> QED
    BY <2>4, <2>6 DEF Opening
<1> QED
  BY <1>2, <1>3, <1>4, <1>5, <1>6, <1>7, <1>8, OpeningSteps

\* An end that has closed what it writes to reads no more, then is done.
LEMMA EndedStep ==
    ASSUME TypeInv, PathInv, OneDirection, [Next]_vars, ~TunnelConnect,
           pc["htc"] \in {"drain", "idle"}
    PROVE  pc'["htc"] \in {"drain", "idle"}
<1>1. /\ Rest /\ "htc" \in End /\ "hts" \in End /\ End = {"htc", "hts"}
  BY DEF TypeInv, End
<1>2. CASE DrainDone("htc") \/ DrainMore("htc")
  BY <1>1, <1>2 DEF DrainDone, DrainMore, Goto, control, Rest
<1>3. /\ ~Writes("htc") /\ ~TunnelReady("htc") /\ ~Reads("htc") /\ ~KeepAlive("htc")
      /\ ~TunnelClose("htc") /\ ~Disconnect("htc") /\ ~DeviceInput("htc")
      /\ ~DeviceCloses("htc") /\ ~ReadUnwritten("htc")
      /\ ~OutConnect /\ ~InConnect /\ ~Answered /\ ~AnswerFails /\ ~NotAnswered /\ ~Exit
      /\ ~OutConnectFails /\ ~PostFails /\ ~InConnectFails /\ ~GetFails /\ ~AnswerLost
  BY DEF Writes, WriteRequest, WriteLost, WriteEPIPE, WriteFails, Writing, TunnelReady,
     Reads, ReadDisconnect, ReadRequest, Reading, KeepAlive, Polling, TunnelClose,
     Disconnect, DeviceInput, DeviceCloses, ReadUnwritten, OutConnect, InConnect,
     Answered, AnswerFails, NotAnswered, Exit, OutConnectFails, PostFails,
     InConnectFails, GetFails, AnswerLost, Unconnected, Connecting, AwaitsAnswer
<1>4. ASSUME \/ Writes("hts") \/ TunnelReady("hts") \/ Reads("hts") \/ KeepAlive("hts")
             \/ Closes("hts") \/ DeviceInput("hts") \/ DeviceCloses("hts")
             \/ ReadUnwritten("hts")
      PROVE  pc'["htc"] = pc["htc"]
  BY <1>1, <1>4 DEF Writes, WriteRequest, WriteLost, WriteEPIPE, WriteFails,
     RequestFails, Return, TunnelReady, Reads, ReadDisconnect, ReadRequest, KeepAlive,
     Closes, TunnelClose, Disconnect, DrainMore, DrainDone, DeviceInput, DeviceCloses,
     ReadUnwritten, Goto, Request, control, Rest
<1>5. ASSUME \/ OutAccept \/ AcceptPost \/ AcceptGet \/ AcceptReturns \/ ReadAccept
             \/ ReadAgain \/ AnswerGetFails \/ UNCHANGED vars
      PROVE  pc'["htc"] = pc["htc"]
  BY <1>1, <1>5 DEF OutAccept, AcceptPost, AcceptGet, AcceptReturns, ReadAccept,
     ReadAgain, AnswerGetFails, Goto, control, vars, Rest
<1>6. ASSUME AcceptFails PROVE pc'["htc"] = pc["htc"]
  <2>1. pc' = pc \/ \E l \in Points : pc' = [pc EXCEPT !["hts"] = l]
    BY <1>1, <1>6, AcceptFailsCases DEF control, Goto, RequestFails, Return, Rest, Points
  <2> QED
    BY <1>1, <2>1 DEF Rest
<1>7. ~CloseAged /\ ~CloseAgedFails /\ ~AcceptTimeout
  BY <1>1, OneSession DEF CloseAged, CloseAgedFails, AcceptTimeout
<1> QED
  BY <1>1, <1>2, <1>3, <1>4, <1>5, <1>6, <1>7, Zenon
     DEF Next, Environment, Fails, Runs, Closes

\* hts is either opening its tunnel or up, and then only GETs come.
LEMMA OpenStep ==
    ASSUME TypeInv, TypeInv', PathInv, OneDirection, [Next]_vars
    PROVE  OpenInv'
<1> SUFFICES ASSUME Hears("hts")' PROVE OpenInv'
  BY DEF OpenInv
<1>1. /\ Hears("hts") /\ OpenInv /\ Rest /\ Rest' /\ EndInv("htc")
      /\ "htc" \in End /\ "hts" \in End /\ End = {"htc", "hts"}
      /\ None \notin Conns /\ ends' = ends
      /\ out \in [End -> Conns \cup {None}] /\ in \in [End -> Conns \cup {None}]
      /\ conn \in [Conns -> Connections] /\ queue \in Seq(Conns)
  <2>1. "htc" \in End /\ "hts" \in End /\ End = {"htc", "hts"}
    BY DEF End
  <2> QED
    BY <2>1, HeardStep, NetFacts, Steady
       DEF PathInv, ControlInv, TypeInv, Descriptors
<1>2. ~Up' => Opening'
  BY <1>1, UpStays, OpeningStep DEF OpenInv
<1>3. ASSUME Up', "hts" \in ends'
      PROVE  /\ \A c \in Conns : InQueue(queue', c) => conn'[c].kind = "GET"
             /\ pc'["htc"] \in {"drain", "idle"} \/ out'["htc"] # None
  <2>1. "hts" \in ends /\ "htc" \notin ends
    BY <1>1, <1>3, OneEnd
  <2>2. CASE Up
    <3>1. /\ \A c \in Conns : InQueue(queue, c) => conn[c].kind = "GET"
          /\ pc["htc"] \in {"drain", "idle"} \/ out["htc"] # None
          /\ in["hts"] # None
      BY <1>1, <2>1, <2>2 DEF OpenInv, Up
    <3>2. pc["htc"] \in {"drain", "idle"} => pc'["htc"] \in {"drain", "idle"}
      <4>1. ~TunnelConnect
        <5>1. TunnelConnect => session["htc"] = 0
          BY <1>1, OneSession DEF TunnelConnect
        <5> QED
          BY <1>1, <3>1, <5>1 DEF PathInv, InputInv
      <4> QED
        BY <1>1, <4>1, EndedStep
    <3>3. ~OpensOut
      BY <3>1 DEF OpensOut, OutConnect, PostFails, Unconnected
    <3>4. ASSUME NEW c \in Conns, InQueue(queue', c) PROVE conn'[c].kind = "GET"
      <4> SUFFICES ASSUME conn'[c].kind = "POST" PROVE FALSE
        BY <3>4 DEF TypeInv, Descriptors, InQueue
      <4>1. Found(c)'
        BY <3>4 DEF Found, Place, InQueue
      <4>2. Found(c)
        BY <3>3, <4>1, FoundStep
      <4>3. c = in["hts"]
        BY <3>1, <4>2 DEF Found, Place, InQueue
      <4>4. InQueue(queue, c)
        <5>1. CASE OpensIn
          BY <3>1, <3>4, <4>3, <5>1, ConnectNet
        <5>2. CASE AcceptPost \/ AcceptGet \/ AnswerGetFails \/ AcceptFails
          BY <3>4, <5>2, TakeNet
        <5> QED
          BY <3>3, <3>4, <5>1, <5>2, FdsNext
      <4> QED
        BY <4>3, <4>4, NetFacts
    <3>5. pc'["htc"] \in {"drain", "idle"} \/ out'["htc"] # None
      <4>1. CASE out["htc"] # None
        <5>1. AcceptGet => out'["htc"] = out["htc"]
          BY <1>1, HeardStep DEF AcceptGet, SetOut
        <5>2. \/ AcceptGet \/ out'["htc"] = out["htc"]
              \/ WriteRequest("htc") /\ "htc" \in ends
              \/ WriteLost("htc") \/ WriteEPIPE("htc") \/ Disconnect("htc") \/ Exit
          BY <1>1, <3>3, LeavesOutput, Zenon
        <5>3. Disconnect("htc") => pc'["htc"] = "drain"
          BY <1>1 DEF Disconnect, Goto, Rest
        <5> QED
          BY <2>1, <4>1, <5>1, <5>2, <5>3, HeardStep
      <4> QED
        BY <3>1, <3>2, <4>1
    <3> QED
      BY <3>4, <3>5
  <2>3. CASE ~Up
    <3>1. Opening /\ in["hts"] = None /\ in'["hts"] # None
      BY <1>1, <1>3, <2>1, <2>3 DEF OpenInv, Up
    <3>2. AcceptPost
      <4>1. \/ UNCHANGED vars \/ AcceptPost \/ AcceptGet \/ TunnelConnect
            \/ OutConnect \/ WriteRequest("htc") \/ InConnect
        BY <3>1, OpeningSteps
      <4>2. OutConnect \/ InConnect => in'["hts"] = in["hts"]
        <5>1. ASSUME OutConnect \/ InConnect PROVE in'["hts"] = in["hts"]
          <6>1. PICK c \in Conns : in' = in \/ in' = [in EXCEPT !["htc"] = c]
            BY <5>1, ConnectNet DEF OpensOut, OpensIn
          <6> QED
            BY <1>1, <6>1
        <5> QED
          BY <5>1
      <4>3. UNCHANGED vars \/ AcceptGet \/ TunnelConnect \/ WriteRequest("htc")
              => in' = in
        BY DEF vars, fds, AcceptGet, TunnelConnect, WriteRequest
      <4> QED
        BY <3>1, <4>1, <4>2, <4>3
    <3>3. /\ queue # <<>> /\ queue' = Tail(queue) /\ conn' = conn /\ out' = out
      BY <3>1, <3>2, TakeNet
    <3>4. CASE PostOpened
      <4>1. PICK c \in Conns : queue = <<c>>
        BY <3>1, <3>4 DEF PostOpened
      <4>2. queue' = <<>> /\ \A d : ~InQueue(queue', d)
        BY <3>3, <4>1, ShortQueues, QueueLaws, EmptySeq
      <4>3. out["htc"] # None
        BY <1>1, <2>1, <3>2, <3>4 DEF PostOpened
      <4> QED
        BY <3>3, <4>2, <4>3
    <3>5. CASE BothOpened
      <4>1. PICK c \in Conns, d \in Conns : queue = <<c, d>> /\ conn[d].kind = "GET"
        BY <3>1, <3>5 DEF BothOpened
      <4>2. queue' = <<d>> /\ \A y : InQueue(queue', y) <=> y = d
        <5>1. queue' = <<d>>
          BY <3>3, <4>1, ShortQueues
        <5>2. \A y : InQueue(<<d>>, y) <=> y = d
          BY ShortQueues
        <5> QED
          BY <5>1, <5>2
      <4>3. out["htc"] # None
        BY <2>1, <3>5 DEF BothOpened
      <4> QED
        BY <3>3, <4>1, <4>2, <4>3
    <3> QED
      BY <3>1, <3>3, <3>4, <3>5 DEF Opening, Unopened
  <2> QED
    BY <2>2, <2>3
<1> QED
  BY <1>2, <1>3 DEF OpenInv

\* The invariant holds at the start,
LEMMA PathInit ==
    ASSUME Init, OneDirection
    PROVE  PathInv
<1>1. /\ conn = [c \in Conns |-> NoConn] /\ queue = <<>>
      /\ pc["htc"] = "idle" /\ pc["hts"] = "accept" /\ End = {"htc", "hts"}
      /\ \A e \in End : /\ call[e] = NoCall /\ out[e] = None /\ in[e] = None
                        /\ closed[e] = "no" /\ session[e] = 0 /\ sent[e] = 0
                        /\ got[e] = <<>>
      /\ rejected = FALSE /\ ~Waiting /\ \A e \in End : ~Busy(e)
  BY DEF Init, End, Waiting, Busy
<1>2. /\ NoConn.kind = "none" /\ \A c : ~InQueue(<<>>, c)
      /\ NoCall.msg.req = "PAD"
  <2>1. \A c : ~InQueue(<<>>, c)
    BY EmptySeq DEF InQueue
  <2> QED
    BY <2>1, NoConnType DEF NoCall, Msg
<1>3. ControlInv
  BY <1>1 DEF ControlInv, EndInv, HtcPoints, HtsPoints
<1>4. InputInv
  BY <1>1, <1>2 DEF InputInv
<1>5. ResetInv
  BY <1>1, NoConnType DEF ResetInv
<1>6. BodyInv
  BY <1>1, <1>2 DEF BodyInv, OutKind
<1>7. GetInv
  BY <1>1, <1>2 DEF GetInv
<1>8. PostInv
  BY <1>1 DEF PostInv
<1>9. FirstInv
  BY <1>1, <1>2 DEF FirstInv, Young
<1>10. OpenInv
  BY <1>1, <1>2 DEF OpenInv, Opening, Unopened, Up
<1>11. ClosingInv
  BY <1>1, <1>2 DEF ClosingInv, Found
<1>12. LinkInv /\ CalmInv
  BY <1>1, <1>2 DEF LinkInv, CalmInv
<1> QED
  BY <1>3, <1>4, <1>5, <1>6, <1>7, <1>8, <1>9, <1>10, <1>11, <1>12 DEF PathInv

\* and every step keeps it.
LEMMA PathStep ==
    ASSUME TypeInv, TypeInv', PathInv, OneDirection, [Next]_vars
    PROVE  PathInv'
<1>1. ControlInv'
  BY ControlStep DEF PathInv
<1> QED
  BY <1>1, InputStep, ResetStep, BodyStep, GetStep, PostStep, FirstStep, OpenStep,
     ClosingStep, LinkStep, CalmStep
     DEF PathInv

\* In one tunnel, of whose two directions at most one replaces its bodies, hts
\* takes every connection that htc opens until an end begins to close.
THEOREM NeverRejectedCorrect == OneDirection => (Spec => []NeverRejected)
<1> SUFFICES ASSUME OneDirection PROVE Spec => []NeverRejected
  OBVIOUS
<1>1. Init => TypeInv /\ PathInv
  BY TypeInit, PathInit
<1>2. TypeInv /\ PathInv /\ [Next]_vars => (TypeInv /\ PathInv)'
  <2>1. TypeInv /\ [Next]_vars => TypeInv'
    BY DescriptorsNext, RestNext DEF TypeInv
  <2> QED
    BY <2>1, PathStep
<1>3. PathInv => NeverRejected
  BY DEF PathInv, CalmInv, NeverRejected
<1> QED
  BY <1>1, <1>2, <1>3, PTL DEF Spec

-----------------------------------------------------------------------------
(***************************************************************************)
(* What is under way in one tunnel.                                        *)
(***************************************************************************)
\* An end has written TUNNEL_CLOSE, if it writes it at all.
Quit(e) ==
    session[e] # 0 /\ pc[e] \in {"disconnect", "drain", "idle", "accept"}

\* A chunk comes before the end of its body and of its tunnel.
Tidy(w) ==
    \A l \in 1..Len(w) : w[l].req = "DATA" =>
        /\ w[l] = Chunk(w[l].n) /\ w[l].n > 0
        /\ \A k \in 1..(l - 1) : w[k].req \notin {"CLOSE", "DISCONNECT"}

ChunkInv ==
    /\ \A e \in End : call[e].msg.req = "DATA" => sent[e] > 0
    /\ \A c \in Conns : Tidy(conn[c].wire)
    /\ \A e \in End : \A k \in 1..Len(got[e]) : got[e][k] = <<1, k>>

\* What htc has written to two connections that hts reads one after the other
CloseInv ==
    /\ \A e \in End, c \in Conns :
         conn[c].kind = OutKind(e) /\ Has(conn[c].wire, "CLOSE") => Quit(e)
    /\ \A c, d \in Conns :
         /\ conn[c].kind = "POST" /\ conn[d].kind = "POST"
         /\ Earlier(queue, in, c, d) /\ Has(conn[c].wire, "CLOSE")
         => ~Has(conn[d].wire, "DATA")

Holds(w, k) == \E l \in 1..Len(w) : w[l] = Chunk(k)

\* A chunk is being written, or is in a connection that its reader gets to.
Carried(e, k) ==
    \/ call[Peer(e)].msg = Chunk(k)
    \/ \E c \in Conns : Source(e, conn, queue, in, c) /\ Holds(conn[c].wire, k)

\* The last one may be lost in the error for which an end closes.
LossInv ==
    \A e \in End : Hears(e) =>
        \A k \in (Len(got[e]) + 1)..sent[Peer(e)] :
            Carried(e, k) \/ (closed[Peer(e)] = "error" /\ k = sent[Peer(e)])

ChunksInv == ChunkInv /\ CloseInv /\ LossInv
-----------------------------------------------------------------------------
\* What is left of a tidy content is tidy, and so is what a writer adds to it.
LEMMA TidyLaws ==
    ASSUME NEW w \in Seq(Msgs), Tidy(w)
    PROVE  /\ \A v : Less(v, w) => Tidy(v)
           /\ \A m \in Msgs :
                \/ m.req # "DATA"
                \/ /\ m = Chunk(m.n) /\ m.n > 0
                   /\ ~Has(w, "CLOSE") /\ ~Has(w, "DISCONNECT")
                => Tidy(Append(w, m))
<1>1. Len(w) \in Nat
  BY LenProperties
<1>2. ASSUME NEW v, Less(v, w) PROVE Tidy(v)
  <2>1. CASE v = <<>>
    BY <2>1, EmptySeq DEF Tidy
  <2>2. CASE w # <<>> /\ v = Tail(w)
    <3>1. /\ Len(w) > 0 /\ Len(v) = Len(w) - 1
          /\ \A k \in 1..Len(v) : v[k] = w[k + 1] /\ k + 1 \in 1..Len(w)
      BY <1>1, <2>2, HeadTailProperties, EmptySeq
    <3>2. ASSUME NEW l \in 1..Len(v), v[l].req = "DATA"
          PROVE  /\ v[l] = Chunk(v[l].n) /\ v[l].n > 0
                 /\ \A k \in 1..(l - 1) : v[k].req \notin {"CLOSE", "DISCONNECT"}
      <4>1. l + 1 \in 1..Len(w) /\ v[l] = w[l + 1]
        BY <3>1
      <4>2. \A k \in 1..l : w[k].req \notin {"CLOSE", "DISCONNECT"}
        BY <3>2, <4>1 DEF Tidy
      <4>3. \A k \in 1..(l - 1) : v[k] = w[k + 1] /\ k + 1 \in 1..l
        BY <1>1, <3>1
      <4> QED
        BY <3>2, <4>1, <4>2, <4>3 DEF Tidy
    <3> QED
      BY <3>2 DEF Tidy
  <2> QED
    BY <1>2, <2>1, <2>2 DEF Less
<1>3. ASSUME NEW m \in Msgs,
             \/ m.req # "DATA"
             \/ /\ m = Chunk(m.n) /\ m.n > 0
                /\ ~Has(w, "CLOSE") /\ ~Has(w, "DISCONNECT")
      PROVE  Tidy(Append(w, m))
  <2> DEFINE v == Append(w, m)
  <2>1. /\ Len(v) = Len(w) + 1 /\ v[Len(w) + 1] = m
        /\ \A k \in 1..Len(w) : v[k] = w[k]
    BY AppendProperties
  <2> HIDE DEF v
  <2>2. ASSUME NEW l \in 1..Len(v), v[l].req = "DATA"
        PROVE  /\ v[l] = Chunk(v[l].n) /\ v[l].n > 0
               /\ \A k \in 1..(l - 1) : v[k].req \notin {"CLOSE", "DISCONNECT"}
    <3>1. CASE l \in 1..Len(w)
      <4>1. \A k \in 1..(l - 1) : v[k] = w[k]
        BY <1>1, <2>1, <3>1
      <4> QED
        BY <2>1, <2>2, <3>1, <4>1 DEF Tidy
    <3>2. CASE l = Len(w) + 1
      <4>1. \A k \in 1..(l - 1) : v[k] = w[k] /\ k \in 1..Len(w)
        BY <1>1, <2>1, <3>2
      <4> QED
        BY <1>3, <2>1, <2>2, <3>2, <4>1 DEF Has
    <3> QED
      BY <1>1, <2>1, <3>1, <3>2
  <2> QED
    BY <2>2 DEF Tidy, v
<1> QED
  BY <1>2, <1>3

\* After TUNNEL_CLOSE an end has no tunnel any more.
LEMMA QuitStep ==
    ASSUME TypeInv, PathInv, OneDirection, [Next]_vars, NEW e \in End, Quit(e)
    PROVE  Quit(e)' /\ call'[e] = call[e] /\ ~Writing(e)
<1>1. /\ Rest /\ \A f \in End : EndInv(f) /\ session[f] \in {0, 1}
      /\ Sessions = 1 /\ ~Ages /\ ~Timeouts /\ End = {"htc", "hts"}
  BY OneSession DEF TypeInv, PathInv, ControlInv, End
<1>2. /\ session[e] = 1 /\ ~Writing(e) /\ ~Polling(e) /\ ~Reading(e)
      /\ pc[e] \in {"disconnect", "drain", "idle", "accept"}
      /\ e = "htc" => pc[e] # "accept"
      /\ e = "hts" => pc[e] # "idle"
  BY <1>1 DEF Quit, Writing, Polling, Reading, EndInv, HtcPoints, HtsPoints
<1> DEFINE Goal == Quit(e)' /\ call'[e] = call[e]
<1> SUFFICES Goal
  BY <1>2
<1> HIDE DEF Goal
<1>3. ASSUME NEW f \in End, f # e, NEW l, pc' = [pc EXCEPT ![f] = l],
             \A g \in End \ {f} : call'[g] = call[g] /\ session'[g] = session[g]
      PROVE  Goal
  BY <1>1, <1>3 DEF Goal, Quit, Rest
<1>4. ASSUME pc' = pc, call' = call, session' = session PROVE Goal
  BY <1>4 DEF Goal, Quit
<1>5. ASSUME NEW f \in End, Writes(f) PROVE Goal
  <2>1. f # e
    BY <1>2, <1>5 DEF Writes, WriteRequest, WriteLost, WriteEPIPE, WriteFails
  <2>2. /\ session' = session
        /\ \E l : Goto(f, l)
        /\ call' = call \/ call' = [call EXCEPT ![f] = NoCall]
    BY <1>5 DEF Writes, WriteRequest, WriteLost, WriteEPIPE, WriteFails,
       RequestFails, Return, history
  <2> QED
    BY <1>1, <1>3, <2>1, <2>2 DEF Goto, Rest
<1>6. ASSUME NEW f \in End,
             \/ TunnelReady(f) \/ DeviceCloses(f) \/ DeviceInput(f) \/ KeepAlive(f)
             \/ TunnelClose(f) \/ Reads(f) \/ ReadUnwritten(f)
      PROVE  Goal
  <2>1. f # e
    BY <1>2, <1>6 DEF TunnelReady, DeviceCloses, DeviceInput, KeepAlive,
       TunnelClose, Reads, ReadRequest, ReadDisconnect, ReadUnwritten, Polling, Reading
  <2>2. /\ session' = session
        /\ \E l : Goto(f, l)
        /\ call' = call \/ \E x : call' = [call EXCEPT ![f] = x]
    BY <1>6 DEF TunnelReady, DeviceCloses, DeviceInput, KeepAlive,
       TunnelClose, Reads, ReadRequest, ReadDisconnect, ReadUnwritten, Request, history
  <2> QED
    BY <1>1, <1>3, <2>1, <2>2 DEF Goto, Rest
<1>7. ASSUME NEW f \in End, Disconnect(f) \/ DrainDone(f) PROVE Goal
  <2>1. /\ session' = session /\ call' = call
        /\ \E l \in {"drain", "idle", "accept"} : Goto(f, l)
    BY <1>7 DEF Disconnect, DrainDone, history
  <2> QED
    BY <1>1, <1>2, <2>1 DEF Goal, Quit, Goto, Rest
<1>8. CASE \/ AcceptPost \/ AcceptGet \/ (\E f \in End : DrainMore(f)) \/ UNCHANGED vars
  BY <1>4, <1>8 DEF AcceptPost, AcceptGet, DrainMore, control, history, vars
<1>9. CASE OutConnect \/ InConnect \/ Answered \/ NotAnswered \/ AnswerFails \/ Exit
             \/ OutConnectFails \/ PostFails \/ InConnectFails \/ GetFails
  <2>1. e = "hts"
    BY <1>1, <1>2, <1>9 DEF OutConnect, InConnect, Answered, NotAnswered, AnswerFails,
       Exit, OutConnectFails, PostFails, InConnectFails, GetFails, Unconnected,
       Connecting, AwaitsAnswer, Writing
  <2>2. /\ session' = session /\ \E l : Goto("htc", l)
        /\ call' = call \/ call' = [call EXCEPT !["htc"] = NoCall]
    BY <1>9 DEF OutConnect, InConnect, Answered, NotAnswered, AnswerFails, Exit,
       OutConnectFails, PostFails, InConnectFails, GetFails, InFails, RequestFails,
       Return, Fault, history
  <2> QED
    BY <1>1, <1>3, <2>1, <2>2 DEF Goto, Rest
<1>10. CASE OutAccept \/ ReadAccept \/ ReadAgain
  <2>1. e = "htc"
    BY <1>1, <1>2, <1>10 DEF OutAccept, ReadAccept, ReadAgain, Reading, Writing
  <2>2. /\ session' = session /\ call' = call /\ \E l : Goto("hts", l)
    BY <1>10 DEF OutAccept, ReadAccept, ReadAgain, history
  <2> QED
    BY <1>1, <1>3, <2>1, <2>2 DEF Goto
<1>11. CASE AcceptReturns
  <2>1. e = "htc"
    BY <1>1, <1>2, <1>11 DEF AcceptReturns, Accepting
  <2>2. /\ session'["htc"] = session["htc"] /\ call' = call /\ \E l : Goto("hts", l)
    BY <1>1, <1>11 DEF AcceptReturns, BeginSession, history, Rest
  <2> QED
    BY <1>1, <1>3, <2>1, <2>2 DEF Goto
<1>12. CASE TunnelConnect
  <2>1. e = "hts"
    BY <1>1, <1>2, <1>12 DEF TunnelConnect
  <2>2. /\ session'["hts"] = session["hts"] /\ call'["hts"] = call["hts"]
        /\ pc' = [pc EXCEPT !["htc"] = "write"]
    BY <1>1, <1>12 DEF TunnelConnect, BeginSession, Request, Goto, Rest
  <2> QED
    BY <1>1, <1>3, <2>1, <2>2
<1>13. CASE AcceptFails
  <2>1. CASE pc["hts"] = "accept" /\ session["hts"] < Sessions
    <3>1. e = "htc"
      BY <1>1, <1>2, <2>1
    <3>2. \/ BeginSession("hts") /\ Goto("hts", "poll") /\ UNCHANGED call
          \/ UNCHANGED <<control, history>>
      BY <1>13, <2>1, AcceptFailsCases
    <3>3. /\ session'["htc"] = session["htc"] /\ call' = call
          /\ pc' = pc \/ pc' = [pc EXCEPT !["hts"] = "poll"]
      BY <1>1, <3>2 DEF BeginSession, Goto, control, history, Rest
    <3>4. pc'["htc"] = pc["htc"]
      BY <1>1, <3>3 DEF Rest
    <3> QED
      BY <3>1, <3>3, <3>4 DEF Goal, Quit
  <2>2. CASE ~(pc["hts"] = "accept" /\ session["hts"] < Sessions)
    <3>1. /\ session' = session
          /\ \/ pc' = pc /\ call' = call
             \/ /\ pc["hts"] \in {"acceptIn", "acceptOut", "acceptWrite"}
                /\ \E l : pc' = [pc EXCEPT !["hts"] = l]
                /\ call' = call \/ call' = [call EXCEPT !["hts"] = NoCall]
      BY <1>13, <2>2, AcceptFailsCases DEF control, history, RequestFails, Return, Goto
    <3>2. CASE pc' = pc /\ call' = call
      BY <1>4, <3>1, <3>2
    <3>3. CASE pc["hts"] \in {"acceptIn", "acceptOut", "acceptWrite"}
      <4>1. e = "htc"
        BY <1>1, <1>2, <3>3
      <4> QED
        BY <1>1, <1>3, <3>1, <3>2, <4>1 DEF Rest
    <3> QED
      BY <3>1, <3>2, <3>3
  <2> QED
    BY <2>1, <2>2
<1>14. CASE AnswerLost \/ AnswerGetFails
  <2>1. CASE AnswerLost
    BY <1>4, <2>1 DEF AnswerLost, control, Fault
  <2>2. CASE AnswerGetFails
    BY <1>4, <2>2 DEF AnswerGetFails, control, Fault
  <2> QED
    BY <1>14, <2>1, <2>2
<1>15. ~CloseAged /\ ~CloseAgedFails /\ ~AcceptTimeout
  BY <1>1 DEF CloseAged, CloseAgedFails, AcceptTimeout
<1> QED
  BY <1>5, <1>6, <1>7, <1>8, <1>9, <1>10, <1>11, <1>12, <1>13, <1>14, <1>15, Zenon
     DEF Next, Environment, Fails, Runs, Closes

\* A call ends when its request has been written or lost, and only what an end
\* reads comes to its device.
LEMMA CallStep ==
    ASSUME Rest, Rest', ControlInv, OneDirection, [Next]_vars, NEW e \in End
    PROVE  /\ call'[e].msg.req = "DATA" =>
                DeviceInput(e) \/ (call'[e] = call[e] /\ sent'[e] = sent[e])
           /\ sent'[e] = sent[e] \/ DeviceInput(e)
           /\ call[e].msg.req = "DATA" =>
                \/ call'[e] = call[e] \/ WriteRequest(e) \/ WriteLost(e)
                \/ RequestFails(e)
           /\ got'[e] = got[e] \/ ReadRequest(e)
<1> DEFINE Goal ==
      /\ call'[e].msg.req = "DATA" =>
           DeviceInput(e) \/ (call'[e] = call[e] /\ sent'[e] = sent[e])
      /\ sent'[e] = sent[e] \/ DeviceInput(e)
      /\ call[e].msg.req = "DATA" =>
           call'[e] = call[e] \/ WriteRequest(e) \/ WriteLost(e) \/ RequestFails(e)
      /\ got'[e] = got[e] \/ ReadRequest(e)
<1> SUFFICES Goal
  OBVIOUS
<1> HIDE DEF Goal
<1>1. /\ \A f \in End : session[f] \in {0, 1} /\ EndInv(f)
      /\ Sessions = 1 /\ ~Ages /\ ~Timeouts /\ End = {"htc", "hts"}
      /\ NoCall.msg.req = "PAD" /\ \A r : Msg(r).req = r
  BY OneSession DEF ControlInv, End, NoCall, Msg
<1>2. ASSUME call'[e] = call[e], sent'[e] = sent[e], got'[e] = got[e] PROVE Goal
  BY <1>2 DEF Goal
<1>3. ASSUME NEW f \in End, Writes(f) PROVE Goal
  <2>1. UNCHANGED <<sent, got>> /\ (call' = call \/ call' = [call EXCEPT ![f] = NoCall])
    BY <1>3 DEF Writes, WriteRequest, WriteLost, WriteEPIPE, WriteFails,
       RequestFails, Return, history
  <2>2. CASE f = e
    <3>1. call' = call \/ WriteRequest(f) \/ WriteLost(f) \/ RequestFails(f)
      BY <1>3 DEF Writes, WriteEPIPE, WriteFails
    <3> QED
      BY <1>1, <2>1, <2>2, <3>1 DEF Goal, Rest
  <2>3. CASE f # e
    BY <1>2, <2>1, <2>3 DEF Rest
  <2> QED
    BY <2>2, <2>3
<1>4. ASSUME NEW f \in End, NEW m, NEW l, Request(f, m, l), ~Busy(f),
             UNCHANGED <<sent, got>>, m.req # "DATA"
      PROVE  Goal
  <2>1. call' = [call EXCEPT ![f] = [msg |-> m, next |-> l]] /\ call[f] = NoCall
    BY <1>1, <1>4 DEF Request, EndInv
  <2>2. f = e => call'[e].msg = m /\ call[e] = NoCall
    BY <2>1 DEF Rest
  <2>3. f # e => call'[e] = call[e]
    BY <2>1 DEF Rest
  <2> QED
    BY <1>1, <1>4, <2>2, <2>3 DEF Goal
<1>5. ASSUME NEW f \in End, DeviceInput(f) PROVE Goal
  <2>1. /\ ~Busy(f) /\ got' = got
        /\ \A g \in End \ {f} : call'[g] = call[g] /\ sent'[g] = sent[g]
    BY <1>5 DEF DeviceInput, Request, Polling, Busy, Rest
  <2>2. call[f] = NoCall
    BY <1>1, <2>1 DEF EndInv
  <2> QED
    BY <1>1, <1>2, <1>5, <2>1, <2>2 DEF Goal
<1>6. ASSUME NEW f \in End, KeepAlive(f) \/ TunnelClose(f) PROVE Goal
  <2>1. ~Busy(f) /\ UNCHANGED <<sent, got>>
    BY <1>6 DEF KeepAlive, TunnelClose, Polling, Busy, history
  <2>2. \/ Request(f, Msg("PAD"), "poll") \/ Request(f, Msg("CLOSE"), "disconnect")
        \/ call' = call
    BY <1>6 DEF KeepAlive, TunnelClose
  <2> QED
    BY <1>1, <1>2, <1>4, <2>1, <2>2
<1>7. ASSUME NEW f \in End, ReadRequest(f) PROVE Goal
  <2>1. /\ UNCHANGED <<call, sent>>
        /\ got' = got \/ \E x : got' = [got EXCEPT ![f] = x]
    BY <1>7 DEF ReadRequest
  <2>2. CASE f = e
    BY <1>7, <2>1, <2>2 DEF Goal
  <2>3. CASE f # e
    BY <1>2, <2>1, <2>3 DEF Rest
  <2> QED
    BY <2>2, <2>3
<1>8. ASSUME NEW f \in End,
             \/ TunnelReady(f) \/ DeviceCloses(f) \/ ReadUnwritten(f)
             \/ ReadDisconnect(f) \/ Disconnect(f) \/ DrainMore(f) \/ DrainDone(f)
      PROVE  Goal
  BY <1>2, <1>8 DEF TunnelReady, DeviceCloses, ReadUnwritten, ReadDisconnect,
     Disconnect, DrainMore, DrainDone, control, history
<1>9. CASE \/ AcceptPost \/ AcceptGet \/ OutConnect \/ InConnect \/ Answered
           \/ NotAnswered \/ AnswerFails \/ Exit \/ OutAccept \/ ReadAccept \/ ReadAgain
           \/ InConnectFails \/ GetFails \/ AnswerLost \/ AnswerGetFails \/ UNCHANGED vars
  BY <1>2, <1>9 DEF AcceptPost, AcceptGet, OutConnect, InConnect, Answered,
     NotAnswered, AnswerFails, Exit, OutAccept, ReadAccept, ReadAgain, InConnectFails,
     GetFails, InFails, AnswerLost, AnswerGetFails, Fault, control, history, vars
<1>10. CASE AcceptReturns
  <2>1. CASE BeginSession("hts") /\ session["hts"] < Sessions
    <3>1. sent["hts"] = 0 /\ got["hts"] = <<>>
      BY <1>1, <2>1 DEF EndInv
    <3>2. /\ sent' = [sent EXCEPT !["hts"] = 0]
          /\ got' = [got EXCEPT !["hts"] = <<>>] /\ call' = call
      BY <1>10, <2>1 DEF AcceptReturns, BeginSession
    <3> QED
      BY <1>1, <1>2, <3>1, <3>2 DEF Rest
  <2>2. CASE UNCHANGED <<closed, history>>
    BY <1>2, <1>10, <2>2 DEF AcceptReturns, history
  <2> QED
    BY <1>10, <2>1, <2>2 DEF AcceptReturns
<1>11. CASE TunnelConnect
  <2>1. session["htc"] = 0 /\ pc["htc"] = "idle"
    BY <1>1, <1>11 DEF TunnelConnect
  <2>2. sent["htc"] = 0 /\ got["htc"] = <<>> /\ ~Busy("htc")
    BY <1>1, <2>1 DEF EndInv, Busy
  <2>3. sent' = sent /\ got' = got
    BY <1>1, <1>11, <2>2 DEF TunnelConnect, BeginSession, Rest
  <2> QED
    BY <1>1, <1>4, <1>11, <2>2, <2>3 DEF TunnelConnect
<1>12. ASSUME NEW f \in End, RequestFails(f), UNCHANGED <<sent, got>> PROVE Goal
  <2>1. call' = [call EXCEPT ![f] = NoCall]
    BY <1>12 DEF RequestFails, Return
  <2>2. CASE f = e
    BY <1>1, <1>12, <2>1, <2>2 DEF Goal, Rest
  <2>3. CASE f # e
    BY <1>2, <1>12, <2>1, <2>3 DEF Rest
  <2> QED
    BY <2>2, <2>3
<1>13. CASE OutConnectFails \/ PostFails
  BY <1>1, <1>12, <1>13 DEF OutConnectFails, PostFails, Fault
<1>14. CASE AcceptFails
  <2>1. CASE BeginSession("hts") /\ session["hts"] < Sessions /\ UNCHANGED call
    <3>1. sent["hts"] = 0 /\ got["hts"] = <<>>
      BY <1>1, <2>1 DEF EndInv
    <3>2. sent' = [sent EXCEPT !["hts"] = 0] /\ got' = [got EXCEPT !["hts"] = <<>>]
      BY <2>1 DEF BeginSession
    <3> QED
      BY <1>1, <1>2, <2>1, <3>1, <3>2 DEF Rest
  <2>2. CASE UNCHANGED <<call, history>>
    BY <1>2, <2>2 DEF history
  <2>3. CASE RequestFails("hts") /\ UNCHANGED history
    BY <1>1, <1>12, <2>3 DEF history
  <2> QED
    BY <1>14, <2>1, <2>2, <2>3, AcceptFailsCases DEF control
<1>15. ~CloseAged /\ ~CloseAgedFails /\ ~AcceptTimeout
  BY <1>1 DEF CloseAged, CloseAgedFails, AcceptTimeout
<1> QED
  BY <1>3, <1>5, <1>6, <1>7, <1>8, <1>9, <1>10, <1>11, <1>13, <1>14, <1>15, Zenon
     DEF Next, Environment, Fails, Runs, Reads, Closes

\* What is written is tidy, and goes to the last connection of the writer.
LEMMA WritesTidy ==
    ASSUME TypeInv, PathInv, ChunkInv, CloseInv, NEW e \in End, WriteRequest(e)
    PROVE  /\ call[e].msg \in Msgs /\ call[e].msg.req # "DISCONNECT"
           /\ out[e] \in Conns /\ conn[out[e]].wire \in Seq(Msgs)
           /\ conn[out[e]].kind = OutKind(e)
           /\ ~Quit(e)
           /\ Tidy(Append(conn[out[e]].wire, call[e].msg))
           /\ Tidy(Append(Append(conn[out[e]].wire, call[e].msg), Msg("DISCONNECT")))
<1> DEFINE c == out[e]  m == call[e].msg  w == conn[c].wire
<1>1. /\ Writing(e) /\ c # None /\ EndInv(e) /\ Rest
  BY DEF WriteRequest, PathInv, ControlInv, TypeInv
<1>2. /\ c \in Conns /\ w \in Seq(Msgs) /\ conn[c].kind = OutKind(e)
      /\ m \in Msgs /\ Msg("DISCONNECT") \in Msgs /\ Msg("DISCONNECT").req = "DISCONNECT"
  BY <1>1, NetFacts, MsgType
<1>3. Busy(e) /\ ~Quit(e)
  BY <1>1 DEF Writing, Busy, Quit
<1>4. /\ m.req # "DISCONNECT"
      /\ m.req = "DATA" => m = Chunk(sent[e]) /\ sent[e] > 0
  BY <1>1, <1>3, CallsStep DEF ChunkInv
<1>5. ~Has(w, "CLOSE") /\ ~Has(w, "DISCONNECT") /\ Tidy(w)
  BY <1>1, <1>2, <1>3 DEF CloseInv, PathInv, BodyInv, ChunkInv
<1>6. \A k : Chunk(k).n = k
  BY DEF Chunk
<1> HIDE DEF c, m, w
<1>7. Tidy(Append(w, m))
  BY <1>2, <1>4, <1>5, <1>6, TidyLaws
<1>8. Append(w, m) \in Seq(Msgs)
  BY <1>2, AppendProperties
<1>9. Tidy(Append(Append(w, m), Msg("DISCONNECT")))
  BY <1>2, <1>7, <1>8, TidyLaws
<1> QED
  BY <1>2, <1>3, <1>4, <1>7, <1>9 DEF c, m, w

\* What an end reads is the first that is under way to it.
LEMMA ReadingFacts ==
    ASSUME TypeInv, PathInv, OrderInv, ChunkInv, OneDirection,
           NEW e \in End, Reading(e), NEW c, c = in[e]
    PROVE  /\ Hears(e) \/ (e = "hts" /\ Cut)
           /\ c \in Conns /\ Peer(e) \in End
           /\ conn[c].kind = OutKind(Peer(e))
           /\ conn[c].wire \in Seq(Msgs) /\ Tidy(conn[c].wire)
           /\ Source(e, conn, queue, in, c)
           /\ WireOrder(conn[c].wire, got[e], call[Peer(e)].msg, Last[Peer(e)])
           /\ GotOrder(got[e], call[Peer(e)].msg, Last[Peer(e)])
           /\ \A d \in Conns : Source(e, conn, queue, in, d) /\ d # c =>
                /\ conn[c].kind = "POST" /\ conn[d].kind = "POST"
                /\ Earlier(queue, in, c, d) /\ Apart(conn[c].wire, conn[d].wire)
<1>1. /\ End = {"htc", "hts"} /\ Peer(e) \in End /\ c # None
      /\ InKind(e) = OutKind(Peer(e)) /\ InKind("hts") = "POST"
  BY DEF End, Peer, Reading, InKind, OutKind
<1>2. /\ c \in Conns /\ conn[c].kind = InKind(e) /\ conn[c].wire \in Seq(Msgs)
      /\ Tidy(conn[c].wire)
  BY <1>1, NetFacts DEF ChunkInv
<1>3. Hears(e) \/ (e = "hts" /\ Cut)
  BY <1>1 DEF Reading, Established, Hears, Attends, Doomed, Waiting
<1>4. Source(e, conn, queue, in, c)
  BY <1>1, <1>2 DEF Source, Place
<1>5. Pending[Peer(e)] = call[Peer(e)].msg
  BY <1>1 DEF Pending
<1>6. ASSUME NEW d \in Conns, Source(e, conn, queue, in, d), d # c
      PROVE  /\ conn[c].kind = "POST" /\ conn[d].kind = "POST"
             /\ Earlier(queue, in, c, d) /\ Apart(conn[c].wire, conn[d].wire)
  <2>1. e = "hts"
    BY <1>1, <1>6 DEF Source
  <2>2. /\ conn[c].kind = "POST" /\ conn[d].kind = "POST"
        /\ Earlier(queue, in, c, d)
    BY <1>1, <1>2, <1>6, <2>1 DEF Source, Place, Earlier
  <2> QED
    BY <1>2, <2>2 DEF OrderInv, Orders, ChainOrder
<1>7. /\ WireOrder(conn[c].wire, got[e], call[Peer(e)].msg, Last[Peer(e)])
      /\ GotOrder(got[e], call[Peer(e)].msg, Last[Peer(e)])
  BY <1>2, <1>4, <1>5 DEF OrderInv, Orders
<1> QED
  BY <1>1, <1>2, <1>3, <1>4, <1>6, <1>7

\* Nothing is received that was not sent.
LEMMA GotSent ==
    ASSUME Rest, OneDirection, ChunkInv, NEW e \in End, NEW p \in End, NEW m,
           GotOrder(got[e], m, Last[p])
    PROVE  /\ Len(got[e]) \in Nat /\ sent[p] \in Nat /\ Len(got[e]) <= sent[p]
           /\ \A k \in Nat : ~Precedes(Last[p], Item(Chunk(k))) => k <= sent[p]
<1>1. /\ session[p] \in {0, 1} /\ sent[p] \in Nat /\ got[e] \in Seq(Nat \X Nat)
      /\ Last[p] = <<session[p], sent[p]>>
  BY OneSession, LastType DEF Rest
<1>2. Len(got[e]) \in Nat
  BY <1>1, LenProperties
<1>3. \A k \in Nat : ~Precedes(Last[p], <<1, k>>) => k <= sent[p]
  BY <1>1 DEF Precedes
<1>4. \A k : Item(Chunk(k)) = <<1, k>>
  BY DEF Item, Chunk
<1>5. CASE Len(got[e]) > 0
  <2>1. Len(got[e]) \in 1..Len(got[e])
    BY <1>2, <1>5
  <2>2. got[e][Len(got[e])] = <<1, Len(got[e])>>
    BY <2>1 DEF ChunkInv
  <2>3. ~Precedes(Last[p], got[e][Len(got[e])])
    BY <2>1 DEF GotOrder
  <2> QED
    BY <1>1, <1>2, <1>3, <1>4, <2>2, <2>3
<1> QED
  BY <1>1, <1>2, <1>3, <1>4, <1>5

\* An end that reads hears of what was sent, or nothing was sent.
LEMMA ReadingHears ==
    ASSUME TypeInv, PathInv, OrderInv, ChunkInv, OneDirection, NEW e \in End, Reading(e)
    PROVE  Hears(e) \/ (sent[Peer(e)] = 0 /\ ~Quit(Peer(e)))
<1>1. Hears(e) \/ (e = "hts" /\ Cut)
  BY ReadingFacts
<1>2. CASE e = "hts" /\ Cut
  <2>1. EndInv("htc") /\ Peer("hts") = "htc"
    BY DEF PathInv, ControlInv, Peer, End
  <2> QED
    BY <1>2, <2>1 DEF Cut, EndInv, Quit
<1> QED
  BY <1>1, <1>2

\* The chunk that an end reads is the next one.
LEMMA NextChunk ==
    ASSUME TypeInv, PathInv, OrderInv, ChunksInv, OneDirection,
           NEW e \in End, Reading(e), conn[in[e]].wire # <<>>,
           Head(conn[in[e]].wire).req = "DATA"
    PROVE  /\ Head(conn[in[e]].wire) = Chunk(Len(got[e]) + 1)
           /\ Len(got[e]) \in Nat /\ sent[Peer(e)] \in Nat
           /\ Len(got[e]) < sent[Peer(e)]
<1> DEFINE c == in[e]  w == conn[c].wire  p == Peer(e)  g == Len(got[e])
           x == Head(w)  n == x.n
<1>1. /\ c \in Conns /\ p \in End /\ w \in Seq(Msgs) /\ Tidy(w)
      /\ WireOrder(w, got[e], call[p].msg, Last[p])
      /\ GotOrder(got[e], call[p].msg, Last[p])
      /\ \A d \in Conns : Source(e, conn, queue, in, d) /\ d # c =>
           Apart(w, conn[d].wire)
  BY ReadingFacts DEF ChunksInv
<1>2. /\ Len(w) \in Nat /\ 1 \in 1..Len(w) /\ x = w[1] /\ x \in Msgs
  BY <1>1, HeadTailProperties, EmptySeq, LenProperties, ElementOfSeq
<1>3. n \in Nat /\ n > 0 /\ x = Chunk(n) /\ x.req = "DATA"
  BY <1>1, <1>2 DEF Tidy, Msgs
<1>4. /\ \A k : Item(Chunk(k)) = <<1, k>> /\ Chunk(k).req = "DATA" /\ Chunk(k).n = k
      /\ \A k, l \in Nat : Precedes(<<1, k>>, <<1, l>>) => k < l
  BY DEF Item, Chunk, Precedes
<1>5. g \in Nat /\ sent[p] \in Nat /\ g <= sent[p] /\ n <= sent[p]
  <2>1. ~Precedes(Last[p], Item(Chunk(n)))
    BY <1>1, <1>2, <1>3 DEF WireOrder
  <2> QED
    BY <1>1, <1>3, <2>1, GotSent DEF TypeInv, ChunksInv
<1>6. g < n
  <2>1. CASE g > 0
    <3>1. g \in 1..g /\ got[e][g] = <<1, g>>
      BY <1>5, <2>1 DEF ChunksInv, ChunkInv
    <3>2. Precedes(got[e][g], Item(Chunk(n)))
      BY <1>1, <1>2, <1>3, <3>1 DEF WireOrder
    <3> QED
      BY <1>3, <1>4, <1>5, <3>1, <3>2
  <2> QED
    BY <1>3, <1>5, <2>1
<1> HIDE DEF c, w, p, g, n
<1>7. Hears(e)
  BY <1>3, <1>5, ReadingHears DEF ChunksInv, p
<1>8. ASSUME g + 1 < n PROVE FALSE
  <2>1. Carried(e, g + 1)
    <3>1. g + 1 \in (g + 1)..sent[p]
      BY <1>3, <1>5, <1>8
    <3> QED
      BY <1>3, <1>5, <1>8, <1>7, <3>1 DEF ChunksInv, LossInv, g, p
  <2>2. CASE call[p].msg = Chunk(g + 1)
    <3>1. Precedes(Item(Chunk(n)), Item(Chunk(g + 1)))
      BY <1>1, <1>2, <1>3, <1>4, <2>2 DEF WireOrder
    <3> QED
      BY <1>3, <1>4, <1>5, <1>8, <3>1
  <2>3. ASSUME NEW d \in Conns, Source(e, conn, queue, in, d),
               NEW l \in 1..Len(conn[d].wire), conn[d].wire[l] = Chunk(g + 1)
        PROVE  FALSE
    <3>1. Precedes(Item(Chunk(n)), Item(Chunk(g + 1)))
      <4>1. CASE d = c
        <5>1. w[l] = Chunk(g + 1) /\ l \in 1..Len(w)
          BY <2>3, <4>1 DEF w
        <5>2. l # 1
          BY <1>2, <1>3, <1>4, <1>5, <1>8, <5>1
        <5>3. 1 < l
          BY <1>2, <5>1, <5>2
        <5> QED
          BY <1>1, <1>2, <1>3, <1>4, <5>1, <5>3 DEF WireOrder, Increasing
      <4>2. CASE d # c
        BY <1>1, <1>2, <1>3, <1>4, <2>3, <4>2 DEF Apart
      <4> QED
        BY <4>1, <4>2
    <3> QED
      BY <1>3, <1>4, <1>5, <1>8, <3>1
  <2> QED
    BY <2>1, <2>2, <2>3 DEF Carried, Holds, p
<1>9. n = g + 1
  BY <1>3, <1>5, <1>6, <1>8
<1> QED
  BY <1>3, <1>5, <1>6, <1>9 DEF c, w, p, g

\* An end that hears of TUNNEL_CLOSE has received all that was sent to it.
LEMMA LastChunk ==
    ASSUME TypeInv, PathInv, OrderInv, ChunksInv, OneDirection,
           NEW e \in End, Reading(e), conn[in[e]].wire # <<>>,
           Head(conn[in[e]].wire).req = "CLOSE"
    PROVE  /\ closed[Peer(e)] # "no"
           /\ Len(got[e]) = sent[Peer(e)] \/ closed[Peer(e)] = "error"
<1> DEFINE c == in[e]  w == conn[c].wire  p == Peer(e)  g == Len(got[e])
<1>1. /\ c \in Conns /\ p \in End /\ w \in Seq(Msgs) /\ Tidy(w)
      /\ conn[c].kind = OutKind(p)
      /\ GotOrder(got[e], call[p].msg, Last[p])
      /\ \A d \in Conns : Source(e, conn, queue, in, d) /\ d # c =>
           /\ conn[c].kind = "POST" /\ conn[d].kind = "POST"
           /\ Earlier(queue, in, c, d)
  BY ReadingFacts DEF ChunksInv
<1>2. /\ Len(w) \in Nat /\ 1 \in 1..Len(w) /\ w[1].req = "CLOSE"
  BY <1>1, HeadTailProperties, EmptySeq, LenProperties
<1>3. Has(w, "CLOSE")
  BY <1>2 DEF Has
<1>4. Quit(p)
  BY <1>1, <1>3 DEF ChunksInv, CloseInv
<1>5. EndInv(p) /\ Chunk(g + 1).req = "DATA" /\ NoCall.msg.req = "PAD"
  BY <1>1 DEF PathInv, ControlInv, Chunk, NoCall, Msg
<1>6. closed[p] # "no" /\ call[p].msg # Chunk(g + 1)
  <2>1. ~Busy(p)
    BY <1>4 DEF Quit, Busy
  <2>2. call[p] = NoCall
    BY <1>5, <2>1 DEF EndInv
  <2>3. closed[p] # "no"
    BY <1>4, <1>5 DEF EndInv, Quit
  <2> QED
    BY <1>5, <2>2, <2>3
<1>7. g \in Nat /\ sent[p] \in Nat /\ g <= sent[p]
  BY <1>1, GotSent DEF TypeInv, ChunksInv
<1> HIDE DEF c, w, p, g
<1>8. Hears(e)
  BY <1>4, ReadingHears DEF ChunksInv, p
<1>9. ASSUME g < sent[p], closed[p] # "error" PROVE FALSE
  <2>1. Carried(e, g + 1)
    <3>1. g + 1 \in (g + 1)..sent[p]
      BY <1>7, <1>9
    <3> QED
      BY <1>9, <1>8, <3>1 DEF ChunksInv, LossInv, g, p
  <2>2. PICK d \in Conns : /\ Source(e, conn, queue, in, d)
                           /\ \E l \in 1..Len(conn[d].wire) :
                                conn[d].wire[l] = Chunk(g + 1)
    BY <1>6, <2>1 DEF Carried, Holds, p
  <2>3. PICK l \in 1..Len(conn[d].wire) : conn[d].wire[l] = Chunk(g + 1)
    BY <2>2
  <2>4. CASE d = c
    <3>1. w[l].req = "DATA" /\ l \in 1..Len(w)
      BY <1>5, <2>3, <2>4 DEF w
    <3>2. 1 \in 1..(l - 1)
      BY <1>2, <3>1
    <3> QED
      BY <1>1, <1>2, <3>1, <3>2 DEF Tidy
  <2>5. CASE d # c
    <3>1. Has(conn[d].wire, "DATA")
      BY <1>5, <2>3 DEF Has
    <3> QED
      BY <1>1, <1>3, <2>2, <2>5, <3>1 DEF ChunksInv, CloseInv, w
  <2> QED
    BY <2>4, <2>5
<1> QED
  BY <1>6, <1>7, <1>9 DEF p, g

-----------------------------------------------------------------------------
\* Chunks stay tidy, and those received are the first ones.
LEMMA ChunkStep ==
    ASSUME TypeInv, TypeInv', PathInv, OrderInv, ChunksInv, OneDirection, [Next]_vars
    PROVE  ChunkInv'
<1>1. /\ Rest /\ Rest' /\ ControlInv /\ ChunkInv /\ CloseInv
      /\ \A c \in Conns : conn[c].wire \in Seq(Msgs) /\ Tidy(conn[c].wire)
  BY NetFacts DEF TypeInv, PathInv, ChunksInv, ChunkInv
<1>2. ASSUME NEW e \in End, call'[e].msg.req = "DATA" PROVE sent'[e] > 0
  <2>1. CASE DeviceInput(e)
    <3>1. sent'[e] = sent[e] + 1 /\ sent[e] \in Nat
      BY <1>1, <2>1 DEF DeviceInput, Rest
    <3> QED
      BY <3>1
  <2>2. CASE call'[e] = call[e] /\ sent'[e] = sent[e]
    BY <1>1, <1>2, <2>2 DEF ChunkInv
  <2> QED
    BY <1>1, <1>2, <2>1, <2>2, CallStep
<1>3. ASSUME NEW c \in Conns PROVE Tidy(conn'[c].wire)
  <2>1. Tidy(<<>>) /\ \A w : w \in Seq(Msgs) /\ ~Has(w, "DATA") => Tidy(w)
    BY EmptySeq DEF Tidy, Has
  <2>2. CASE OpensOut \/ OpensIn
    <3>1. PICK d \in Conns : /\ \A x \in Conns \ {d} : conn'[x] = conn[x]
                             /\ conn'[d].wire = <<>>
      BY <2>2, ConnectNet
    <3> QED
      BY <1>1, <2>1, <3>1
  <2>3. CASE AcceptGet
    <3> DEFINE d == Head(queue)
    <3>1. out["hts"] = None /\ InQueue(queue, d) /\ conn[d].kind = "GET" /\ d \in Conns
      BY <2>3, CalmFacts, NetFacts DEF AcceptGet
    <3>2. conn[d].wire = <<>>
      BY <3>1 DEF PathInv, GetInv
    <3>3. /\ \A x \in Conns \ {d} : conn'[x] = conn[x]
          /\ \A r : Has(conn'[d].wire, r) <=> r = "200"
      BY <2>3, <3>1, <3>2, TakeNet
    <3>4. conn'[d].wire \in Seq(Msgs)
      BY <3>1, Fields DEF TypeInv, Descriptors
    <3> QED
      BY <1>1, <2>1, <3>3, <3>4
  <2>4. ASSUME NEW e \in End, WriteRequest(e) PROVE Tidy(conn'[c].wire)
    <3>1. /\ \A x \in Conns \ {out[e]} : conn'[x] = conn[x]
          /\ conn'[out[e]].wire \in
               {Append(conn[out[e]].wire, call[e].msg),
                Append(Append(conn[out[e]].wire, call[e].msg), Msg("DISCONNECT"))}
      BY <1>1, <2>4, WriteNet, WritesTidy
    <3>2. Tidy(conn'[out[e]].wire)
      BY <1>1, <2>4, <3>1, WritesTidy
    <3> QED
      BY <1>1, <3>1, <3>2
  <2>5. CASE ~OpensOut /\ ~OpensIn /\ ~AcceptGet /\ \A e \in End : ~WriteRequest(e)
    <3>1. Less(conn'[c].wire, conn[c].wire)
      BY <2>5, LessNet
    <3> QED
      BY <1>1, <3>1, TidyLaws
  <2> QED
    BY <2>2, <2>3, <2>4, <2>5
<1>4. ASSUME NEW e \in End, NEW k \in 1..Len(got'[e]) PROVE got'[e][k] = <<1, k>>
  <2>1. CASE got'[e] = got[e]
    BY <1>1, <1>4, <2>1 DEF ChunkInv
  <2>2. CASE ReadRequest(e) /\ got'[e] # got[e]
    <3> DEFINE g == Len(got[e])
    <3>1. /\ Reading(e) /\ conn[in[e]].wire # <<>>
          /\ Head(conn[in[e]].wire).req = "DATA"
          /\ got'[e] = Append(got[e], <<Head(conn[in[e]].wire).session,
                                        Head(conn[in[e]].wire).n>>)
      BY <1>1, <2>2 DEF ReadRequest, Rest
    <3>2. Head(conn[in[e]].wire) = Chunk(g + 1) /\ g \in Nat
      BY <3>1, NextChunk
    <3>3. got'[e] = Append(got[e], <<1, g + 1>>)
      BY <3>1, <3>2 DEF Chunk
    <3>4. got[e] \in Seq(Nat \X Nat) /\ <<1, g + 1>> \in Nat \X Nat
      BY <1>1, <3>2 DEF Rest
    <3>5. /\ Len(got'[e]) = g + 1 /\ got'[e][g + 1] = <<1, g + 1>>
          /\ \A l \in 1..g : got'[e][l] = got[e][l]
      BY <3>3, <3>4, AppendProperties
    <3> QED
      BY <1>1, <1>4, <3>2, <3>5 DEF ChunkInv
  <2> QED
    BY <1>1, <2>1, <2>2, CallStep
<1> QED
  BY <1>2, <1>3, <1>4 DEF ChunkInv

\* In which order hts reads connections changes only with a new one.
LEMMA EarlierStep ==
    ASSUME TypeInv, TypeInv', PathInv, OneDirection, [Next]_vars,
           NEW c \in Conns, NEW d \in Conns, Earlier(queue', in', c, d)
    PROVE  \/ Earlier(queue, in, c, d)
           \/ (OpensOut \/ OpensIn) /\ conn'[d].wire = <<>>
<1>1. /\ queue \in Seq(Conns) /\ Len(queue) \in Nat /\ None \notin Conns
      /\ in \in [End -> Conns \cup {None}] /\ "hts" \in End /\ "htc" \in End
  BY NetFacts, LenProperties DEF TypeInv, Descriptors, End
<1>2. CASE OpensOut \/ OpensIn
  <2>1. PICK x \in Conns :
          /\ ~InQueue(queue, x) /\ in["hts"] # x
          /\ queue' = Append(queue, x) /\ conn'[x].wire = <<>>
          /\ in'["hts"] = in["hts"]
    <3>1. PICK x \in Conns :
            /\ ~InQueue(queue, x) /\ \A e \in End : in[e] # x /\ out[e] # x
            /\ queue' = Append(queue, x)
            /\ conn'[x].wire = <<>>
            /\ OpensOut => in' = in
            /\ OpensIn => in' = [in EXCEPT !["htc"] = x]
      BY <1>2, ConnectNet
    <3> QED
      BY <1>1, <1>2, <3>1
  <2>2. Earlier(Append(queue, x), in, c, d)
    BY <2>1 DEF Earlier
  <2>3. d = x \/ Earlier(queue, in, c, d)
    BY <1>1, <2>1, <2>2, QueueGrows DEF InQueue
  <2> QED
    BY <1>2, <2>1, <2>3
<1>3. CASE AcceptPost \/ AcceptGet \/ AnswerGetFails \/ AcceptFails
  <2> DEFINE h == Head(queue)
  <2>1. /\ queue # <<>> /\ queue' = Tail(queue)
        /\ in'["hts"] = in["hts"] \/ in'["hts"] = h
    BY <1>1, <1>3 DEF AcceptPost, AcceptGet, AnswerGetFails, AcceptFails, SetIn, fds
  <2>2. /\ Len(queue) > 0 /\ h = queue[1] /\ Len(queue') = Len(queue) - 1
        /\ \A k \in 1..Len(queue') : queue'[k] = queue[k + 1]
    BY <1>1, <2>1, HeadTailProperties, EmptySeq
  <2> HIDE DEF h
  <2>3. \A k \in 1..Len(queue') : k + 1 \in 1..Len(queue) /\ 1 < k + 1
    BY <1>1, <2>2
  <2>4. CASE c = in'["hts"] /\ \E k \in 1..Len(queue') : d = queue'[k]
    <3>1. PICK k \in 1..Len(queue') : d = queue'[k]
      BY <2>4
    <3>2. d = queue[k + 1] /\ k + 1 \in 1..Len(queue) /\ 1 \in 1..Len(queue)
            /\ 1 < k + 1
      BY <1>1, <2>2, <2>3, <3>1
    <3> QED
      BY <2>1, <2>2, <2>4, <3>2 DEF Earlier
  <2>5. CASE \E k, l \in 1..Len(queue') : k < l /\ c = queue'[k] /\ d = queue'[l]
    <3>1. PICK k \in 1..Len(queue'), l \in 1..Len(queue') :
            k < l /\ c = queue'[k] /\ d = queue'[l]
      BY <2>5
    <3>2. /\ c = queue[k + 1] /\ d = queue[l + 1] /\ k + 1 < l + 1
          /\ k + 1 \in 1..Len(queue) /\ l + 1 \in 1..Len(queue)
      BY <1>1, <2>2, <2>3, <3>1
    <3> QED
      BY <3>2 DEF Earlier
  <2> QED
    BY <2>4, <2>5 DEF Earlier
<1>4. CASE /\ ~OpensOut /\ ~OpensIn
           /\ ~AcceptPost /\ ~AcceptGet /\ ~AnswerGetFails /\ ~AcceptFails
  <2>1. queue' = queue /\ in'["hts"] \in {in["hts"], None}
    BY <1>4, FdsNext
  <2> QED
    BY <1>1, <2>1 DEF Earlier
<1> QED
  BY <1>2, <1>3, <1>4

\* TUNNEL_CLOSE stays the last that an end writes, to all its connections.
LEMMA CloseStep ==
    ASSUME TypeInv, TypeInv', PathInv, OrderInv, ChunksInv, OneDirection, [Next]_vars
    PROVE  CloseInv'
<1>1. /\ ChunkInv /\ CloseInv /\ End = {"htc", "hts"} /\ Rest
      /\ \A e \in End : EndInv(e) /\ OutKind(e) \in {"POST", "GET"}
      /\ OutKind("htc") = "POST" /\ OutKind("hts") = "GET"
      /\ \A r : ~Has(<<>>, r)
  BY EmptySeq DEF ChunksInv, PathInv, ControlInv, TypeInv, OutKind, End, Has
<1> DEFINE Old(c, r) == conn'[c].kind = conn[c].kind /\ Has(conn[c].wire, r)
\* What there is in a connection was there, or is being written.
<1>2. ASSUME NEW c \in Conns, NEW r \in {"CLOSE", "DATA"}, Has(conn'[c].wire, r),
             conn'[c].kind # "none"
      PROVE  \/ Old(c, r)
             \/ \E e \in End : /\ WriteRequest(e) /\ c = out[e] /\ r = call[e].msg.req
                               /\ conn'[c].kind = OutKind(e)
  <2>1. CASE OpensOut \/ OpensIn
    <3>1. PICK d \in Conns : /\ \A x \in Conns \ {d} : conn'[x] = conn[x]
                             /\ conn'[d].wire = <<>>
      BY <2>1, ConnectNet
    <3> QED
      BY <1>1, <1>2, <3>1
  <2>2. CASE AcceptGet
    <3> DEFINE d == Head(queue)
    <3>1. out["hts"] = None /\ InQueue(queue, d) /\ conn[d].kind = "GET" /\ d \in Conns
      BY <2>2, CalmFacts, NetFacts DEF AcceptGet
    <3>2. conn[d].wire = <<>>
      BY <3>1 DEF PathInv, GetInv
    <3>3. /\ \A x \in Conns \ {d} : conn'[x] = conn[x]
          /\ \A s : Has(conn'[d].wire, s) <=> s = "200"
      BY <2>2, <3>1, <3>2, TakeNet
    <3> QED
      BY <1>2, <3>3
  <2>3. ASSUME NEW e \in End, WriteRequest(e)
        PROVE  \/ Old(c, r)
               \/ c = out[e] /\ r = call[e].msg.req /\ conn'[c].kind = OutKind(e)
    <3>1. /\ \A x \in Conns \ {out[e]} : conn'[x] = conn[x]
          /\ conn'[out[e]].kind = conn[out[e]].kind
          /\ conn[out[e]].kind = OutKind(e)
          /\ \A s : Has(conn'[out[e]].wire, s) =>
               \/ Has(conn[out[e]].wire, s) \/ s = call[e].msg.req \/ s = "DISCONNECT"
      BY <1>1, <2>3, WriteNet, WritesTidy
    <3> QED
      BY <1>2, <3>1
  <2>4. CASE ~OpensOut /\ ~OpensIn /\ ~AcceptGet /\ \A e \in End : ~WriteRequest(e)
    <3>1. conn'[c].kind \in {conn[c].kind, "none"}
            /\ (Has(conn'[c].wire, r) => Has(conn[c].wire, r))
      BY <2>4, LossNet
    <3> QED
      BY <1>2, <3>1
  <2> QED
    BY <2>1, <2>2, <2>3, <2>4
<1> HIDE DEF Old
<1>3. ASSUME NEW e \in End, NEW c \in Conns, conn'[c].kind = OutKind(e),
             Has(conn'[c].wire, "CLOSE")
      PROVE  Quit(e)'
  <2>1. CASE Old(c, "CLOSE")
    <3>1. Quit(e)
      BY <1>1, <1>3, <2>1 DEF CloseInv, Old
    <3> QED
      BY <3>1, QuitStep
  <2>2. ASSUME NEW f \in End, WriteRequest(f), "CLOSE" = call[f].msg.req,
               conn'[c].kind = OutKind(f)
        PROVE  Quit(e)'
    <3>1. e = f
      BY <1>1, <1>3, <2>2 DEF OutKind
    <3>2. /\ Busy(f) /\ pc' = [pc EXCEPT ![f] = call[f].next] /\ session' = session
          /\ session[f] # 0
      BY <1>1, <2>2 DEF WriteRequest, Writing, Busy, Return, Goto, history, EndInv
    <3>3. call[f].next = "disconnect"
      BY <1>1, <2>2, <3>2, CallsStep
    <3> QED
      BY <1>1, <3>1, <3>2, <3>3 DEF Quit, Rest
  <2> QED
    BY <1>1, <1>2, <1>3, <2>1, <2>2
<1>4. ASSUME NEW c \in Conns, NEW d \in Conns,
             conn'[c].kind = "POST", conn'[d].kind = "POST",
             Earlier(queue', in', c, d), Has(conn'[c].wire, "CLOSE"),
             Has(conn'[d].wire, "DATA")
      PROVE  FALSE
  <2>1. Earlier(queue, in, c, d)
    BY <1>1, <1>4, EarlierStep
  <2>2. CASE Old(c, "CLOSE")
    <3>1. Quit("htc") /\ conn[c].kind = "POST" /\ Has(conn[c].wire, "CLOSE")
      BY <1>1, <1>4, <2>2 DEF CloseInv, Old
    <3>2. CASE Old(d, "DATA")
      BY <1>1, <1>4, <2>1, <3>1, <3>2 DEF CloseInv, Old
    <3>3. ASSUME NEW e \in End, WriteRequest(e), conn'[d].kind = OutKind(e)
          PROVE  FALSE
      <4>1. e = "htc"
        BY <1>1, <1>4, <3>3
      <4> QED
        BY <1>1, <3>1, <3>3, <4>1, WritesTidy
    <3> QED
      BY <1>2, <1>4, <3>2, <3>3
  <2>3. ASSUME NEW e \in End, WriteRequest(e), c = out[e], conn'[c].kind = OutKind(e)
        PROVE  FALSE
    <3>1. e = "htc" /\ out["htc"] = c
      BY <1>1, <1>4, <2>3
    <3>2. conn[c].kind = "POST"
      BY <1>1, <2>3, <3>1, WritesTidy
    <3>3. conn[d].kind = "POST"
      <4>1. CASE Old(d, "DATA")
        BY <1>4, <4>1 DEF Old
      <4>2. ASSUME NEW f \in End, WriteRequest(f), d = out[f],
                   conn'[d].kind = OutKind(f)
            PROVE  conn[d].kind = "POST"
        BY <1>1, <1>4, <4>2, WritesTidy
      <4> QED
        BY <1>2, <1>4, <4>1, <4>2
    <3> QED
      BY <2>1, <3>1, <3>2, <3>3 DEF OrderInv, Orders, ChainOrder
  <2> QED
    BY <1>2, <1>4, <2>2, <2>3
<1> QED
  BY <1>3, <1>4 DEF CloseInv

-----------------------------------------------------------------------------
\* Which chunks a content has after it was written to or read
LEMMA HoldsLaws ==
    ASSUME NEW w \in Seq(Msgs), NEW k
    PROVE  /\ ~Holds(<<>>, k)
           /\ \A m \in Msgs : /\ Holds(w, k) => Holds(Append(w, m), k)
                              /\ m = Chunk(k) => Holds(Append(w, m), k)
           /\ w # <<>> /\ Holds(w, k) => Head(w) = Chunk(k) \/ Holds(Tail(w), k)
<1>1. ~Holds(<<>>, k)
  BY EmptySeq DEF Holds
<1>2. ASSUME NEW m \in Msgs, Holds(w, k) \/ m = Chunk(k)
      PROVE  Holds(Append(w, m), k)
  <2>1. /\ Len(w) \in Nat /\ Len(Append(w, m)) = Len(w) + 1
        /\ \A l \in 1..Len(w) : Append(w, m)[l] = w[l]
        /\ Append(w, m)[Len(w) + 1] = m
    BY LenProperties, AppendProperties
  <2> QED
    BY <1>2, <2>1 DEF Holds
<1>3. ASSUME w # <<>>, Holds(w, k), Head(w) # Chunk(k) PROVE Holds(Tail(w), k)
  <2>1. /\ Len(w) \in Nat /\ Len(w) > 0 /\ Len(Tail(w)) = Len(w) - 1
        /\ Head(w) = w[1]
        /\ \A l \in 1..Len(Tail(w)) : Tail(w)[l] = w[l + 1]
    BY <1>3, LenProperties, HeadTailProperties, EmptySeq
  <2>2. PICK l \in 1..Len(w) : w[l] = Chunk(k)
    BY <1>3 DEF Holds
  <2>3. l - 1 \in 1..Len(Tail(w)) /\ Tail(w)[l - 1] = w[l]
    BY <1>3, <2>1, <2>2
  <2> QED
    BY <2>2, <2>3 DEF Holds
<1> QED
  BY <1>1, <1>2, <1>3

\* While an end hears, it gives up nothing that it still has to read.
LEMMA HearingStep ==
    ASSUME TypeInv, TypeInv', PathInv, OneDirection, [Next]_vars,
           NEW e \in End, Hears(e)'
    PROVE  /\ Hears(e) /\ ~ReadUnwritten(e) /\ ~Disconnect(e)
           /\ ~DrainMore(e) /\ ~DrainDone(e) /\ ~Exit
           /\ e = "htc" => ~AnswerLost
           /\ ~CloseAged /\ ~CloseAgedFails /\ ~AcceptTimeout
           /\ e = "htc" => ~Gone
           /\ e = "hts" /\ AcceptPost => in["hts"] = None
           /\ AcceptGet => out["hts"] = None
<1>1. /\ Hears(e) /\ Attends(e) /\ Attends(e)' /\ Rest /\ EndInv(e)
      /\ End = {"htc", "hts"} /\ ~Ages /\ ~Timeouts
  BY HearsStep, CalmFacts, OneSession DEF Hears, PathInv, ControlInv, TypeInv, End
<1>2. ASSUME Disconnect(e) \/ DrainMore(e) \/ DrainDone(e) PROVE FALSE
  <2>1. /\ pc[e] \in {"disconnect", "drain"}
    BY <1>2 DEF Disconnect, DrainMore, DrainDone
  <2> QED
    BY <1>1, <2>1 DEF EndInv, Attends, Busy
<1>3. ASSUME ReadUnwritten(e) PROVE FALSE
  <2>1. closed'[e] # "no" /\ pc'[e] = "poll"
    BY <1>1, <1>3 DEF ReadUnwritten, Close, Goto, Rest
  <2> QED
    BY <1>1, <2>1 DEF Attends, Busy
<1>4. ASSUME Exit PROVE FALSE
  <2>1. CASE e = "htc"
    BY <1>1, <1>4, <2>1 DEF Exit, Attends, Busy
  <2>2. CASE e = "hts"
    BY <1>1, <1>4, <2>2, HeardStep
  <2> QED
    BY <1>1, <2>1, <2>2
<1>5. e = "htc" => ~Gone
  BY <1>1 DEF Gone, EndInv, Attends, Busy
<1>6. /\ e = "hts" /\ AcceptPost => in["hts"] = None
      /\ AcceptGet => out["hts"] = None
  BY <1>1, CalmFacts
<1>7. ASSUME e = "htc", AnswerLost PROVE FALSE
  <2>1. Waiting' /\ in' = in /\ in["htc"] \in Conns
    BY <1>1, <1>7, NetFacts
       DEF AnswerLost, AwaitsAnswer, Waiting, control, fds, PathInv, GetInv
  <2>2. conn'[in["htc"]].reset
    BY <1>7, <2>1, NetFacts DEF AnswerLost, Break, Connections
  <2> QED
    BY <1>7, <2>1, <2>2 DEF Hears, Doomed
<1> QED
  BY <1>1, <1>2, <1>3, <1>4, <1>5, <1>6, <1>7 DEF CloseAged, CloseAgedFails, AcceptTimeout

\* A chunk stays where it is until it is read.
LEMMA ChunkStays ==
    ASSUME TypeInv, TypeInv', PathInv, ChunksInv, OneDirection, [Next]_vars,
           NEW e \in End, Hears(e)', NEW d \in Conns, NEW k,
           Source(e, conn, queue, in, d), Holds(conn[d].wire, k)
    PROVE  \/ Source(e, conn', queue', in', d) /\ Holds(conn'[d].wire, k)
           \/ /\ ReadRequest(e) /\ d = in[e]
              /\ Head(conn[d].wire) = Chunk(k)
<1> DEFINE Stays == Source(e, conn', queue', in', d) /\ Holds(conn'[d].wire, k)
           Read == ReadRequest(e) /\ d = in[e] /\ Head(conn[d].wire) = Chunk(k)
<1> SUFFICES Stays \/ Read
  OBVIOUS
<1>1. /\ End = {"htc", "hts"} /\ None \notin Conns /\ d # None
      /\ conn \in [Conns -> Connections] /\ conn[d].wire \in Seq(Msgs)
      /\ conn[d].wire # <<>> /\ Tidy(conn[d].wire) /\ ~Holds(<<>>, k)
      /\ in \in [End -> Conns \cup {None}] /\ out \in [End -> Conns \cup {None}]
      /\ Chunk(k).req = "DATA"
  <2>1. conn[d].wire \in Seq(Msgs)
    BY NetFacts
  <2>2. ~Holds(<<>>, k)
    BY <2>1, HoldsLaws
  <2> QED
    BY <2>1, <2>2, NetFacts DEF ChunksInv, ChunkInv, TypeInv, Descriptors, Chunk
<1>2. /\ conn[d].kind = InKind(e) /\ conn[d].reader
      /\ e = "htc" => d = in["htc"]
      /\ e = "hts" => d = in["hts"] \/ InQueue(queue, d)
  <2>1. /\ e = "htc" => d = in["htc"]
        /\ e = "hts" => /\ conn[d].kind = "POST"
                        /\ d = in["hts"] \/ InQueue(queue, d)
    BY <1>1 DEF Source, Place, InQueue
  <2> QED
    BY <1>1, <2>1, NetFacts DEF InKind
<1>3. /\ \A f \in End : in[f] \in Conns => conn[in[f]].kind = InKind(f)
      /\ \A f \in End : f # e => InKind(f) # InKind(e)
      /\ \A f \in End : f # e => in[f] # d
  BY <1>1, <1>2, NetFacts DEF InKind
<1> HIDE DEF Stays, Read
<1>4. ASSUME conn'[d].kind = conn[d].kind, Holds(conn'[d].wire, k),
             e = "htc" => in'["htc"] = d,
             e = "hts" => in'["hts"] = d \/ InQueue(queue', d)
      PROVE  Stays
  BY <1>1, <1>2, <1>4 DEF Stays, Source, Place, InQueue, InKind
<1>5. ASSUME conn'[d].kind = conn[d].kind, Holds(conn'[d].wire, k),
             UNCHANGED <<in, queue>>
      PROVE  Stays
  BY <1>1, <1>2, <1>4, <1>5
<1>6. ASSUME conn'[d] = conn[d], UNCHANGED <<in, queue>> PROVE Stays
  BY <1>5, <1>6
<1>7. CASE OpensOut \/ OpensIn
  <2>1. PICK c \in Conns :
          /\ ~InQueue(queue, c) /\ \A f \in End : in[f] # c /\ out[f] # c
          /\ \A x : InQueue(queue', x) <=> InQueue(queue, x) \/ x = c
          /\ \A x \in Conns \ {c} : conn'[x] = conn[x]
          /\ OpensOut => in' = in
          /\ OpensIn => in' = [in EXCEPT !["htc"] = c]
    BY <1>7, ConnectNet
  <2>2. d # c
    BY <1>1, <1>2, <2>1
  <2>3. e = "htc" => in'["htc"] = d
    <3>1. OpensIn => in["htc"] = None
      BY DEF OpensIn, InConnect, GetFails, Connecting, PathInv, InputInv
    <3> QED
      BY <1>1, <1>2, <1>7, <2>1, <3>1
  <2>4. e = "hts" => in'["hts"] = d \/ InQueue(queue', d)
    BY <1>1, <1>2, <1>7, <2>1
  <2> QED
    BY <1>4, <2>1, <2>2, <2>3, <2>4
<1>8. CASE AcceptPost
  <2> DEFINE c == Head(queue)
  <2>1. /\ c \in Conns /\ conn[c].kind = "POST"
        /\ \A x : InQueue(queue, x) <=> x = c \/ InQueue(queue', x)
        /\ \A x \in Conns \ {c} : conn'[x] = conn[x]
        /\ \/ in["hts"] = None /\ in' = [in EXCEPT !["hts"] = c] /\ conn' = conn
           \/ in["hts"] # None /\ in' = in
    BY <1>8, TakeNet
  <2> HIDE DEF c
  <2>2. CASE e = "hts"
    <3>1. in["hts"] = None /\ in'["hts"] = c /\ conn' = conn
      BY <1>1, <1>8, <2>1, <2>2, HearingStep
    <3>2. in'["hts"] = d \/ InQueue(queue', d)
      BY <1>1, <1>2, <2>1, <2>2, <3>1
    <3>3. conn'[d].kind = conn[d].kind /\ Holds(conn'[d].wire, k)
      BY <3>1
    <3> QED
      BY <1>4, <2>2, <3>2, <3>3
  <2>3. CASE e = "htc"
    <3>1. d # c
      BY <1>2, <2>1, <2>3 DEF InKind
    <3>2. in'["htc"] = in["htc"]
      BY <1>1, <2>1
    <3> QED
      BY <1>2, <1>4, <2>1, <2>3, <3>1, <3>2
  <2> QED
    BY <1>1, <2>2, <2>3
<1>9. CASE AcceptGet
  <2> DEFINE c == Head(queue)
  <2>1. out["hts"] = None /\ c = in["htc"] /\ InQueue(queue, c)
          /\ conn[c].kind = "GET" /\ c \in Conns
    BY <1>9, CalmFacts, NetFacts DEF AcceptGet
  <2>2. conn[c].wire = <<>>
    BY <2>1 DEF PathInv, GetInv
  <2>3. /\ in' = in
        /\ \A x : InQueue(queue, x) <=> x = c \/ InQueue(queue', x)
        /\ \A x \in Conns \ {c} : conn'[x] = conn[x]
    BY <1>9, <2>1, <2>2, TakeNet
  <2> HIDE DEF c
  <2>4. d # c
    BY <1>1, <2>2
  <2> QED
    BY <1>1, <1>2, <1>4, <2>1, <2>3, <2>4
<1>10. ASSUME NEW f \in End, WriteRequest(f) PROVE Stays
  <2> DEFINE c == out[f]  w == conn[c].wire  m == call[f].msg  x == Msg("DISCONNECT")
  <2>1. m \in Msgs /\ x \in Msgs /\ c \in Conns /\ w \in Seq(Msgs)
          /\ m.req # "DISCONNECT"
    BY <1>10, WritesTidy, MsgType DEF TypeInv, ChunksInv
  <2>2. /\ UNCHANGED <<queue, in>> /\ conn'[c].kind = conn[c].kind
        /\ \A y \in Conns \ {c} : conn'[y] = conn[y]
        /\ conn'[c].wire \in {Append(w, m), Append(Append(w, m), x)}
    BY <1>10, <2>1, WriteNet
  <2> HIDE DEF c, m, x
  <2>3. CASE d = c
    <3>1. Holds(w, k)
      BY <2>3
    <3>2. Holds(Append(w, m), k) /\ Append(w, m) \in Seq(Msgs)
      BY <2>1, <3>1, HoldsLaws, AppendProperties
    <3>3. Holds(Append(Append(w, m), x), k)
      BY <2>1, <3>2, HoldsLaws
    <3> QED
      BY <1>5, <2>2, <2>3, <3>2, <3>3
  <2> QED
    BY <1>6, <2>2, <2>3
<1>11. ASSUME NEW f \in End, WriteLost(f) \/ WriteEPIPE(f) PROVE Stays
  <2>1. /\ UNCHANGED <<queue, in>> /\ out[f] \in Conns
        /\ ~conn[out[f]].reader \/ conn[out[f]].reset
        /\ \A y \in Conns \ {out[f]} : conn'[y] = conn[y]
    BY <1>11, BrokenNet
  <2>2. conn[out[f]].wire = <<>>
    BY <2>1 DEF PathInv, ResetInv
  <2> QED
    BY <1>1, <1>6, <2>1, <2>2
\* The other end closes its output.
<1>12. ASSUME NEW f \in End, Disconnect(f) PROVE Stays
  <2> DEFINE c == out[f]
  <2>1. conn' = CloseOut(conn, c) /\ UNCHANGED <<queue, in>>
    BY <1>12 DEF Disconnect
  <2>2. /\ \A x \in Conns \ {c} : CloseOut(conn, c)[x] = conn[x]
        /\ c \in Conns =>
             \/ /\ CloseOut(conn, c)[c].kind = conn[c].kind
                /\ CloseOut(conn, c)[c].wire = conn[c].wire
             \/ ~conn[c].reader
    BY <1>1, CloseNet
  <2> HIDE DEF c
  <2> QED
    BY <1>2, <1>5, <1>6, <2>1, <2>2
<1>13. ASSUME NEW f \in End, conn[in[f]].wire # <<>>, conn' = Consume(conn, in[f]),
              UNCHANGED <<queue, in>>, f # e \/ in[f] # d
       PROVE  Stays
  <2>1. \A x \in Conns \ {in[f]} : conn'[x] = conn[x]
    BY <1>1, <1>13, ConsumeNet
  <2> QED
    BY <1>3, <1>6, <1>13, <2>1
\* It reads, but not this chunk.
<1>14. ASSUME conn' = Consume(conn, d), d = in[e], UNCHANGED <<queue, in>>
       PROVE  Stays \/ Head(conn[d].wire) = Chunk(k)
  <2>1. conn'[d].wire = Tail(conn[d].wire) /\ conn'[d].kind = conn[d].kind
    BY <1>1, <1>14, ConsumeNet
  <2>2. Head(conn[d].wire) = Chunk(k) \/ Holds(Tail(conn[d].wire), k)
    BY <1>1, HoldsLaws
  <2> QED
    BY <1>5, <1>14, <2>1, <2>2
<1>15. ASSUME NEW f \in End, ReadRequest(f) PROVE Stays \/ Read
  <2>1. conn' = Consume(conn, in[f]) /\ UNCHANGED <<queue, in>>
          /\ conn[in[f]].wire # <<>>
    BY <1>15 DEF ReadRequest, fds
  <2>2. CASE f # e \/ in[f] # d
    BY <1>13, <2>1, <2>2
  <2>3. CASE f = e /\ in[f] = d
    BY <1>14, <1>15, <2>1, <2>3 DEF Read
  <2> QED
    BY <2>2, <2>3
<1>16. ASSUME NEW f \in End, ReadUnwritten(f) \/ DrainMore(f) PROVE Stays
  <2>1. f # e
    BY <1>16, HearingStep
  <2> QED
    BY <1>13, <1>16, <2>1 DEF ReadUnwritten, DrainMore, fds
<1>17. CASE Answered
  <2>1. conn' = Consume(conn, in["htc"]) /\ UNCHANGED <<queue, in>>
          /\ conn[in["htc"]].wire # <<>> /\ Waiting
    BY <1>17 DEF Answered, AwaitsAnswer, fds, Waiting
  <2>2. CASE e = "htc"
    <3>1. d = in["htc"] /\ in["htc"] # None
      BY <1>1, <1>2, <2>2
    <3>2. Head(conn[d].wire).req = "200"
      <4>1. InQueue(queue, d) => conn[d].wire = <<>>
        BY <1>2, <2>2 DEF PathInv, GetInv, InKind
      <4>2. ~Over(in["htc"])
        BY <1>1, <2>1, <3>1 DEF Over, PathInv, ResetInv
      <4> QED
        BY <1>1, <2>1, <3>1, <4>1, <4>2 DEF PathInv, GetInv
    <3> QED
      BY <1>1, <1>14, <2>1, <2>2, <3>1, <3>2
  <2>3. CASE e # "htc"
    BY <1>1, <1>13, <2>1, <2>3
  <2> QED
    BY <2>2, <2>3
<1>18. ASSUME NEW f \in End, ReadDisconnect(f) \/ DrainDone(f) PROVE Stays
  <2> DEFINE c == in[f]
  <2>1. /\ conn' = CloseIn(conn, c) /\ in' = [in EXCEPT ![f] = None]
        /\ queue' = queue
    BY <1>18 DEF ReadDisconnect, DrainDone, Reading, CloseIn, SetIn
  <2>2. \A x \in Conns \ {c} : CloseIn(conn, c)[x] = conn[x]
    BY <1>1, CloseNet
  <2>3. d # c
    <3>1. CASE f # e
      BY <1>3, <3>1
    <3>2. ASSUME f = e, d = c PROVE FALSE
      <4>1. ReadDisconnect(f)
        BY <1>18, <3>2, HearingStep
      <4>2. Head(conn[d].wire).req = "DISCONNECT"
        BY <1>1, <3>2, <4>1 DEF ReadDisconnect
      <4>3. PICK l \in 1..Len(conn[d].wire) : conn[d].wire[l] = Chunk(k)
        BY DEF Holds
      <4>4. Len(conn[d].wire) \in Nat /\ Head(conn[d].wire) = conn[d].wire[1]
        BY <1>1, LenProperties, HeadTailProperties
      <4>5. l # 1
        BY <1>1, <4>2, <4>3, <4>4
      <4>6. 1 \in 1..(l - 1)
        BY <4>3, <4>4, <4>5
      <4> QED
        BY <1>1, <4>2, <4>3, <4>4, <4>6 DEF Tidy
    <3> QED
      BY <3>1, <3>2
  <2> HIDE DEF c
  <2>4. conn'[d] = conn[d]
    BY <2>1, <2>2, <2>3
  <2>5. e = "htc" => in'["htc"] = d
    BY <1>1, <1>2, <2>1, <2>3 DEF c
  <2>6. e = "hts" => in'["hts"] = d \/ InQueue(queue', d)
    BY <1>1, <1>2, <2>1, <2>3 DEF c
  <2> QED
    BY <1>4, <2>4, <2>5, <2>6
<1>19. ASSUME NEW f \in End,
              \/ WriteFails(f) \/ TunnelReady(f) \/ TunnelClose(f) \/ KeepAlive(f)
              \/ DeviceCloses(f) \/ DeviceInput(f)
       PROVE  Stays
  BY <1>6, <1>19 DEF WriteFails, TunnelReady, TunnelClose, KeepAlive,
     DeviceCloses, DeviceInput, net, fds
<1>20. CASE \/ OutAccept \/ ReadAccept \/ ReadAgain \/ AcceptReturns
            \/ TunnelConnect \/ UNCHANGED vars
  BY <1>6, <1>20 DEF OutAccept, ReadAccept, ReadAgain, AcceptReturns,
     TunnelConnect, vars, net, fds
<1>21. CASE OutConnectFails \/ InConnectFails \/ NotAnswered \/ AnswerFails
  BY <1>6, <1>21 DEF OutConnectFails, InConnectFails, NotAnswered, AnswerFails, net, fds
\* A connection that could not be opened holds nothing.
<1>22. CASE AnswerGetFails \/ AcceptFails
  <2> DEFINE c == Head(queue)
  <2>1. /\ in' = in /\ c \in Conns
        /\ \A x : InQueue(queue, x) <=> x = c \/ InQueue(queue', x)
        /\ \A x \in Conns \ {c} : conn'[x] = conn[x]
        /\ AcceptFails => conn[c].reset
        /\ AnswerGetFails => conn[c].kind = "GET" /\ InQueue(queue, c)
    BY <1>22, TakeNet
  <2>2. conn[c].wire = <<>>
    BY <1>22, <2>1 DEF PathInv, ResetInv, GetInv
  <2> HIDE DEF c
  <2>3. d # c
    BY <1>1, <2>2
  <2> QED
    BY <1>1, <1>2, <1>4, <2>1, <2>3
<1>23. CASE AnswerLost
  <2>1. e = "hts" /\ in["htc"] # d
    BY <1>1, <1>3, <1>23, HearingStep
  <2>2. conn'[d] = conn[d]
    BY <1>1, <1>23, <2>1 DEF AnswerLost, Break
  <2> QED
    BY <1>6, <1>23, <2>2 DEF AnswerLost, fds
<1>24. ~Exit /\ ~CloseAged /\ ~CloseAgedFails /\ ~AcceptTimeout
  BY HearingStep
<1> QED
  BY <1>7, <1>8, <1>9, <1>10, <1>11, <1>12, <1>15, <1>16, <1>17, <1>18, <1>19,
     <1>20, <1>21, <1>22, <1>23, <1>24, Zenon
     DEF Next, Environment, Fails, Runs, Writes, Reads, Closes, OpensOut, OpensIn

\* A chunk that is written goes where its reader gets to.
LEMMA ChunkWritten ==
    ASSUME TypeInv, TypeInv', PathInv, ChunksInv, OneDirection, [Next]_vars,
           NEW e \in End, Hears(e)', NEW k, call[Peer(e)].msg = Chunk(k),
           WriteRequest(Peer(e)) \/ WriteLost(Peer(e))
    PROVE  \E c \in Conns :
             Source(e, conn', queue', in', c) /\ Holds(conn'[c].wire, k)
<1> DEFINE p == Peer(e)  c == out[p]  m == call[p].msg  x == Msg("DISCONNECT")
           w == conn[c].wire
<1>1. /\ End = {"htc", "hts"} /\ p \in End /\ p = (IF e = "htc" THEN "hts" ELSE "htc")
      /\ OutKind(p) = InKind(e) /\ Hears(e) /\ (e = "htc" => ~Gone)
  BY HearingStep DEF Peer, End, InKind, OutKind
<1>2. WriteRequest(p)
  <2>1. ASSUME WriteLost(p) PROVE FALSE
    <3>1. CASE p = "htc"
      BY <1>1, <2>1, <3>1, HeardStep
    <3>2. CASE p = "hts"
      BY <1>1, <2>1, <3>2, CalmFacts DEF WriteLost
    <3> QED
      BY <1>1, <3>1, <3>2
  <2> QED
    BY <2>1
<1>3. /\ m \in Msgs /\ x \in Msgs /\ c \in Conns /\ c # None /\ w \in Seq(Msgs)
      /\ m.req # "DISCONNECT" /\ conn[c].kind = InKind(e)
  BY <1>1, <1>2, WritesTidy, MsgType, NoneIsNot DEF TypeInv, ChunksInv
<1>4. /\ UNCHANGED <<queue, in>> /\ conn'[c].kind = conn[c].kind
      /\ conn'[c].wire \in {Append(w, m), Append(Append(w, m), x)}
  BY <1>1, <1>2, <1>3, WriteNet
<1>5. Source(e, conn, queue, in, c)
  <2>1. CASE e = "hts"
    <3>1. ~conn[c].reset
      BY <1>2 DEF WriteRequest
    <3> QED
      BY <1>1, <1>3, <2>1, <3>1 DEF PathInv, PostInv, Source, Place, InQueue, InKind
  <2>2. CASE e = "htc"
    BY <1>1, <1>3, <2>2 DEF PathInv, GetInv, Source
  <2> QED
    BY <1>1, <2>1, <2>2
<1> HIDE DEF p, c, m, x, w
<1>6. Source(e, conn', queue', in', c)
  BY <1>4, <1>5 DEF Source
<1>7. Holds(Append(w, m), k) /\ Append(w, m) \in Seq(Msgs)
  BY <1>3, HoldsLaws, AppendProperties DEF m, p
<1>8. Holds(Append(Append(w, m), x), k)
  BY <1>3, <1>7, HoldsLaws
<1> QED
  BY <1>3, <1>4, <1>6, <1>7, <1>8

\* What was sent is received or under way, as long as the receiver hears.
LEMMA LossStep ==
    ASSUME TypeInv, TypeInv', PathInv, OrderInv, ChunksInv, OneDirection,
           [Next]_vars
    PROVE  LossInv'
<1> SUFFICES ASSUME NEW e \in End, Hears(e)',
                    NEW k \in (Len(got'[e]) + 1)..sent'[Peer(e)]
             PROVE  Carried(e, k)' \/ (closed'[Peer(e)] = "error" /\ k = sent'[Peer(e)])
  BY DEF LossInv
<1> DEFINE p == Peer(e)  g == Len(got[e])
           Goal == Carried(e, k)' \/ (closed'[p] = "error" /\ k = sent'[p])
<1> SUFFICES Goal
  OBVIOUS
<1> HIDE DEF Goal
<1>1. /\ Rest /\ Rest' /\ ControlInv /\ p \in End /\ End = {"htc", "hts"}
      /\ \A f \in End : EndInv(f) /\ session[f] \in {0, 1}
      /\ g \in Nat /\ sent[p] \in Nat /\ Len(got'[e]) \in Nat /\ sent'[p] \in Nat
  <2>1. got[e] \in Seq(Nat \X Nat) /\ got'[e] \in Seq(Nat \X Nat)
    BY DEF TypeInv, Rest
  <2>2. g \in Nat /\ Len(got'[e]) \in Nat
    BY <2>1, LenProperties
  <2> QED
    BY <2>2, OneSession DEF TypeInv, PathInv, ControlInv, Rest, Peer, End
\* A chunk that comes from the device is being written.
<1>2. CASE DeviceInput(p) /\ sent[p] < k
  <2>1. sent'[p] = sent[p] + 1
    BY <1>1, <1>2 DEF DeviceInput, Rest
  <2>2. k = sent[p] + 1
    BY <1>1, <1>2, <2>1
  <2>3. session[p] = 1
    BY <1>1, <1>2 DEF DeviceInput, Polling, EndInv
  <2>4. call'[p].msg = Chunk(k)
    BY <1>1, <1>2, <2>2, <2>3 DEF DeviceInput, Request, Rest, Chunk
  <2> QED
    BY <2>4 DEF Goal, Carried
<1>3. CASE ~(DeviceInput(p) /\ sent[p] < k)
  <2>1. k <= sent[p]
    BY <1>1, <1>3, CallStep
  <2>2. \/ got'[e] = got[e]
        \/ /\ ReadRequest(e) /\ Head(conn[in[e]].wire).req = "DATA"
           /\ Reading(e) /\ conn[in[e]].wire # <<>>
           /\ Len(got'[e]) = g + 1
    <3>1. got'[e] = got[e] \/ ReadRequest(e)
      BY <1>1, CallStep
    <3>2. CASE ReadRequest(e) /\ got'[e] # got[e]
      <4> DEFINE h == Head(conn[in[e]].wire)
      <4>1. /\ Reading(e) /\ conn[in[e]].wire # <<>> /\ h.req = "DATA"
            /\ got'[e] = Append(got[e], <<h.session, h.n>>)
        BY <1>1, <3>2 DEF ReadRequest, Rest
      <4>2. h = Chunk(g + 1)
        BY <4>1, NextChunk
      <4>3. h.session = 1 /\ h.n = g + 1
        BY <4>2 DEF Chunk
      <4>4. got[e] \in Seq(Nat \X Nat)
        BY <1>1 DEF Rest
      <4> HIDE DEF h, g
      <4>5. <<h.session, h.n>> \in Nat \X Nat
        BY <1>1, <4>3
      <4>6. Len(got'[e]) = g + 1
        BY <4>1, <4>4, <4>5, AppendProperties DEF g
      <4> QED
        BY <3>2, <4>1, <4>6 DEF h
    <3> QED
      BY <3>1, <3>2
  <2>3. k \in (g + 1)..sent[p]
    BY <1>1, <2>1, <2>2
  <2>4. Carried(e, k) \/ (closed[p] = "error" /\ k = sent[p])
    <3>1. Hears(e)
      BY HearingStep
    <3> QED
      BY <2>3, <3>1 DEF ChunksInv, LossInv
  <2>5. CASE call[p].msg = Chunk(k)
    <3>1. CASE call'[p] = call[p]
      BY <2>5, <3>1 DEF Goal, Carried
    <3>2. CASE WriteRequest(p) \/ WriteLost(p)
      BY <2>5, <3>2, ChunkWritten DEF Goal, Carried
    \* The write fails, and the end closes with an error.
    <3>3. CASE RequestFails(p)
      <4>1. Busy(p) /\ call[p].msg.req = "DATA" /\ Chunk(k).n = k
        BY <1>1, <2>5 DEF EndInv, NoCall, Msg, Chunk
      <4>2. call[p].msg = Chunk(sent[p]) /\ closed[p] = "no" /\ Chunk(sent[p]).n = sent[p]
        BY <1>1, <4>1, CallsStep DEF Chunk
      <4>3. k = sent[p]
        BY <2>5, <4>1, <4>2
      <4>4. closed'[p] = "error"
        BY <1>1, <3>3, <4>1, <4>2 DEF RequestFails, Close, Rest
      <4>5. sent'[p] = sent[p]
        BY <1>1, <4>1, CallStep DEF DeviceInput, Polling, Busy
      <4> QED
        BY <4>3, <4>4, <4>5 DEF Goal
    <3> QED
      BY <1>1, <2>5, <3>1, <3>2, <3>3, CallStep DEF Chunk
  <2>6. CASE closed[p] = "error" /\ k = sent[p]
    <3>1. closed'[p] = "error"
      BY <1>1, <2>6, Steady
    <3>2. sent'[p] = sent[p]
      BY <1>1, <2>6, CallStep DEF DeviceInput, Polling
    <3> QED
      BY <2>6, <3>1, <3>2 DEF Goal
  <2>7. ASSUME NEW d \in Conns, Source(e, conn, queue, in, d),
               Holds(conn[d].wire, k)
        PROVE  Goal
    <3>1. ASSUME ReadRequest(e), d = in[e], Head(conn[d].wire) = Chunk(k)
          PROVE  FALSE
      <4>1. Head(conn[in[e]].wire).req = "DATA" /\ \A j : Chunk(j).n = j
        BY <3>1 DEF Chunk
      <4>2. Reading(e) /\ conn[in[e]].wire # <<>>
        BY <3>1 DEF ReadRequest
      <4>3. Chunk(k) = Chunk(g + 1)
        BY <3>1, <4>1, <4>2, NextChunk
      <4>4. k = g + 1
        BY <4>1, <4>3
      <4>5. got'[e] # got[e]
        <5>1. got'[e] = Append(got[e], <<Chunk(k).session, Chunk(k).n>>)
          BY <1>1, <3>1, <4>1 DEF ReadRequest, Rest
        <5>2. got[e] \in Seq(Nat \X Nat)
          BY <1>1 DEF Rest
        <5>3. Chunk(k).session = 1 /\ Chunk(k).n = k /\ k \in Nat
          BY <1>1 DEF Chunk
        <5>4. <<Chunk(k).session, Chunk(k).n>> \in Nat \X Nat
          BY <5>3
        <5>5. Len(got'[e]) = g + 1
          BY <5>1, <5>2, <5>4, AppendProperties
        <5> QED
          BY <1>1, <5>5
      <4> QED
        BY <1>1, <2>2, <4>4, <4>5
    <3>2. Source(e, conn', queue', in', d) /\ Holds(conn'[d].wire, k)
      BY <2>7, <3>1, ChunkStays
    <3> QED
      BY <3>2 DEF Goal, Carried
  <2> QED
    BY <2>4, <2>5, <2>7, <2>6 DEF Carried
<1> QED
  BY <1>2, <1>3

\* At first there are no chunks.
LEMMA ChunksInit == Init => ChunksInv
<1> SUFFICES ASSUME Init PROVE ChunksInv
  OBVIOUS
<1>1. /\ Len(<<>>) = 0 /\ Msg("PAD").req # "DATA" /\ End = {"htc", "hts"}
      /\ \A c \in Conns : conn[c].wire = <<>>
      /\ \A e \in End : Peer(e) \in End /\ got[e] = <<>> /\ sent[e] = 0
      /\ \A e \in End : call[e] = NoCall
  BY EmptySeq, NoConnType DEF Init, Msg, Peer, End
<1>2. ChunkInv
  BY <1>1 DEF ChunkInv, Tidy, NoCall
<1>3. CloseInv
  BY <1>1 DEF CloseInv, Has
<1>4. LossInv
  BY <1>1 DEF LossInv
<1> QED
  BY <1>2, <1>3, <1>4 DEF ChunksInv

-----------------------------------------------------------------------------
(***************************************************************************)
(* The steps of the data path.                                             *)
(***************************************************************************)
\* The chunks that a device has received, by their numbers
Numbers(g) == [i \in 1..Len(g) |-> g[i][2]]

\* Appending a chunk appends its number.
LEMMA NumbersLaws ==
    /\ Numbers(<<>>) = <<>>
    /\ \A g \in Seq(Nat \X Nat), n \in Nat :
         /\ Len(Numbers(g)) = Len(g)
         /\ Numbers(Append(g, <<1, n>>)) = Append(Numbers(g), n)
<1>1. Numbers(<<>>) = <<>>
  BY DEF Numbers
<1>2. ASSUME NEW g \in Seq(Nat \X Nat), NEW n \in Nat
      PROVE  /\ Len(Numbers(g)) = Len(g)
             /\ Numbers(Append(g, <<1, n>>)) = Append(Numbers(g), n)
  <2> DEFINE h == Append(g, <<1, n>>)
  <2>1. Len(g) \in Nat /\ \A i \in 1..Len(g) : g[i] \in Nat \X Nat
    BY LenProperties, ElementOfSeq
  <2>2. Numbers(g) \in Seq(Nat) /\ Len(Numbers(g)) = Len(g)
    BY <2>1 DEF Numbers
  <2>3. /\ h \in Seq(Nat \X Nat) /\ Len(h) = Len(g) + 1 /\ h[Len(g) + 1] = <<1, n>>
        /\ \A i \in 1..Len(g) : h[i] = g[i]
    BY AppendProperties
  <2>4. /\ Append(Numbers(g), n) \in Seq(Nat)
        /\ Len(Append(Numbers(g), n)) = Len(g) + 1
        /\ Append(Numbers(g), n)[Len(g) + 1] = n
        /\ \A i \in 1..Len(g) : Append(Numbers(g), n)[i] = g[i][2]
    <3>1. \A i \in 1..Len(g) : Numbers(g)[i] = g[i][2]
      BY DEF Numbers
    <3> QED
      BY <2>2, <3>1, AppendProperties
  <2> HIDE DEF h
  <2>5. Numbers(h) \in Seq(Nat) /\ Len(Numbers(h)) = Len(g) + 1
    <3>1. \A i \in 1..Len(h) : h[i] \in Nat \X Nat
      BY <2>3, ElementOfSeq
    <3> QED
      BY <2>1, <2>3, <3>1 DEF Numbers
  <2>6. \A i \in 1..(Len(g) + 1) : Numbers(h)[i] = Append(Numbers(g), n)[i]
    <3> SUFFICES ASSUME NEW i \in 1..(Len(g) + 1)
                 PROVE  Numbers(h)[i] = Append(Numbers(g), n)[i]
      OBVIOUS
    <3>1. Numbers(h)[i] = h[i][2]
      BY <2>3 DEF Numbers
    <3>2. CASE i \in 1..Len(g)
      BY <2>3, <2>4, <3>1, <3>2
    <3>3. CASE i = Len(g) + 1
      <4>1. <<1, n>>[2] = n
        OBVIOUS
      <4>2. h[i][2] = n
        BY <2>3, <3>3, <4>1
      <4>3. Append(Numbers(g), n)[i] = n
        BY <2>4, <3>3
      <4> QED
        BY <3>1, <4>2, <4>3
    <3>4. i \in 1..Len(g) \/ i = Len(g) + 1
      BY <2>1
    <3> QED
      BY <3>2, <3>3, <3>4
  <2> QED
    BY <2>2, <2>4, <2>5, <2>6, SeqEqual DEF h
<1> QED
  BY <1>1, <1>2

\* The names of DataPath, and what is substituted for what it calls got
LEMMA PathIs ==
    /\ Path!End = End /\ \A e : Path!Peer(e) = Peer(e)
    /\ [e \in End |-> [i \in 1..Len(got[e]) |-> got[e][i][2]]] =
         [e \in End |-> Numbers(got[e])]
BY DEF Path!End, Path!Peer, End, Peer, Numbers

\* The first state of the tunnel is one of the path,
LEMMA PathStarts == Init => Path!Init
<1> SUFFICES ASSUME Init PROVE Path!Init
  OBVIOUS
<1>1. \A e \in End : got[e] = <<>> /\ Numbers(<<>>) = <<>>
  BY NumbersLaws DEF Init
<1>2. [e \in End |-> [i \in 1..Len(got[e]) |-> got[e][i][2]]] = [e \in End |-> <<>>]
  BY <1>1 DEF Numbers
<1> QED
  BY <1>2, PathIs DEF Init, Path!Init

\* and each step is one of the path, or none.
LEMMA PathMoves ==
    ASSUME TypeInv, TypeInv', PathInv, OrderInv, ChunksInv, OneDirection, [Next]_vars
    PROVE  [Path!Next]_(Path!vars)
<1> DEFINE Goal == [Path!Next]_(Path!vars)
<1> SUFFICES Goal
  OBVIOUS
<1>1. /\ Rest /\ Rest' /\ \A e \in End : EndInv(e) /\ session[e] \in {0, 1}
      /\ Sessions = 1 /\ ~Ages /\ ~Timeouts
      /\ End = {"htc", "hts"} /\ \A e \in End : Peer(e) \in End
      /\ Peer("htc") = "hts" /\ Peer("hts") = "htc"
  BY OneSession DEF TypeInv, PathInv, ControlInv, End, Peer
<1>2. ASSUME UNCHANGED <<sent, got, closed>> PROVE Goal
  BY <1>2 DEF Path!vars
<1>3. ASSUME NEW e \in End, UNCHANGED <<got, closed>>, closed[e] = "no",
             sent[e] < MaxItems[e], sent' = [sent EXCEPT ![e] = @ + 1]
      PROVE  Goal
  BY <1>3, PathIs DEF Path!Next, Path!Send
<1>4. ASSUME NEW e \in End, UNCHANGED <<sent, got>>, closed[e] = "no",
             NEW why, closed' = [closed EXCEPT ![e] = why],
             \/ why \in {"device", "error"}
             \/ /\ why = "peer" /\ closed[Peer(e)] # "no"
                /\ Len(got[e]) = sent[Peer(e)] \/ closed[Peer(e)] = "error"
      PROVE  Goal
  <2>1. CASE why = "device"
    BY <1>4, <2>1, PathIs DEF Path!Next, Path!DeviceCloses
  <2>2. CASE why = "error"
    BY <1>4, <2>2, PathIs DEF Path!Next, Path!Fails
  <2>3. CASE /\ why = "peer" /\ closed[Peer(e)] # "no"
             /\ Len(got[e]) = sent[Peer(e)] \/ closed[Peer(e)] = "error"
    <3>1. Len(Numbers(got[e])) = Len(got[e])
      BY <1>1, NumbersLaws DEF Rest
    <3> QED
      BY <1>4, <2>3, <3>1, PathIs DEF Path!Next, Path!HearsClose, Numbers
  <2> QED
    BY <1>4, <2>1, <2>2, <2>3
\* An end begins to close, if it does not do so yet.
<1>5. ASSUME NEW e \in End, UNCHANGED <<sent, got>>, NEW why, Close(e, why),
             \/ why \in {"device", "error"}
             \/ /\ why = "peer" /\ closed[Peer(e)] # "no"
                /\ Len(got[e]) = sent[Peer(e)] \/ closed[Peer(e)] = "error"
      PROVE  Goal
  <2>1. CASE closed[e] = "no"
    BY <1>4, <1>5, <2>1 DEF Close
  <2>2. CASE closed[e] # "no"
    BY <1>1, <1>2, <1>5, <2>2 DEF Close, Rest
  <2> QED
    BY <2>1, <2>2
<1>6. ASSUME NEW e \in End, ReadRequest(e) PROVE Goal
  <2> DEFINE m == Head(conn[in[e]].wire)
  <2>1. Reading(e) /\ conn[in[e]].wire # <<>> /\ sent' = sent
    BY <1>6 DEF ReadRequest
  <2>2. CASE m.req = "DATA"
    <3> DEFINE g == Len(got[e])
    <3>1. /\ m = Chunk(g + 1) /\ g \in Nat /\ g < sent[Peer(e)]
      BY <2>1, <2>2, NextChunk
    <3>2. got' = [got EXCEPT ![e] = Append(@, <<1, g + 1>>)] /\ closed' = closed
      <4>1. m.session = 1 /\ m.n = g + 1
        BY <3>1 DEF Chunk
      <4>2. /\ got' = [got EXCEPT ![e] = Append(@, <<m.session, m.n>>)]
            /\ closed' = closed
        BY <1>6, <2>2 DEF ReadRequest
      <4> HIDE DEF m, g
      <4> QED
        BY <4>1, <4>2
    <3>3. /\ Len(Numbers(got[e])) = g
          /\ Numbers(Append(got[e], <<1, g + 1>>)) = Append(Numbers(got[e]), g + 1)
      <4>1. got[e] \in Seq(Nat \X Nat) /\ g + 1 \in Nat
        BY <1>1, <3>1 DEF Rest
      <4> QED
        BY <4>1, NumbersLaws
    <3> DEFINE bar == [f \in End |-> Numbers(got[f])]
    <3>4. /\ Len(bar[e]) < sent[Peer(e)]
          /\ bar' = [bar EXCEPT ![e] = Append(@, Len(@) + 1)]
      BY <1>1, <3>1, <3>2, <3>3 DEF Rest
    <3>5. [f \in End |-> [i \in 1..Len(got[f]) |-> got[f][i][2]]] = bar
      BY DEF Numbers
    <3>6. [f \in End |-> [i \in 1..Len(got'[f]) |-> got'[f][i][2]]] = bar'
      BY DEF Numbers
    <3> HIDE DEF bar
    <3>7. Path!Deliver(e)
      BY <2>1, <3>2, <3>4, <3>5, <3>6, PathIs DEF Path!Deliver
    <3> QED
      BY <3>7, PathIs DEF Path!Next
  <2>3. CASE m.req = "CLOSE"
    <3>1. /\ closed[Peer(e)] # "no"
          /\ Len(got[e]) = sent[Peer(e)] \/ closed[Peer(e)] = "error"
      BY <2>1, <2>3, LastChunk
    <3>2. got' = got /\ Close(e, "peer")
      BY <1>6, <2>3 DEF ReadRequest
    <3> QED
      BY <1>5, <2>1, <3>1, <3>2
  <2>4. CASE m.req # "DATA" /\ m.req # "CLOSE"
    BY <1>2, <1>6, <2>1, <2>4 DEF ReadRequest
  <2> QED
    BY <2>2, <2>3, <2>4
\* A request that cannot be written closes the tunnel, or nothing.
<1>7. ASSUME NEW e \in End, UNCHANGED <<sent, got>>, RequestFails(e) PROVE Goal
  BY <1>2, <1>5, <1>7 DEF RequestFails
<1>8. ASSUME NEW e \in End, Writes(e) PROVE Goal
  <2>1. UNCHANGED <<sent, got>> /\ (closed' = closed \/ RequestFails(e))
    BY <1>8 DEF Writes, WriteRequest, WriteLost, WriteEPIPE, WriteFails,
       RequestFails, history
  <2> QED
    BY <1>2, <1>7, <2>1
<1>9. ASSUME NEW e \in End, DeviceInput(e) PROVE Goal
  BY <1>3, <1>9 DEF DeviceInput, Polling
<1>10. ASSUME NEW e \in End, DeviceCloses(e) \/ ReadUnwritten(e) PROVE Goal
  BY <1>5, <1>10 DEF DeviceCloses, ReadUnwritten, history
<1>11. ASSUME NEW e \in End, session[e] = 0, BeginSession(e) PROVE Goal
  <2>1. closed[e] = "no" /\ sent[e] = 0 /\ got[e] = <<>>
    BY <1>1, <1>11 DEF EndInv
  <2>2. UNCHANGED <<sent, got, closed>>
    BY <1>1, <1>11, <2>1 DEF BeginSession, Rest
  <2> QED
    BY <1>2, <2>2
<1>12. CASE AcceptReturns \/ TunnelConnect
  <2>1. CASE TunnelConnect
    <3>1. session["htc"] = 0 /\ BeginSession("htc")
      BY <1>1, <2>1 DEF TunnelConnect
    <3> QED
      BY <1>1, <1>11, <3>1
  <2>2. CASE AcceptReturns /\ BeginSession("hts") /\ session["hts"] < Sessions
    <3>1. session["hts"] = 0
      BY <1>1, <2>2
    <3> QED
      BY <1>1, <1>11, <2>2, <3>1
  <2>3. CASE UNCHANGED <<closed, history>>
    BY <1>2, <2>3 DEF history
  <2> QED
    BY <1>12, <2>1, <2>2, <2>3 DEF AcceptReturns
<1>13. ASSUME NEW e \in End,
              \/ TunnelReady(e) \/ KeepAlive(e) \/ TunnelClose(e)
              \/ ReadDisconnect(e) \/ Disconnect(e) \/ DrainMore(e) \/ DrainDone(e)
       PROVE  Goal
  BY <1>2, <1>13 DEF TunnelReady, KeepAlive, TunnelClose, ReadDisconnect,
     Disconnect, DrainMore, DrainDone, control, history
<1>14. CASE \/ AcceptPost \/ AcceptGet \/ OutConnect \/ InConnect \/ Answered
            \/ NotAnswered \/ AnswerLost \/ AnswerGetFails \/ OutAccept
            \/ ReadAccept \/ ReadAgain \/ UNCHANGED vars
  BY <1>2, <1>14 DEF AcceptPost, AcceptGet, OutConnect, InConnect, Answered,
     NotAnswered, AnswerLost, AnswerGetFails, Fault, OutAccept, ReadAccept, ReadAgain,
     control, history, vars
\* htc cannot open a connection, or exits.
<1>15. CASE \/ OutConnectFails \/ PostFails \/ InConnectFails \/ GetFails
            \/ AnswerFails \/ Exit
  <2>1. UNCHANGED <<sent, got>>
    BY <1>15 DEF OutConnectFails, PostFails, InConnectFails, GetFails, AnswerFails,
       Exit, Fault, history
  <2>2. RequestFails("htc") \/ closed' = closed \/ Close("htc", "error")
    BY <1>15 DEF OutConnectFails, PostFails, InConnectFails, GetFails, AnswerFails,
       InFails, Exit
  <2> QED
    BY <1>1, <1>2, <1>5, <1>7, <2>1, <2>2
\* What hts finds in its queue cannot be used.
<1>16. CASE AcceptFails
  <2>1. CASE session["hts"] < Sessions /\ BeginSession("hts")
    <3>1. session["hts"] = 0
      BY <1>1, <2>1
    <3> QED
      BY <1>1, <1>11, <2>1, <3>1
  <2>2. CASE UNCHANGED history /\ (closed' = closed \/ Close("hts", "error"))
    BY <1>1, <1>2, <1>5, <2>2 DEF history
  <2>3. CASE UNCHANGED history /\ RequestFails("hts")
    BY <1>1, <1>7, <2>3 DEF history
  <2> QED
    BY <1>16, <2>1, <2>2, <2>3, AcceptFailsCases DEF control
<1>17. ~CloseAged /\ ~CloseAgedFails /\ ~AcceptTimeout
  BY <1>1 DEF CloseAged, CloseAgedFails, AcceptTimeout
<1> HIDE DEF Goal
<1> QED
  BY <1>6, <1>8, <1>9, <1>10, <1>12, <1>13, <1>14, <1>15, <1>16, <1>17, Zenon
     DEF Next, Environment, Fails, Runs, Reads, Closes

\* DataPathSpec: in one tunnel, of whose two directions at most one replaces its
\* bodies, what one device sends comes out at the other, in order and without a
\* gap, and an end that hears that its peer has closed has received all that was
\* sent to it.
THEOREM DataPathSpecCorrect == OneDirection => (Spec => DataPathSpec)
<1> SUFFICES ASSUME OneDirection PROVE Spec => DataPathSpec
  OBVIOUS
<1> DEFINE Inv == TypeInv /\ PathInv /\ OrderInv /\ ChunksInv
<1>1. Init => Inv
  BY TypeInit, PathInit, OrderInit, ChunksInit
<1>2. Inv /\ [Next]_vars => Inv'
  <2> SUFFICES ASSUME Inv, [Next]_vars PROVE Inv'
    OBVIOUS
  <2>1. TypeInv'
    BY DescriptorsNext, RestNext DEF TypeInv
  <2>2. PathInv' /\ OrderInv'
    BY <2>1, PathStep, OrderNext
  <2>3. ChunksInv'
    BY <2>1, ChunkStep, CloseStep, LossStep DEF ChunksInv
  <2> QED
    BY <2>1, <2>2, <2>3
<1>3. Inv /\ Inv' /\ [Next]_vars => [Path!Next]_(Path!vars)
  BY PathMoves
<1>4. Init => Path!Init
  BY PathStarts
<1> HIDE DEF Inv
<1> QED
  BY <1>1, <1>2, <1>3, <1>4, PTL DEF Spec, DataPathSpec, Path!Spec
=============================================================================
