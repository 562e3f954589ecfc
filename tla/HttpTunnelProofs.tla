-------------------------- MODULE HttpTunnelProofs --------------------------
(***************************************************************************)
(* That what an end of httptunnel receives is neither repeated nor out of  *)
(* order, with the type invariant, and their proofs.                       *)
(*                                                                         *)
(* A chunk passes from the request being written to a connection, where    *)
(* others may be before it, and from there to the device.  The invariant   *)
(* orders what is at these places: what an end has received precedes what  *)
(* is in the connections it still reads from, in the order in which it     *)
(* will read them, and all of it precedes the request being written.  hts  *)
(* reads its input and then the POSTs in the queue, and htc writes to the  *)
(* last of them; htc reads from the GET it has opened last only.           *)
(*                                                                         *)
(* The system calls are operators on the connections, so the lemmas about  *)
(* them speak of any connections cs, queue q and descriptors o and i.      *)
(***************************************************************************)
EXTENDS HttpTunnel, SequenceTheorems, WellFoundedInduction, TLAPS

OutKind(e) == IF e = "htc" THEN "POST" ELSE "GET"
InKind(e) == IF e = "htc" THEN "GET" ELSE "POST"

\* Descriptors and the queue hold connections of the right kind that are open
\* on that side; a connection in the queue is there once, and not accepted.
Descriptors(cs, q, o, i) ==
    /\ cs \in [Conns -> Connections]
    /\ q \in Seq(Conns)
    /\ o \in [End -> Conns \cup {None}] /\ i \in [End -> Conns \cup {None}]
    /\ \A e \in End : o[e] # None =>
         cs[o[e]].writer /\ cs[o[e]].kind = OutKind(e)
    /\ \A e \in End : i[e] # None =>
         cs[i[e]].reader /\ cs[i[e]].kind = InKind(e)
    /\ \A k \in 1..Len(q) :
         /\ IF cs[q[k]].kind = "POST" THEN cs[q[k]].reader
            ELSE cs[q[k]].kind = "GET" /\ cs[q[k]].writer
         /\ q[k] # i["hts"] /\ q[k] # o["hts"]
    /\ \A k, l \in 1..Len(q) : q[k] = q[l] => k = l

\* The other variables
Rest ==
    /\ pc \in [End -> Points]
    /\ call \in [End -> [msg : Msgs, next : Points]]
    /\ ends \in EndChoices
    /\ closed \in [End -> {"no", "device", "peer", "error"}]
    /\ session \in [End -> 0..Sessions]
    /\ sent \in [End -> Nat]
    /\ got \in [End -> Seq(Nat \X Nat)]
    /\ opened \in BOOLEAN /\ rejected \in BOOLEAN /\ faults \in 0..Faults

TypeInv == Descriptors(conn, queue, out, in) /\ Rest

-----------------------------------------------------------------------------
Item(m) == <<m.session, m.n>>

\* Each chunk in v precedes each in w.
Apart(v, w) ==
    \A k \in 1..Len(v), l \in 1..Len(w) :
        v[k].req = "DATA" /\ w[l].req = "DATA" =>
            Precedes(Item(v[k]), Item(w[l]))

Increasing(w) ==
    \A k, l \in 1..Len(w) :
        k < l /\ w[k].req = "DATA" /\ w[l].req = "DATA" =>
            Precedes(Item(w[k]), Item(w[l]))

\* Does hts read c now or later?
Place(q, i, c) == c = i["hts"] \/ \E k \in 1..Len(q) : c = q[k]

\* Does e read from c?
Source(e, cs, q, i, c) ==
    IF e = "hts" THEN cs[c].kind = "POST" /\ Place(q, i, c) ELSE c = i["htc"]

\* Does hts read c before d?
Earlier(q, i, c, d) ==
    \/ c = i["hts"] /\ \E k \in 1..Len(q) : d = q[k]
    \/ \E k, l \in 1..Len(q) : k < l /\ c = q[k] /\ d = q[l]

\* What lies in w on its way to an end that has received g, when its peer is
\* writing m and has sent up to t
WireOrder(w, g, m, t) ==
    /\ Increasing(w)
    /\ \A l \in 1..Len(w) : w[l].req = "DATA" =>
         /\ \A k \in 1..Len(g) : Precedes(g[k], Item(w[l]))
         /\ m.req = "DATA" => Precedes(Item(w[l]), Item(m))
         /\ ~Precedes(t, Item(w[l]))

GotOrder(g, m, t) ==
    /\ \A k, l \in 1..Len(g) : k < l => Precedes(g[k], g[l])
    /\ \A k \in 1..Len(g) :
         /\ m.req = "DATA" => Precedes(g[k], Item(m))
         /\ ~Precedes(t, g[k])
    /\ m.req = "DATA" => ~Precedes(t, Item(m))

\* htc writes to the last of the connections that hts will read.
ChainOrder(cs, q, o, i) ==
    \A c, d \in Conns :
      cs[c].kind = "POST" /\ cs[d].kind = "POST" /\ Earlier(q, i, c, d) =>
        c # o["htc"] /\ Apart(cs[c].wire, cs[d].wire)

\* Each end has received g and is writing m, and has sent up to t.
Orders(cs, q, o, i, g, m, t) ==
    /\ \A e \in End : GotOrder(g[e], m[Peer(e)], t[Peer(e)])
    /\ \A e \in End, c \in Conns : Source(e, cs, q, i, c) =>
         WireOrder(cs[c].wire, g[e], m[Peer(e)], t[Peer(e)])
    /\ ChainOrder(cs, q, o, i)

Pending == [e \in End |-> call[e].msg]
Last == [e \in End |-> <<session[e], sent[e]>>]

OrderInv == Orders(conn, queue, out, in, got, Pending, Last)
-----------------------------------------------------------------------------
(***************************************************************************)
(* Connections, and what a system call does to them.                       *)
(***************************************************************************)

\* FirstFree is a free connection when there is one.
LEMMA FirstFreeIsFree == Free # {} => FirstFree \in Free
<1> SUFFICES ASSUME Free # {} PROVE FirstFree \in Free
  OBVIOUS
<1>1. Free \subseteq Nat
  BY HttpTunnelAssumption DEF Free, Conns
<1>2. PICK c \in Free : \A d \in Free : ~(<<d, c>> \in OpToRel(<, Nat))
  BY <1>1, WFMin, NatLessThanWellFounded
<1>3. \A d \in Free : ~(d < c)
  BY <1>1, <1>2, Zenon DEF OpToRel
<1>4. \A d \in Free : c <= d
  BY <1>1, <1>3
<1> QED
  BY <1>4 DEF FirstFree

\* None is not a connection.
LEMMA NoneIsNot == None \notin Conns /\ Conns \subseteq Nat
BY HttpTunnelAssumption DEF None, Conns

\* What a connection consists of.
LEMMA Fields ==
    ASSUME NEW cs \in [Conns -> Connections], NEW c \in Conns
    PROVE  /\ cs[c] \in Connections
           /\ cs[c].kind \in {"none", "POST", "GET"}
           /\ cs[c].wire \in Seq(Msgs) /\ Len(cs[c].wire) \in Nat
           /\ cs[c].writer \in BOOLEAN /\ cs[c].reader \in BOOLEAN
           /\ cs[c].reset \in BOOLEAN
<1>1. cs[c] \in Connections
  OBVIOUS
<1> QED
  BY <1>1, LenProperties DEF Connections

\* A write adds a message to a connection, and changes nothing else.
LEMMA WriteEffect ==
    ASSUME NEW cs \in [Conns -> Connections], NEW c \in Conns, NEW m \in Msgs
    PROVE  /\ Write(cs, c, m) \in [Conns -> Connections]
           /\ \A d \in Conns :
                /\ Write(cs, c, m)[d].kind = cs[d].kind
                /\ Write(cs, c, m)[d].writer = cs[d].writer
                /\ Write(cs, c, m)[d].reader = cs[d].reader
                /\ Write(cs, c, m)[d].wire =
                     IF d = c THEN Append(cs[c].wire, m) ELSE cs[d].wire
<1> DEFINE r == [cs[c] EXCEPT !.wire = Append(cs[c].wire, m)]
<1>1. cs[c] \in Connections /\ cs[c].wire \in Seq(Msgs)
  BY Fields
<1>2. Append(cs[c].wire, m) \in Seq(Msgs)
  BY <1>1
<1>3. /\ r \in Connections
      /\ r.kind = cs[c].kind /\ r.writer = cs[c].writer
      /\ r.reader = cs[c].reader /\ r.wire = Append(cs[c].wire, m)
  BY <1>1, <1>2 DEF Connections
<1>4. Write(cs, c, m) = [cs EXCEPT ![c] = r]
  BY DEF Write
<1> HIDE DEF r
<1> QED
  BY <1>3, <1>4

\* A read takes the first message from a connection, and changes nothing else.
LEMMA ConsumeEffect ==
    ASSUME NEW cs \in [Conns -> Connections], NEW c \in Conns,
           cs[c].wire # <<>>
    PROVE  /\ Consume(cs, c) \in [Conns -> Connections]
           /\ \A d \in Conns :
                /\ Consume(cs, c)[d].kind = cs[d].kind
                /\ Consume(cs, c)[d].writer = cs[d].writer
                /\ Consume(cs, c)[d].reader = cs[d].reader
                /\ Consume(cs, c)[d].wire =
                     IF d = c THEN Tail(cs[c].wire) ELSE cs[d].wire
<1> DEFINE r == [cs[c] EXCEPT !.wire = Tail(cs[c].wire)]
<1>1. cs[c] \in Connections /\ cs[c].wire \in Seq(Msgs)
  BY Fields
<1>2. Tail(cs[c].wire) \in Seq(Msgs)
  BY <1>1, HeadTailProperties
<1>3. /\ r \in Connections
      /\ r.kind = cs[c].kind /\ r.writer = cs[c].writer
      /\ r.reader = cs[c].reader /\ r.wire = Tail(cs[c].wire)
  BY <1>1, <1>2 DEF Connections
<1>4. Consume(cs, c) = [cs EXCEPT ![c] = r]
  BY DEF Consume
<1> HIDE DEF r
<1> QED
  BY <1>3, <1>4

\* A connection that does not exist has nothing in it.
LEMMA NoConnType ==
    /\ NoConn \in Connections /\ NoConn.kind = "none" /\ NoConn.wire = <<>>
    /\ NoConn.writer = FALSE /\ NoConn.reader = FALSE
<1>1. <<>> \in Seq(Msgs)
  BY EmptySeq
<1> QED
  BY <1>1 DEF NoConn, Connections

\* What connect and the header of a request leave, if they do not fail and if
\* they do
Opened(kind) == {NewConn(kind), DeadConn(kind)}

\* A new connection is open on both sides, with nothing in it.
LEMMA NewConnType ==
    ASSUME NEW kind \in {"POST", "GET"}, NEW new \in Opened(kind)
    PROVE  /\ new \in Connections /\ new.kind = kind
           /\ new.wire = <<>> /\ new.writer = TRUE /\ new.reader = TRUE
<1>1. <<>> \in Seq(Msgs)
  BY EmptySeq
<1> QED
  BY <1>1 DEF Opened, NewConn, DeadConn, NoConn, Connections

\* A connection that breaks loses what is in it.
LEMMA BreakEffect ==
    ASSUME NEW cs \in [Conns -> Connections], NEW c \in Conns
    PROVE  /\ Break(cs, c) \in [Conns -> Connections]
           /\ \A d \in Conns :
                /\ Break(cs, c)[d].kind = cs[d].kind
                /\ Break(cs, c)[d].writer = cs[d].writer
                /\ Break(cs, c)[d].reader = cs[d].reader
                /\ Break(cs, c)[d].wire = IF d = c THEN <<>> ELSE cs[d].wire
                /\ Break(cs, c)[d].reset = (d = c \/ cs[d].reset)
<1> DEFINE r == [[cs[c] EXCEPT !.reset = TRUE] EXCEPT !.wire = <<>>]
<1>1. cs[c] \in Connections /\ <<>> \in Seq(Msgs)
  BY Fields, EmptySeq
<1>2. /\ r \in Connections
      /\ r.kind = cs[c].kind /\ r.writer = cs[c].writer
      /\ r.reader = cs[c].reader /\ r.wire = <<>> /\ r.reset = TRUE
  BY <1>1 DEF Connections
<1>3. Break(cs, c) = [cs EXCEPT ![c] = r]
  BY DEF Break
<1>4. \A d \in Conns : cs[d].reset \in BOOLEAN
  BY Fields
<1> HIDE DEF r
<1> QED
  BY <1>2, <1>3, <1>4

\* What CloseWriter or CloseReader does to one connection
LEMMA CloseWriterEffect ==
    ASSUME NEW cs \in [Conns -> Connections], NEW c \in Conns
    PROVE  /\ CloseWriter(cs, c) \in [Conns -> Connections]
           /\ \A d \in Conns \ {c} : CloseWriter(cs, c)[d] = cs[d]
           /\ IF cs[c].reader
              THEN /\ CloseWriter(cs, c)[c].kind = cs[c].kind
                   /\ CloseWriter(cs, c)[c].wire = cs[c].wire
                   /\ CloseWriter(cs, c)[c].reader = TRUE
              ELSE CloseWriter(cs, c)[c] = NoConn
<1> DEFINE r == [cs[c] EXCEPT !.writer = FALSE]
<1>1. cs[c] \in Connections
  BY Fields
<1>2. /\ r \in Connections
      /\ r.kind = cs[c].kind /\ r.wire = cs[c].wire /\ r.reader = cs[c].reader
  BY <1>1 DEF Connections
<1>3. CloseWriter(cs, c) =
        [cs EXCEPT ![c] = IF cs[c].reader THEN r ELSE NoConn]
  BY DEF CloseWriter
<1> HIDE DEF r
<1> QED
  BY <1>1, <1>2, <1>3, NoConnType DEF Connections

\* When its reader has closed a connection nothing is in it.
LEMMA CloseReaderEffect ==
    ASSUME NEW cs \in [Conns -> Connections], NEW c \in Conns
    PROVE  /\ CloseReader(cs, c) \in [Conns -> Connections]
           /\ \A d \in Conns \ {c} : CloseReader(cs, c)[d] = cs[d]
           /\ CloseReader(cs, c)[c].wire = <<>>
           /\ IF cs[c].writer
              THEN /\ CloseReader(cs, c)[c].kind = cs[c].kind
                   /\ CloseReader(cs, c)[c].writer = TRUE
              ELSE CloseReader(cs, c)[c] = NoConn
<1> DEFINE r == [cs[c] EXCEPT !.reader = FALSE, !.wire = <<>>]
<1>1. cs[c] \in Connections /\ <<>> \in Seq(Msgs)
  BY Fields, EmptySeq
<1>2. /\ r \in Connections
      /\ r.kind = cs[c].kind /\ r.wire = <<>> /\ r.writer = cs[c].writer
  BY <1>1 DEF Connections
<1>3. CloseReader(cs, c) =
        [cs EXCEPT ![c] = IF cs[c].writer THEN r ELSE NoConn]
  BY DEF CloseReader
<1> HIDE DEF r
<1> QED
  BY <1>1, <1>2, <1>3, NoConnType DEF Connections

-----------------------------------------------------------------------------
(***************************************************************************)
(* Descriptors.                                                            *)
(***************************************************************************)

\* Bytes that move change no descriptor.
LEMMA BytesD ==
    ASSUME NEW cs, NEW cs2, NEW q, NEW o, NEW i, Descriptors(cs, q, o, i),
           cs2 \in [Conns -> Connections],
           \A d \in Conns : /\ cs2[d].kind = cs[d].kind
                            /\ cs2[d].writer = cs[d].writer
                            /\ cs2[d].reader = cs[d].reader
    PROVE  Descriptors(cs2, q, o, i)
<1>1. \A k \in 1..Len(q) : q[k] \in Conns
  BY ElementOfSeq DEF Descriptors
<1> QED
  BY <1>1 DEF Descriptors, End

\* A descriptor is given up.
LEMMA ForgetOutD ==
    ASSUME NEW cs, NEW q, NEW o, NEW i, Descriptors(cs, q, o, i), NEW e \in End
    PROVE  Descriptors(cs, q, [o EXCEPT ![e] = None], i)
<1>1. \A k \in 1..Len(q) : q[k] \in Conns
  BY ElementOfSeq DEF Descriptors
<1> QED
  BY <1>1, NoneIsNot DEF Descriptors, End

\* An end has no input any more.
LEMMA ForgetInD ==
    ASSUME NEW cs, NEW q, NEW o, NEW i, Descriptors(cs, q, o, i), NEW e \in End
    PROVE  Descriptors(cs, q, o, [i EXCEPT ![e] = None])
<1>1. \A k \in 1..Len(q) : q[k] \in Conns
  BY ElementOfSeq DEF Descriptors
<1> QED
  BY <1>1, NoneIsNot DEF Descriptors, End

\* A side that no descriptor and no connection of the queue needs is closed.
LEMMA CloseWriterD ==
    ASSUME NEW cs, NEW q, NEW o, NEW i, Descriptors(cs, q, o, i),
           NEW c \in Conns, \A e \in End : o[e] # c,
           \A k \in 1..Len(q) : q[k] = c => cs[c].kind = "POST"
    PROVE  Descriptors(CloseWriter(cs, c), q, o, i)
<1> DEFINE cs2 == CloseWriter(cs, c)
<1>1. /\ cs2 \in [Conns -> Connections]
      /\ \A d \in Conns \ {c} : cs2[d] = cs[d]
      /\ cs[c].reader => cs2[c].kind = cs[c].kind /\ cs2[c].reader = TRUE
  <2>1. cs \in [Conns -> Connections]
    BY DEF Descriptors
  <2> QED
    BY <2>1, CloseWriterEffect, Zenon
<1> HIDE DEF cs2
<1>2. \A k \in 1..Len(q) : q[k] \in Conns
  BY ElementOfSeq DEF Descriptors
<1>3. \A k \in 1..Len(q) :
        IF cs2[q[k]].kind = "POST" THEN cs2[q[k]].reader
        ELSE cs2[q[k]].kind = "GET" /\ cs2[q[k]].writer
  BY <1>1, <1>2 DEF Descriptors
<1>4. \A e \in End : o[e] # None =>
        cs2[o[e]].writer /\ cs2[o[e]].kind = OutKind(e)
  BY <1>1 DEF Descriptors
<1>5. \A e \in End : i[e] # None =>
        cs2[i[e]].reader /\ cs2[i[e]].kind = InKind(e)
  BY <1>1 DEF Descriptors
<1> QED
  BY <1>1, <1>3, <1>4, <1>5 DEF Descriptors, cs2

\* The reader closes a connection that is no end's input.
LEMMA CloseReaderD ==
    ASSUME NEW cs, NEW q, NEW o, NEW i, Descriptors(cs, q, o, i),
           NEW c \in Conns, \A e \in End : i[e] # c,
           \A k \in 1..Len(q) : q[k] = c => cs[c].kind = "GET"
    PROVE  Descriptors(CloseReader(cs, c), q, o, i)
<1> DEFINE cs2 == CloseReader(cs, c)
<1>1. /\ cs2 \in [Conns -> Connections]
      /\ \A d \in Conns \ {c} : cs2[d] = cs[d]
      /\ cs[c].writer => cs2[c].kind = cs[c].kind /\ cs2[c].writer = TRUE
  <2>1. cs \in [Conns -> Connections]
    BY DEF Descriptors
  <2> QED
    BY <2>1, CloseReaderEffect, Zenon
<1> HIDE DEF cs2
<1>2. \A k \in 1..Len(q) : q[k] \in Conns
  BY ElementOfSeq DEF Descriptors
<1>3. \A k \in 1..Len(q) :
        IF cs2[q[k]].kind = "POST" THEN cs2[q[k]].reader
        ELSE cs2[q[k]].kind = "GET" /\ cs2[q[k]].writer
  BY <1>1, <1>2 DEF Descriptors
<1>4. \A e \in End : o[e] # None =>
        cs2[o[e]].writer /\ cs2[o[e]].kind = OutKind(e)
  BY <1>1 DEF Descriptors
<1>5. \A e \in End : i[e] # None =>
        cs2[i[e]].reader /\ cs2[i[e]].kind = InKind(e)
  BY <1>1 DEF Descriptors
<1> QED
  BY <1>1, <1>3, <1>4, <1>5 DEF Descriptors, cs2

\* An end closes its own side.
LEMMA CloseOutD ==
    ASSUME NEW cs, NEW q, NEW o, NEW i, Descriptors(cs, q, o, i), NEW e \in End
    PROVE  Descriptors(CloseOut(cs, o[e]), q, [o EXCEPT ![e] = None], i)
<1> DEFINE o2 == [o EXCEPT ![e] = None]
<1>1. Descriptors(cs, q, o2, i)
  BY ForgetOutD
<1>2. CASE o[e] = None
  BY <1>1, <1>2 DEF CloseOut
<1>3. CASE o[e] # None
  <2>1. o[e] \in Conns /\ cs[o[e]].kind = OutKind(e)
          /\ o \in [End -> Conns \cup {None}]
    BY <1>3 DEF Descriptors
  <2>2. \A d \in End : o2[d] # o[e]
    <3> SUFFICES ASSUME NEW d \in End, d # e, o[d] = o[e] PROVE FALSE
      BY <1>3, <2>1
    <3>1. cs[o[d]].kind = OutKind(d)
      BY <1>3 DEF Descriptors
    <3> QED
      BY <2>1, <3>1 DEF OutKind, End
  <2>3. \A k \in 1..Len(q) : q[k] = o[e] => cs[o[e]].kind = "POST"
    BY <2>1 DEF Descriptors, OutKind, End
  <2> HIDE DEF o2
  <2>4. Descriptors(CloseWriter(cs, o[e]), q, o2, i)
    BY <1>1, <2>1, <2>2, <2>3, CloseWriterD
  <2> QED
    BY <1>3, <2>4 DEF CloseOut, o2
<1> QED
  BY <1>2, <1>3

\* An end closes its input.
LEMMA CloseInD ==
    ASSUME NEW cs, NEW q, NEW o, NEW i, Descriptors(cs, q, o, i), NEW e \in End
    PROVE  Descriptors(CloseIn(cs, i[e]), q, o, [i EXCEPT ![e] = None])
<1> DEFINE i2 == [i EXCEPT ![e] = None]
<1>1. Descriptors(cs, q, o, i2)
  BY ForgetInD
<1>2. CASE i[e] = None
  BY <1>1, <1>2 DEF CloseIn
<1>3. CASE i[e] # None
  <2>1. i[e] \in Conns /\ cs[i[e]].kind = InKind(e)
          /\ i \in [End -> Conns \cup {None}]
    BY <1>3 DEF Descriptors
  <2>2. \A d \in End : i2[d] # i[e]
    <3> SUFFICES ASSUME NEW d \in End, d # e, i[d] = i[e] PROVE FALSE
      BY <1>3, <2>1
    <3>1. cs[i[d]].kind = InKind(d)
      BY <1>3 DEF Descriptors
    <3> QED
      BY <2>1, <3>1 DEF InKind, End
  <2>3. \A k \in 1..Len(q) : q[k] = i[e] => cs[i[e]].kind = "GET"
    BY <2>1 DEF Descriptors, InKind, End
  <2> HIDE DEF i2
  <2>4. Descriptors(CloseReader(cs, i[e]), q, o, i2)
    BY <1>1, <2>1, <2>2, <2>3, CloseReaderD
  <2> QED
    BY <1>3, <2>4 DEF CloseIn, i2
<1> QED
  BY <1>2, <1>3

\* htc opens a connection.
LEMMA OpenOutD ==
    ASSUME NEW cs, NEW q, NEW o, NEW i, Descriptors(cs, q, o, i),
           NEW c \in Conns, cs[c].kind = "none",
           NEW new \in Opened("POST")
    PROVE  Descriptors([cs EXCEPT ![c] = new], Append(q, c),
                       [o EXCEPT !["htc"] = c], i)
<1> DEFINE cs2 == [cs EXCEPT ![c] = new]
           q2 == Append(q, c)
<1>1. /\ cs2 \in [Conns -> Connections] /\ cs2[c] = new
      /\ \A d \in Conns \ {c} : cs2[d] = cs[d]
      /\ cs2[c].kind = "POST" /\ cs2[c].writer /\ cs2[c].reader
  BY NewConnType DEF Descriptors
<1>2. /\ q \in Seq(Conns) /\ Len(q) \in Nat
      /\ \A k \in 1..Len(q) : q[k] \in Conns /\ q[k] # c
  BY ElementOfSeq, LenProperties DEF Descriptors
<1>3. /\ q2 \in Seq(Conns) /\ Len(q2) = Len(q) + 1 /\ q2[Len(q) + 1] = c
      /\ \A k \in 1..Len(q) : q2[k] = q[k]
  BY <1>2, AppendProperties
<1>4. \A e \in End : o[e] # c /\ i[e] # c
  BY NoneIsNot DEF Descriptors, OutKind, InKind
<1> HIDE DEF cs2, q2
<1>5. \A k \in 1..Len(q2) :
        /\ IF cs2[q2[k]].kind = "POST" THEN cs2[q2[k]].reader
           ELSE cs2[q2[k]].kind = "GET" /\ cs2[q2[k]].writer
        /\ q2[k] # i["hts"] /\ q2[k] # o["hts"]
  <2> TAKE k \in 1..Len(q2)
  <2>1. CASE k \in 1..Len(q)
    BY <1>1, <1>2, <1>3, <2>1 DEF Descriptors
  <2>2. CASE k = Len(q) + 1
    BY <1>1, <1>3, <1>4, <2>2 DEF End
  <2> QED
    BY <1>2, <1>3, <2>1, <2>2
<1>6. \A k, l \in 1..Len(q2) : q2[k] = q2[l] => k = l
  <2> TAKE k, l \in 1..Len(q2)
  <2>1. CASE k \in 1..Len(q) /\ l \in 1..Len(q)
    BY <1>3, <2>1 DEF Descriptors
  <2>2. CASE ~(k \in 1..Len(q) /\ l \in 1..Len(q))
    BY <1>2, <1>3, <2>2
  <2> QED
    BY <2>1, <2>2
<1> DEFINE o2 == [o EXCEPT !["htc"] = c]
<1>7. /\ o2 \in [End -> Conns \cup {None}]
      /\ o2["htc"] = c /\ o2["hts"] = o["hts"]
  BY DEF Descriptors, End
<1>8. \A e \in End : o2[e] # None =>
          cs2[o2[e]].writer /\ cs2[o2[e]].kind = OutKind(e)
  BY <1>1, <1>4, <1>7 DEF Descriptors, OutKind, End
<1>9. \A e \in End : i[e] # None =>
          cs2[i[e]].reader /\ cs2[i[e]].kind = InKind(e)
  BY <1>1, <1>4 DEF Descriptors
<1> HIDE DEF o2
<1>10. Descriptors(cs2, q2, o2, i)
  BY <1>1, <1>3, <1>5, <1>6, <1>7, <1>8, <1>9 DEF Descriptors
<1> QED
  BY <1>10 DEF cs2, q2, o2

\* htc opens a GET, which hts is to accept.
LEMMA OpenInD ==
    ASSUME NEW cs, NEW q, NEW o, NEW i, Descriptors(cs, q, o, i),
           NEW c \in Conns, cs[c].kind = "none",
           NEW new \in Opened("GET")
    PROVE  Descriptors([cs EXCEPT ![c] = new], Append(q, c),
                       o, [i EXCEPT !["htc"] = c])
<1> DEFINE cs2 == [cs EXCEPT ![c] = new]
           q2 == Append(q, c)
<1>1. /\ cs2 \in [Conns -> Connections] /\ cs2[c] = new
      /\ \A d \in Conns \ {c} : cs2[d] = cs[d]
      /\ cs2[c].kind = "GET" /\ cs2[c].writer /\ cs2[c].reader
  BY NewConnType DEF Descriptors
<1>2. /\ q \in Seq(Conns) /\ Len(q) \in Nat
      /\ \A k \in 1..Len(q) : q[k] \in Conns /\ q[k] # c
  BY ElementOfSeq, LenProperties DEF Descriptors
<1>3. /\ q2 \in Seq(Conns) /\ Len(q2) = Len(q) + 1 /\ q2[Len(q) + 1] = c
      /\ \A k \in 1..Len(q) : q2[k] = q[k]
  BY <1>2, AppendProperties
<1>4. \A e \in End : o[e] # c /\ i[e] # c
  BY NoneIsNot DEF Descriptors, OutKind, InKind
<1> HIDE DEF cs2, q2
<1>5. \A k \in 1..Len(q2) :
        /\ IF cs2[q2[k]].kind = "POST" THEN cs2[q2[k]].reader
           ELSE cs2[q2[k]].kind = "GET" /\ cs2[q2[k]].writer
        /\ q2[k] # i["hts"] /\ q2[k] # o["hts"]
  <2> TAKE k \in 1..Len(q2)
  <2>1. CASE k \in 1..Len(q)
    BY <1>1, <1>2, <1>3, <2>1 DEF Descriptors
  <2>2. CASE k = Len(q) + 1
    BY <1>1, <1>3, <1>4, <2>2 DEF End
  <2> QED
    BY <1>2, <1>3, <2>1, <2>2
<1>6. \A k, l \in 1..Len(q2) : q2[k] = q2[l] => k = l
  <2> TAKE k, l \in 1..Len(q2)
  <2>1. CASE k \in 1..Len(q) /\ l \in 1..Len(q)
    BY <1>3, <2>1 DEF Descriptors
  <2>2. CASE ~(k \in 1..Len(q) /\ l \in 1..Len(q))
    BY <1>2, <1>3, <2>2
  <2> QED
    BY <2>1, <2>2
<1> DEFINE i2 == [i EXCEPT !["htc"] = c]
<1>7. /\ i2 \in [End -> Conns \cup {None}]
      /\ i2["htc"] = c /\ i2["hts"] = i["hts"]
  BY DEF Descriptors, End
<1>8. \A e \in End : o[e] # None =>
          cs2[o[e]].writer /\ cs2[o[e]].kind = OutKind(e)
  BY <1>1, <1>4 DEF Descriptors
<1>9. \A e \in End : i2[e] # None =>
          cs2[i2[e]].reader /\ cs2[i2[e]].kind = InKind(e)
  BY <1>1, <1>4, <1>7 DEF Descriptors, InKind, End
<1> HIDE DEF i2
<1>10. Descriptors(cs2, q2, o, i2)
  <2>1. \A k \in 1..Len(q2) : q2[k] # i2["hts"]
    BY <1>5, <1>7
  <2> QED
    BY <1>1, <1>3, <1>5, <1>6, <1>7, <1>8, <1>9, <2>1 DEF Descriptors
<1> QED
  BY <1>10 DEF cs2, q2, i2

\* hts takes a connection from the queue.
LEMMA TakeD ==
    ASSUME NEW cs, NEW q, NEW o, NEW i, Descriptors(cs, q, o, i), q # <<>>
    PROVE  /\ Descriptors(cs, Tail(q), o, i)
           /\ Head(q) \in Conns /\ Head(q) # i["hts"] /\ Head(q) # o["hts"]
           /\ IF cs[Head(q)].kind = "POST" THEN cs[Head(q)].reader
              ELSE cs[Head(q)].kind = "GET" /\ cs[Head(q)].writer
           /\ Len(Tail(q)) = Len(q) - 1 /\ Len(q) \in Nat /\ Len(q) > 0
           /\ Head(q) = q[1]
           /\ \A k \in 1..Len(Tail(q)) :
                /\ k + 1 \in 1..Len(q)
                /\ Tail(q)[k] = q[k + 1] /\ Tail(q)[k] # Head(q)
<1> DEFINE q2 == Tail(q)
<1>1. q \in Seq(Conns) /\ Len(q) \in Nat
  BY LenProperties DEF Descriptors
<1>2. /\ Head(q) \in Conns /\ q2 \in Seq(Conns) /\ Len(q2) = Len(q) - 1
      /\ \A k \in 1..Len(q2) : q2[k] = q[k + 1]
  BY <1>1, HeadTailProperties
<1>3. Len(q) > 0 /\ Head(q) = q[1]
  BY <1>1, EmptySeq
<1> HIDE DEF q2
<1>4. 1 \in 1..Len(q) /\ \A k \in 1..Len(q2) : k + 1 \in 1..Len(q) /\ k + 1 # 1
  BY <1>1, <1>2, <1>3
<1>5. \A k \in 1..Len(q2) : q2[k] = q[k + 1] /\ q2[k] # Head(q)
  <2>1. \A k, l \in 1..Len(q) : q[k] = q[l] => k = l
    BY DEF Descriptors
  <2> QED
    BY <1>2, <1>3, <1>4, <2>1
<1>6. \A k, l \in 1..Len(q2) : q2[k] = q2[l] => k = l
  <2> TAKE k, l \in 1..Len(q2)
  <2>1. q2[k] = q2[l] => k + 1 = l + 1
    BY <1>4, <1>5 DEF Descriptors
  <2> QED
    BY <1>1, <1>2, <2>1
<1>7. \A k \in 1..Len(q2) :
        /\ IF cs[q2[k]].kind = "POST" THEN cs[q2[k]].reader
           ELSE cs[q2[k]].kind = "GET" /\ cs[q2[k]].writer
        /\ q2[k] # i["hts"] /\ q2[k] # o["hts"]
  BY <1>4, <1>5 DEF Descriptors
<1>8. Descriptors(cs, q2, o, i)
  BY <1>2, <1>6, <1>7 DEF Descriptors
<1>9. /\ Head(q) # i["hts"] /\ Head(q) # o["hts"]
      /\ IF cs[Head(q)].kind = "POST" THEN cs[Head(q)].reader
         ELSE cs[Head(q)].kind = "GET" /\ cs[Head(q)].writer
  BY <1>3, <1>4 DEF Descriptors
<1> QED
  BY <1>1, <1>2, <1>3, <1>4, <1>5, <1>8, <1>9 DEF q2

\* hts accepts a POST, as its input or to close it at once.
LEMMA AcceptPostD ==
    ASSUME NEW cs, NEW q, NEW o, NEW i, Descriptors(cs, q, o, i), q # <<>>,
           cs[Head(q)].kind = "POST"
    PROVE  /\ Descriptors(cs, Tail(q), o, [i EXCEPT !["hts"] = Head(q)])
           /\ Descriptors(CloseReader(cs, Head(q)), Tail(q), o, i)
<1> DEFINE q2 == Tail(q)
           i2 == [i EXCEPT !["hts"] = Head(q)]
<1>1. /\ Descriptors(cs, q2, o, i)
      /\ Head(q) \in Conns /\ Head(q) # i["hts"] /\ Head(q) # o["hts"]
      /\ cs[Head(q)].reader
      /\ \A k \in 1..Len(q2) : q2[k] # Head(q)
  BY TakeD
<1> HIDE DEF q2
<1>2. /\ i2 \in [End -> Conns \cup {None}]
      /\ i2["hts"] = Head(q) /\ i2["htc"] = i["htc"]
  BY <1>1 DEF Descriptors, End
<1>3. \A e \in End : i2[e] # None =>
          cs[i2[e]].reader /\ cs[i2[e]].kind = InKind(e)
  BY <1>1, <1>2 DEF Descriptors, InKind, End
<1>4. \A k \in 1..Len(q2) : q2[k] # i2["hts"]
  BY <1>1, <1>2
<1> HIDE DEF i2
<1>5. Descriptors(cs, q2, o, i2)
  BY <1>1, <1>2, <1>3, <1>4 DEF Descriptors
<1>6. \A e \in End : i[e] # Head(q)
  <2>1. i["htc"] # None => cs[i["htc"]].kind = "GET"
    BY DEF Descriptors, InKind, End
  <2> QED
    BY <1>1, <2>1, NoneIsNot DEF End
<1>7. Descriptors(CloseReader(cs, Head(q)), q2, o, i)
  BY <1>1, <1>6, CloseReaderD
<1> QED
  BY <1>5, <1>7 DEF q2, i2

\* hts accepts a GET, and answers it or closes it at once.
LEMMA AcceptGetD ==
    ASSUME NEW cs, NEW q, NEW o, NEW i, Descriptors(cs, q, o, i), q # <<>>,
           cs[Head(q)].kind = "GET"
    PROVE  /\ Descriptors(Write(cs, Head(q), Msg("200")), Tail(q),
                          [o EXCEPT !["hts"] = Head(q)], i)
           /\ Descriptors(CloseWriter(cs, Head(q)), Tail(q), o, i)
<1> DEFINE q2 == Tail(q)
           o2 == [o EXCEPT !["hts"] = Head(q)]
<1>1. /\ Descriptors(cs, q2, o, i)
      /\ Head(q) \in Conns /\ Head(q) # i["hts"] /\ Head(q) # o["hts"]
      /\ cs[Head(q)].writer
      /\ \A k \in 1..Len(q2) : q2[k] # Head(q)
  <2>1. cs[Head(q)].kind # "POST"
    OBVIOUS
  <2>2. Descriptors(cs, q2, o, i) /\ \A k \in 1..Len(q2) : q2[k] # Head(q)
    BY TakeD
  <2>3. Head(q) \in Conns /\ Head(q) # i["hts"] /\ Head(q) # o["hts"]
    <3>1. Head(q) = q[1] /\ Head(q) \in Conns
      BY TakeD, Zenon
    <3>2. 1 \in 1..Len(q)
      <4>1. Len(q) \in Nat /\ Len(q) > 0
        BY TakeD, Zenon
      <4> QED
        BY <4>1
    <3> QED
      BY <3>1, <3>2 DEF Descriptors
  <2>4. IF cs[Head(q)].kind = "POST" THEN cs[Head(q)].reader
        ELSE cs[Head(q)].kind = "GET" /\ cs[Head(q)].writer
    BY TakeD, Zenon
  <2> HIDE DEF q2
  <2> QED
    BY <2>1, <2>2, <2>3, <2>4
<1> HIDE DEF q2
<1>2. /\ o2 \in [End -> Conns \cup {None}]
      /\ o2["hts"] = Head(q) /\ o2["htc"] = o["htc"]
  BY <1>1 DEF Descriptors, End
<1>3. \A e \in End : o2[e] # None =>
          cs[o2[e]].writer /\ cs[o2[e]].kind = OutKind(e)
  BY <1>1, <1>2 DEF Descriptors, OutKind, End
<1>4. \A k \in 1..Len(q2) : q2[k] # o2["hts"]
  BY <1>1, <1>2
<1> HIDE DEF o2
<1>5. Descriptors(cs, q2, o2, i)
  BY <1>1, <1>2, <1>3, <1>4 DEF Descriptors
<1>6. Msg("200") \in Msgs /\ cs \in [Conns -> Connections]
  BY HttpTunnelAssumption DEF Msg, Msgs, Descriptors
<1>7. Descriptors(Write(cs, Head(q), Msg("200")), q2, o2, i)
  BY <1>1, <1>5, <1>6, WriteEffect, BytesD
<1>8. \A e \in End : o[e] # Head(q)
  <2>1. o["htc"] # None => cs[o["htc"]].kind = "POST"
    BY DEF Descriptors, OutKind, End
  <2> QED
    BY <1>1, <2>1, NoneIsNot DEF End
<1>9. Descriptors(CloseWriter(cs, Head(q)), q2, o, i)
  BY <1>1, <1>8, CloseWriterD
<1> QED
  BY <1>7, <1>9 DEF q2, o2

-----------------------------------------------------------------------------
(***************************************************************************)
(* The type invariant.                                                     *)
(***************************************************************************)

\* What an end may write is a message.
LEMMA MsgType ==
    ASSUME Rest, NEW e \in End
    PROVE  /\ call[e].msg \in Msgs
           /\ \A r \in {"200", "OPEN", "PAD", "CLOSE", "DISCONNECT"} :
                Msg(r) \in Msgs /\ Msg(r).req = r
           /\ NoCall \in [msg : Msgs, next : Points] /\ NoCall.msg = Msg("PAD")
<1>1. \A r \in {"200", "OPEN", "PAD", "CLOSE", "DISCONNECT"} :
        Msg(r) \in Msgs /\ Msg(r).req = r
  BY HttpTunnelAssumption DEF Msg, Msgs
<1> QED
  BY <1>1 DEF Rest, NoCall, Points

\* A message is written to a connection.
LEMMA WriteD ==
    ASSUME NEW cs, NEW q, NEW o, NEW i, Descriptors(cs, q, o, i),
           NEW c \in Conns, NEW m \in Msgs
    PROVE  Descriptors(Write(cs, c, m), q, o, i)
<1>1. cs \in [Conns -> Connections]
  BY DEF Descriptors
<1> QED
  BY <1>1, WriteEffect, BytesD

\* A message is read from a connection.
LEMMA ConsumeD ==
    ASSUME NEW cs, NEW q, NEW o, NEW i, Descriptors(cs, q, o, i),
           NEW c \in Conns \cup {None}, cs[c].wire # <<>>
    PROVE  Descriptors(Consume(cs, c), q, o, i)
<1>1. cs \in [Conns -> Connections]
  BY DEF Descriptors
<1>2. CASE c = None
  <2>1. Consume(cs, c) = cs
    BY <1>1, <1>2, NoneIsNot DEF Consume
  <2> QED
    BY <2>1
<1>3. CASE c \in Conns
  BY <1>1, <1>3, ConsumeEffect, BytesD
<1> QED
  BY <1>2, <1>3

\* A connection breaks.
LEMMA BreakD ==
    ASSUME NEW cs, NEW q, NEW o, NEW i, Descriptors(cs, q, o, i),
           NEW c \in Conns \cup {None}
    PROVE  Descriptors(Break(cs, c), q, o, i)
<1>1. cs \in [Conns -> Connections]
  BY DEF Descriptors
<1>2. CASE c = None
  <2>1. Break(cs, c) = cs
    BY <1>1, <1>2, NoneIsNot DEF Break
  <2> QED
    BY <2>1
<1>3. CASE c \in Conns
  BY <1>1, <1>3, BreakEffect, BytesD
<1> QED
  BY <1>2, <1>3

\* What tunnel_write_request leaves of a descriptor whose body has ended
LEMMA EndBodyD ==
    ASSUME NEW cs, NEW q, NEW o, NEW i, Descriptors(cs, q, o, i), NEW e \in End,
           o[e] # None, NEW m \in Msgs
    PROVE  /\ Descriptors(CloseWriter(cs, o[e]), q, [o EXCEPT ![e] = None], i)
           /\ Descriptors(CloseWriter(Write(cs, o[e], m), o[e]), q,
                          [o EXCEPT ![e] = None], i)
<1>1. o[e] \in Conns
  BY DEF Descriptors
<1>2. Descriptors(CloseOut(cs, o[e]), q, [o EXCEPT ![e] = None], i)
  BY CloseOutD
<1>3. Descriptors(Write(cs, o[e], m), q, o, i)
  BY <1>1, WriteD
<1>4. Descriptors(CloseOut(Write(cs, o[e], m), o[e]), q, [o EXCEPT ![e] = None],
        i)
  BY <1>3, CloseOutD
<1> QED
  BY <1>2, <1>4 DEF CloseOut

\* Both descriptors are given up.
LEMMA CloseBothD ==
    ASSUME NEW cs, NEW q, NEW o, NEW i, Descriptors(cs, q, o, i), NEW e \in End
    PROVE  Descriptors(CloseOut(CloseIn(cs, i[e]), o[e]), q,
                       [o EXCEPT ![e] = None], [i EXCEPT ![e] = None])
BY CloseInD, CloseOutD

\* A free connection is one of the connections.
LEMMA FirstFreeConn ==
    CanConnect => FirstFree \in Conns /\ conn[FirstFree].kind = "none"
BY FirstFreeIsFree DEF CanConnect, Free

\* Every step leaves descriptors of open connections of the right kind.
LEMMA DescriptorsNext ==
    ASSUME TypeInv, [Next]_vars
    PROVE  Descriptors(conn', queue', out', in')
<1> USE DEF Goto, SetOut, SetIn
<1>1. /\ Descriptors(conn, queue, out, in) /\ Rest
      /\ \A e \in End :
            out[e] \in Conns \cup {None} /\ in[e] \in Conns \cup {None}
      /\ "htc" \in End /\ "hts" \in End
  BY DEF TypeInv, Descriptors, End
<1> DEFINE Goal == Descriptors(conn', queue', out', in')
<1>2. UNCHANGED <<net, fds>> => Goal
  BY <1>1 DEF net, fds
<1> HIDE DEF Goal
<1>3. ASSUME NEW e \in End, WriteRequest(e) PROVE Goal
  <2> DEFINE written == Write(conn, out[e], call[e].msg)
  <2>1. out[e] \in Conns /\ out[e] # None
    BY <1>1, <1>3 DEF WriteRequest
  <2>2. Descriptors(written, queue, out, in)
    BY <1>1, <2>1, MsgType, WriteD
  <2> HIDE DEF written
  <2>3. Descriptors(CloseWriter(Write(written, out[e], Msg("DISCONNECT")),
          out[e]),
                    queue, [out EXCEPT ![e] = None], in)
    BY <1>1, <2>1, <2>2, MsgType, EndBodyD
  <2>4. queue' = queue /\ in' = in
    BY <1>3 DEF WriteRequest
  <2>5. \/ conn' = written /\ out' = out
        \/ /\ conn' = CloseWriter(Write(written, out[e], Msg("DISCONNECT")),
                out[e])
           /\ out' = [out EXCEPT ![e] = None]
    BY <1>3 DEF WriteRequest, written
  <2> QED
    BY <2>2, <2>3, <2>4, <2>5 DEF Goal
<1>4. ASSUME NEW e \in End, WriteLost(e) PROVE Goal
  <2>1. out[e] \in Conns /\ out[e] # None /\ queue' = queue /\ in' = in
    BY <1>1, <1>4 DEF WriteLost
  <2>2. CASE conn' = [conn EXCEPT ![out[e]].reset = TRUE] /\ out' = out
    <3>1. conn[out[e]] \in Connections /\ conn \in [Conns -> Connections]
      BY <1>1, <2>1 DEF Descriptors
    <3>2. /\ conn' \in [Conns -> Connections]
          /\ \A d \in Conns : /\ conn'[d].kind = conn[d].kind
                               /\ conn'[d].writer = conn[d].writer
                               /\ conn'[d].reader = conn[d].reader
      BY <2>1, <2>2, <3>1 DEF Connections
    <3> QED
      BY <1>1, <2>1, <2>2, <3>2, BytesD DEF Goal
  <2>3. CASE conn' = CloseWriter(conn, out[e])
               /\ out' = [out EXCEPT ![e] = None]
    <3>1. Descriptors(CloseWriter(conn, out[e]), queue,
            [out EXCEPT ![e] = None], in)
      BY <1>1, <2>1, MsgType, EndBodyD
    <3> QED
      BY <2>1, <2>3, <3>1 DEF Goal
  <2> QED
    BY <1>4, <2>2, <2>3 DEF WriteLost
<1>5. ASSUME NEW e \in End, WriteEPIPE(e) PROVE Goal
  <2>1. /\ out[e] # None /\ conn' = CloseWriter(conn, out[e])
        /\ out' = [out EXCEPT ![e] = None] /\ queue' = queue /\ in' = in
    BY <1>5 DEF WriteEPIPE, Lost
  <2>2. Descriptors(CloseWriter(conn, out[e]), queue, [out EXCEPT ![e] = None],
          in)
    BY <1>1, <2>1, MsgType, EndBodyD
  <2> QED
    BY <2>1, <2>2 DEF Goal
<1>6. ASSUME CloseAged PROVE Goal
  <2>1. /\ out["htc"] # None /\ out' = [out EXCEPT !["htc"] = None]
        /\ queue' = queue /\ in' = in
        /\ \/ conn' = CloseWriter(Write(conn, out["htc"], Msg("DISCONNECT")),
                out["htc"])
           \/ conn' = CloseWriter(conn, out["htc"])
    BY <1>6 DEF CloseAged
  <2>2. /\ Descriptors(CloseWriter(conn, out["htc"]), queue,
                       [out EXCEPT !["htc"] = None], in)
        /\ Descriptors(CloseWriter(Write(conn, out["htc"], Msg("DISCONNECT")),
             out["htc"]),
                       queue, [out EXCEPT !["htc"] = None], in)
    BY <1>1, <2>1, MsgType, EndBodyD
  <2> QED
    BY <2>1, <2>2 DEF Goal
<1>7. ASSUME OutConnect \/ PostFails PROVE Goal
  <2>1. PICK new \in Opened("POST") :
          /\ CanConnect /\ conn' = [conn EXCEPT ![FirstFree] = new]
          /\ queue' = Append(queue, FirstFree) /\ in' = in
          /\ out' = [out EXCEPT !["htc"] = FirstFree]
    BY <1>7 DEF OutConnect, PostFails, Opened
  <2> QED
    BY <1>1, <2>1, FirstFreeConn, OpenOutD DEF Goal
<1>8. ASSUME InConnect \/ GetFails PROVE Goal
  <2>1. PICK new \in Opened("GET") :
          /\ CanConnect /\ conn' = [conn EXCEPT ![FirstFree] = new]
          /\ queue' = Append(queue, FirstFree) /\ out' = out
          /\ in' = [in EXCEPT !["htc"] = FirstFree]
    BY <1>8 DEF InConnect, GetFails, Opened
  <2> QED
    BY <1>1, <2>1, FirstFreeConn, OpenInD DEF Goal
<1>9. ASSUME AcceptPost PROVE Goal
  <2>1. /\ queue # <<>> /\ conn[Head(queue)].kind = "POST"
        /\ queue' = Tail(queue) /\ out' = out
        /\ \/ in' = [in EXCEPT !["hts"] = Head(queue)] /\ conn' = conn
           \/ in' = in /\ conn' = CloseReader(conn, Head(queue))
    BY <1>9 DEF AcceptPost
  <2>2. /\ Descriptors(conn, Tail(queue), out,
             [in EXCEPT !["hts"] = Head(queue)])
        /\ Descriptors(CloseReader(conn, Head(queue)), Tail(queue), out, in)
    BY <1>1, <2>1, AcceptPostD, Zenon
  <2> QED
    BY <2>1, <2>2 DEF Goal
<1>10. ASSUME AcceptGet PROVE Goal
  <2>1. /\ queue # <<>> /\ conn[Head(queue)].kind = "GET"
        /\ queue' = Tail(queue) /\ in' = in
        /\ \/ /\ out' = [out EXCEPT !["hts"] = Head(queue)]
              /\ conn' = Write(conn, Head(queue), Msg("200"))
           \/ out' = out /\ conn' = CloseWriter(conn, Head(queue))
    BY <1>10 DEF AcceptGet
  <2>2. /\ Descriptors(Write(conn, Head(queue), Msg("200")), Tail(queue),
                       [out EXCEPT !["hts"] = Head(queue)], in)
        /\ Descriptors(CloseWriter(conn, Head(queue)), Tail(queue), out, in)
    BY <1>1, <2>1, AcceptGetD, Zenon
  <2> QED
    BY <2>1, <2>2 DEF Goal
<1>11. ASSUME AcceptTimeout PROVE Goal
  <2>1. /\ conn' = CloseOut(CloseIn(conn, in["hts"]), out["hts"])
        /\ queue' = queue
        /\ in' = [in EXCEPT !["hts"] = None]
        /\ out' = [out EXCEPT !["hts"] = None]
    BY <1>11 DEF AcceptTimeout
  <2> QED
    BY <1>1, <2>1, CloseBothD DEF Goal
<1>12. ASSUME Exit PROVE Goal
  <2>1. /\ conn' = CloseOut(CloseIn(conn, in["htc"]), out["htc"])
        /\ queue' = queue
        /\ in' = [in EXCEPT !["htc"] = None]
        /\ out' = [out EXCEPT !["htc"] = None]
    BY <1>12 DEF Exit
  <2> QED
    BY <1>1, <2>1, CloseBothD DEF Goal
<1>13. ASSUME Answered PROVE Goal
  BY <1>1, <1>13, ConsumeD DEF Answered, fds, Goal
<1>14. ASSUME NEW e \in End, ReadDisconnect(e) PROVE Goal
  <2>1. /\ in[e] # None /\ conn' = CloseReader(conn, in[e])
        /\ in' = [in EXCEPT ![e] = None] /\ queue' = queue /\ out' = out
    BY <1>14 DEF ReadDisconnect, Reading
  <2> QED
    BY <1>1, <2>1, CloseInD DEF CloseIn, Goal
<1>15. ASSUME NEW e \in End, ReadRequest(e) \/ ReadUnwritten(e) \/ DrainMore(e)
       PROVE  Goal
  <2>1. /\ conn[in[e]].wire # <<>> /\ conn' = Consume(conn, in[e])
        /\ in' = in /\ queue' = queue /\ out' = out
    BY <1>15 DEF ReadRequest, ReadUnwritten, DrainMore, fds
  <2> QED
    BY <1>1, <2>1, ConsumeD DEF Goal
<1>16. ASSUME NEW e \in End, Disconnect(e) PROVE Goal
  BY <1>1, <1>16, CloseOutD DEF Disconnect, Goal
<1>17. ASSUME NEW e \in End, DrainDone(e) PROVE Goal
  BY <1>1, <1>17, CloseInD DEF DrainDone, Goal
<1>18. ASSUME NEW e \in End,
              \/ WriteFails(e) \/ TunnelReady(e) \/ TunnelClose(e)
                   \/ KeepAlive(e)
              \/ DeviceInput(e) \/ DeviceCloses(e)
       PROVE  Goal
  BY <1>2, <1>18 DEF WriteFails, TunnelReady, TunnelClose, KeepAlive,
     DeviceInput, DeviceCloses
<1>19. ASSUME OutAccept \/ AcceptReturns \/ TunnelConnect \/ NotAnswered
                \/ ReadAccept \/ ReadAgain
       PROVE  Goal
  BY <1>2, <1>19 DEF OutAccept, AcceptReturns, TunnelConnect, NotAnswered,
     ReadAccept, ReadAgain
<1>20. ASSUME UNCHANGED vars PROVE Goal
  BY <1>2, <1>20 DEF vars
<1>21. ASSUME \/ CloseAgedFails \/ OutConnectFails \/ InConnectFails
              \/ AnswerFails
       PROVE  Goal
  BY <1>2, <1>21 DEF CloseAgedFails, OutConnectFails, InConnectFails,
     AnswerFails
<1>22. ASSUME AnswerLost PROVE Goal
  BY <1>1, <1>22, BreakD DEF AnswerLost, fds, Goal
<1>23. ASSUME AnswerGetFails PROVE Goal
  <2>1. PICK cs \in {conn, Break(conn, Head(queue))} :
          conn' = CloseWriter(cs, Head(queue))
    BY <1>23 DEF AnswerGetFails
  <2>2. /\ queue # <<>> /\ conn[Head(queue)].kind = "GET"
        /\ queue' = Tail(queue) /\ out' = out /\ in' = in
    BY <1>23 DEF AnswerGetFails, fds
  <2>3. Head(queue) \in Conns
    BY <1>1, <2>2, TakeD, Zenon
  <2>4. cs[Head(queue)].kind = "GET"
    BY <1>1, <2>1, <2>2, <2>3, BreakEffect DEF Descriptors
  <2>5. Descriptors(cs, queue, out, in)
    BY <1>1, <2>1, <2>3, BreakD
  <2>6. Descriptors(CloseWriter(cs, Head(queue)), Tail(queue), out, in)
    BY <2>2, <2>4, <2>5, AcceptGetD, Zenon
  <2> QED
    BY <2>1, <2>2, <2>6 DEF Goal
<1>24. ASSUME AcceptFails PROVE Goal
  <2>1. /\ queue # <<>> /\ queue' = Tail(queue) /\ out' = out /\ in' = in
        /\ conn' = IF conn[Head(queue)].kind = "POST"
                     THEN CloseReader(conn, Head(queue))
                     ELSE CloseWriter(conn, Head(queue))
    BY <1>24 DEF AcceptFails, fds
  <2>2. CASE conn[Head(queue)].kind = "POST"
    <3>1. Descriptors(CloseReader(conn, Head(queue)), Tail(queue), out, in)
      BY <1>1, <2>1, <2>2, AcceptPostD, Zenon
    <3> QED
      BY <2>1, <2>2, <3>1 DEF Goal
  <2>3. CASE conn[Head(queue)].kind # "POST"
    <3>1. conn[Head(queue)].kind = "GET"
      BY <1>1, <2>1, <2>3, TakeD, Zenon
    <3>2. Descriptors(CloseWriter(conn, Head(queue)), Tail(queue), out, in)
      BY <1>1, <2>1, <3>1, AcceptGetD, Zenon
    <3> QED
      BY <2>1, <2>3, <3>2 DEF Goal
  <2> QED
    BY <2>2, <2>3
<1> QED
  BY <1>3, <1>4, <1>5, <1>6, <1>7, <1>8, <1>9, <1>10, <1>11, <1>12, <1>13,
     <1>14, <1>15, <1>16, <1>17, <1>18, <1>19, <1>20, <1>21, <1>22, <1>23,
     <1>24, Zenon
     DEF Next, Environment, Fails, Runs, Writes, Reads, Closes, Goal

\* An end that goes on, ends its loop or makes or ends a call, and no more
LEMMA ControlType ==
    ASSUME Rest, UNCHANGED history \/ Fault,
           pc' \in [End -> Points],
           closed' \in [End -> {"no", "device", "peer", "error"}],
           call' \in [End -> [msg : Msgs, next : Points]]
    PROVE  Rest'
<1>1. Fault => faults' \in 0..Faults
  BY HttpTunnelAssumption DEF Rest, Fault
<1> QED
  BY <1>1 DEF Rest, history, Fault

\* An end goes to a point of its program.
LEMMA GotoType ==
    ASSUME Rest, NEW e \in End, NEW l \in Points, Goto(e, l)
    PROVE  pc' \in [End -> Points]
BY DEF Rest, Goto

\* An end closes the tunnel.
LEMMA CloseType ==
    ASSUME Rest, NEW e \in End, NEW why \in {"device", "peer", "error"},
           Close(e, why)
    PROVE  closed' \in [End -> {"no", "device", "peer", "error"}]
BY DEF Rest, Close

\* An end begins to write a request.
LEMMA RequestType ==
    ASSUME Rest, NEW e \in End, NEW m \in Msgs, NEW l \in Points,
           Request(e, m, l)
    PROVE  /\ pc' \in [End -> Points]
           /\ call' \in [End -> [msg : Msgs, next : Points]]
BY GotoType DEF Rest, Request, Points

\* A request has been written.
LEMMA ReturnType ==
    ASSUME Rest, NEW e \in End, NEW l \in Points, Return(e, l)
    PROVE  /\ pc' \in [End -> Points]
           /\ call' \in [End -> [msg : Msgs, next : Points]]
BY GotoType, MsgType DEF Rest, Return

\* A request could not be written.
LEMMA FailsType ==
    ASSUME Rest, NEW e \in End, RequestFails(e), UNCHANGED history \/ Fault
    PROVE  Rest'
<1>1. call[e].next \in Points /\ "exit" \in Points
  BY DEF Rest, Points
<1>2. /\ pc' \in [End -> Points]
      /\ call' \in [End -> [msg : Msgs, next : Points]]
  BY <1>1, ReturnType DEF RequestFails
<1>3. closed' \in [End -> {"no", "device", "peer", "error"}]
  <2>1. CASE Close(e, "error")
    BY <2>1, CloseType
  <2>2. CASE UNCHANGED closed
    BY <2>2 DEF Rest
  <2> QED
    BY <2>1, <2>2 DEF RequestFails
<1> QED
  BY <1>2, <1>3, ControlType DEF RequestFails

\* An end begins a session.
LEMMA BeginType ==
    ASSUME Rest, NEW e \in End, session[e] < Sessions, BeginSession(e),
           pc' \in [End -> Points],
           call' \in [End -> [msg : Msgs, next : Points]]
    PROVE  Rest'
<1>1. session' \in [End -> 0..Sessions]
  BY HttpTunnelAssumption DEF Rest, BeginSession
<1>2. sent' \in [End -> Nat] /\ got' \in [End -> Seq(Nat \X Nat)]
  <2>1. <<>> \in Seq(Nat \X Nat)
    BY EmptySeq
  <2> QED
    BY <2>1 DEF Rest, BeginSession
<1>3. closed' \in [End -> {"no", "device", "peer", "error"}]
  BY DEF Rest, BeginSession
<1>4. /\ opened' \in BOOLEAN /\ rejected' = rejected /\ ends' = ends
      /\ faults' = faults
  BY DEF BeginSession
<1> QED
  BY <1>1, <1>2, <1>3, <1>4 DEF Rest

\* Every step keeps the types of the other variables.
LEMMA RestNext ==
    ASSUME TypeInv, [Next]_vars
    PROVE  Rest'
<1>1. /\ Rest /\ Descriptors(conn, queue, out, in)
      /\ "htc" \in End /\ "hts" \in End
  BY DEF TypeInv, End
<1>2. /\ pc \in [End -> Points]
      /\ closed \in [End -> {"no", "device", "peer", "error"}]
      /\ call \in [End -> [msg : Msgs, next : Points]]
      /\ \A e \in End : pc[e] \in Points /\ call[e].next \in Points
  BY <1>1 DEF Rest
<1>3. \A e \in End : AfterDevice(e) \in Points
  BY DEF AfterDevice, Points
<1>4. UNCHANGED <<control, history>> => Rest'
  BY <1>1, <1>2, ControlType DEF control
<1>5. ASSUME NEW e \in End, NEW l \in Points, Goto(e, l),
             UNCHANGED <<call, closed, history>>
      PROVE  Rest'
  BY <1>1, <1>2, <1>5, GotoType, ControlType
<1>6. ASSUME NEW e \in End, WriteRequest(e) \/ WriteLost(e) PROVE Rest'
  BY <1>1, <1>2, <1>6, ReturnType, ControlType DEF WriteRequest, WriteLost
<1>7. ASSUME NEW e \in End, WriteEPIPE(e) PROVE Rest'
  <2>1. CASE e = "htc"
    BY <1>5, <1>7, <2>1 DEF WriteEPIPE, Points
  <2>2. CASE e # "htc"
    BY <1>1, <1>7, <2>2, FailsType DEF WriteEPIPE
  <2> QED
    BY <2>1, <2>2
<1>8. ASSUME NEW e \in End, WriteFails(e) PROVE Rest'
  BY <1>1, <1>8, FailsType DEF WriteFails
<1>9. ASSUME \/ CloseAged \/ \E e \in End : DrainMore(e)
             \/ UNCHANGED vars
      PROVE  Rest'
  BY <1>4, <1>9 DEF CloseAged, DrainMore, vars
<1>10. ASSUME OutConnect \/ InConnect \/ OutAccept \/ Answered \/ NotAnswered
                \/ ReadAccept \/ ReadAgain
       PROVE  Rest'
  <2>1. \E e \in End, l \in Points :
          Goto(e, l) /\ UNCHANGED <<call, closed, history>>
    <3>1. CASE OutConnect
      <4> DEFINE l == IF pc["htc"] = "write" THEN "send" ELSE "resend"
      <4>1. l \in Points /\ Goto("htc", l)
              /\ UNCHANGED <<call, closed, history>>
        BY <3>1 DEF OutConnect, Points
      <4> QED
        BY <1>1, <4>1
    <3>2. CASE InConnect
      <4> DEFINE l == IF pc["htc"] = "connect" THEN "response" ELSE "reresponse"
      <4>1. l \in Points /\ Goto("htc", l)
              /\ UNCHANGED <<call, closed, history>>
        BY <3>2 DEF InConnect, Points
      <4> QED
        BY <1>1, <4>1
    <3>3. CASE NotAnswered
      <4> DEFINE l == IF pc["htc"] = "response" THEN "exit" ELSE "poll"
      <4>1. l \in Points /\ Goto("htc", l)
              /\ UNCHANGED <<call, closed, history>>
        BY <3>3 DEF NotAnswered, Points
      <4> QED
        BY <1>1, <4>1
    <3>4. CASE ReadAccept
      <4> DEFINE l == IF in["hts"] = None THEN "acceptIn" ELSE "acceptOut"
      <4>1. l \in Points /\ Goto("hts", l)
              /\ UNCHANGED <<call, closed, history>>
        BY <3>4 DEF ReadAccept, Points
      <4> QED
        BY <1>1, <4>1
    <3>5. "acceptWrite" \in Points /\ "poll" \in Points
      BY DEF Points
    <3>6. CASE OutAccept
      BY <1>1, <3>5, <3>6 DEF OutAccept
    <3>7. CASE Answered \/ ReadAgain
      BY <1>1, <3>5, <3>7 DEF Answered, ReadAgain
    <3> QED
      BY <1>10, <3>1, <3>2, <3>3, <3>4, <3>6, <3>7
  <2> QED
    BY <1>5, <2>1
<1>11. ASSUME NEW e \in End,
              ReadDisconnect(e) \/ Disconnect(e) \/ DrainDone(e)
                \/ TunnelReady(e)
       PROVE  Rest'
  <2> DEFINE l1 == IF e = "htc" THEN "reconnect" ELSE "poll"
             l2 == IF e = "htc" THEN "idle" ELSE "accept"
  <2>1. {l1, l2, "drain", "tunnel"} \subseteq Points
    BY DEF Points
  <2>2. /\ UNCHANGED <<call, closed, history>>
        /\ Goto(e, l1) \/ Goto(e, l2) \/ Goto(e, "drain") \/ Goto(e, "tunnel")
    BY <1>11 DEF ReadDisconnect, Disconnect, DrainDone, TunnelReady
  <2> HIDE DEF l1, l2
  <2> QED
    BY <1>5, <2>1, <2>2
<1>12. ASSUME AcceptPost \/ AcceptGet PROVE Rest'
  <2>1. /\ UNCHANGED <<pc, call, closed, ends, session, sent, got, opened,
                       faults>>
        /\ rejected' \in BOOLEAN
    BY <1>1, <1>12 DEF AcceptPost, AcceptGet, control, Rest
  <2> QED
    BY <1>1, <2>1 DEF Rest
<1>13. ASSUME AcceptReturns PROVE Rest'
  <2> DEFINE l == IF pc["hts"] = "acceptWrite" THEN "send" ELSE "poll"
  <2>1. l \in Points /\ Goto("hts", l) /\ call' = call
    BY <1>13 DEF AcceptReturns, Points
  <2>2. pc' \in [End -> Points]
    BY <1>1, <2>1, GotoType
  <2>3. CASE UNCHANGED <<closed, history>>
    BY <1>1, <1>2, <2>1, <2>2, <2>3, ControlType
  <2>4. CASE session["hts"] < Sessions /\ BeginSession("hts")
    BY <1>1, <1>2, <2>1, <2>2, <2>4, BeginType
  <2> QED
    BY <1>13, <2>3, <2>4 DEF AcceptReturns
<1>14. ASSUME AcceptTimeout PROVE Rest'
  <2>1. CASE UNCHANGED <<control, history>>
    BY <1>4, <2>1
  <2>2. CASE RequestFails("hts") /\ UNCHANGED history
    BY <1>1, <2>2, FailsType
  <2>3. CASE Goto("hts", "poll") /\ UNCHANGED <<call, history>>
             /\ (Close("hts", "error") \/ UNCHANGED closed)
    <3>1. pc' \in [End -> Points]
      BY <1>1, <2>3, GotoType DEF Points
    <3>2. closed' \in [End -> {"no", "device", "peer", "error"}]
      BY <1>1, <1>2, <2>3, CloseType
    <3> QED
      BY <1>1, <1>2, <2>3, <3>1, <3>2, ControlType
  <2>4. pc["hts"] \in {"accept", "acceptIn", "acceptOut", "acceptWrite"}
    BY <1>14 DEF AcceptTimeout, Accepting
  <2> QED
    BY <1>14, <2>1, <2>2, <2>3, <2>4 DEF AcceptTimeout
<1>15. ASSUME TunnelConnect PROVE Rest'
  <2>1. "connect" \in Points /\ Msg("OPEN") \in Msgs
    BY <1>1, MsgType DEF Points
  <2>2. /\ pc' \in [End -> Points]
        /\ call' \in [End -> [msg : Msgs, next : Points]]
    BY <1>1, <1>15, <2>1, RequestType DEF TunnelConnect
  <2> QED
    BY <1>1, <1>15, <2>2, BeginType DEF TunnelConnect
<1>16. ASSUME Exit PROVE Rest'
  <2>1. pc' \in [End -> Points]
    BY <1>1, <1>16, GotoType DEF Exit, Points
  <2>2. closed' \in [End -> {"no", "device", "peer", "error"}]
    BY <1>1, <1>16, CloseType DEF Exit
  <2> QED
    BY <1>1, <1>2, <1>16, <2>1, <2>2, ControlType DEF Exit
<1>17. ASSUME NEW e \in End, DeviceInput(e) PROVE Rest'
  <2> DEFINE m == [req |-> "DATA", session |-> session[e], n |-> sent[e] + 1]
  <2>1. m \in Msgs /\ sent' \in [End -> Nat]
    BY <1>1, <1>17 DEF Rest, Msgs, DeviceInput
  <2>2. Request(e, m, AfterDevice(e))
    BY <1>17 DEF DeviceInput
  <2> HIDE DEF m
  <2>3. /\ pc' \in [End -> Points]
        /\ call' \in [End -> [msg : Msgs, next : Points]]
    BY <1>1, <1>3, <2>1, <2>2, RequestType
  <2>4. UNCHANGED <<closed, ends, session, got, opened, rejected, faults>>
    BY <1>17 DEF DeviceInput
  <2> QED
    BY <1>1, <2>1, <2>3, <2>4 DEF Rest
<1>18. ASSUME NEW e \in End, DeviceCloses(e) PROVE Rest'
  <2>1. pc' \in [End -> Points]
    BY <1>1, <1>3, <1>18, GotoType DEF DeviceCloses
  <2>2. closed' \in [End -> {"no", "device", "peer", "error"}]
    BY <1>1, <1>18, CloseType DEF DeviceCloses
  <2> QED
    BY <1>1, <1>2, <1>18, <2>1, <2>2, ControlType DEF DeviceCloses
<1>19. ASSUME NEW e \in End, KeepAlive(e) PROVE Rest'
  <2>1. "poll" \in Points /\ Msg("PAD") \in Msgs
    BY <1>1, MsgType DEF Points
  <2>2. /\ pc' \in [End -> Points]
        /\ call' \in [End -> [msg : Msgs, next : Points]]
    BY <1>1, <1>19, <2>1, RequestType DEF KeepAlive
  <2> QED
    BY <1>1, <1>2, <1>19, <2>2, ControlType DEF KeepAlive
<1>20. ASSUME NEW e \in End, TunnelClose(e) PROVE Rest'
  <2>1. "disconnect" \in Points /\ "idle" \in Points /\ Msg("CLOSE") \in Msgs
    BY <1>1, MsgType DEF Points
  <2>2. CASE Goto(e, "idle") /\ UNCHANGED call
    BY <1>5, <1>20, <2>1, <2>2 DEF TunnelClose
  <2>3. CASE Request(e, Msg("CLOSE"), "disconnect")
    <3>1. /\ pc' \in [End -> Points]
          /\ call' \in [End -> [msg : Msgs, next : Points]]
      BY <1>1, <2>1, <2>3, RequestType
    <3> QED
      BY <1>1, <1>2, <1>20, <3>1, ControlType DEF TunnelClose
  <2> QED
    BY <1>20, <2>2, <2>3 DEF TunnelClose
<1>21. ASSUME NEW e \in End, ReadRequest(e) PROVE Rest'
  <2> DEFINE m == Head(conn[in[e]].wire)
  <2>1. m \in Msgs
    <3>1. in[e] \in Conns /\ conn[in[e]].wire # <<>>
      BY <1>1, <1>21 DEF ReadRequest, Reading, Descriptors
    <3>2. conn[in[e]].wire \in Seq(Msgs)
      BY <1>1, <3>1, Fields DEF Descriptors
    <3> QED
      BY <3>1, <3>2, HeadTailProperties
  <2>2. got' \in [End -> Seq(Nat \X Nat)]
    <3>1. m.session \in Nat /\ m.n \in Nat
      BY <2>1, HttpTunnelAssumption DEF Msgs
    <3> HIDE DEF m
    <3>2. <<m.session, m.n>> \in Nat \X Nat
      BY <3>1
    <3>3. Append(got[e], <<m.session, m.n>>) \in Seq(Nat \X Nat)
      BY <1>1, <3>2 DEF Rest
    <3>4. got' = IF m.req = "DATA"
                   THEN [got EXCEPT ![e] = Append(got[e], <<m.session, m.n>>)]
                   ELSE got
      BY <1>21 DEF ReadRequest, m
    <3> QED
      BY <1>1, <3>3, <3>4 DEF Rest
  <2>3. closed' \in [End -> {"no", "device", "peer", "error"}]
    BY <1>1, <1>2, <1>21, CloseType DEF ReadRequest
  <2>4. pc' \in [End -> Points]
    BY <1>1, <1>21, GotoType DEF ReadRequest, Points
  <2>5. /\ opened' \in BOOLEAN
        /\ UNCHANGED <<call, ends, session, sent, rejected, faults>>
    BY <1>21 DEF ReadRequest
  <2> QED
    BY <1>1, <2>2, <2>3, <2>4, <2>5 DEF Rest
<1>22. ASSUME NEW e \in End, ReadUnwritten(e) PROVE Rest'
  <2>1. pc' \in [End -> Points]
    BY <1>1, <1>22, GotoType DEF ReadUnwritten, Points
  <2>2. closed' \in [End -> {"no", "device", "peer", "error"}]
    BY <1>1, <1>22, CloseType DEF ReadUnwritten
  <2> QED
    BY <1>1, <1>2, <1>22, <2>1, <2>2, ControlType DEF ReadUnwritten
<1>23. ASSUME CloseAgedFails \/ OutConnectFails \/ PostFails PROVE Rest'
  BY <1>1, <1>23, FailsType DEF CloseAgedFails, OutConnectFails, PostFails
<1>24. ASSUME AnswerLost \/ AnswerGetFails PROVE Rest'
  BY <1>1, <1>2, <1>24, ControlType DEF AnswerLost, AnswerGetFails, control
<1>25. ASSUME InConnectFails \/ GetFails \/ AnswerFails PROVE Rest'
  <2>1. UNCHANGED call /\ (UNCHANGED history \/ Fault) /\ InFails
    BY <1>25 DEF InConnectFails, GetFails, AnswerFails, InFails
  <2>2. CASE Goto("htc", "exit") /\ UNCHANGED closed
    <3>1. pc' \in [End -> Points]
      BY <1>1, <2>2, GotoType DEF Points
    <3> QED
      BY <1>1, <1>2, <2>1, <2>2, <3>1, ControlType
  <2>3. CASE Goto("htc", "poll") /\ Close("htc", "error")
    <3>1. pc' \in [End -> Points]
      BY <1>1, <2>3, GotoType DEF Points
    <3>2. closed' \in [End -> {"no", "device", "peer", "error"}]
      BY <1>1, <2>3, CloseType
    <3> QED
      BY <1>1, <1>2, <2>1, <3>1, <3>2, ControlType
  <2> QED
    BY <2>1, <2>2, <2>3 DEF InFails
<1>26. ASSUME AcceptFails PROVE Rest'
  <2>1. CASE /\ session["hts"] < Sessions /\ BeginSession("hts")
             /\ Goto("hts", "poll") /\ UNCHANGED call
    <3>1. pc' \in [End -> Points]
      BY <1>1, <2>1, GotoType DEF Points
    <3> QED
      BY <1>1, <1>2, <2>1, <3>1, BeginType
  <2>2. CASE UNCHANGED <<control, history>>
    BY <1>4, <2>2
  <2>3. CASE RequestFails("hts") /\ UNCHANGED history
    BY <1>1, <2>3, FailsType
  <2>4. CASE /\ Goto("hts", "poll") \/ Goto("hts", "send")
             /\ UNCHANGED <<call, history>>
             /\ Close("hts", "error") \/ UNCHANGED closed
    <3>1. pc' \in [End -> Points]
      BY <1>1, <2>4, GotoType DEF Points
    <3>2. closed' \in [End -> {"no", "device", "peer", "error"}]
      BY <1>1, <1>2, <2>4, CloseType
    <3> QED
      BY <1>1, <1>2, <2>4, <3>1, <3>2, ControlType
  <2>5. PICK m \in {"0", "-1"} :
          CASE pc["hts"] = "accept" /\ m = "0" ->
                 /\ session["hts"] < Sessions /\ BeginSession("hts")
                 /\ Goto("hts", "poll") /\ UNCHANGED call
            [] pc["hts"] = "accept" /\ m = "-1" ->
                 UNCHANGED <<control, history>>
            [] pc["hts"] = "acceptWrite" /\ m = "0" ->
                 Goto("hts", "send") /\ UNCHANGED <<call, closed, history>>
            [] pc["hts"] = "acceptWrite" /\ m = "-1" ->
                 RequestFails("hts") /\ UNCHANGED history
            [] pc["hts"] = "acceptIn" /\ m = "-1" ->
                 /\ Close("hts", "error") /\ Goto("hts", "poll")
                 /\ UNCHANGED <<call, history>>
            [] OTHER ->
                 Goto("hts", "poll") /\ UNCHANGED <<call, closed, history>>
    BY <1>26 DEF AcceptFails
  <2>6. CASE pc["hts"] = "accept"
    BY <2>1, <2>2, <2>5, <2>6
  <2>7. CASE pc["hts"] = "acceptWrite"
    BY <2>3, <2>4, <2>5, <2>7
  <2>8. CASE pc["hts"] \notin {"accept", "acceptWrite"}
    BY <2>4, <2>5, <2>8
  <2> QED
    BY <2>6, <2>7, <2>8
<1> QED
  BY <1>6, <1>7, <1>8, <1>9, <1>10, <1>11, <1>12, <1>13, <1>14, <1>15, <1>16,
     <1>17, <1>18, <1>19, <1>20, <1>21, <1>22, <1>23, <1>24, <1>25, <1>26, Zenon
     DEF Next, Environment, Fails, Runs, Writes, Reads, Closes

\* The types and the descriptors are right at first.
LEMMA TypeInit == Init => TypeInv
<1> SUFFICES ASSUME Init PROVE TypeInv
  OBVIOUS
<1>1. <<>> \in Seq(Conns) /\ <<>> \in Seq(Nat \X Nat) /\ Len(<<>>) = 0
  BY EmptySeq
<1>2. Descriptors(conn, queue, out, in)
  <2>1. conn \in [Conns -> Connections]
    BY NoConnType DEF Init
  <2>2. queue \in Seq(Conns) /\ Len(queue) = 0
    BY <1>1 DEF Init
  <2>3. /\ out = [e \in End |-> None] /\ in = [e \in End |-> None]
    BY DEF Init
  <2> QED
    BY <2>1, <2>2, <2>3 DEF Descriptors
<1>3. Rest
  <2>1. call \in [End -> [msg : Msgs, next : Points]]
    BY HttpTunnelAssumption DEF Init, NoCall, Msg, Msgs, Points
  <2>2. pc \in [End -> Points]
    BY DEF Init, Points
  <2>3. session \in [End -> 0..Sessions] /\ sent \in [End -> Nat]
    BY HttpTunnelAssumption DEF Init
  <2>4. got \in [End -> Seq(Nat \X Nat)]
    BY <1>1 DEF Init
  <2>5. faults \in 0..Faults
    BY HttpTunnelAssumption DEF Init
  <2> QED
    BY <2>1, <2>2, <2>3, <2>4, <2>5 DEF Init, Rest
<1> QED
  BY <1>2, <1>3 DEF TypeInv

\* They always are.
LEMMA TypeInvCorrect == Spec => []TypeInv
<1>1. TypeInv /\ [Next]_vars => TypeInv'
  BY DescriptorsNext, RestNext DEF TypeInv
<1> QED
  BY <1>1, TypeInit, PTL DEF Spec

\* TypeOK: every variable keeps its type, a descriptor that is open belongs to
\* a connection of its kind whose side is open, and what waits at the server
\* socket is open on the side of hts, whatever is closed, lost, refused or
\* reset in between.
THEOREM HttpTunnelTypeOKCorrect == Spec => []TypeOK
<1>1. TypeInv => TypeOK
  BY DEF TypeInv, Descriptors, Rest, TypeOK, OutKind, InKind
<1> QED
  BY <1>1, TypeInvCorrect, PTL

-----------------------------------------------------------------------------
(***************************************************************************)
(* Order.                                                                  *)
(***************************************************************************)

\* What is not later than t precedes what is later than t.
LEMMA PrecedesLaw ==
    ASSUME NEW t \in Nat \X Nat, NEW x \in Nat \X Nat, NEW y \in Nat \X Nat,
           ~Precedes(t, x), Precedes(t, y)
    PROVE  Precedes(x, y) /\ ~Precedes(y, x)
BY DEF Precedes

\* A chunk is identified by its session and its number.
LEMMA ItemType ==
    ASSUME NEW m \in Msgs
    PROVE  Item(m) \in Nat \X Nat
BY HttpTunnelAssumption DEF Item, Msgs

\* The chunks of v are a stretch of those of w.
Thin(v, w) ==
    \E n \in Nat : \A k \in 1..Len(v) : v[k].req = "DATA" =>
        k + n \in 1..Len(w) /\ v[k] = w[k + n]

\* What system calls do to the content of a connection, but for a write of a
\* chunk, leaves a stretch of it.
LEMMA ThinCases ==
    ASSUME NEW w \in Seq(Msgs)
    PROVE  /\ Thin(w, w) /\ Thin(<<>>, w)
           /\ w # <<>> => Thin(Tail(w), w)
           /\ \A m \in Msgs : m.req # "DATA" => Thin(Append(w, m), w)
<1>1. Len(w) \in Nat
  BY LenProperties
<1>2. Thin(w, w)
  <2>1. \A k \in 1..Len(w) : k + 0 \in 1..Len(w) /\ w[k] = w[k + 0]
    BY <1>1
  <2> QED
    BY <2>1 DEF Thin
<1>3. Thin(<<>>, w)
  <2>1. \A k \in 1..Len(<<>>) : FALSE
    BY EmptySeq
  <2> QED
    BY <2>1 DEF Thin
<1>4. ASSUME w # <<>> PROVE Thin(Tail(w), w)
  <2> DEFINE v == Tail(w)
  <2>1. Len(v) = Len(w) - 1 /\ \A k \in 1..Len(v) : v[k] = w[k + 1]
    BY <1>4, HeadTailProperties
  <2> HIDE DEF v
  <2>2. \A k \in 1..Len(v) : k + 1 \in 1..Len(w)
    BY <1>1, <2>1
  <2>3. Thin(v, w)
    BY <2>1, <2>2 DEF Thin
  <2> QED
    BY <2>3 DEF v
<1>5. ASSUME NEW m \in Msgs, m.req # "DATA" PROVE Thin(Append(w, m), w)
  <2> DEFINE v == Append(w, m)
  <2>1. /\ Len(v) = Len(w) + 1 /\ v[Len(w) + 1] = m
        /\ \A k \in 1..Len(w) : v[k] = w[k]
    BY AppendProperties
  <2> HIDE DEF v
  <2>2. \A k \in 1..Len(v) : v[k].req = "DATA" =>
          k + 0 \in 1..Len(w) /\ v[k] = w[k + 0]
    BY <1>1, <1>5, <2>1
  <2>3. Thin(v, w)
    BY <2>2 DEF Thin
  <2> QED
    BY <2>3 DEF v
<1> QED
  BY <1>2, <1>3, <1>4, <1>5

\* Stretches of contents that are apart are apart.
LEMMA ThinApart ==
    ASSUME NEW v1, NEW v2, NEW w1, NEW w2, Thin(v1, v2), Thin(w1, w2),
           Apart(v2, w2)
    PROVE  Apart(v1, w1)
<1> SUFFICES ASSUME NEW k \in 1..Len(v1), NEW l \in 1..Len(w1),
                    v1[k].req = "DATA", w1[l].req = "DATA"
             PROVE  Precedes(Item(v1[k]), Item(w1[l]))
  BY DEF Apart
<1>1. \E a \in 1..Len(v2) : v1[k] = v2[a]
  BY DEF Thin
<1>2. \E b \in 1..Len(w2) : w1[l] = w2[b]
  BY DEF Thin
<1> QED
  BY <1>1, <1>2 DEF Apart

\* A stretch of what is in order is in order.
LEMMA ThinWire ==
    ASSUME NEW v, NEW w, NEW g, NEW m, NEW t,
           Len(v) \in Nat, Thin(v, w), WireOrder(w, g, m, t)
    PROVE  WireOrder(v, g, m, t)
<1>1. PICK n \in Nat : \A k \in 1..Len(v) : v[k].req = "DATA" =>
        k + n \in 1..Len(w) /\ v[k] = w[k + n]
  BY DEF Thin
<1>2. Increasing(v)
  <2> SUFFICES ASSUME NEW k \in 1..Len(v), NEW l \in 1..Len(v), k < l,
                      v[k].req = "DATA", v[l].req = "DATA"
               PROVE  Precedes(Item(v[k]), Item(v[l]))
    BY DEF Increasing
  <2>1. k + n < l + n
    OBVIOUS
  <2> QED
    BY <1>1, <2>1 DEF WireOrder, Increasing
<1>3. \A l \in 1..Len(v) : v[l].req = "DATA" =>
         /\ \A k \in 1..Len(g) : Precedes(g[k], Item(v[l]))
         /\ m.req = "DATA" => Precedes(Item(v[l]), Item(m))
         /\ ~Precedes(t, Item(v[l]))
  BY <1>1 DEF WireOrder
<1> QED
  BY <1>2, <1>3 DEF WireOrder

\* Chunks that are lost, connections that are closed, refused or accepted in
\* turn, and descriptors that are given up disturb no order.
LEMMA ThinOrder ==
    ASSUME NEW cs, NEW q, NEW o, NEW i, NEW g, NEW m, NEW t,
           Orders(cs, q, o, i, g, m, t),
           NEW cs2 \in [Conns -> Connections], NEW q2, NEW o2, NEW i2,
           \A c \in Conns : /\ cs2[c].kind \in {cs[c].kind, "none"}
                            /\ Thin(cs2[c].wire, cs[c].wire),
           \A c \in Conns : Place(q2, i2, c) => Place(q, i, c),
           \A c, d \in Conns : Earlier(q2, i2, c, d) => Earlier(q, i, c, d),
           i2["htc"] = i["htc"] \/ i2["htc"] \notin Conns,
           o2["htc"] = o["htc"] \/ o2["htc"] \notin Conns
    PROVE  Orders(cs2, q2, o2, i2, g, m, t)
<1>1. \A c \in Conns : Len(cs2[c].wire) \in Nat
  BY Fields
<1>2. ASSUME NEW e \in End, NEW c \in Conns, Source(e, cs2, q2, i2, c)
      PROVE  WireOrder(cs2[c].wire, g[e], m[Peer(e)], t[Peer(e)])
  <2>1. Source(e, cs, q, i, c)
    BY <1>2 DEF Source
  <2>2. WireOrder(cs[c].wire, g[e], m[Peer(e)], t[Peer(e)])
    BY <2>1 DEF Orders
  <2> QED
    BY <1>1, <2>2, ThinWire
<1>3. ASSUME NEW c \in Conns, NEW d \in Conns, cs2[c].kind = "POST",
             cs2[d].kind = "POST", Earlier(q2, i2, c, d)
      PROVE  c # o2["htc"] /\ Apart(cs2[c].wire, cs2[d].wire)
  <2>1. cs[c].kind = "POST" /\ cs[d].kind = "POST" /\ Earlier(q, i, c, d)
    BY <1>3
  <2>2. c # o["htc"] /\ Apart(cs[c].wire, cs[d].wire)
    BY <2>1 DEF Orders, ChainOrder
  <2>3. Apart(cs2[c].wire, cs2[d].wire)
    BY <2>2, ThinApart
  <2> QED
    BY <2>2, <2>3
<1> QED
  BY <1>2, <1>3 DEF Orders, ChainOrder

\* A request that is written is later than what is in the connection.
LEMMA AppendWire ==
    ASSUME NEW w \in Seq(Msgs), NEW g, NEW m \in Msgs, NEW t, NEW x,
           WireOrder(w, g, m, t), GotOrder(g, m, t), x.req # "DATA"
    PROVE  WireOrder(Append(w, m), g, x, t)
<1> DEFINE v == Append(w, m)
<1>1. /\ Len(v) = Len(w) + 1 /\ v[Len(w) + 1] = m /\ Len(w) \in Nat
      /\ \A k \in 1..Len(w) : v[k] = w[k]
  BY AppendProperties, LenProperties
<1> HIDE DEF v
<1>2. Increasing(v)
  <2> SUFFICES ASSUME NEW k \in 1..Len(v), NEW l \in 1..Len(v), k < l,
                      v[k].req = "DATA", v[l].req = "DATA"
               PROVE  Precedes(Item(v[k]), Item(v[l]))
    BY DEF Increasing
  <2>1. k \in 1..Len(w) /\ (l \in 1..Len(w) \/ l = Len(w) + 1)
    BY <1>1
  <2> QED
    BY <1>1, <2>1 DEF WireOrder, Increasing
<1>3. ASSUME NEW l \in 1..Len(v), v[l].req = "DATA"
      PROVE  /\ \A k \in 1..Len(g) : Precedes(g[k], Item(v[l]))
             /\ ~Precedes(t, Item(v[l]))
  <2>1. CASE l \in 1..Len(w)
    BY <1>1, <1>3, <2>1 DEF WireOrder
  <2>2. CASE l = Len(w) + 1
    BY <1>1, <1>3, <2>2 DEF GotOrder
  <2> QED
    BY <1>1, <2>1, <2>2
<1>4. WireOrder(v, g, x, t)
  BY <1>2, <1>3 DEF WireOrder
<1> QED
  BY <1>4 DEF v

\* A request is written to the connection of an end.
LEMMA SendOrder ==
    ASSUME NEW cs, NEW q, NEW o, NEW i, NEW g, NEW t, NEW m \in [End -> Msgs],
           Orders(cs, q, o, i, g, m, t), Descriptors(cs, q, o, i),
           NEW e \in End, o[e] # None, NEW x, x.req # "DATA"
    PROVE  Orders(Write(cs, o[e], m[e]), q, o, i, g, [m EXCEPT ![e] = x], t)
<1> DEFINE cs2 == Write(cs, o[e], m[e])
           m2 == [m EXCEPT ![e] = x]
<1>1. /\ cs \in [Conns -> Connections] /\ o[e] \in Conns /\ m[e] \in Msgs
      /\ cs[o[e]].kind = OutKind(e)
      /\ i["htc"] \in Conns => cs[i["htc"]].kind = "GET"
  BY NoneIsNot DEF Descriptors, InKind, End
<1>2. \A d \in Conns :
        /\ cs2[d].kind = cs[d].kind
        /\ d # o[e] => cs2[d].wire = cs[d].wire
        /\ cs2[o[e]].wire = Append(cs[o[e]].wire, m[e])
        /\ cs[d].wire \in Seq(Msgs)
  <2>1. \A d \in Conns :
          /\ cs2[d].kind = cs[d].kind
          /\ cs2[d].wire = IF d = o[e] THEN Append(cs[o[e]].wire, m[e])
                                        ELSE cs[d].wire
    BY <1>1, WriteEffect
  <2>2. \A d \in Conns : cs[d].wire \in Seq(Msgs)
    BY <1>1, Fields
  <2> HIDE DEF cs2
  <2> QED
    BY <1>1, <2>1, <2>2
<1>3. \A f \in End : m2[f] = m[f] \/ m2[f].req # "DATA"
  OBVIOUS
<1>4. m2[e].req # "DATA"
  OBVIOUS
<1> HIDE DEF cs2, m2
<1>5. \A f \in End : GotOrder(g[f], m2[Peer(f)], t[Peer(f)])
  <2> TAKE f \in End
  <2>1. GotOrder(g[f], m[Peer(f)], t[Peer(f)]) /\ Peer(f) \in End
    BY DEF Orders, Peer, End
  <2> QED
    BY <1>3, <2>1 DEF GotOrder
<1>6. ASSUME NEW f \in End, NEW d \in Conns, Source(f, cs2, q, i, d)
      PROVE  WireOrder(cs2[d].wire, g[f], m2[Peer(f)], t[Peer(f)])
  <2>1. Source(f, cs, q, i, d)
    BY <1>2, <1>6 DEF Source
  <2>2. /\ WireOrder(cs[d].wire, g[f], m[Peer(f)], t[Peer(f)])
        /\ GotOrder(g[f], m[Peer(f)], t[Peer(f)]) /\ Peer(f) \in End
    BY <2>1 DEF Orders, Peer, End
  <2>3. CASE d # o[e]
    <3>1. cs2[d].wire = cs[d].wire
      BY <1>2, <2>3
    <3> QED
      BY <1>3, <2>2, <3>1 DEF WireOrder
  <2>4. CASE d = o[e]
    <3>1. Peer(f) = e
      BY <1>1, <2>1, <2>4 DEF Source, OutKind, Peer, End
    <3>2. WireOrder(Append(cs[d].wire, m[e]), g[f], m2[e], t[e])
      BY <1>1, <1>2, <1>4, <2>2, <3>1, AppendWire
    <3> QED
      BY <1>2, <2>4, <3>1, <3>2
  <2> QED
    BY <2>3, <2>4
<1>7. ASSUME NEW c \in Conns, NEW d \in Conns, cs2[c].kind = "POST",
             cs2[d].kind = "POST", Earlier(q, i, c, d)
      PROVE  c # o["htc"] /\ Apart(cs2[c].wire, cs2[d].wire)
  <2>1. /\ cs[c].kind = "POST" /\ cs[d].kind = "POST"
        /\ c # o["htc"] /\ Apart(cs[c].wire, cs[d].wire)
    BY <1>2, <1>7 DEF Orders, ChainOrder
  <2>2. c # o[e] /\ (d = o[e] => e = "htc")
    BY <1>1, <2>1 DEF OutKind, End
  <2>3. cs2[c].wire = cs[c].wire
    BY <1>2, <2>2
  <2>4. CASE d # o[e]
    BY <1>2, <2>1, <2>3, <2>4
  <2>5. CASE d = o[e]
    <3>1. Source("hts", cs, q, i, c)
      BY <1>7, <2>1 DEF Source, Earlier, Place
    <3>2. WireOrder(cs[c].wire, g["hts"], m[e], t[e])
      BY <2>2, <2>5, <3>1 DEF Orders, Peer, End
    <3> DEFINE v == cs[c].wire
               w == cs[d].wire
               w2 == Append(w, m[e])
    <3>3. /\ Len(w2) = Len(w) + 1 /\ w2[Len(w) + 1] = m[e] /\ Len(w) \in Nat
          /\ \A k \in 1..Len(w) : w2[k] = w[k]
      BY <1>1, <1>2, AppendProperties, LenProperties
    <3> HIDE DEF v, w, w2
    <3>4. Apart(v, w) /\ WireOrder(v, g["hts"], m[e], t[e])
      BY <2>1, <3>2 DEF v, w
    <3>5. Apart(v, w2)
      <4> SUFFICES ASSUME NEW k \in 1..Len(v), NEW l \in 1..Len(w2),
                          v[k].req = "DATA", w2[l].req = "DATA"
                   PROVE  Precedes(Item(v[k]), Item(w2[l]))
        BY DEF Apart
      <4>1. l \in 1..Len(w) \/ l = Len(w) + 1
        BY <3>3
      <4> QED
        BY <3>3, <3>4, <4>1 DEF Apart, WireOrder
    <3>6. cs2[d].wire = w2
      BY <1>2, <2>5 DEF w, w2
    <3> QED
      BY <2>1, <2>3, <3>5, <3>6 DEF v
  <2> QED
    BY <2>1, <2>4, <2>5
<1>8. Orders(cs2, q, o, i, g, m2, t)
  BY <1>5, <1>6, <1>7 DEF Orders, ChainOrder
<1> QED
  BY <1>8 DEF cs2, m2

\* An end receives the chunk that comes first in the connection it reads.
LEMMA ReadOrder ==
    ASSUME NEW cs, NEW q, NEW o, NEW i, NEW m, NEW t,
           NEW g \in [End -> Seq(Nat \X Nat)],
           Orders(cs, q, o, i, g, m, t), Descriptors(cs, q, o, i),
           NEW e \in End, i[e] # None, cs[i[e]].wire # <<>>,
           Head(cs[i[e]].wire).req = "DATA"
    PROVE  Orders(Consume(cs, i[e]), q, o, i,
                  [g EXCEPT ![e] = Append(@, Item(Head(cs[i[e]].wire)))], m, t)
<1> DEFINE c0 == i[e]
           w == cs[c0].wire
           h == Head(w)
           cs2 == Consume(cs, c0)
           g2 == [g EXCEPT ![e] = Append(g[e], Item(h))]
<1>1. /\ cs \in [Conns -> Connections] /\ c0 \in Conns
      /\ cs[c0].kind = InKind(e)
  BY DEF Descriptors
<1>2. /\ cs2 \in [Conns -> Connections]
      /\ \A d \in Conns :
           /\ cs2[d].kind = cs[d].kind
           /\ d # c0 => cs2[d].wire = cs[d].wire
           /\ cs[d].wire \in Seq(Msgs) /\ Len(cs2[d].wire) \in Nat
      /\ cs2[c0].wire = Tail(w)
  BY <1>1, ConsumeEffect, Fields
<1>3. /\ w \in Seq(Msgs) /\ Len(w) \in Nat /\ 1 \in 1..Len(w)
      /\ h = w[1] /\ h \in Msgs /\ h.req = "DATA"
      /\ Len(Tail(w)) = Len(w) - 1
      /\ \A k \in 1..Len(Tail(w)) : Tail(w)[k] = w[k + 1]
  <2>1. w \in Seq(Msgs) /\ w # <<>> /\ h.req = "DATA"
    BY <1>1, <1>2
  <2> HIDE DEF w
  <2> QED
    BY <2>1, HeadTailProperties, LenProperties, EmptySeq
<1>4. Item(h) \in Nat \X Nat /\ g[e] \in Seq(Nat \X Nat)
  BY <1>3, ItemType
<1>5. /\ Len(g2[e]) = Len(g[e]) + 1 /\ g2[e][Len(g[e]) + 1] = Item(h)
      /\ \A k \in 1..Len(g[e]) : g2[e][k] = g[e][k]
      /\ Len(g[e]) \in Nat
      /\ \A f \in End \ {e} : g2[f] = g[f]
  <2>1. g2[e] = Append(g[e], Item(h))
    OBVIOUS
  <2> HIDE DEF h
  <2> QED
    BY <1>4, <2>1, AppendProperties, LenProperties
<1>6. \A d \in Conns : Thin(cs2[d].wire, cs[d].wire)
  BY <1>2, <1>3, ThinCases
<1>7. Source(e, cs, q, i, c0)
  BY <1>1 DEF Source, Place, InKind, End
<1> HIDE DEF c0, w, h, cs2, g2
<1>8. /\ WireOrder(w, g[e], m[Peer(e)], t[Peer(e)])
      /\ GotOrder(g[e], m[Peer(e)], t[Peer(e)])
  BY <1>1, <1>7 DEF Orders, w
<1>9. GotOrder(g2[e], m[Peer(e)], t[Peer(e)])
  <2>1. /\ \A k \in 1..Len(g[e]) : Precedes(g[e][k], Item(h))
        /\ m[Peer(e)].req = "DATA" => Precedes(Item(h), Item(m[Peer(e)]))
        /\ ~Precedes(t[Peer(e)], Item(h))
    BY <1>3, <1>8 DEF WireOrder
  <2>2. \A k, l \in 1..Len(g2[e]) : k < l => Precedes(g2[e][k], g2[e][l])
    <3> TAKE k, l \in 1..Len(g2[e])
    <3> HAVE k < l
    <3>1. k \in 1..Len(g[e]) /\ (l \in 1..Len(g[e]) \/ l = Len(g[e]) + 1)
      BY <1>5
    <3> QED
      BY <1>5, <1>8, <2>1, <3>1 DEF GotOrder
  <2>3. \A k \in 1..Len(g2[e]) :
         /\ m[Peer(e)].req = "DATA" => Precedes(g2[e][k], Item(m[Peer(e)]))
         /\ ~Precedes(t[Peer(e)], g2[e][k])
    <3> TAKE k \in 1..Len(g2[e])
    <3>1. k \in 1..Len(g[e]) \/ k = Len(g[e]) + 1
      BY <1>5
    <3> QED
      BY <1>5, <1>8, <2>1, <3>1 DEF GotOrder
  <2> QED
    BY <1>8, <2>2, <2>3 DEF GotOrder
<1>10. ASSUME NEW f \in End, NEW d \in Conns, Source(f, cs2, q, i, d)
       PROVE  WireOrder(cs2[d].wire, g2[f], m[Peer(f)], t[Peer(f)])
  <2>1. Source(f, cs, q, i, d)
    BY <1>2, <1>10 DEF Source
  <2>2. WireOrder(cs[d].wire, g[f], m[Peer(f)], t[Peer(f)])
    BY <2>1 DEF Orders
  <2>3. WireOrder(cs2[d].wire, g[f], m[Peer(f)], t[Peer(f)])
    BY <1>2, <1>6, <2>2, ThinWire
  <2>4. CASE f # e
    BY <1>5, <2>3, <2>4
  <2>5. CASE f = e
    <3> DEFINE v == cs2[d].wire
    <3>1. \A l \in 1..Len(v) : v[l].req = "DATA" =>
             Precedes(Item(h), Item(v[l]))
      <4>1. CASE d = c0
        <5>1. v = Tail(w)
          BY <1>2, <4>1
        <5> HIDE DEF v
        <5>2. Len(v) = Len(w) - 1 /\ \A l \in 1..Len(v) : v[l] = w[l + 1]
          BY <1>3, <5>1
        <5>3. \A l \in 1..Len(v) : l + 1 \in 1..Len(w) /\ 1 < l + 1
          BY <1>3, <5>2
        <5> QED
          BY <1>3, <1>8, <5>2, <5>3 DEF WireOrder, Increasing
      <4>2. CASE d # c0
        <5>1. f = "hts" /\ Earlier(q, i, c0, d) /\ cs[d].kind = "POST"
              /\ cs[c0].kind = "POST"
          BY <1>1, <2>1, <2>5, <4>2 DEF Source, Place, Earlier, c0, InKind, End
        <5>2. Apart(w, v)
          BY <1>1, <1>2, <4>2, <5>1 DEF Orders, ChainOrder, w
        <5> QED
          BY <1>3, <5>2 DEF Apart
      <4> QED
        BY <4>1, <4>2
    <3> HIDE DEF v
    <3>2. WireOrder(v, g[e], m[Peer(e)], t[Peer(e)])
      BY <2>3, <2>5 DEF v
    <3>3. \A l \in 1..Len(v) : v[l].req = "DATA" =>
            \A k \in 1..Len(g2[e]) : Precedes(g2[e][k], Item(v[l]))
      <4> TAKE l \in 1..Len(v)
      <4> HAVE v[l].req = "DATA"
      <4> TAKE k \in 1..Len(g2[e])
      <4>1. k \in 1..Len(g[e]) \/ k = Len(g[e]) + 1
        BY <1>5
      <4> QED
        BY <1>5, <3>1, <3>2, <4>1 DEF WireOrder
    <3>4. WireOrder(v, g2[e], m[Peer(e)], t[Peer(e)])
      BY <3>2, <3>3 DEF WireOrder
    <3> QED
      BY <2>5, <3>4 DEF v
  <2> QED
    BY <2>4, <2>5
<1>11. \A f \in End : GotOrder(g2[f], m[Peer(f)], t[Peer(f)])
  BY <1>5, <1>9 DEF Orders
<1>12. ChainOrder(cs2, q, o, i)
  <2> SUFFICES ASSUME NEW c \in Conns, NEW d \in Conns, cs2[c].kind = "POST",
                      cs2[d].kind = "POST", Earlier(q, i, c, d)
               PROVE  c # o["htc"] /\ Apart(cs2[c].wire, cs2[d].wire)
    BY DEF ChainOrder
  <2>1. c # o["htc"] /\ Apart(cs[c].wire, cs[d].wire)
    BY <1>2 DEF Orders, ChainOrder
  <2> QED
    BY <1>6, <2>1, ThinApart
<1>13. Orders(cs2, q, o, i, g2, m, t)
  BY <1>10, <1>11, <1>12 DEF Orders
<1> QED
  BY <1>13 DEF cs2, g2, c0, h, w

\* A device gives an end a chunk, later than all that the end has sent.
LEMMA AskOrder ==
    ASSUME NEW cs \in [Conns -> Connections], NEW q, NEW o, NEW i,
           NEW g \in [End -> Seq(Nat \X Nat)], NEW m \in [End -> Msgs],
           NEW t \in [End -> Nat \X Nat], Orders(cs, q, o, i, g, m, t),
           NEW e \in End, NEW x \in Msgs, Precedes(t[e], Item(x))
    PROVE  Orders(cs, q, o, i, g, [m EXCEPT ![e] = x],
             [t EXCEPT ![e] = Item(x)])
<1> DEFINE m2 == [m EXCEPT ![e] = x]
           t2 == [t EXCEPT ![e] = Item(x)]
<1>1. /\ m2[e] = x /\ t2[e] = Item(x)
      /\ \A f \in End \ {e} : m2[f] = m[f] /\ t2[f] = t[f]
  OBVIOUS
<1>2. /\ Item(x) \in Nat \X Nat /\ t[e] \in Nat \X Nat
      /\ \A y \in Msgs : Item(y) \in Nat \X Nat
  BY ItemType
<1>3. /\ \A f \in End : Peer(f) \in End
      /\ \A f \in End : \A k \in 1..Len(g[f]) : g[f][k] \in Nat \X Nat
  BY ElementOfSeq DEF Peer, End
<1>4. ~Precedes(Item(x), Item(x))
  BY <1>2 DEF Precedes
<1> HIDE DEF m2, t2
<1>5. ASSUME NEW f \in End
      PROVE  GotOrder(g[f], m2[Peer(f)], t2[Peer(f)])
  <2>1. GotOrder(g[f], m[Peer(f)], t[Peer(f)])
    BY DEF Orders
  <2>2. CASE Peer(f) # e
    BY <1>1, <1>3, <2>1, <2>2
  <2>3. CASE Peer(f) = e
    <3>1. \A k \in 1..Len(g[f]) :
            Precedes(g[f][k], Item(x)) /\ ~Precedes(Item(x), g[f][k])
      BY <1>2, <1>3, <2>1, <2>3, PrecedesLaw DEF GotOrder
    <3> QED
      BY <1>1, <1>4, <2>1, <2>3, <3>1 DEF GotOrder
  <2> QED
    BY <2>2, <2>3
<1>6. ASSUME NEW f \in End, NEW c \in Conns, Source(f, cs, q, i, c)
      PROVE  WireOrder(cs[c].wire, g[f], m2[Peer(f)], t2[Peer(f)])
  <2> DEFINE w == cs[c].wire
  <2>1. WireOrder(w, g[f], m[Peer(f)], t[Peer(f)])
    BY <1>6 DEF Orders
  <2>2. \A l \in 1..Len(w) : w[l] \in Msgs
    <3>1. w \in Seq(Msgs)
      BY Fields
    <3> QED
      BY <3>1, ElementOfSeq
  <2> HIDE DEF w
  <2>3. CASE Peer(f) # e
    BY <1>1, <1>3, <2>1, <2>3 DEF w
  <2>4. CASE Peer(f) = e
    <3>1. \A l \in 1..Len(w) : w[l].req = "DATA" =>
            Precedes(Item(w[l]), Item(x)) /\ ~Precedes(Item(x), Item(w[l]))
      <4> TAKE l \in 1..Len(w)
      <4> HAVE w[l].req = "DATA"
      <4>1. ~Precedes(t[e], Item(w[l])) /\ Item(w[l]) \in Nat \X Nat
        BY <1>2, <2>1, <2>2, <2>4 DEF WireOrder
      <4> QED
        BY <1>2, <4>1, PrecedesLaw
    <3>2. WireOrder(w, g[f], x, Item(x))
      BY <2>1, <3>1 DEF WireOrder
    <3> QED
      BY <1>1, <2>4, <3>2 DEF w
  <2> QED
    BY <2>3, <2>4
<1>7. Orders(cs, q, o, i, g, m2, t2)
  BY <1>5, <1>6 DEF Orders
<1> QED
  BY <1>7 DEF m2, t2

\* A call ends, or begins without a chunk; a new tunnel begins.
Later(g, m, t, g2, m2, t2) ==
    \A e \in End : /\ g2[e] = g[e] \/ g2[e] = <<>>
                   /\ m2[e] = m[e] \/ m2[e].req # "DATA"
                   /\ t2[e] = t[e] \/ Precedes(t[e], t2[e])

\* The order is kept when an end has written its request or begins another.
LEMMA HistoryOrder ==
    ASSUME NEW cs \in [Conns -> Connections], NEW q, NEW o, NEW i,
           NEW g \in [End -> Seq(Nat \X Nat)], NEW m \in [End -> Msgs],
           NEW t \in [End -> Nat \X Nat], Orders(cs, q, o, i, g, m, t),
           NEW g2, NEW m2, NEW t2 \in [End -> Nat \X Nat],
           Later(g, m, t, g2, m2, t2)
    PROVE  Orders(cs, q, o, i, g2, m2, t2)
<1> USE DEF Later
<1>1. /\ \A f \in End : Peer(f) \in End
      /\ \A f \in End : \A k \in 1..Len(g[f]) : g[f][k] \in Nat \X Nat
      /\ \A y \in Msgs : Item(y) \in Nat \X Nat
      /\ Len(<<>>) = 0
  BY ElementOfSeq, ItemType, EmptySeq DEF Peer, End
<1>2. \A e \in End : \A x \in Nat \X Nat :
        ~Precedes(t[e], x) => ~Precedes(t2[e], x)
  BY PrecedesLaw
<1>3. ASSUME NEW f \in End
      PROVE  GotOrder(g2[f], m2[Peer(f)], t2[Peer(f)])
  <2>1. GotOrder(g[f], m[Peer(f)], t[Peer(f)])
    BY DEF Orders
  <2>2. m2[Peer(f)].req = "DATA" =>
          /\ m2[Peer(f)] = m[Peer(f)]
          /\ ~Precedes(t2[Peer(f)], Item(m2[Peer(f)]))
    BY <1>1, <1>2, <2>1 DEF GotOrder
  <2>3. CASE g2[f] = <<>>
    BY <1>1, <2>2, <2>3 DEF GotOrder
  <2>4. CASE g2[f] = g[f]
    <3>1. \A k \in 1..Len(g[f]) : ~Precedes(t2[Peer(f)], g[f][k])
      BY <1>1, <1>2, <2>1 DEF GotOrder
    <3> QED
      BY <2>1, <2>2, <2>4, <3>1 DEF GotOrder
  <2> QED
    BY <2>3, <2>4
<1>4. ASSUME NEW f \in End, NEW c \in Conns, Source(f, cs, q, i, c)
      PROVE  WireOrder(cs[c].wire, g2[f], m2[Peer(f)], t2[Peer(f)])
  <2> DEFINE w == cs[c].wire
  <2>1. WireOrder(w, g[f], m[Peer(f)], t[Peer(f)])
    BY <1>4 DEF Orders
  <2>2. \A l \in 1..Len(w) : w[l] \in Msgs
    <3>1. w \in Seq(Msgs)
      BY Fields
    <3> QED
      BY <3>1, ElementOfSeq
  <2> HIDE DEF w
  <2>3. ASSUME NEW l \in 1..Len(w), w[l].req = "DATA"
        PROVE  /\ \A k \in 1..Len(g2[f]) : Precedes(g2[f][k], Item(w[l]))
               /\ m2[Peer(f)].req = "DATA"
                    => Precedes(Item(w[l]), Item(m2[Peer(f)]))
               /\ ~Precedes(t2[Peer(f)], Item(w[l]))
    <3>1. ~Precedes(t2[Peer(f)], Item(w[l]))
      BY <1>1, <1>2, <2>1, <2>2, <2>3 DEF WireOrder
    <3>2. m2[Peer(f)].req = "DATA" => Precedes(Item(w[l]), Item(m2[Peer(f)]))
      BY <1>1, <2>1, <2>3 DEF WireOrder
    <3>3. \A k \in 1..Len(g2[f]) : Precedes(g2[f][k], Item(w[l]))
      <4>1. \A k \in 1..Len(g[f]) : Precedes(g[f][k], Item(w[l]))
        BY <2>1, <2>3 DEF WireOrder
      <4>2. CASE g2[f] = g[f]
        BY <4>1, <4>2
      <4>3. CASE g2[f] = <<>>
        BY <1>1, <4>3
      <4> QED
        BY <4>2, <4>3
    <3> QED
      BY <3>1, <3>2, <3>3
  <2>4. WireOrder(w, g2[f], m2[Peer(f)], t2[Peer(f)])
    BY <2>1, <2>3 DEF WireOrder
  <2> QED
    BY <2>4 DEF w
<1> QED
  BY <1>3, <1>4 DEF Orders

\* A connection that joins the queue is read after those that are there.
LEMMA QueueGrows ==
    ASSUME NEW q \in Seq(Conns), NEW i, NEW c \in Conns,
           c # i["hts"], \A k \in 1..Len(q) : q[k] # c
    PROVE  /\ \A d \in Conns : Place(Append(q, c), i, d) => d = c
                \/ Place(q, i, d)
           /\ \A a, b \in Conns : Earlier(Append(q, c), i, a, b) =>
                a # c /\ (b = c \/ Earlier(q, i, a, b))
<1> DEFINE q2 == Append(q, c)
<1>1. /\ Len(q2) = Len(q) + 1 /\ q2[Len(q) + 1] = c /\ Len(q) \in Nat
      /\ \A k \in 1..Len(q) : q2[k] = q[k]
  BY AppendProperties, LenProperties
<1> HIDE DEF q2
<1>2. \A k \in 1..Len(q2) : k \in 1..Len(q) \/ k = Len(q) + 1
  BY <1>1
<1>3. \A d \in Conns : Place(q2, i, d) => d = c \/ Place(q, i, d)
  BY <1>1, <1>2 DEF Place
<1>4. ASSUME NEW a \in Conns, NEW b \in Conns, Earlier(q2, i, a, b)
      PROVE  a # c /\ (b = c \/ Earlier(q, i, a, b))
  <2>1. CASE a = i["hts"] /\ \E k \in 1..Len(q2) : b = q2[k]
    BY <1>1, <1>2, <2>1 DEF Earlier
  <2>2. CASE \E k, l \in 1..Len(q2) : k < l /\ a = q2[k] /\ b = q2[l]
    <3>1. PICK k \in 1..Len(q2), l \in 1..Len(q2) :
                 k < l /\ a = q2[k] /\ b = q2[l]
      BY <2>2
    <3>2. k \in 1..Len(q)
      BY <1>1, <3>1
    <3>3. CASE l \in 1..Len(q)
      BY <1>1, <3>1, <3>2, <3>3 DEF Earlier
    <3>4. CASE l = Len(q) + 1
      BY <1>1, <3>1, <3>2, <3>4
    <3> QED
      BY <1>2, <3>3, <3>4
  <2> QED
    BY <1>4, <2>1, <2>2 DEF Earlier
<1> QED
  BY <1>3, <1>4 DEF q2

\* htc opens a POST or a GET.
LEMMA OpenOutOrder ==
    ASSUME NEW cs, NEW q, NEW o, NEW i, NEW g, NEW m, NEW t,
           Orders(cs, q, o, i, g, m, t), Descriptors(cs, q, o, i),
           NEW c \in Conns, cs[c].kind = "none",
           NEW new \in Opened("POST")
    PROVE  Orders([cs EXCEPT ![c] = new], Append(q, c),
                  [o EXCEPT !["htc"] = c], i, g, m, t)
<1> DEFINE cs2 == [cs EXCEPT ![c] = new]
           q2 == Append(q, c)
           o2 == [o EXCEPT !["htc"] = c]
<1>1. /\ cs2[c].wire = <<>> /\ \A d \in Conns \ {c} : cs2[d] = cs[d]
      /\ o2["htc"] = c
  BY NewConnType DEF Descriptors, End
<1>2. /\ q \in Seq(Conns) /\ c # i["hts"] /\ c # i["htc"]
      /\ \A k \in 1..Len(q) : q[k] # c
  BY NoneIsNot DEF Descriptors, InKind, End
<1>3. /\ \A d \in Conns : Place(q2, i, d) => d = c \/ Place(q, i, d)
      /\ \A a, b \in Conns : Earlier(q2, i, a, b) =>
           a # c /\ (b = c \/ Earlier(q, i, a, b))
  BY <1>2, QueueGrows
<1>4. Len(<<>>) = 0
  BY EmptySeq
<1> HIDE DEF cs2, q2, o2
<1>5. ASSUME NEW f \in End, NEW d \in Conns, Source(f, cs2, q2, i, d)
      PROVE  WireOrder(cs2[d].wire, g[f], m[Peer(f)], t[Peer(f)])
  <2>1. CASE d = c
    BY <1>1, <1>4, <2>1 DEF WireOrder, Increasing
  <2>2. CASE d # c
    <3>1. Source(f, cs, q, i, d)
      BY <1>1, <1>3, <1>5, <2>2 DEF Source
    <3> QED
      BY <1>1, <2>2, <3>1 DEF Orders
  <2> QED
    BY <2>1, <2>2
<1>6. ASSUME NEW a \in Conns, NEW b \in Conns, cs2[a].kind = "POST",
             cs2[b].kind = "POST", Earlier(q2, i, a, b)
      PROVE  a # o2["htc"] /\ Apart(cs2[a].wire, cs2[b].wire)
  <2>1. a # c /\ (b = c \/ Earlier(q, i, a, b))
    BY <1>3, <1>6
  <2>2. CASE b = c
    BY <1>1, <1>4, <2>1, <2>2 DEF Apart
  <2>3. CASE b # c
    BY <1>1, <1>6, <2>1, <2>3 DEF Orders, ChainOrder
  <2> QED
    BY <2>2, <2>3
<1>7. Orders(cs2, q2, o2, i, g, m, t)
  BY <1>5, <1>6 DEF Orders, ChainOrder
<1> QED
  BY <1>7 DEF cs2, q2, o2

\* htc opens a GET: nothing is in it.
LEMMA OpenInOrder ==
    ASSUME NEW cs, NEW q, NEW o, NEW i, NEW g, NEW m, NEW t,
           Orders(cs, q, o, i, g, m, t), Descriptors(cs, q, o, i),
           NEW c \in Conns, cs[c].kind = "none",
           NEW new \in Opened("GET")
    PROVE  Orders([cs EXCEPT ![c] = new], Append(q, c),
                  o, [i EXCEPT !["htc"] = c], g, m, t)
<1> DEFINE cs2 == [cs EXCEPT ![c] = new]
           q2 == Append(q, c)
           i2 == [i EXCEPT !["htc"] = c]
<1>1. /\ cs2[c].wire = <<>> /\ cs2[c].kind = "GET"
      /\ \A d \in Conns \ {c} : cs2[d] = cs[d]
      /\ i2["htc"] = c /\ i2["hts"] = i["hts"]
  BY NewConnType DEF Descriptors, End
<1>2. /\ q \in Seq(Conns) /\ c # i["hts"]
      /\ \A k \in 1..Len(q) : q[k] # c
  BY NoneIsNot DEF Descriptors, InKind, End
<1>3. /\ \A d \in Conns : Place(q2, i2, d) => d = c \/ Place(q, i, d)
      /\ \A a, b \in Conns : Earlier(q2, i2, a, b) =>
           a # c /\ (b = c \/ Earlier(q, i, a, b))
  <2>1. /\ \A d \in Conns : Place(q2, i, d) => d = c \/ Place(q, i, d)
        /\ \A a, b \in Conns : Earlier(q2, i, a, b) =>
             a # c /\ (b = c \/ Earlier(q, i, a, b))
    BY <1>2, QueueGrows
  <2> HIDE DEF q2, i2
  <2> QED
    BY <1>1, <2>1 DEF Place, Earlier
<1>4. Len(<<>>) = 0
  BY EmptySeq
<1> HIDE DEF cs2, q2, i2
<1>5. ASSUME NEW f \in End, NEW d \in Conns, Source(f, cs2, q2, i2, d)
      PROVE  WireOrder(cs2[d].wire, g[f], m[Peer(f)], t[Peer(f)])
  <2>1. CASE d = c
    BY <1>1, <1>4, <2>1 DEF WireOrder, Increasing
  <2>2. CASE d # c
    <3>1. Source(f, cs, q, i, d)
      BY <1>1, <1>3, <1>5, <2>2 DEF Source
    <3> QED
      BY <1>1, <2>2, <3>1 DEF Orders
  <2> QED
    BY <2>1, <2>2
<1>6. ASSUME NEW a \in Conns, NEW b \in Conns, cs2[a].kind = "POST",
             cs2[b].kind = "POST", Earlier(q2, i2, a, b)
      PROVE  a # o["htc"] /\ Apart(cs2[a].wire, cs2[b].wire)
  <2>1. a # c /\ b # c
    BY <1>1, <1>6
  <2>2. Earlier(q, i, a, b)
    BY <1>3, <1>6, <2>1
  <2> QED
    BY <1>1, <1>6, <2>1, <2>2 DEF Orders, ChainOrder
<1>7. Orders(cs2, q2, o, i2, g, m, t)
  BY <1>5, <1>6 DEF Orders, ChainOrder
<1> QED
  BY <1>7 DEF cs2, q2, i2

\* Connections of which chunks may be lost
Thinner(cs2, cs) ==
    /\ cs2 \in [Conns -> Connections]
    /\ \A c \in Conns : /\ cs2[c].kind \in {cs[c].kind, "none"}
                        /\ Thin(cs2[c].wire, cs[c].wire)

\* System calls, but for a write of a chunk, add no chunk to a connection.
LEMMA ThinnerCases ==
    ASSUME NEW cs \in [Conns -> Connections], NEW c \in Conns
    PROVE  /\ Thinner(cs, cs)
           /\ Thinner(CloseWriter(cs, c), cs) /\ Thinner(CloseReader(cs, c), cs)
           /\ cs[c].wire # <<>> => Thinner(Consume(cs, c), cs)
           /\ \A m \in Msgs : m.req # "DATA" => Thinner(Write(cs, c, m), cs)
           /\ Thinner(Break(cs, c), cs)
<1>1. \A d \in Conns : cs[d].wire \in Seq(Msgs)
  BY Fields
<1>2. \A d \in Conns : Thin(cs[d].wire, cs[d].wire) /\ Thin(<<>>, cs[d].wire)
  BY <1>1, ThinCases
<1>3. Thinner(cs, cs)
  BY <1>2 DEF Thinner
<1>4. Thinner(CloseWriter(cs, c), cs)
  <2> DEFINE cs2 == CloseWriter(cs, c)
  <2>1. /\ cs2 \in [Conns -> Connections]
        /\ \A d \in Conns \ {c} : cs2[d] = cs[d]
        /\ \/ cs2[c].kind = cs[c].kind /\ cs2[c].wire = cs[c].wire
           \/ cs2[c] = NoConn
    BY CloseWriterEffect
  <2> HIDE DEF cs2
  <2>2. Thinner(cs2, cs)
    BY <1>2, <2>1, NoConnType DEF Thinner
  <2> QED
    BY <2>2 DEF cs2
<1>5. Thinner(CloseReader(cs, c), cs)
  <2> DEFINE cs2 == CloseReader(cs, c)
  <2>1. /\ cs2 \in [Conns -> Connections] /\ cs2[c].wire = <<>>
        /\ \A d \in Conns \ {c} : cs2[d] = cs[d]
        /\ cs2[c].kind = cs[c].kind \/ cs2[c] = NoConn
    BY CloseReaderEffect
  <2> HIDE DEF cs2
  <2>2. Thinner(cs2, cs)
    BY <1>2, <2>1, NoConnType DEF Thinner
  <2> QED
    BY <2>2 DEF cs2
<1>6. ASSUME cs[c].wire # <<>> PROVE Thinner(Consume(cs, c), cs)
  <2>1. Thin(Tail(cs[c].wire), cs[c].wire)
    BY <1>1, <1>6, ThinCases
  <2> QED
    BY <1>2, <1>6, <2>1, ConsumeEffect DEF Thinner
<1>7. ASSUME NEW m \in Msgs, m.req # "DATA" PROVE Thinner(Write(cs, c, m), cs)
  <2>1. Thin(Append(cs[c].wire, m), cs[c].wire)
    BY <1>1, <1>7, ThinCases
  <2> QED
    BY <1>2, <2>1, WriteEffect DEF Thinner
<1>8. Thinner(Break(cs, c), cs)
  BY <1>2, BreakEffect DEF Thinner
<1> QED
  BY <1>3, <1>4, <1>5, <1>6, <1>7, <1>8

\* The connections lose chunks, or an end gives up a descriptor.
LEMMA LossOrder ==
    ASSUME NEW cs, NEW q, NEW o, NEW i, NEW g, NEW m, NEW t,
           Orders(cs, q, o, i, g, m, t), Descriptors(cs, q, o, i),
           NEW cs2, Thinner(cs2, cs), NEW e \in End
    PROVE  /\ Orders(cs2, q, o, i, g, m, t)
           /\ Orders(cs2, q, [o EXCEPT ![e] = None], i, g, m, t)
           /\ Orders(cs2, q, o, [i EXCEPT ![e] = None], g, m, t)
<1> DEFINE o2 == [o EXCEPT ![e] = None]
           i2 == [i EXCEPT ![e] = None]
<1>1. /\ o2["htc"] = o["htc"] \/ o2["htc"] \notin Conns
      /\ i2["htc"] = i["htc"] \/ i2["htc"] \notin Conns
      /\ i2["hts"] = i["hts"] \/ i2["hts"] \notin Conns
  BY NoneIsNot DEF Descriptors, End
<1> HIDE DEF o2, i2
<1>2. /\ \A c \in Conns : Place(q, i2, c) => Place(q, i, c)
      /\ \A c, d \in Conns : Earlier(q, i2, c, d) => Earlier(q, i, c, d)
  BY <1>1 DEF Place, Earlier
<1>3. /\ cs2 \in [Conns -> Connections]
      /\ \A c \in Conns : /\ cs2[c].kind \in {cs[c].kind, "none"}
                          /\ Thin(cs2[c].wire, cs[c].wire)
  BY DEF Thinner
<1>4. Orders(cs2, q, o, i, g, m, t)
  BY <1>3, ThinOrder
<1>5. Orders(cs2, q, o2, i, g, m, t)
  BY <1>1, <1>3, ThinOrder
<1>6. Orders(cs2, q, o, i2, g, m, t)
  BY <1>1, <1>2, <1>3, ThinOrder
<1> QED
  BY <1>4, <1>5, <1>6 DEF o2, i2

\* hts takes a connection from the queue, and keeps it or refuses it.
LEMMA TakeOrder ==
    ASSUME NEW cs, NEW q, NEW o, NEW i, NEW g, NEW m, NEW t,
           Orders(cs, q, o, i, g, m, t), Descriptors(cs, q, o, i), q # <<>>,
           NEW cs2, Thinner(cs2, cs)
    PROVE  /\ Orders(cs2, Tail(q), o, i, g, m, t)
           /\ Orders(cs2, Tail(q), [o EXCEPT !["hts"] = Head(q)], i, g, m, t)
           /\ Orders(cs2, Tail(q), o, [i EXCEPT !["hts"] = Head(q)], g, m, t)
<1> DEFINE q2 == Tail(q)
           o2 == [o EXCEPT !["hts"] = Head(q)]
           i2 == [i EXCEPT !["hts"] = Head(q)]
<1>1. /\ o2["htc"] = o["htc"] /\ i2["htc"] = i["htc"] /\ i2["hts"] = Head(q)
      /\ q \in Seq(Conns)
  BY DEF Descriptors, End
<1>2. /\ Len(q2) = Len(q) - 1 /\ Len(q) \in Nat /\ Len(q) > 0 /\ Head(q) = q[1]
      /\ \A k \in 1..Len(q2) : q2[k] = q[k + 1]
  <2>1. Len(q) \in Nat /\ Len(q) > 0 /\ Head(q) = q[1]
    BY <1>1, LenProperties, EmptySeq
  <2> QED
    BY <1>1, <2>1, HeadTailProperties
<1> HIDE DEF q2, o2, i2
<1>3. /\ 1 \in 1..Len(q)
      /\ \A k \in 1..Len(q2) : k + 1 \in 1..Len(q) /\ 1 < k + 1
  BY <1>2
<1>4. /\ \A c \in Conns : Place(q2, i2, c) => Place(q, i, c)
      /\ \A c, d \in Conns : Earlier(q2, i2, c, d) => Earlier(q, i, c, d)
  <2>1. \A c \in Conns : Place(q2, i2, c) => Place(q, i, c)
    BY <1>1, <1>2, <1>3 DEF Place
  <2>2. ASSUME NEW c \in Conns, NEW d \in Conns, Earlier(q2, i2, c, d)
        PROVE  Earlier(q, i, c, d)
    <3>1. CASE c = i2["hts"] /\ \E k \in 1..Len(q2) : d = q2[k]
      BY <1>1, <1>2, <1>3, <3>1 DEF Earlier
    <3>2. CASE \E k, l \in 1..Len(q2) : k < l /\ c = q2[k] /\ d = q2[l]
      BY <1>2, <1>3, <3>2 DEF Earlier
    <3> QED
      BY <2>2, <3>1, <3>2 DEF Earlier
  <2> QED
    BY <2>1, <2>2
<1>5. /\ \A c \in Conns : Place(q2, i, c) => Place(q, i, c)
      /\ \A c, d \in Conns : Earlier(q2, i, c, d) => Earlier(q, i, c, d)
  BY <1>2, <1>3 DEF Place, Earlier
<1>6. /\ cs2 \in [Conns -> Connections]
      /\ \A c \in Conns : /\ cs2[c].kind \in {cs[c].kind, "none"}
                          /\ Thin(cs2[c].wire, cs[c].wire)
  BY DEF Thinner
<1>7. Orders(cs2, q2, o, i, g, m, t)
  BY <1>5, <1>6, ThinOrder
<1>8. Orders(cs2, q2, o2, i, g, m, t)
  BY <1>1, <1>5, <1>6, ThinOrder
<1>9. Orders(cs2, q2, o, i2, g, m, t)
  BY <1>1, <1>4, <1>6, ThinOrder
<1> QED
  BY <1>7, <1>8, <1>9 DEF q2, o2, i2

\* The request that an end is writing, and the last chunk it has sent
LEMMA LastType ==
    ASSUME Rest
    PROVE  /\ Last \in [End -> Nat \X Nat] /\ Pending \in [End -> Msgs]
           /\ \A e \in End :
                Last[e] = <<session[e], sent[e]>> /\ Pending[e] = call[e].msg
BY HttpTunnelAssumption DEF Rest, Last, Pending

\* A step after which the connections are in order for what there was, and in
\* which a call ends or a tunnel begins
LEMMA BegunOrder ==
    ASSUME TypeInv, Rest', conn' \in [Conns -> Connections],
           Orders(conn', queue', out', in', got, Pending, Last),
           \A e \in End : /\ got'[e] = got[e] \/ got'[e] = <<>>
                          /\ \/ call'[e].msg = call[e].msg
                             \/ call'[e].msg.req # "DATA"
                          /\ \/ session'[e] = session[e] /\ sent'[e] = sent[e]
                             \/ session'[e] = session[e] + 1
    PROVE  OrderInv'
<1>1. got \in [End -> Seq(Nat \X Nat)] /\ Rest
  BY DEF TypeInv, Rest
<1>2. /\ Last' \in [End -> Nat \X Nat]
      /\ \A e \in End : Last'[e] = <<session'[e], sent'[e]>>
      /\ \A e \in End : Pending'[e] = call'[e].msg
  BY HttpTunnelAssumption DEF Rest, Last, Pending
<1>3. \A e \in End : Last'[e] = Last[e] \/ Precedes(Last[e], Last'[e])
  <2> TAKE e \in End
  <2>1. session[e] \in Nat
    BY <1>1, HttpTunnelAssumption DEF Rest
  <2>2. Last[e] = <<session[e], sent[e]>>
          /\ Last'[e] = <<session'[e], sent'[e]>>
    BY <1>1, <1>2, LastType
  <2>3. CASE session'[e] = session[e] /\ sent'[e] = sent[e]
    BY <2>2, <2>3
  <2>4. CASE session'[e] = session[e] + 1
    BY <2>1, <2>2, <2>4 DEF Precedes
  <2> QED
    BY <2>3, <2>4
<1>4. Orders(conn', queue', out', in', got', Pending', Last')
  <2>1. /\ Last \in [End -> Nat \X Nat] /\ Pending \in [End -> Msgs]
        /\ \A e \in End : /\ got'[e] = got[e] \/ got'[e] = <<>>
                          /\ \/ Pending'[e] = Pending[e]
                             \/ Pending'[e].req # "DATA"
                          /\ Last'[e] = Last[e] \/ Precedes(Last[e], Last'[e])
    BY <1>1, <1>2, <1>3, LastType
  <2>2. Later(got, Pending, Last, got', Pending', Last')
    BY <2>1 DEF Later
  <2> QED
    BY <1>1, <1>2, <2>1, <2>2, HistoryOrder
<1> QED
  BY <1>4 DEF OrderInv

\* A step that leaves the chunks on the connections where they are
LEMMA ControlOrder ==
    ASSUME TypeInv, OrderInv, Rest',
           UNCHANGED <<queue, in, out, conn>>,
           \A e \in End : /\ got'[e] = got[e] \/ got'[e] = <<>>
                          /\ \/ call'[e].msg = call[e].msg
                             \/ call'[e].msg.req # "DATA"
                          /\ \/ session'[e] = session[e] /\ sent'[e] = sent[e]
                             \/ session'[e] = session[e] + 1
    PROVE  OrderInv'
BY BegunOrder DEF TypeInv, Descriptors, OrderInv

\* A step that moves no chunk to an end, after which the connections are in
\* order for the calls there were
LEMMA MovedOrder ==
    ASSUME TypeInv, Rest', conn' \in [Conns -> Connections],
           NEW m \in [End -> Msgs],
           Orders(conn', queue', out', in', got, m, Last),
           \A e \in End : call'[e].msg = m[e] \/ call'[e].msg.req # "DATA",
           UNCHANGED <<session, sent, got>>
    PROVE  OrderInv'
<1>1. /\ got \in [End -> Seq(Nat \X Nat)] /\ Rest
  BY DEF TypeInv, Rest
<1>2. Last' = Last /\ \A e \in End : Pending'[e] = call'[e].msg
  BY DEF Last, Pending
<1>3. Orders(conn', queue', out', in', got', Pending', Last')
  <2>1. /\ Last \in [End -> Nat \X Nat] /\ Last' \in [End -> Nat \X Nat]
        /\ \A e \in End : /\ got'[e] = got[e] \/ got'[e] = <<>>
                          /\ Pending'[e] = m[e] \/ Pending'[e].req # "DATA"
                          /\ Last'[e] = Last[e] \/ Precedes(Last[e], Last'[e])
    BY <1>1, <1>2, LastType
  <2>2. Later(got, m, Last, got', Pending', Last')
    BY <2>1 DEF Later
  <2> QED
    BY <1>1, <2>1, <2>2, HistoryOrder
<1> QED
  BY <1>3 DEF OrderInv

\* Every step keeps the order of the chunks.
LEMMA OrderNext ==
    ASSUME TypeInv, TypeInv', OrderInv, [Next]_vars
    PROVE  OrderInv'
<1>1. /\ Rest /\ Rest' /\ Descriptors(conn, queue, out, in)
      /\ conn \in [Conns -> Connections] /\ conn' \in [Conns -> Connections]
      /\ "htc" \in End /\ "hts" \in End
      /\ Orders(conn, queue, out, in, got, Pending, Last)
      /\ Pending \in [End -> Msgs] /\ \A e \in End : Pending[e] = call[e].msg
      /\ \A e \in End :
            out[e] \in Conns \cup {None} /\ in[e] \in Conns \cup {None}
  BY LastType DEF TypeInv, Descriptors, OrderInv, End
<1>2. \A e \in End : \A l : Return(e, l) =>
        \A f \in End : call'[f] = call[f] \/ call'[f].msg.req # "DATA"
  BY <1>1, MsgType DEF Return, Rest
<1>3. \A e \in End : \A l : Return(e, l) => call'[e].msg.req # "DATA"
  BY <1>1, MsgType DEF Return, Rest
<1>4. ASSUME NEW e \in End, RequestFails(e)
      PROVE  \A f \in End : call'[f] = call[f] \/ call'[f].msg.req # "DATA"
  BY <1>2, <1>4 DEF RequestFails
<1>5. ASSUME Orders(conn', queue', out', in', got, Pending, Last),
             UNCHANGED <<session, sent, got>>,
             \A f \in End : call'[f] = call[f] \/ call'[f].msg.req # "DATA"
      PROVE  OrderInv'
  BY <1>1, <1>5, MovedOrder
<1>6. ASSUME NEW cs2, Thinner(cs2, conn), NEW e \in End
      PROVE  /\ Orders(cs2, queue, out, in, got, Pending, Last)
             /\ Orders(cs2, queue, [out EXCEPT ![e] = None], in, got, Pending,
                  Last)
             /\ Orders(cs2, queue, out, [in EXCEPT ![e] = None], got, Pending,
                  Last)
  BY <1>1, <1>6, LossOrder
<1>7. ASSUME NEW e \in End, WriteRequest(e) PROVE OrderInv'
  <2> DEFINE x == Msg("PAD")
             m2 == [Pending EXCEPT ![e] = x]
             written == Write(conn, out[e], Pending[e])
             both == Write(written, out[e], Msg("DISCONNECT"))
  <2>1. out[e] \in Conns /\ out[e] # None
    BY <1>1, <1>7 DEF WriteRequest
  <2>2. x.req # "DATA" /\ x \in Msgs /\ Msg("DISCONNECT") \in Msgs
        /\ Msg("DISCONNECT").req # "DATA"
    BY <1>1, MsgType
  <2>3. Orders(written, queue, out, in, got, m2, Last)
    BY <1>1, <2>1, <2>2, SendOrder
  <2>4. /\ queue' = queue /\ in' = in /\ UNCHANGED <<session, sent, got>>
        /\ call' = [call EXCEPT ![e] = NoCall]
        /\ \/ conn' = written /\ out' = out
           \/ conn' = CloseWriter(both, out[e])
                /\ out' = [out EXCEPT ![e] = None]
    BY <1>1, <1>7 DEF WriteRequest, Return, SetOut, history
  <2>5. m2 \in [End -> Msgs] /\ \A f \in End : call'[f].msg = m2[f]
    BY <1>1, <2>2, <2>4, MsgType DEF Rest
  <2>6. Descriptors(written, queue, out, in)
          /\ Descriptors(both, queue, out, in)
    BY <1>1, <2>1, <2>2, WriteD
  <2> HIDE DEF x, m2, written
  <2>7. Orders(both, queue, out, in, got, m2, Last)
    <3>1. written \in [Conns -> Connections]
      BY <2>6 DEF Descriptors
    <3>2. Thinner(both, written)
      BY <2>1, <2>2, <3>1, ThinnerCases
    <3> HIDE DEF both
    <3> QED
      BY <1>1, <2>3, <2>6, <3>2, LossOrder
  <2>8. Orders(CloseWriter(both, out[e]), queue, [out EXCEPT ![e] = None], in,
               got, m2, Last)
    <3>1. both \in [Conns -> Connections]
      BY <2>6 DEF Descriptors
    <3> HIDE DEF both
    <3>2. Thinner(CloseWriter(both, out[e]), both)
      BY <2>1, <3>1, ThinnerCases
    <3> QED
      BY <2>6, <2>7, <3>2, LossOrder
  <2> HIDE DEF both
  <2>9. Orders(conn', queue', out', in', got, m2, Last)
    BY <2>3, <2>4, <2>8
  <2> QED
    BY <1>1, <2>4, <2>5, <2>9, MovedOrder
<1>8. ASSUME NEW e \in End, WriteLost(e) PROVE OrderInv'
  <2>1. /\ out[e] \in Conns /\ queue' = queue /\ in' = in
        /\ UNCHANGED <<session, sent, got>> /\ Return(e, call[e].next)
    BY <1>1, <1>8 DEF WriteLost, history
  <2>2. CASE conn' = [conn EXCEPT ![out[e]].reset = TRUE] /\ out' = out
    <3>1. conn[out[e]] \in Connections
      BY <1>1, <2>1
    <3>2. \A d \in Conns :
            conn'[d].kind = conn[d].kind /\ conn'[d].wire = conn[d].wire
      BY <1>1, <2>1, <2>2, <3>1 DEF Connections
    <3>3. Thinner(conn, conn)
      BY <1>1, <2>1, ThinnerCases
    <3>4. Thinner(conn', conn)
      BY <1>1, <3>2, <3>3 DEF Thinner
    <3> QED
      BY <1>2, <1>5, <1>6, <2>1, <2>2, <3>4
  <2>3. CASE conn' = CloseWriter(conn, out[e])
               /\ out' = [out EXCEPT ![e] = None]
    <3>1. Thinner(conn', conn)
      BY <1>1, <2>1, <2>3, ThinnerCases
    <3> QED
      BY <1>2, <1>5, <1>6, <2>1, <2>3, <3>1
  <2> QED
    BY <1>8, <2>2, <2>3 DEF WriteLost, SetOut
<1>9. ASSUME NEW e \in End, WriteEPIPE(e) PROVE OrderInv'
  <2>1. /\ out[e] \in Conns /\ conn' = CloseWriter(conn, out[e])
        /\ out' = [out EXCEPT ![e] = None] /\ queue' = queue /\ in' = in
    BY <1>1, <1>9 DEF WriteEPIPE, Lost, SetOut
  <2>2. /\ UNCHANGED history
        /\ \A f \in End : call'[f] = call[f] \/ call'[f].msg.req # "DATA"
    BY <1>4, <1>9 DEF WriteEPIPE
  <2>3. Thinner(conn', conn)
    BY <1>1, <2>1, ThinnerCases
  <2> QED
    BY <1>5, <1>6, <2>1, <2>2, <2>3 DEF history
<1>10. ASSUME CloseAged PROVE OrderInv'
  <2> DEFINE c == out["htc"]
             last == Write(conn, c, Msg("DISCONNECT"))
  <2>1. /\ c \in Conns /\ out' = [out EXCEPT !["htc"] = None] /\ queue' = queue
        /\ in' = in /\ UNCHANGED <<call, session, sent, got>>
        /\ conn' = CloseWriter(last, c) \/ conn' = CloseWriter(conn, c)
    BY <1>1, <1>10 DEF CloseAged, SetOut, control, history
  <2>2. Msg("DISCONNECT") \in Msgs /\ Msg("DISCONNECT").req # "DATA"
    BY <1>1, MsgType
  <2> HIDE DEF c
  <2>3. Descriptors(last, queue, out, in) /\ Thinner(last, conn)
    BY <1>1, <2>1, <2>2, WriteD, ThinnerCases
  <2>4. last \in [Conns -> Connections]
    BY <2>3 DEF Descriptors
  <2> HIDE DEF last
  <2>5. Orders(last, queue, out, in, got, Pending, Last)
    BY <1>1, <1>6, <2>3
  <2>6. Thinner(CloseWriter(last, c), last)
          /\ Thinner(CloseWriter(conn, c), conn)
    BY <1>1, <2>1, <2>4, ThinnerCases
  <2>7. Orders(CloseWriter(last, c), queue, [out EXCEPT !["htc"] = None], in,
               got, Pending, Last)
    BY <1>1, <2>3, <2>5, <2>6, LossOrder
  <2>8. Orders(CloseWriter(conn, c), queue, [out EXCEPT !["htc"] = None], in,
               got, Pending, Last)
    BY <1>1, <1>6, <2>6
  <2> QED
    BY <1>5, <2>1, <2>7, <2>8
<1>11. ASSUME OutConnect \/ PostFails PROVE OrderInv'
  <2>1. FirstFree \in Conns /\ conn[FirstFree].kind = "none"
    BY <1>11, FirstFreeConn DEF OutConnect, PostFails
  <2>2. PICK new \in Opened("POST") :
          /\ conn' = [conn EXCEPT ![FirstFree] = new]
          /\ queue' = Append(queue, FirstFree) /\ in' = in
          /\ out' = [out EXCEPT !["htc"] = FirstFree]
          /\ UNCHANGED <<session, sent, got>>
    BY <1>11 DEF OutConnect, PostFails, Opened, SetOut, history, Fault
  <2>3. \A f \in End : call'[f] = call[f] \/ call'[f].msg.req # "DATA"
    BY <1>4, <1>11 DEF OutConnect, PostFails, End
  <2>4. Orders([conn EXCEPT ![FirstFree] = new], Append(queue, FirstFree),
               [out EXCEPT !["htc"] = FirstFree], in, got, Pending, Last)
    BY <1>1, <2>1, OpenOutOrder
  <2> QED
    BY <1>5, <2>2, <2>3, <2>4
<1>12. ASSUME InConnect \/ GetFails PROVE OrderInv'
  <2>1. FirstFree \in Conns /\ conn[FirstFree].kind = "none"
    BY <1>12, FirstFreeConn DEF InConnect, GetFails
  <2>2. PICK new \in Opened("GET") :
          /\ conn' = [conn EXCEPT ![FirstFree] = new]
          /\ queue' = Append(queue, FirstFree) /\ out' = out
          /\ in' = [in EXCEPT !["htc"] = FirstFree]
          /\ UNCHANGED <<call, session, sent, got>>
    BY <1>12 DEF InConnect, GetFails, Opened, SetIn, history, Fault, InFails
  <2>3. Orders([conn EXCEPT ![FirstFree] = new], Append(queue, FirstFree),
               out, [in EXCEPT !["htc"] = FirstFree], got, Pending, Last)
    BY <1>1, <2>1, OpenInOrder
  <2> QED
    BY <1>5, <2>2, <2>3
<1>13. ASSUME AcceptPost PROVE OrderInv'
  <2>1. /\ queue # <<>> /\ queue' = Tail(queue) /\ out' = out
        /\ UNCHANGED <<call, session, sent, got>>
        /\ \/ in' = [in EXCEPT !["hts"] = Head(queue)] /\ conn' = conn
           \/ in' = in /\ conn' = CloseReader(conn, Head(queue))
    BY <1>13 DEF AcceptPost, SetIn, control
  <2>2. Head(queue) \in Conns
    BY <1>1, <2>1, HeadTailProperties DEF Descriptors
  <2>3. Thinner(conn, conn) /\ Thinner(CloseReader(conn, Head(queue)), conn)
    BY <1>1, <2>2, ThinnerCases
  <2>4. /\ Orders(conn, Tail(queue), out, [in EXCEPT !["hts"] = Head(queue)],
                  got, Pending, Last)
        /\ Orders(CloseReader(conn, Head(queue)), Tail(queue), out, in,
                  got, Pending, Last)
    BY <1>1, <2>1, <2>3, TakeOrder
  <2> QED
    BY <1>5, <2>1, <2>4
<1>14. ASSUME AcceptGet PROVE OrderInv'
  <2> DEFINE answered == Write(conn, Head(queue), Msg("200"))
  <2>1. /\ queue # <<>> /\ queue' = Tail(queue) /\ in' = in
        /\ UNCHANGED <<call, session, sent, got>>
        /\ \/ out' = [out EXCEPT !["hts"] = Head(queue)] /\ conn' = answered
           \/ out' = out /\ conn' = CloseWriter(conn, Head(queue))
    BY <1>14 DEF AcceptGet, SetOut, control
  <2>2. Head(queue) \in Conns
    BY <1>1, <2>1, HeadTailProperties DEF Descriptors
  <2>3. Thinner(answered, conn) /\ Thinner(CloseWriter(conn, Head(queue)), conn)
    BY <1>1, <2>2, MsgType, ThinnerCases
  <2> HIDE DEF answered
  <2>4. /\ Orders(answered, Tail(queue), [out EXCEPT !["hts"] = Head(queue)],
             in,
                  got, Pending, Last)
        /\ Orders(CloseWriter(conn, Head(queue)), Tail(queue), out, in,
                  got, Pending, Last)
    BY <1>1, <2>1, <2>3, TakeOrder
  <2> QED
    BY <1>5, <2>1, <2>4
<1>15. ASSUME NEW e \in End,
              conn' = CloseOut(CloseIn(conn, in[e]), out[e]), queue' = queue,
              in' = [in EXCEPT ![e] = None], out' = [out EXCEPT ![e] = None],
              UNCHANGED <<session, sent, got>>,
              \A f \in End : call'[f] = call[f] \/ call'[f].msg.req # "DATA"
       PROVE  OrderInv'
  <2> DEFINE cs2 == CloseIn(conn, in[e])
             i2 == [in EXCEPT ![e] = None]
  <2>1. Descriptors(cs2, queue, out, i2)
    BY <1>1, CloseInD
  <2>2. Thinner(cs2, conn)
    <3>1. Thinner(conn, conn)
      BY <1>1, ThinnerCases, HttpTunnelAssumption DEF Conns
    <3>2. CASE in[e] = None
      BY <3>1, <3>2 DEF CloseIn
    <3>3. CASE in[e] # None
      <4>1. in[e] \in Conns
        BY <1>1, <3>3
      <4> QED
        BY <1>1, <3>3, <4>1, ThinnerCases DEF CloseIn
    <3> QED
      BY <3>2, <3>3
  <2> HIDE DEF cs2
  <2>3. Orders(cs2, queue, out, i2, got, Pending, Last)
    BY <1>6, <2>2
  <2>4. Thinner(CloseOut(cs2, out[e]), cs2)
    <3>1. cs2 \in [Conns -> Connections]
      BY <2>1 DEF Descriptors
    <3>2. Thinner(cs2, cs2)
      BY <3>1, ThinnerCases, HttpTunnelAssumption DEF Conns
    <3>3. CASE out[e] = None
      BY <3>2, <3>3 DEF CloseOut
    <3>4. CASE out[e] # None
      <4>1. out[e] \in Conns
        BY <1>1, <3>4
      <4> QED
        BY <3>1, <3>4, <4>1, ThinnerCases DEF CloseOut
    <3> QED
      BY <3>3, <3>4
  <2> HIDE DEF i2
  <2>5. Orders(CloseOut(cs2, out[e]), queue, [out EXCEPT ![e] = None], i2,
               got, Pending, Last)
    BY <2>1, <2>3, <2>4, LossOrder
  <2> QED
    BY <1>5, <1>15, <2>5 DEF cs2, i2
<1>16. ASSUME AcceptTimeout PROVE OrderInv'
  <2>1. pc["hts"] \in {"accept", "acceptIn", "acceptOut", "acceptWrite"}
    BY <1>16 DEF AcceptTimeout, Accepting
  <2>2. UNCHANGED history
        /\ \A f \in End : call'[f] = call[f] \/ call'[f].msg.req # "DATA"
    BY <1>1, <1>4, <1>16, <2>1 DEF AcceptTimeout, control
  <2> QED
    BY <1>1, <1>15, <1>16, <2>2 DEF AcceptTimeout, SetIn, SetOut, history
<1>17. ASSUME Exit PROVE OrderInv'
  BY <1>1, <1>15, <1>17 DEF Exit, SetIn, SetOut, history
<1>18. ASSUME NEW c \in Conns \cup {None}, conn[c].wire # <<>>,
              conn' = Consume(conn, c),
              UNCHANGED <<queue, in, out, call, session, sent, got>>
       PROVE  OrderInv'
  <2>1. CASE c \in Conns
    <3>1. Thinner(conn', conn)
      BY <1>1, <1>18, <2>1, ThinnerCases
    <3> QED
      BY <1>1, <1>5, <1>6, <1>18, <3>1
  <2>2. CASE c = None
    <3>1. conn' = conn
      BY <1>1, <1>18, <2>2, NoneIsNot DEF Consume
    <3> QED
      BY <1>1, <1>5, <1>18, <3>1
  <2> QED
    BY <2>1, <2>2
<1>19. ASSUME Answered PROVE OrderInv'
  BY <1>1, <1>18, <1>19 DEF Answered, fds, history
<1>20. ASSUME NEW e \in End, ReadUnwritten(e) \/ DrainMore(e) PROVE OrderInv'
  BY <1>1, <1>18, <1>20 DEF ReadUnwritten, DrainMore, fds, history, control
<1>21. ASSUME NEW e \in End, ReadRequest(e) PROVE OrderInv'
  <2> DEFINE h == Head(conn[in[e]].wire)
  <2>1. /\ in[e] \in Conns /\ in[e] # None /\ conn[in[e]].wire # <<>>
        /\ conn' = Consume(conn, in[e])
        /\ UNCHANGED <<queue, in, out, call, session, sent>>
        /\ got' = IF h.req = "DATA"
                    THEN [got EXCEPT ![e] = Append(@, <<h.session, h.n>>)]
                    ELSE got
    BY <1>1, <1>21 DEF ReadRequest, Reading, fds
  <2>2. CASE h.req # "DATA"
    BY <1>18, <2>1, <2>2
  <2>3. CASE h.req = "DATA"
    <3>1. Orders(Consume(conn, in[e]), queue, out, in,
                 [got EXCEPT ![e] = Append(@, Item(h))], Pending, Last)
      BY <1>1, <2>1, <2>3, ReadOrder DEF Rest
    <3>2. got' = [got EXCEPT ![e] = Append(@, Item(h))]
      BY <2>1, <2>3 DEF Item
    <3>3. Pending' = Pending /\ Last' = Last
      BY <2>1 DEF Pending, Last
    <3>4. Orders(conn', queue', out', in', got', Pending', Last')
      BY <2>1, <3>1, <3>2, <3>3
    <3> QED
      BY <3>4 DEF OrderInv
  <2> QED
    BY <2>2, <2>3
<1>22. ASSUME NEW e \in End, ReadDisconnect(e) PROVE OrderInv'
  <2>1. /\ in[e] \in Conns /\ conn' = CloseReader(conn, in[e])
        /\ in' = [in EXCEPT ![e] = None]
        /\ UNCHANGED <<queue, out, call, session, sent, got>>
    BY <1>1, <1>22 DEF ReadDisconnect, Reading, SetIn, history
  <2>2. Thinner(conn', conn)
    BY <1>1, <2>1, ThinnerCases
  <2> QED
    BY <1>5, <1>6, <2>1, <2>2
<1>23. \A c \in Conns \cup {None} :
         Thinner(CloseOut(conn, c), conn) /\ Thinner(CloseIn(conn, c), conn)
  <2> TAKE c \in Conns \cup {None}
  <2>1. Thinner(conn, conn)
    BY <1>1, ThinnerCases, HttpTunnelAssumption DEF Conns
  <2>2. CASE c = None
    BY <2>1, <2>2 DEF CloseOut, CloseIn
  <2>3. CASE c \in Conns
    BY <1>1, <2>1, <2>3, ThinnerCases DEF CloseOut, CloseIn
  <2> QED
    BY <2>2, <2>3
<1>24. ASSUME NEW e \in End, Disconnect(e) PROVE OrderInv'
  <2>1. /\ conn' = CloseOut(conn, out[e]) /\ out' = [out EXCEPT ![e] = None]
        /\ UNCHANGED <<queue, in, call, session, sent, got>>
    BY <1>24 DEF Disconnect, SetOut, history
  <2>2. Thinner(conn', conn)
    BY <1>1, <1>23, <2>1
  <2> QED
    BY <1>5, <1>6, <2>1, <2>2
<1>25. ASSUME NEW e \in End, DrainDone(e) PROVE OrderInv'
  <2>1. /\ conn' = CloseIn(conn, in[e]) /\ in' = [in EXCEPT ![e] = None]
        /\ UNCHANGED <<queue, out, call, session, sent, got>>
    BY <1>25 DEF DrainDone, SetIn, history
  <2>2. Thinner(conn', conn)
    BY <1>1, <1>23, <2>1
  <2> QED
    BY <1>5, <1>6, <2>1, <2>2
<1>26. ASSUME NEW e \in End, DeviceInput(e) PROVE OrderInv'
  <2> DEFINE x == [req |-> "DATA", session |-> session[e], n |-> sent[e] + 1]
  <2>1. /\ session[e] \in 0..Sessions /\ session[e] \in Nat /\ sent[e] \in Nat
    BY <1>1, HttpTunnelAssumption DEF Rest
  <2>2. x \in Msgs /\ Item(x) = <<session[e], sent[e] + 1>>
    BY <2>1 DEF Msgs, Item
  <2>3. /\ sent' = [sent EXCEPT ![e] = @ + 1] /\ session' = session
        /\ call' = [call EXCEPT ![e] = [msg |-> x, next |-> AfterDevice(e)]]
        /\ UNCHANGED <<queue, in, out, conn, got>>
    BY <1>26 DEF DeviceInput, Request, net, fds
  <2> HIDE DEF x
  <2>4. Pending' = [Pending EXCEPT ![e] = x]
    BY <1>1, <2>3 DEF Pending, Rest
  <2>5. Last' = [Last EXCEPT ![e] = Item(x)]
    BY <1>1, <2>2, <2>3 DEF Last, Rest
  <2>6. Precedes(Last[e], Item(x))
    BY <1>1, <2>1, <2>2, LastType DEF Precedes
  <2>7. Orders(conn, queue, out, in, got, Pending', Last')
    BY <1>1, <2>2, <2>4, <2>5, <2>6, LastType, AskOrder DEF Rest
  <2> QED
    BY <2>3, <2>7 DEF OrderInv
<1>27. ASSUME NEW e \in End,
              \/ WriteFails(e) \/ TunnelReady(e) \/ TunnelClose(e)
                   \/ KeepAlive(e)
              \/ DeviceCloses(e)
       PROVE  OrderInv'
  <2>1. /\ UNCHANGED <<queue, in, out, conn>>
        /\ UNCHANGED <<session, sent, got>>
    BY <1>27 DEF WriteFails, TunnelReady, TunnelClose, KeepAlive,
       DeviceCloses, net, fds, history
  <2>2. \A f \in End : call'[f] = call[f] \/ call'[f].msg.req # "DATA"
    <3>1. CASE WriteFails(e)
      BY <1>4, <3>1 DEF WriteFails
    <3>2. CASE TunnelReady(e) \/ DeviceCloses(e)
      BY <3>2 DEF TunnelReady, DeviceCloses
    <3>3. ASSUME NEW m, NEW l, m.req # "DATA", Request(e, m, l)
          PROVE  \A f \in End : call'[f] = call[f] \/ call'[f].msg.req # "DATA"
      BY <1>1, <3>3 DEF Request, Rest
    <3>4. Msg("CLOSE").req # "DATA" /\ Msg("PAD").req # "DATA"
      BY DEF Msg
    <3>5. CASE TunnelClose(e)
      BY <3>3, <3>4, <3>5 DEF TunnelClose
    <3>6. CASE KeepAlive(e)
      BY <3>3, <3>4, <3>6 DEF KeepAlive
    <3> QED
      BY <1>27, <3>1, <3>2, <3>5, <3>6
  <2> QED
    BY <1>1, <2>1, <2>2, ControlOrder
<1>28. ASSUME \/ OutAccept \/ NotAnswered \/ ReadAccept \/ ReadAgain
              \/ InConnectFails \/ AnswerFails \/ UNCHANGED vars
       PROVE  OrderInv'
  <2>1. UNCHANGED <<queue, in, out, conn, call, session, sent, got>>
    BY <1>28 DEF OutAccept, NotAnswered, ReadAccept, ReadAgain, InConnectFails,
       AnswerFails, InFails, Fault, net, fds, control, history, vars
  <2> QED
    BY <1>1, <2>1, ControlOrder
<1>29. ASSUME NEW e \in End, BeginSession(e), UNCHANGED <<net, fds>>,
              \A f \in End : call'[f] = call[f] \/ call'[f].msg.req # "DATA"
       PROVE  OrderInv'
  <2>1. \A f \in End : /\ got'[f] = got[f] \/ got'[f] = <<>>
                       /\ \/ session'[f] = session[f] /\ sent'[f] = sent[f]
                          \/ session'[f] = session[f] + 1
    BY <1>1, <1>29 DEF BeginSession, Rest
  <2> QED
    BY <1>1, <1>29, <2>1, ControlOrder DEF net, fds
<1>30. ASSUME AcceptReturns PROVE OrderInv'
  <2>1. CASE BeginSession("hts")
    BY <1>1, <1>29, <1>30, <2>1 DEF AcceptReturns
  <2>2. CASE UNCHANGED <<closed, history>>
    BY <1>1, <1>30, <2>2, ControlOrder DEF AcceptReturns, net, fds, history
  <2> QED
    BY <1>30, <2>1, <2>2 DEF AcceptReturns
<1>31. ASSUME TunnelConnect PROVE OrderInv'
  <2>1. Msg("OPEN").req # "DATA"
    BY DEF Msg
  <2>2. \A f \in End : call'[f] = call[f] \/ call'[f].msg.req # "DATA"
    BY <1>1, <1>31, <2>1 DEF TunnelConnect, Request, Rest
  <2> QED
    BY <1>1, <1>29, <1>31, <2>2 DEF TunnelConnect
<1>32. ASSUME CloseAgedFails \/ OutConnectFails PROVE OrderInv'
  <2>1. /\ UNCHANGED <<queue, in, out, conn, session, sent, got>>
        /\ RequestFails("htc")
    BY <1>32 DEF CloseAgedFails, OutConnectFails, net, fds, history, Fault
  <2>2. \A f \in End : call'[f] = call[f] \/ call'[f].msg.req # "DATA"
    BY <1>1, <1>4, <2>1
  <2> QED
    BY <1>1, <2>1, <2>2, ControlOrder
<1>33. ASSUME AnswerLost PROVE OrderInv'
  <2>1. /\ conn' = Break(conn, in["htc"])
        /\ UNCHANGED <<queue, in, out, call, session, sent, got>>
    BY <1>33 DEF AnswerLost, fds, control, Fault
  <2>2. CASE in["htc"] \in Conns
    <3>1. Thinner(conn', conn)
      BY <1>1, <2>1, <2>2, ThinnerCases
    <3> QED
      BY <1>1, <1>5, <1>6, <2>1, <3>1
  <2>3. CASE in["htc"] = None
    <3>1. conn' = conn
      BY <1>1, <2>1, <2>3, NoneIsNot DEF Break
    <3> QED
      BY <1>1, <2>1, <3>1, ControlOrder
  <2> QED
    BY <1>1, <2>2, <2>3
<1>34. ASSUME AnswerGetFails PROVE OrderInv'
  <2>1. PICK cs \in {conn, Break(conn, Head(queue))} :
          conn' = CloseWriter(cs, Head(queue))
    BY <1>34 DEF AnswerGetFails
  <2>2. /\ queue # <<>> /\ queue' = Tail(queue)
        /\ UNCHANGED <<in, out, call, session, sent, got>>
    BY <1>34 DEF AnswerGetFails, fds, control, Fault
  <2>3. Head(queue) \in Conns
    BY <1>1, <2>2, HeadTailProperties DEF Descriptors
  <2>4. Descriptors(cs, queue, out, in)
    BY <1>1, <2>1, <2>3, BreakD
  <2>5. Orders(cs, queue, out, in, got, Pending, Last)
    <3>1. CASE cs = conn
      BY <1>1, <3>1
    <3>2. CASE cs = Break(conn, Head(queue))
      <4>1. Thinner(cs, conn)
        BY <1>1, <2>3, <3>2, ThinnerCases
      <4> QED
        BY <1>1, <1>6, <2>4, <4>1
    <3> QED
      BY <2>1, <3>1, <3>2
  <2>6. Thinner(CloseWriter(cs, Head(queue)), cs)
    BY <2>3, <2>4, ThinnerCases DEF Descriptors
  <2>7. Orders(CloseWriter(cs, Head(queue)), Tail(queue), out, in, got,
               Pending, Last)
    BY <2>2, <2>4, <2>5, <2>6, TakeOrder
  <2> QED
    BY <1>5, <2>1, <2>2, <2>7
<1>35. ASSUME AcceptFails PROVE OrderInv'
  <2>1. /\ queue # <<>> /\ queue' = Tail(queue) /\ UNCHANGED <<in, out>>
        /\ conn' = CloseReader(conn, Head(queue))
             \/ conn' = CloseWriter(conn, Head(queue))
    BY <1>35 DEF AcceptFails, fds
  <2>2. Head(queue) \in Conns
    BY <1>1, <2>1, HeadTailProperties DEF Descriptors
  <2>3. Thinner(conn', conn)
    BY <1>1, <2>1, <2>2, ThinnerCases
  <2>4. Orders(conn', queue', out', in', got, Pending, Last)
    BY <1>1, <2>1, <2>3, TakeOrder
  <2>5. \A f \in End : call'[f] = call[f] \/ call'[f].msg.req # "DATA"
    BY <1>1, <1>4, <1>35 DEF AcceptFails, control
  <2>6. CASE UNCHANGED history
    BY <1>5, <2>4, <2>5, <2>6 DEF history
  <2>7. CASE BeginSession("hts")
    <3>1. \A f \in End : /\ got'[f] = got[f] \/ got'[f] = <<>>
                         /\ \/ session'[f] = session[f] /\ sent'[f] = sent[f]
                            \/ session'[f] = session[f] + 1
      BY <1>1, <2>7 DEF BeginSession, Rest
    <3> QED
      BY <1>1, <2>4, <2>5, <3>1, BegunOrder
  <2> QED
    BY <1>35, <2>6, <2>7 DEF AcceptFails
<1> QED
  BY <1>7, <1>8, <1>9, <1>10, <1>11, <1>12, <1>13, <1>14, <1>16, <1>17, <1>19,
     <1>20, <1>21, <1>22, <1>24, <1>25, <1>26, <1>27, <1>28, <1>30, <1>31,
     <1>32, <1>33, <1>34, <1>35, Zenon
     DEF Next, Environment, Fails, Runs, Writes, Reads, Closes

\* There are no chunks at first.
LEMMA OrderInit == Init => OrderInv
<1> SUFFICES ASSUME Init PROVE OrderInv
  OBVIOUS
<1>1. Len(<<>>) = 0 /\ Msg("PAD").req # "DATA"
  BY EmptySeq DEF Msg
<1>2. \A e \in End : Pending[e].req # "DATA" /\ got[e] = <<>>
  BY <1>1 DEF Init, Pending, NoCall
<1>3. \A c \in Conns : conn[c].wire = <<>>
  BY NoConnType DEF Init
<1>4. \A e \in End : Peer(e) \in End
  BY DEF Peer, End
<1>5. \A e \in End : GotOrder(got[e], Pending[Peer(e)], Last[Peer(e)])
  BY <1>1, <1>2, <1>4 DEF GotOrder
<1>6. \A e \in End, c \in Conns :
        WireOrder(conn[c].wire, got[e], Pending[Peer(e)], Last[Peer(e)])
  BY <1>1, <1>3 DEF WireOrder, Increasing
<1>7. \A c, d \in Conns : Earlier(queue, in, c, d) => FALSE
  BY <1>1 DEF Init, Earlier
<1> QED
  BY <1>5, <1>6, <1>7 DEF OrderInv, Orders, ChainOrder

\* Ordered: whatever is lost, refused, reset or timed out, and however the
\* bodies are cut, the chunks that an end receives in a tunnel come in the order
\* in which its peer read them from its device, each at most once, also when
\* some are left of an earlier tunnel.
THEOREM OrderedCorrect == Spec => []Ordered
<1>1. TypeInv /\ TypeInv' /\ OrderInv /\ [Next]_vars => OrderInv'
  BY OrderNext
<1>2. OrderInv => Ordered
  BY DEF OrderInv, Orders, GotOrder, Ordered
<1> QED
  BY <1>1, <1>2, OrderInit, TypeInvCorrect, PTL DEF Spec
=============================================================================
