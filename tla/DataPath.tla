------------------------------ MODULE DataPath ------------------------------
(***************************************************************************)
(* What httptunnel promises (src/httptunnel/README:1): "a bidirectional    *)
(* virtual data path".  What the device of one end sends comes out at the  *)
(* other end, in order and without a gap, and an end that hears that the   *)
(* other has closed has received all that was sent to it, unless the other *)
(* has met an error: it may not have been able to write all that it read   *)
(* from its device.                                                        *)
(***************************************************************************)
EXTENDS Naturals, Sequences

CONSTANT MaxItems   \* how much the device of each end sends, a function of the end

End == {"htc", "hts"}
Peer(e) == IF e = "htc" THEN "hts" ELSE "htc"

VARIABLES
    sent,    \* the number of items each device has sent
    got,     \* the items each device has received
    closed   \* why each end is closing: "no", "device", "peer" or "error"

vars == <<sent, got, closed>>

Init ==
    /\ sent = [e \in End |-> 0]
    /\ got = [e \in End |-> <<>>]
    /\ closed = [e \in End |-> "no"]

Send(e) ==
    /\ closed[e] = "no" /\ sent[e] < MaxItems[e]
    /\ sent' = [sent EXCEPT ![e] = @ + 1]
    /\ UNCHANGED <<got, closed>>

\* An end that is closing may still deliver what it has received.
Deliver(e) ==
    /\ Len(got[e]) < sent[Peer(e)]
    /\ got' = [got EXCEPT ![e] = Append(@, Len(@) + 1)]
    /\ UNCHANGED <<sent, closed>>

DeviceCloses(e) ==
    /\ closed[e] = "no"
    /\ closed' = [closed EXCEPT ![e] = "device"]
    /\ UNCHANGED <<sent, got>>

HearsClose(e) ==
    /\ closed[e] = "no" /\ closed[Peer(e)] # "no"
    /\ Len(got[e]) = sent[Peer(e)] \/ closed[Peer(e)] = "error"
    /\ closed' = [closed EXCEPT ![e] = "peer"]
    /\ UNCHANGED <<sent, got>>

Fails(e) ==
    /\ closed[e] = "no"
    /\ closed' = [closed EXCEPT ![e] = "error"]
    /\ UNCHANGED <<sent, got>>

Next == \E e \in End :
    Send(e) \/ Deliver(e) \/ DeviceCloses(e) \/ HearsClose(e) \/ Fails(e)

Spec == Init /\ [][Next]_vars
=============================================================================
