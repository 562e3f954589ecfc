---------------------------- MODULE MCHttpTunnel ----------------------------
(***************************************************************************)
(* Values of the constants of HttpTunnel that a .cfg file cannot write.    *)
(***************************************************************************)
EXTENDS HttpTunnel

TwoUpOneDown == [e \in End |-> IF e = "htc" THEN 2 ELSE 1]
OneEach == [e \in End |-> 1]
TwoEach == [e \in End |-> 2]
=============================================================================
