---------------------------- MODULE MCStreaming ----------------------------
(***************************************************************************)
(* The streaming player on a small instance: a plain stream and one with   *)
(* metadata, buffers of three bytes.                                       *)
(***************************************************************************)
EXTENDS Streaming

Audio(v) == [audio |-> TRUE, val |-> v]
Meta(v) == [audio |-> FALSE, val |-> v]

\* Plain audio that fills both buffers; and with metadata after every byte of
\* audio: a block that is a length byte alone, then one with a text of one byte.
Plain == [meta |-> 0, bytes |-> [i \in 1..6 |-> Audio(1)]]
Mixed ==
    [meta |-> 1, bytes |-> <<Audio(1), Meta(0), Audio(1),
                             Meta(1), Meta(0), Audio(1)>>]

BothStreams == {Plain, Mixed}

=============================================================================
