------------------------------ MODULE MCConnect ------------------------------
(* Connect and Framing with two codecs in every order, and frame limits       *)
(* below and at the size of an ACK.                                          *)
EXTENDS Framing

MCCodecLists == {<< 1 >>, << 2 >>, << 1, 2 >>, << 2, 1 >>}
MCMaxFrames == {0, 9}

\* A message, a FIN, and a message above every limit.
MCMessages ==
  {[stream_id |-> 5, flags |-> 0, size |-> 2], [stream_id |-> 5, flags |-> 1, size |-> 0],
   [stream_id |-> 0, flags |-> 0, size |-> 10]}
=============================================================================
