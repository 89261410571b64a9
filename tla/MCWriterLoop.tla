---------------------------- MODULE MCWriterLoop ----------------------------
(* A task that sends three frames: two fill the buffer, the third needs    *)
(* all of it.                                                              *)
EXTENDS WriterLoop

MCSizes == {1, 2}
MCWork(t) == << 1, 1, 2 >>
=============================================================================
