----------------------------- MODULE MCStreams ------------------------------
(* Instances of Streams for TLC.                                           *)
EXTENDS Streams

DefaultAndOne == {0, 1}
OnlyOne == {1}

\* Which messages may fail to decode: none, any, or the second.
GoodOnly == [n \in 1 .. MaxMessages |-> {"good"}]
GoodAndBad == [n \in 1 .. MaxMessages |-> {"good", "bad"}]
SecondMayFail == [n \in 1 .. MaxMessages |-> IF n = 2 THEN {"good", "bad"} ELSE {"good"}]
=============================================================================
