----------------------------- MODULE MCSession ------------------------------
(* The instances of Session that TLC checks.  Sizes are in bytes of the    *)
(* replay buffer, so they decide which frames wait for room.               *)
EXTENDS Session

Only(e, sizes) == [f \in Endpoint |-> IF f = e THEN sizes ELSE << >>]

\* The second message can never fit in one byte and fails its sender; the third
\* waits for the first to be acknowledged.
MiddleTooLarge == Only("client", << 1, 2, 1 >>)
ThreeFromClient == Only("client", << 1, 1, 1 >>)
TwoFromClient == Only("client", << 1, 1 >>)
OneEach == [e \in Endpoint |-> << 1 >>]

OneByte == [e \in Endpoint |-> 1]
TwoBytes == [e \in Endpoint |-> 2]

Nobody == {}
OnlyClient == {"client"}
=============================================================================
