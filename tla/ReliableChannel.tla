--------------------------- MODULE ReliableChannel --------------------------
(***************************************************************************)
(* What a recovery connection promises to the two applications, whatever   *)
(* happens to its transports: each direction is one sequence of messages,  *)
(* delivered in the order they were accepted, each once, until an end      *)
(* closes.  Session.tla implements it.                                     *)
(***************************************************************************)
EXTENDS Naturals, Sequences

CONSTANTS Endpoint, Peer(_), Message

VARIABLES
  accepted,   \* accepted[e]: messages whose send succeeded at e
  delivered,  \* delivered[e]: messages handed to the application at e
  open        \* open[e]: e has not closed

vars == << accepted, delivered, open >>

Init ==
  /\ accepted = [e \in Endpoint |-> << >>]
  /\ delivered = [e \in Endpoint |-> << >>]
  /\ open = [e \in Endpoint |-> TRUE]

Accept(e) ==
  /\ open[e]
  /\ \E m \in Message : accepted' = [accepted EXCEPT ![e] = Append(@, m)]
  /\ UNCHANGED << delivered, open >>

Deliver(e) ==
  LET n == Len(delivered[e]) + 1
  IN  /\ open[e] /\ n <= Len(accepted[Peer(e)])
      /\ delivered' = [delivered EXCEPT ![e] = Append(@, accepted[Peer(e)][n])]
      /\ UNCHANGED << accepted, open >>

Shut(e) ==
  /\ open[e]
  /\ open' = [open EXCEPT ![e] = FALSE]
  /\ UNCHANGED << accepted, delivered >>

Next == \E e \in Endpoint : Accept(e) \/ Deliver(e) \/ Shut(e)

Spec == Init /\ [][Next]_vars
=============================================================================
