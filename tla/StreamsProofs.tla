---------------------------- MODULE StreamsProofs ---------------------------
(***************************************************************************)
(* Proofs about Streams, for any set of streams, any number of messages    *)
(* and any size of the queues: a stream is registered and released once at *)
(* most, its messages are delivered in order and before its FIN, and a     *)
(* clean close delivers what was received before it.                       *)
(***************************************************************************)
EXTENDS Streams, SequenceTheorems, TLAPS

-----------------------------------------------------------------------------
(* Types.                                                                  *)

\* Frames of a stream, frames that a transport carries, and frames anywhere.
DataFrame == {f \in Frame : f.type = "data" /\ f.s \in Stream}
Sendable ==
  {f \in Frame : \/ f.type = "eof"
                 \/ f.type \in {"data", "fin"} /\ f.s \in Stream /\ (f.type = "fin" => f.kind = "good")}

Handling == {"unreserve", "fin", "lookup", "reserved", "make", "announce", "queue"}
ReaderSet ==
  [pc : {"read", "drain", "ended", "timeout"} \cup Handling, frame : Frame,
   todo : SUBSET Stream, aborted : BOOLEAN]
DecodeSet ==
  [pc : {"none", "run", "dispatch", "release", "error", "reserve", "remove", "ended"},
   frame : Frame]

Typed ==
  /\ opener \in [Stream -> {"new", "open", "fin", "closed"}]
  /\ sender \in [Stream -> DataFrame \cup {None}]
  /\ sent \in [Stream -> Seq(DataFrame)]
  /\ closing \in BOOLEAN
  /\ wire \in Seq(Sendable)
  /\ reader \in ReaderSet
  /\ contexts \subseteq Stream
  /\ default_stream \in BOOLEAN
  /\ closed_peer_streams \subseteq Stream
  /\ incoming \in [Stream -> Seq(Sendable)]
  /\ inbox \in [Stream -> Seq(Frame)]
  /\ delivered \in [Stream -> Seq(Frame)]
  /\ decode \in [Stream -> DecodeSet]
  /\ closer \in [Stream -> {"idle", "reserve", "remove", "done"}]
  /\ closed \in [Stream -> BOOLEAN]
  /\ conn \in {"open", "closed", "released"}
  /\ registered \in [Stream -> Nat]
  /\ on_new \subseteq Stream
  /\ on_close \in [Stream -> Nat]
  /\ ended \subseteq Stream

\* A frame that the reader handles is of a stream.
Routed ==
  reader.pc \in Handling =>
    /\ reader.frame \in Sendable
    /\ reader.frame.type \in {"data", "fin"} /\ reader.frame.s \in Stream

LEMMA FrameTypes ==
  /\ None \in Frame /\ None.type = "none" /\ Eof \in Sendable /\ Eof.type = "eof" /\ Eof.s = 0
  /\ \A s \in Stream : /\ Fin(s) \in Sendable /\ Fin(s).type = "fin" /\ Fin(s).s = s
                       /\ Fin(s).kind = "good"
  /\ \A s \in Stream, kind \in {"good", "bad"}, n \in Nat :
       /\ Data(s, kind, n) \in DataFrame
       /\ Data(s, kind, n).s = s /\ Data(s, kind, n).n = n /\ Data(s, kind, n).kind = kind
  /\ DataFrame \subseteq Sendable /\ Sendable \subseteq Frame /\ None \notin Sendable
<1>1. None \in Frame /\ None.type = "none" /\ None.s = 0 /\ None.kind = "good" /\ None.n = 0
  BY DEF None, Frame
<1>2. Eof \in Frame /\ Eof.type = "eof" /\ Eof.s = 0
  BY DEF None, Eof, Frame
<1>3. ASSUME NEW s \in Stream
      PROVE  Fin(s) \in Frame /\ Fin(s).type = "fin" /\ Fin(s).s = s /\ Fin(s).kind = "good"
  BY StreamsAssumption DEF Fin, Frame
<1>4. ASSUME NEW s \in Stream, NEW kind \in {"good", "bad"}, NEW n \in Nat
      PROVE  /\ Data(s, kind, n) \in Frame /\ Data(s, kind, n).type = "data"
             /\ Data(s, kind, n).s = s /\ Data(s, kind, n).n = n /\ Data(s, kind, n).kind = kind
  BY StreamsAssumption DEF Data, Frame
<1> QED
  BY <1>1, <1>2, <1>3, <1>4 DEF DataFrame, Sendable

\* What the reader's moves change.
LEMMA GoToIs ==
  ASSUME Typed, NEW pc, GoTo(pc)
  PROVE  /\ reader'.pc = pc /\ reader'.frame = reader.frame /\ reader'.todo = reader.todo
         /\ reader'.aborted = reader.aborted
  BY DEF Typed, ReaderSet, GoTo

LEMMA ReadNextIs ==
  ASSUME Typed, ReadNext
  PROVE  /\ reader'.pc = "read" /\ reader'.frame = None /\ reader'.todo = reader.todo
         /\ reader'.aborted = reader.aborted
  BY DEF Typed, ReaderSet, ReadNext

LEMMA ReaderType ==
  ASSUME Typed, NEW pc \in {"read", "drain", "ended", "timeout"} \cup Handling
  PROVE  (GoTo(pc) => reader' \in ReaderSet) /\ (ReadNext => reader' \in ReaderSet)
<1>1. reader \in ReaderSet /\ None \in Frame
  BY FrameTypes DEF Typed
<1> QED
  BY <1>1 DEF GoTo, ReadNext, ReaderSet, Handling

\* What reading a frame changes.
LEMMA ReadFrameIs ==
  ASSUME Typed, ReadFrame
  PROVE  /\ reader.pc = "read" /\ wire # << >> /\ wire' = Tail(wire) /\ Head(wire) \in Sendable
         /\ reader'.frame = Head(wire) /\ reader'.aborted = reader.aborted
         /\ Head(wire).type = "data" => reader'.pc = "lookup"
         /\ Head(wire).type = "fin" => reader'.pc = "unreserve"
         /\ Head(wire).type = "eof" => reader'.pc = "drain"
         /\ reader'.todo = IF Head(wire) = Eof THEN contexts ELSE {}
         /\ reader' \in ReaderSet
<1> DEFINE x == Head(wire)
           pc == CASE x.type = "data" -> "lookup"
                   [] x.type = "fin" -> "unreserve"
                   [] x.type = "eof" -> "drain"
           todo == IF x = Eof THEN contexts ELSE {}
<1>1. /\ reader.pc = "read" /\ wire # << >> /\ wire' = Tail(wire)
      /\ reader' = [reader EXCEPT !.pc = pc, !.frame = x, !.todo = todo]
  BY DEF ReadFrame
<1>2. x \in Sendable /\ reader \in ReaderSet /\ todo \in SUBSET Stream
  BY <1>1 DEF Typed
<1>3. x \in Frame /\ x.type \in {"data", "fin", "eof"}
  BY <1>2 DEF Sendable
<1>4. /\ x.type = "data" => pc = "lookup"
      /\ x.type = "fin" => pc = "unreserve"
      /\ x.type = "eof" => pc = "drain"
  OBVIOUS
<1>5. pc \in {"lookup", "unreserve", "drain"}
  BY <1>3, <1>4
<1> HIDE DEF x, pc, todo
<1>6. reader'.pc = pc /\ reader'.frame = x /\ reader'.todo = todo /\ reader'.aborted = reader.aborted
  BY <1>1, <1>2 DEF ReaderSet
<1>7. reader' \in ReaderSet
  BY <1>1, <1>2, <1>3, <1>5 DEF ReaderSet, Handling
<1> QED
  BY <1>1, <1>2, <1>4, <1>6, <1>7 DEF x, todo

LEMMA TypedInit == Init => Typed /\ Routed
<1> SUFFICES ASSUME Init PROVE Typed /\ Routed
  OBVIOUS
<1>1. /\ opener \in [Stream -> {"new", "open", "fin", "closed"}]
      /\ closer \in [Stream -> {"idle", "reserve", "remove", "done"}]
      /\ registered \in [Stream -> Nat] /\ on_close \in [Stream -> Nat]
      /\ closed \in [Stream -> BOOLEAN]
  BY DEF Init
<1>2. sender \in [Stream -> DataFrame \cup {None}]
  BY DEF Init
<1>3. /\ sent \in [Stream -> Seq(DataFrame)] /\ incoming \in [Stream -> Seq(Sendable)]
      /\ inbox \in [Stream -> Seq(Frame)] /\ delivered \in [Stream -> Seq(Frame)]
  BY DEF Init
<1>4. reader \in ReaderSet /\ reader.pc = "read"
  BY FrameTypes DEF Init, ReaderSet
<1>5. decode \in [Stream -> DecodeSet]
  BY FrameTypes DEF Init, DecodeSet
<1>6. closing \in BOOLEAN /\ default_stream \in BOOLEAN
  BY DEF Init
<1>7. wire \in Seq(Sendable)
  BY DEF Init
<1>8. /\ contexts \subseteq Stream /\ closed_peer_streams \subseteq Stream
      /\ conn \in {"open", "closed", "released"} /\ on_new \subseteq Stream /\ ended \subseteq Stream
  BY DEF Init
<1> QED
  BY <1>1, <1>2, <1>3, <1>4, <1>5, <1>6, <1>7, <1>8 DEF Typed, Routed, Handling

LEMMA TypedClient ==
  ASSUME Typed, CloseConnection \/ \E s \in Stream : ClientStep(s)
  PROVE  /\ opener' \in [Stream -> {"new", "open", "fin", "closed"}]
         /\ sender' \in [Stream -> DataFrame \cup {None}]
         /\ sent' \in [Stream -> Seq(DataFrame)]
         /\ closing' \in BOOLEAN /\ wire' \in Seq(Sendable)
         /\ UNCHANGED server
<1>0. /\ opener \in [Stream -> {"new", "open", "fin", "closed"}]
      /\ sender \in [Stream -> DataFrame \cup {None}] /\ sent \in [Stream -> Seq(DataFrame)]
      /\ closing \in BOOLEAN /\ wire \in Seq(Sendable) /\ DataFrame \subseteq Sendable
  BY FrameTypes DEF Typed
<1>1. ASSUME NEW s \in Stream, NewStream(s) \/ CloseStream(s)
      PROVE  /\ opener' \in [Stream -> {"new", "open", "fin", "closed"}]
             /\ UNCHANGED << sender, closing, sent, wire, server >>
  BY <1>0, <1>1 DEF NewStream, CloseStream
<1>2. ASSUME NEW s \in Stream, NEW kind \in {"good", "bad"}, SendBegin(s, kind)
      PROVE  /\ sender' \in [Stream -> DataFrame \cup {None}]
             /\ UNCHANGED << opener, closing, sent, wire, server >>
  <2>1. Len(sent[s]) + 1 \in Nat
    BY <1>0
  <2>2. Data(s, kind, Len(sent[s]) + 1) \in DataFrame
    BY <2>1, FrameTypes
  <2> QED
    BY <1>0, <1>2, <2>2 DEF SendBegin
<1>3. ASSUME NEW s \in Stream, SendFrame(s)
      PROVE  /\ opener' \in [Stream -> {"new", "open", "fin", "closed"}]
             /\ sender' \in [Stream -> DataFrame \cup {None}]
             /\ sent' \in [Stream -> Seq(DataFrame)]
             /\ wire' \in Seq(Sendable) /\ UNCHANGED << closing, server >>
  <2>1. sender[s] \in DataFrame
    BY <1>0, <1>3 DEF SendFrame
  <2>2. sender' = [sender EXCEPT ![s] = None] /\ UNCHANGED << opener, closing, server >>
    BY <1>3 DEF SendFrame
  <2>3. \/ UNCHANGED << wire, sent >>
        \/ wire' = Append(wire, sender[s]) /\ sent' = [sent EXCEPT ![s] = Append(@, sender[s])]
    BY <1>3 DEF SendFrame
  <2>4. sender' \in [Stream -> DataFrame \cup {None}]
    BY <1>0, <2>2
  <2>5. Append(wire, sender[s]) \in Seq(Sendable) /\ Append(sent[s], sender[s]) \in Seq(DataFrame)
    BY <1>0, <2>1
  <2>6. wire' \in Seq(Sendable) /\ sent' \in [Stream -> Seq(DataFrame)]
    BY <1>0, <2>3, <2>5
  <2> QED
    BY <1>0, <2>2, <2>4, <2>6
<1>4. ASSUME NEW s \in Stream, SendFin(s)
      PROVE  /\ opener' \in [Stream -> {"new", "open", "fin", "closed"}]
             /\ sender' \in [Stream -> DataFrame \cup {None}]
             /\ sent' \in [Stream -> Seq(DataFrame)]
             /\ wire' \in Seq(Sendable) /\ UNCHANGED << closing, server >>
  <2>1. Fin(s) \in Sendable
    BY FrameTypes
  <2> QED
    BY <1>0, <1>4, <2>1 DEF SendFin
<1>5. CASE CloseConnection
  <2>1. Eof \in Sendable
    BY FrameTypes
  <2> QED
    BY <1>0, <1>5, <2>1 DEF CloseConnection
<1> QED
  BY <1>0, <1>1, <1>2, <1>3, <1>4, <1>5 DEF ClientStep

\* A release, by whoever comes first.
LEMMA RemoveStreamType ==
  ASSUME Typed, NEW s \in Stream, NEW notifies \in BOOLEAN, RemoveStream(s, notifies)
  PROVE  /\ contexts' \subseteq Stream /\ closed' \in [Stream -> BOOLEAN]
         /\ on_close' \in [Stream -> Nat]
<1>1. closed \in [Stream -> BOOLEAN] /\ on_close \in [Stream -> Nat] /\ contexts \subseteq Stream
  BY DEF Typed
<1>2. on_close[s] + 1 \in Nat
  BY <1>1
<1> QED
  BY <1>1, <1>2 DEF RemoveStream

LEMMA TypedApplication ==
  ASSUME Typed,
         \/ MarkClosed \/ CloseAllStreams
         \/ \E s \in Stream : AppClose(s) \/ AppTake(s) \/ AppStep(s)
  PROVE  /\ Typed' /\ reader'.pc = reader.pc /\ reader'.frame = reader.frame
         /\ reader'.todo = reader.todo
         /\ UNCHANGED << client, wire >>
<1> USE DEF client, maps, queues, tasks, state
<1>1. ASSUME NEW s \in Stream, AppClose(s)
      PROVE  /\ Typed' /\ reader'.pc = reader.pc /\ reader'.frame = reader.frame
             /\ reader'.todo = reader.todo
             /\ UNCHANGED << client, wire >>
  <2>1. closer' \in [Stream -> {"idle", "reserve", "remove", "done"}]
    BY <1>1 DEF AppClose, AfterCheck, Typed
  <2> QED
    BY <1>1, <2>1 DEF AppClose, Typed
<1>2. ASSUME NEW s \in Stream, AppTake(s)
      PROVE  /\ Typed' /\ reader'.pc = reader.pc /\ reader'.frame = reader.frame
             /\ reader'.todo = reader.todo
             /\ UNCHANGED << client, wire >>
  <2>1. inbox' \in [Stream -> Seq(Frame)]
    BY <1>2 DEF AppTake, Typed
  <2> QED
    BY <1>2, <2>1 DEF AppTake, Typed
<1>3. ASSUME NEW s \in Stream, AppReserve(s)
      PROVE  /\ Typed' /\ reader'.pc = reader.pc /\ reader'.frame = reader.frame
             /\ reader'.todo = reader.todo
             /\ UNCHANGED << client, wire >>
  <2>1. /\ closed_peer_streams' \subseteq Stream
        /\ closer' \in [Stream -> {"idle", "reserve", "remove", "done"}]
    BY <1>3 DEF AppReserve, Reserve, Typed
  <2> QED
    BY <1>3, <2>1 DEF AppReserve, Typed
<1>4. ASSUME NEW s \in Stream, AppRemove(s)
      PROVE  /\ Typed' /\ reader'.pc = reader.pc /\ reader'.frame = reader.frame
             /\ reader'.todo = reader.todo
             /\ UNCHANGED << client, wire >>
  <2>1. /\ contexts' \subseteq Stream /\ closed' \in [Stream -> BOOLEAN]
        /\ on_close' \in [Stream -> Nat]
    BY <1>4, RemoveStreamType DEF AppRemove
  <2>2. closer' \in [Stream -> {"idle", "reserve", "remove", "done"}]
    BY <1>4 DEF AppRemove, Typed
  <2> QED
    BY <1>4, <2>1, <2>2 DEF AppRemove, Typed
<1>5. CASE MarkClosed
  <2>1. reader \in ReaderSet /\ reader' = [reader EXCEPT !.aborted = TRUE]
    BY <1>5 DEF MarkClosed, Typed
  <2>2. /\ reader' \in ReaderSet /\ reader'.pc = reader.pc /\ reader'.frame = reader.frame
        /\ reader'.todo = reader.todo
    BY <2>1 DEF ReaderSet
  <2> QED
    BY <1>5, <2>2 DEF MarkClosed, Typed
<1>6. CASE CloseAllStreams
  <2>1. closed' \in [Stream -> BOOLEAN] /\ on_close' \in [Stream -> Nat]
    BY <1>6 DEF CloseAllStreams, Typed
  <2> QED
    BY <1>6, <2>1 DEF CloseAllStreams, Typed
<1> QED
  BY <1>1, <1>2, <1>3, <1>4, <1>5, <1>6 DEF AppStep

LEMMA TypedReader ==
  ASSUME Typed, Routed, ReaderStep \/ DrainTimeout
  PROVE  Typed' /\ Routed' /\ UNCHANGED << client, inbox, delivered, closer, on_close, ended >>
<1> USE DEF client, maps, queues, tasks, state
<1>0. reader.pc \in Handling =>
        /\ reader.frame.s \in Stream /\ reader.frame.type \in {"data", "fin"}
        /\ reader.frame \in Sendable
  BY DEF Routed
<1>1. CASE ReadFrame
  <2>1. /\ wire # << >> /\ wire' = Tail(wire) /\ reader' \in ReaderSet
        /\ reader'.frame \in Sendable
        /\ reader'.frame.type = "eof" => reader'.pc = "drain"
    BY <1>1, ReadFrameIs
  <2>2. Routed'
    BY <2>1 DEF Routed, Sendable, Handling
  <2>3. Tail(wire) \in Seq(Sendable)
    BY <2>1 DEF Typed
  <2> QED
    BY <1>1, <2>1, <2>2, <2>3 DEF ReadFrame, readerOnly, Typed
<1>2. CASE ReaderAborted
  <2>0. GoTo("ended")
    BY <1>2 DEF ReaderAborted
  <2>1. reader' \in ReaderSet /\ Routed'
    BY <2>0, ReaderType, GoToIs DEF Routed, Handling
  <2> QED
    BY <1>2, <2>1 DEF ReaderAborted, readerOnly, Typed
<1>3. CASE FinUnreserve
  <2>1. closed_peer_streams' \subseteq Stream
    BY <1>3 DEF FinUnreserve, Typed
  <2> QED
    BY <1>0, <1>3, <2>1, ReaderType, GoToIs DEF FinUnreserve, Typed, Routed, Handling
<1>4. CASE FinLookup
  BY <1>0, <1>4, ReaderType, GoToIs, ReadNextIs DEF FinLookup, readerOnly, Typed, Routed, Handling
<1>5. CASE Lookup
  BY <1>0, <1>5, ReaderType, GoToIs DEF Lookup, readerOnly, Typed, Routed, Handling
<1>6. CASE CheckReserved
  BY <1>0, <1>6, ReaderType, GoToIs, ReadNextIs DEF CheckReserved, readerOnly, Typed, Routed, Handling
<1>7. CASE MakeStream
  <2> DEFINE s == reader.frame.s
  <2>1. s \in Stream
    BY <1>0, <1>7 DEF MakeStream, Handling
  <2>2. CASE MayRegister(s)
    <3>1. /\ contexts' = contexts \cup {s} /\ default_stream' = (default_stream \/ s = 0)
          /\ registered' = [registered EXCEPT ![s] = @ + 1]
          /\ closed' = [closed EXCEPT ![s] = FALSE]
          /\ decode' = [decode EXCEPT ![s].pc = "run"]
          /\ GoTo("announce")
      BY <1>7, <2>2 DEF MakeStream
    <3>2. reader' \in ReaderSet /\ Routed'
      BY <1>0, <1>7, <3>1, ReaderType, GoToIs DEF MakeStream, Routed, Handling
    <3>3. contexts' \subseteq Stream /\ default_stream' \in BOOLEAN
      BY <2>1, <3>1 DEF Typed
    <3>4. registered' \in [Stream -> Nat] /\ closed' \in [Stream -> BOOLEAN]
      BY <2>1, <3>1 DEF Typed
    <3>5. decode' \in [Stream -> DecodeSet]
      BY ZenonT(40), <2>1, <3>1 DEF Typed, DecodeSet
    <3> QED
      BY <1>7, <3>2, <3>3, <3>4, <3>5 DEF MakeStream, Typed
  <2>3. CASE ~MayRegister(s)
    <3>1. GoTo("ended") /\ UNCHANGED << contexts, default_stream, registered, closed, decode >>
      BY <1>7, <2>3 DEF MakeStream
    <3>2. reader' \in ReaderSet /\ Routed'
      BY <3>1, ReaderType, GoToIs DEF Routed, Handling
    <3> QED
      BY <1>7, <3>1, <3>2 DEF MakeStream, Typed
  <2> QED
    BY <2>2, <2>3
<1>8. CASE Announce
  <2>1. reader.frame.s \in Stream
    BY <1>0, <1>8 DEF Announce, Handling
  <2>2. on_new' \subseteq Stream
    BY <1>8, <2>1 DEF Announce, Typed
  <2> QED
    BY <1>0, <1>8, <2>2, ReaderType, GoToIs DEF Announce, Typed, Routed, Handling
<1>9. CASE QueueFrame
  <2> DEFINE s == reader.frame.s
  <2>1. s \in Stream /\ reader.frame \in Sendable
    BY <1>0, <1>9 DEF QueueFrame, Handling
  <2>2. incoming' = [incoming EXCEPT ![s] = Append(@, reader.frame)] /\ ReadNext
    BY <1>9 DEF QueueFrame
  <2>3. Append(incoming[s], reader.frame) \in Seq(Sendable)
    BY <2>1 DEF Typed
  <2>4. incoming' \in [Stream -> Seq(Sendable)]
    BY <2>2, <2>3 DEF Typed
  <2>5. reader' \in ReaderSet /\ Routed'
    BY <2>2, ReaderType, ReadNextIs DEF Routed, Handling
  <2> QED
    BY <1>9, <2>4, <2>5 DEF QueueFrame, Typed
<1>10. CASE QueueFails
  BY <1>10, ReaderType, GoToIs, ReadNextIs DEF QueueFails, readerOnly, Typed, Routed, Handling
<1>11. ASSUME NEW s \in Stream, DrainQueue(s)
       PROVE  Typed' /\ Routed' /\ UNCHANGED << client, inbox, delivered, closer, on_close, ended >>
  <2>1. Fin(s) \in Sendable
    BY FrameTypes
  <2>2. Append(incoming[s], Fin(s)) \in Seq(Sendable)
    BY <2>1 DEF Typed
  <2>3. incoming' = incoming \/ incoming' = [incoming EXCEPT ![s] = Append(@, Fin(s))]
    BY <1>11 DEF DrainQueue
  <2>4. incoming' \in [Stream -> Seq(Sendable)]
    BY <2>2, <2>3 DEF Typed
  <2>5. reader' = [reader EXCEPT !.todo = @ \ {s}] /\ reader.pc = "drain" /\ reader \in ReaderSet
    BY <1>11 DEF DrainQueue, Typed
  <2>6. reader' \in ReaderSet /\ reader'.pc = "drain"
    BY <2>5 DEF ReaderSet
  <2> QED
    BY <1>11, <2>4, <2>6 DEF DrainQueue, Typed, Routed, Handling
<1>12. CASE Drained \/ DrainTimeout
  <2>1. GoTo("ended") \/ GoTo("timeout")
    BY <1>12 DEF Drained, DrainTimeout
  <2>2. reader' \in ReaderSet /\ Routed'
    BY <2>1, ReaderType, GoToIs DEF Routed, Handling
  <2>3. conn' \in {"open", "closed", "released"}
    BY <1>12 DEF Drained, DrainTimeout, Typed
  <2> QED
    BY <1>12, <2>2, <2>3 DEF Drained, DrainTimeout, Typed
<1> QED
  BY <1>1, <1>2, <1>3, <1>4, <1>5, <1>6, <1>7, <1>8, <1>9, <1>10, <1>11, <1>12 DEF ReaderStep

\* What taking a frame changes.
LEMMA DecodeTakeIs ==
  ASSUME Typed, NEW s \in Stream, DecodeTake(s)
  PROVE  LET x == Head(incoming[s])
         IN  /\ incoming[s] # << >> /\ decode[s].pc = "run" /\ x \in Frame
             /\ incoming' = [incoming EXCEPT ![s] = Tail(@)]
             /\ x \in Sendable
             /\ \E pc \in {"release", "error", "dispatch"} :
                  /\ decode' = [decode EXCEPT ![s] = [pc |-> pc, frame |-> x]]
                  /\ pc = "release" <=> x.type = "fin"
                  /\ pc = "error" => x.kind = "bad"
<1> DEFINE x == Head(incoming[s])
           pc == CASE x.type = "fin" -> "release"
                   [] x.kind = "bad" -> "error"
                   [] OTHER -> "dispatch"
<1>1. /\ incoming[s] # << >> /\ decode[s].pc = "run"
      /\ incoming' = [incoming EXCEPT ![s] = Tail(@)]
      /\ decode' = [decode EXCEPT ![s] = [pc |-> pc, frame |-> x]]
  BY DEF DecodeTake
<1>2. x \in Sendable /\ x \in Frame
  <2>1. x \in Sendable
    BY <1>1 DEF Typed
  <2> QED
    BY <2>1 DEF Sendable
<1>3. pc \in {"release", "error", "dispatch"} /\ (pc = "error" => x.kind = "bad")
  OBVIOUS
<1>4. pc = "release" <=> x.type = "fin"
  <2>1. CASE x.type = "fin"
    <3>1. x.kind # "bad"
      BY <1>2, <2>1 DEF Sendable
    <3> QED
      BY <2>1, <3>1
  <2>2. CASE x.type # "fin"
    <3>1. pc = IF x.kind = "bad" THEN "error" ELSE "dispatch"
      BY <2>2
    <3> QED
      BY <2>2, <3>1
  <2> QED
    BY <2>1, <2>2
<1> HIDE DEF pc
<1> QED
  BY <1>1, <1>2, <1>3, <1>4

LEMMA TypedDecode ==
  ASSUME Typed, NEW s \in Stream, DecodeStep(s)
  PROVE  Typed' /\ UNCHANGED << client, wire, reader >>
<1> USE DEF client, maps, queues, tasks, state
<1>0. /\ incoming \in [Stream -> Seq(Sendable)] /\ decode \in [Stream -> DecodeSet] /\ None \in Frame
      /\ << >> \in Seq(Sendable)
  BY FrameTypes DEF Typed
<1>1. ASSUME DecodeEnds(s)
      PROVE  decode' \in [Stream -> DecodeSet] /\ incoming' \in [Stream -> Seq(Sendable)]
  BY <1>0, <1>1 DEF DecodeEnds, DecodeSet
<1>2. ASSUME NEW pc \in {"reserve", "remove"}, decode' = [decode EXCEPT ![s].pc = pc]
      PROVE  decode' \in [Stream -> DecodeSet]
  BY <1>0, <1>2 DEF DecodeSet
<1>3. CASE DecodeTake(s)
  <2> DEFINE x == Head(incoming[s])
  <2>1. /\ incoming[s] # << >> /\ x \in Frame
        /\ incoming' = [incoming EXCEPT ![s] = Tail(@)]
        /\ \E pc \in {"release", "error", "dispatch"} :
             decode' = [decode EXCEPT ![s] = [pc |-> pc, frame |-> x]]
    BY <1>3, DecodeTakeIs
  <2>2. Tail(incoming[s]) \in Seq(Sendable)
    BY <1>0, <2>1
  <2>3. incoming' \in [Stream -> Seq(Sendable)]
    BY <1>0, <2>1, <2>2
  <2> HIDE DEF x
  <2>4. decode' \in [Stream -> DecodeSet]
    BY <1>0, <2>1 DEF DecodeSet
  <2> QED
    BY <1>3, <2>3, <2>4 DEF DecodeTake, decodeOnly, Typed
<1>4. CASE DecodeStop(s)
  BY <1>1, <1>4 DEF DecodeStop, decodeOnly, Typed
<1>5. CASE Dispatch(s)
  <2>1. decode' = [decode EXCEPT ![s] = [pc |-> "run", frame |-> None]]
    BY <1>5 DEF Dispatch
  <2>2. decode' \in [Stream -> DecodeSet] /\ decode[s].frame \in Frame
    BY <1>0, <2>1 DEF DecodeSet
  <2>3. \/ UNCHANGED << inbox, delivered >>
        \/ /\ inbox' = [inbox EXCEPT ![s] = Append(@, decode[s].frame)]
           /\ delivered' = [delivered EXCEPT ![s] = Append(@, decode[s].frame)]
    BY <1>5 DEF Dispatch
  <2>4. /\ Append(inbox[s], decode[s].frame) \in Seq(Frame)
        /\ Append(delivered[s], decode[s].frame) \in Seq(Frame)
    BY <2>2 DEF Typed
  <2>5. inbox' \in [Stream -> Seq(Frame)] /\ delivered' \in [Stream -> Seq(Frame)]
    <3>1. inbox \in [Stream -> Seq(Frame)] /\ delivered \in [Stream -> Seq(Frame)]
      BY DEF Typed
    <3>2. inbox' \in [Stream -> Seq(Frame)]
      BY <2>3, <2>4, <3>1
    <3>3. delivered' \in [Stream -> Seq(Frame)]
      BY <2>3, <2>4, <3>1
    <3> QED
      BY <3>2, <3>3
  <2> QED
    BY <1>5, <2>2, <2>5 DEF Dispatch, Typed
<1>6. CASE DecodeFin(s)
  <2>1. /\ contexts' \subseteq Stream /\ closed' \in [Stream -> BOOLEAN]
        /\ on_close' \in [Stream -> Nat]
    BY <1>6, RemoveStreamType DEF DecodeFin
  <2>2. ended' \subseteq Stream
    BY <1>6 DEF DecodeFin, Typed
  <2> QED
    BY <1>1, <1>6, <2>1, <2>2 DEF DecodeFin, Typed
<1>7. CASE DecodeRemove(s)
  <2>1. /\ contexts' \subseteq Stream /\ closed' \in [Stream -> BOOLEAN]
        /\ on_close' \in [Stream -> Nat]
    BY <1>7, RemoveStreamType DEF DecodeRemove
  <2> QED
    BY <1>1, <1>7, <2>1 DEF DecodeRemove, Typed
<1>8. CASE DecodeError(s)
  <2>1. AfterCheck(s) \in {"reserve", "remove"}
    BY DEF AfterCheck
  <2>2. decode' \in [Stream -> DecodeSet]
    BY <1>2, <1>8, <2>1 DEF DecodeError
  <2> QED
    BY <1>8, <2>2 DEF DecodeError, decodeOnly, Typed
<1>9. CASE DecodeReserve(s)
  <2>1. closed_peer_streams' \subseteq Stream
    BY <1>9 DEF DecodeReserve, Reserve, Typed
  <2>2. decode' \in [Stream -> DecodeSet]
    BY <1>2, <1>9 DEF DecodeReserve
  <2> QED
    BY <1>9, <2>1, <2>2 DEF DecodeReserve, Typed
<1> QED
  BY <1>3, <1>4, <1>5, <1>6, <1>7, <1>8, <1>9 DEF DecodeStep

LEMMA TypedStep == Typed /\ Routed /\ [Next]_vars => Typed' /\ Routed'
<1> SUFFICES ASSUME Typed, Routed, [Next]_vars PROVE Typed' /\ Routed'
  OBVIOUS
<1>1. CASE CloseConnection \/ \E s \in Stream : ClientStep(s)
  BY <1>1, TypedClient DEF server, maps, queues, tasks, state, Typed, Routed
<1>2. CASE \/ MarkClosed \/ CloseAllStreams
           \/ \E s \in Stream : AppClose(s) \/ AppTake(s) \/ AppStep(s)
  BY <1>2, TypedApplication DEF Routed
<1>3. CASE ReaderStep \/ DrainTimeout
  BY <1>3, TypedReader
<1>4. ASSUME NEW s \in Stream, DecodeStep(s)
      PROVE  Typed' /\ Routed'
  BY <1>4, TypedDecode DEF Routed
<1>5. CASE UNCHANGED vars
  BY <1>5 DEF vars, client, server, maps, queues, tasks, state, Typed, Routed
<1> QED
  BY <1>1, <1>2, <1>3, <1>4, <1>5 DEF Next

-----------------------------------------------------------------------------
(* The client, the wire and the frame in the reader's hands.               *)

\* Nothing more is sent on s.
Final(s) == closing \/ (opener[s] = "closed" /\ sender[s] = None)

\* f is the message of its stream that it says it is.
OfSent(f, messages) ==
  f.s \in Stream /\ f.n \in 1 .. Len(messages[f.s]) /\ f = messages[f.s][f.n]

Numbered ==
  \A s \in Stream :
    /\ opener[s] = "fin" => s # 0
    /\ \A k \in 1 .. Len(sent[s]) : sent[s][k].s = s /\ sent[s][k].n = k
    /\ sender[s] # None =>
         /\ sender[s].s = s /\ sender[s].n = Len(sent[s]) + 1
         /\ s = 0 \/ opener[s] \in {"open", "fin"}

\* The messages of a stream are on the wire in order, then its FIN, and the end
\* of the connection after all.
OnWire(i) ==
  \/ wire[i].type = "data" /\ OfSent(wire[i], sent)
  \/ wire[i].type = "fin" /\ wire[i].s # 0 /\ Final(wire[i].s)
  \/ wire[i] = Eof /\ closing /\ i = Len(wire)

InOrder(i, j) ==
  wire[i].s = wire[j].s /\ wire[j].type = "data" => wire[i].type = "data" /\ wire[i].n < wire[j].n

Wires ==
  /\ \A i \in 1 .. Len(wire) : OnWire(i)
  /\ \A i, j \in 1 .. Len(wire) : i < j => InOrder(i, j)

\* What a step of the client does to the wire.
Quiet == UNCHANGED << sent, wire >>
Puts(s) ==
  /\ ~closing /\ sender[s] \in DataFrame /\ sender[s].s = s /\ sender[s].n = Len(sent[s]) + 1
  /\ wire' = Append(wire, sender[s]) /\ sent' = [sent EXCEPT ![s] = Append(@, sender[s])]
Ends(f) ==
  /\ wire' = Append(wire, f) /\ UNCHANGED sent /\ ~closing
  /\ (f = Eof /\ closing') \/ \E s \in Stream \ {0} : f = Fin(s) /\ Final(s)'

LEMMA ClientIs ==
  ASSUME Typed, Numbered, CloseConnection \/ \E s \in Stream : ClientStep(s)
  PROVE  /\ Quiet \/ (\E s \in Stream : ~Final(s) /\ Puts(s)) \/ \E f \in Sendable : Ends(f)
         /\ \A s \in Stream : Final(s) => Final(s)'
         /\ closing => closing'
         /\ UNCHANGED server
<1>0. /\ opener \in [Stream -> {"new", "open", "fin", "closed"}]
      /\ sender \in [Stream -> DataFrame \cup {None}]
  BY DEF Typed
<1>1. CASE CloseConnection
  <2>1. Ends(Eof) /\ Eof \in Sendable
    BY <1>1, FrameTypes DEF CloseConnection, Ends
  <2> QED
    BY <1>1, <2>1 DEF CloseConnection, Final
<1>2. ASSUME NEW s \in Stream, NewStream(s) \/ CloseStream(s) \/ \E kind \in {"good", "bad"} : SendBegin(s, kind)
      PROVE  /\ Quiet /\ \A t \in Stream : Final(t) => Final(t)'
             /\ closing => closing'
             /\ UNCHANGED server
  BY <1>0, <1>2 DEF NewStream, CloseStream, SendBegin, Quiet, Final
<1>3. ASSUME NEW s \in Stream, SendFrame(s)
      PROVE  /\ Quiet \/ (~Final(s) /\ Puts(s))
             /\ \A t \in Stream : Final(t) => Final(t)'
             /\ closing => closing'
             /\ UNCHANGED server
  <2>1. sender[s] \in DataFrame /\ sender[s].s = s /\ sender[s].n = Len(sent[s]) + 1
    BY <1>0, <1>3 DEF SendFrame, Numbered
  <2>2. Quiet \/ (~Final(s) /\ Puts(s))
    BY <1>3, <2>1 DEF SendFrame, Quiet, Puts, Final
  <2> QED
    BY <1>0, <1>3, <2>2 DEF SendFrame, Final
<1>4. ASSUME NEW s \in Stream, SendFin(s)
      PROVE  /\ Quiet \/ \E f \in Sendable : Ends(f)
             /\ \A t \in Stream : Final(t) => Final(t)'
             /\ closing => closing'
             /\ UNCHANGED server
  <2>1. s # 0 /\ Final(s)'
    BY <1>0, <1>4 DEF SendFin, FinMayStart, Numbered, Final
  <2>2. closing => Quiet
    BY <1>4 DEF SendFin, Quiet
  <2>3. ~closing => Ends(Fin(s)) /\ Fin(s) \in Sendable
    BY <1>4, <2>1, FrameTypes DEF SendFin, Ends
  <2> QED
    BY <1>0, <1>4, <2>2, <2>3 DEF SendFin, Final
<1> QED
  BY <1>1, <1>2, <1>3, <1>4 DEF ClientStep

\* What was sent stays sent.
LEMMA SentGrows ==
  ASSUME Typed, Quiet \/ (\E s \in Stream : ~Final(s) /\ Puts(s)) \/ \E f \in Sendable : Ends(f),
         NEW s \in Stream
  PROVE  /\ Len(sent[s]) \in Nat /\ Len(sent'[s]) \in Nat /\ Len(sent[s]) <= Len(sent'[s])
         /\ \A k \in 1 .. Len(sent[s]) : sent'[s][k] = sent[s][k]
         /\ Final(s) => sent'[s] = sent[s]
         /\ closing => sent' = sent
<1>0. sent \in [Stream -> Seq(DataFrame)]
  BY DEF Typed
<1>1. CASE Quiet \/ \E f \in Sendable : Ends(f)
  BY <1>0, <1>1 DEF Quiet, Ends
<1>2. ASSUME NEW t \in Stream, ~Final(t), Puts(t)
      PROVE  /\ Len(sent[s]) \in Nat /\ Len(sent'[s]) \in Nat /\ Len(sent[s]) <= Len(sent'[s])
             /\ \A k \in 1 .. Len(sent[s]) : sent'[s][k] = sent[s][k]
             /\ Final(s) => sent'[s] = sent[s]
             /\ closing => sent' = sent
  <2>1. sent' = [sent EXCEPT ![t] = Append(@, sender[t])] /\ ~closing /\ sender[t] \in DataFrame
    BY <1>2 DEF Puts
  <2>2. CASE t = s
    <3>1. sent'[s] = Append(sent[s], sender[s]) /\ sent[s] \in Seq(DataFrame)
      BY <1>0, <2>1, <2>2
    <3> QED
      BY <1>2, <2>1, <2>2, <3>1
  <2>3. CASE t # s
    BY <1>0, <2>1, <2>3
  <2> QED
    BY <2>2, <2>3
<1> QED
  BY <1>1, <1>2

LEMMA NumberedClient ==
  ASSUME Typed, Numbered, CloseConnection \/ \E s \in Stream : ClientStep(s)
  PROVE  Numbered'
<1>0. /\ opener \in [Stream -> {"new", "open", "fin", "closed"}]
      /\ sender \in [Stream -> DataFrame \cup {None}] /\ sent \in [Stream -> Seq(DataFrame)]
  BY DEF Typed
<1>1. CASE CloseConnection
  BY <1>1 DEF CloseConnection, Numbered
<1>2. ASSUME NEW s \in Stream, NewStream(s) \/ CloseStream(s) \/ SendFin(s)
      PROVE  Numbered'
  BY <1>0, <1>2 DEF NewStream, CloseStream, SendFin, FinMayStart, Numbered
<1>3. ASSUME NEW s \in Stream, NEW kind \in {"good", "bad"}, SendBegin(s, kind)
      PROVE  Numbered'
  <2>1. Len(sent[s]) + 1 \in Nat
    BY <1>0
  <2> DEFINE x == Data(s, kind, Len(sent[s]) + 1)
  <2>2. x.s = s /\ x.n = Len(sent[s]) + 1
    BY <2>1, FrameTypes
  <2>3. sender' = [sender EXCEPT ![s] = x] /\ opener[s] = "open" /\ UNCHANGED << opener, sent >>
    BY <1>3 DEF SendBegin
  <2> HIDE DEF x
  <2> QED
    BY <1>0, <2>2, <2>3 DEF Numbered
<1>4. ASSUME NEW s \in Stream, SendFrame(s)
      PROVE  Numbered'
  <2>1. /\ sender' = [sender EXCEPT ![s] = None] /\ UNCHANGED opener
        /\ sender[s] \in DataFrame /\ sender[s].s = s /\ sender[s].n = Len(sent[s]) + 1
        /\ sent' = sent \/ sent' = [sent EXCEPT ![s] = Append(@, sender[s])]
    BY <1>0, <1>4 DEF SendFrame, Numbered
  <2> SUFFICES ASSUME NEW t \in Stream
               PROVE  /\ opener'[t] = "fin" => t # 0
                      /\ \A k \in 1 .. Len(sent'[t]) : sent'[t][k].s = t /\ sent'[t][k].n = k
                      /\ sender'[t] # None =>
                           /\ sender'[t].s = t /\ sender'[t].n = Len(sent'[t]) + 1
                           /\ t = 0 \/ opener'[t] \in {"open", "fin"}
    BY DEF Numbered
  <2>2. CASE t # s \/ sent' = sent
    BY <1>0, <2>1, <2>2 DEF Numbered
  <2>3. CASE t = s /\ sent' = [sent EXCEPT ![s] = Append(@, sender[s])]
    <3>1. sent[s] \in Seq(DataFrame) /\ sent'[s] = Append(sent[s], sender[s]) /\ sender'[s] = None
      BY <1>0, <2>1, <2>3
    <3>2. \A k \in 1 .. Len(sent[s]) : sent[s][k].s = s /\ sent[s][k].n = k
      BY DEF Numbered
    <3>3. \A k \in 1 .. Len(sent'[s]) : sent'[s][k].s = s /\ sent'[s][k].n = k
      BY <2>1, <3>1, <3>2
    <3> QED
      BY <2>1, <2>3, <3>1, <3>3 DEF Numbered
  <2> QED
    BY <2>1, <2>2, <2>3
<1> QED
  BY <1>1, <1>2, <1>3, <1>4 DEF ClientStep

\* A frame stays on the wire what it is.
LEMMA StaysOnWire ==
  ASSUME Typed, Numbered, CloseConnection \/ (\E s \in Stream : ClientStep(s)),
         NEW i \in 1 .. Len(wire), OnWire(i), wire' = wire \/ ~closing, wire'[i] = wire[i]
  PROVE  OnWire(i)'
<1>0. wire \in Seq(Sendable) /\ wire[i] \in Sendable
  BY DEF Typed
<1>1. CASE wire[i].type = "data" /\ OfSent(wire[i], sent)
  <2>1. wire[i].s \in Stream /\ wire[i].n \in 1 .. Len(sent[wire[i].s])
    BY <1>1 DEF OfSent
  <2>2. /\ Len(sent[wire[i].s]) \in Nat /\ Len(sent'[wire[i].s]) \in Nat
        /\ Len(sent[wire[i].s]) <= Len(sent'[wire[i].s])
        /\ \A k \in 1 .. Len(sent[wire[i].s]) : sent'[wire[i].s][k] = sent[wire[i].s][k]
    BY <2>1, ClientIs, SentGrows
  <2>3. OfSent(wire[i], sent')
    BY <1>1, <2>1, <2>2 DEF OfSent
  <2> QED
    BY <1>1, <2>3 DEF OnWire
<1>2. CASE wire[i].type = "fin" /\ wire[i].s # 0 /\ Final(wire[i].s)
  <2>1. wire[i].s \in Stream
    BY <1>0, <1>2 DEF Sendable
  <2>2. closing' \/ (opener'[wire[i].s] = "closed" /\ sender'[wire[i].s] = None)
    BY <1>2, <2>1, ClientIs DEF Final
  <2> QED
    BY <1>2, <2>2 DEF OnWire, Final
<1>3. CASE wire[i] = Eof /\ closing /\ i = Len(wire)
  BY <1>3, ClientIs DEF OnWire
<1> QED
  BY <1>1, <1>2, <1>3 DEF OnWire

LEMMA WiresClient ==
  ASSUME Typed, Numbered, Wires, CloseConnection \/ \E s \in Stream : ClientStep(s)
  PROVE  Wires'
<1>0. wire \in Seq(Sendable)
  BY DEF Typed
<1>1. Quiet \/ (\E s \in Stream : ~Final(s) /\ Puts(s)) \/ \E f \in Sendable : Ends(f)
  BY ClientIs
<1>2. CASE Quiet
  <2>1. wire' = wire
    BY <1>2 DEF Quiet
  <2>2. \A i \in 1 .. Len(wire) : OnWire(i)'
    BY <2>1, StaysOnWire DEF Wires
  <2> QED
    BY <2>1, <2>2 DEF Wires, InOrder
<1>3. ASSUME NEW f, f \in Sendable, wire' = Append(wire, f), ~closing,
             \A i \in {Len(wire) + 1} : OnWire(i)',
             \A i \in 1 .. Len(wire) : wire[i].s = f.s /\ f.type = "data" =>
               wire[i].type = "data" /\ wire[i].n < f.n
      PROVE  Wires'
  <2>1. /\ Len(wire') = Len(wire) + 1 /\ Len(wire) \in Nat /\ wire'[Len(wire) + 1] = f
        /\ \A i \in 1 .. Len(wire) : wire'[i] = wire[i]
    BY <1>0, <1>3
  <2>2. \A i \in 1 .. Len(wire) : OnWire(i)'
    BY <1>3, <2>1, StaysOnWire DEF Wires
  <2>3. ASSUME NEW i \in 1 .. Len(wire') PROVE OnWire(i)'
    <3>1. CASE i \in 1 .. Len(wire)
      BY <2>2, <3>1
    <3>2. CASE i \in {Len(wire) + 1}
      BY <1>3, <3>2
    <3> QED
      BY <2>1, <3>1, <3>2
  <2>4. ASSUME NEW i \in 1 .. Len(wire'), NEW j \in 1 .. Len(wire'), i < j PROVE InOrder(i, j)'
    <3>1. i \in 1 .. Len(wire)
      BY <2>1, <2>4
    <3>2. CASE j \in 1 .. Len(wire)
      BY <2>1, <2>4, <3>1, <3>2 DEF Wires, InOrder
    <3>3. CASE j = Len(wire) + 1
      BY <1>3, <2>1, <3>1, <3>3 DEF InOrder
    <3> QED
      BY <2>1, <3>2, <3>3
  <2> QED
    BY <2>3, <2>4 DEF Wires
<1>4. ASSUME NEW s \in Stream, ~Final(s), Puts(s)
      PROVE  Wires'
  <2> DEFINE f == sender[s]
  <2>1. /\ f \in DataFrame /\ f.s = s /\ f.n = Len(sent[s]) + 1 /\ ~closing
        /\ wire' = Append(wire, f) /\ sent' = [sent EXCEPT ![s] = Append(@, f)]
    BY <1>4 DEF Puts
  <2> HIDE DEF f
  <2>2. /\ Len(wire') = Len(wire) + 1 /\ wire'[Len(wire')] = f /\ Len(wire) \in Nat
        /\ sent[s] \in Seq(DataFrame) /\ sent'[s] = Append(sent[s], f)
    BY <1>0, <2>1 DEF Typed
  <2>3. ASSUME NEW i \in {Len(wire) + 1} PROVE OnWire(i)'
    <3>1. Len(sent[s]) \in Nat /\ Len(sent'[s]) = Len(sent[s]) + 1 /\ sent'[s][f.n] = f
      BY <2>1, <2>2
    <3>2. OfSent(f, sent')
      BY <2>1, <3>1 DEF OfSent
    <3>3. f.type = "data"
      BY <2>1 DEF DataFrame
    <3> QED
      BY <2>2, <3>2, <3>3 DEF OnWire
  <2>4. ASSUME NEW i \in 1 .. Len(wire), wire[i].s = s
        PROVE  wire[i].type = "data" /\ wire[i].n < f.n
    <3>1. OnWire(i) /\ wire[i].type # "fin" /\ wire[i] # Eof
      BY <1>4, <2>1, <2>4, FrameTypes DEF Wires, OnWire
    <3>2. wire[i].type = "data" /\ OfSent(wire[i], sent)
      BY <2>1, <3>1 DEF OnWire
    <3>3. wire[i].n \in 1 .. Len(sent[s])
      BY <2>4, <3>2 DEF OfSent
    <3> QED
      BY <2>1, <2>2, <3>2, <3>3
  <2>5. f \in Sendable
    BY <2>1, FrameTypes
  <2> QED
    BY <1>3, <2>1, <2>3, <2>4, <2>5
<1>5. ASSUME NEW f \in Sendable, Ends(f)
      PROVE  Wires'
  <2>1. wire' = Append(wire, f) /\ ~closing
    BY <1>5 DEF Ends
  <2>2. Len(wire') = Len(wire) + 1 /\ wire'[Len(wire')] = f
    BY <1>0, <2>1
  <2>3. ASSUME NEW i \in {Len(wire) + 1} PROVE OnWire(i)' /\ f.type # "data"
    <3>1. CASE f = Eof /\ closing'
      BY <2>2, <3>1, FrameTypes DEF OnWire
    <3>2. ASSUME NEW s \in Stream \ {0}, f = Fin(s), Final(s)' PROVE OnWire(i)' /\ f.type # "data"
      BY <2>2, <3>2, FrameTypes DEF OnWire, Final
    <3> QED
      BY <1>5, <3>1, <3>2 DEF Ends
  <2> QED
    BY <1>3, <2>1, <2>3
<1> QED
  BY <1>1, <1>2, <1>4, <1>5

LEMMA WiresRead ==
  ASSUME Typed, Wires, ReadFrame
  PROVE  Wires'
<1>1. wire \in Seq(Sendable) /\ wire # << >> /\ wire' = Tail(wire) /\ UNCHANGED client
  BY DEF Typed, ReadFrame, readerOnly
<1>2. /\ Len(wire') = Len(wire) - 1 /\ Len(wire) \in Nat \ {0}
      /\ \A i \in 1 .. Len(wire') : wire'[i] = wire[i + 1] /\ i + 1 \in 1 .. Len(wire)
  BY <1>1
<1>3. ASSUME NEW i \in 1 .. Len(wire') PROVE OnWire(i)'
  <2>1. OnWire(i + 1)
    BY <1>2 DEF Wires
  <2>2. wire'[i] = wire[i + 1] /\ (i + 1 = Len(wire) => i = Len(wire'))
    BY <1>2
  <2>3. UNCHANGED << opener, sender, closing, sent >>
    BY <1>1 DEF client
  <2> QED
    BY <2>1, <2>2, <2>3 DEF OnWire, Final
<1>4. ASSUME NEW i \in 1 .. Len(wire'), NEW j \in 1 .. Len(wire'), i < j PROVE InOrder(i, j)'
  <2>1. InOrder(i + 1, j + 1)
    BY <1>2, <1>4 DEF Wires
  <2> QED
    BY <1>2, <2>1 DEF InOrder
<1> QED
  BY <1>3, <1>4 DEF Wires

\* The reader has read its last frame.
Over == reader.pc \in {"drain", "ended", "timeout"}

InHand(type, s) == reader.pc \in Handling /\ reader.frame.type = type /\ reader.frame.s = s

\* No message of s comes any more.
NoMore(s) ==
  /\ Final(s) /\ ~InHand("data", s)
  /\ \A i \in 1 .. Len(wire) : ~(wire[i].type = "data" /\ wire[i].s = s)

Sorted ==
  /\ reader.pc \in {"unreserve", "fin"} => reader.frame.type = "fin"
  /\ reader.pc \in {"lookup", "reserved", "make", "announce"} => reader.frame.type = "data"

Hands ==
  /\ Sorted
  /\ \A s \in Stream :
       /\ InHand("data", s) => OfSent(reader.frame, sent)
       /\ InHand("fin", s) => s # 0 /\ NoMore(s)

\* What a step of the reader does, other than reading a frame: it keeps or drops
\* the one it has.
Proceeds ==
  /\ UNCHANGED << wire, client >> /\ reader'.aborted = reader.aborted /\ reader.pc # "timeout"
  /\ reader'.pc \in Handling => reader.pc \in Handling /\ reader'.frame = reader.frame
  /\ Over => Over'
  /\ reader'.pc = "drain" => reader.pc = "drain" /\ reader'.todo \subseteq reader.todo

LEMMA ReaderMoves ==
  ASSUME Typed, Routed, Sorted, ReaderStep \/ DrainTimeout
  PROVE  Sorted' /\ (ReadFrame \/ Proceeds)
<1> USE DEF client, maps, queues, tasks, state
<1>1. CASE ReadFrame
  <2>1. /\ reader'.frame = Head(wire) /\ Head(wire) \in Sendable
        /\ Head(wire).type = "data" => reader'.pc = "lookup"
        /\ Head(wire).type = "fin" => reader'.pc = "unreserve"
        /\ Head(wire).type = "eof" => reader'.pc = "drain"
    BY <1>1, ReadFrameIs
  <2> QED
    BY <1>1, <2>1 DEF Sorted, Sendable
<1>2. CASE ReaderAborted
  <2>1. GoTo("ended") /\ UNCHANGED << wire, client >> /\ reader.pc # "timeout"
    BY <1>2 DEF ReaderAborted, readerOnly
  <2> QED
    BY <2>1, GoToIs DEF Sorted, Proceeds, Over, Handling
<1>3. CASE FinUnreserve
  <2>1. GoTo("fin") /\ UNCHANGED << wire, client >> /\ reader.pc = "unreserve"
    BY <1>3 DEF FinUnreserve
  <2> QED
    BY <2>1, GoToIs DEF Sorted, Proceeds, Over, Handling
<1>4. CASE FinLookup
  <2>1. GoTo("queue") \/ ReadNext
    BY <1>4 DEF FinLookup
  <2>2. UNCHANGED << wire, client >> /\ reader.pc = "fin"
    BY <1>4 DEF FinLookup, readerOnly
  <2> QED
    BY <2>1, <2>2, GoToIs, ReadNextIs DEF Sorted, Proceeds, Over, Handling
<1>5. CASE Lookup
  <2>1. GoTo("queue") \/ GoTo("reserved")
    BY <1>5 DEF Lookup
  <2>2. UNCHANGED << wire, client >> /\ reader.pc = "lookup"
    BY <1>5 DEF Lookup, readerOnly
  <2> QED
    BY <2>1, <2>2, GoToIs DEF Sorted, Proceeds, Over, Handling
<1>6. CASE CheckReserved
  <2>1. GoTo("make") \/ ReadNext
    BY <1>6 DEF CheckReserved
  <2>2. UNCHANGED << wire, client >> /\ reader.pc = "reserved"
    BY <1>6 DEF CheckReserved, readerOnly
  <2> QED
    BY <2>1, <2>2, GoToIs, ReadNextIs DEF Sorted, Proceeds, Over, Handling
<1>7. CASE MakeStream
  <2>1. GoTo("announce") \/ GoTo("ended")
    BY <1>7 DEF MakeStream
  <2>2. UNCHANGED << wire, client >> /\ reader.pc = "make"
    BY <1>7 DEF MakeStream
  <2> QED
    BY <2>1, <2>2, GoToIs DEF Sorted, Proceeds, Over, Handling
<1>8. CASE Announce
  <2>1. GoTo("queue") /\ UNCHANGED << wire, client >> /\ reader.pc = "announce"
    BY <1>8 DEF Announce
  <2> QED
    BY <2>1, GoToIs DEF Sorted, Proceeds, Over, Handling
<1>9. CASE QueueFrame
  <2>1. ReadNext /\ UNCHANGED << wire, client >> /\ reader.pc = "queue"
    BY <1>9 DEF QueueFrame
  <2> QED
    BY <2>1, ReadNextIs DEF Sorted, Proceeds, Over, Handling
<1>10. CASE QueueFails
  <2>1. GoTo("ended") \/ ReadNext
    BY <1>10 DEF QueueFails
  <2>2. UNCHANGED << wire, client >> /\ reader.pc = "queue"
    BY <1>10 DEF QueueFails, readerOnly
  <2> QED
    BY <2>1, <2>2, GoToIs, ReadNextIs DEF Sorted, Proceeds, Over, Handling
<1>11. ASSUME NEW s \in Stream, DrainQueue(s)
       PROVE  Sorted' /\ Proceeds
  <2>1. reader' = [reader EXCEPT !.todo = @ \ {s}] /\ UNCHANGED << wire, client >> /\ reader.pc = "drain"
    BY <1>11 DEF DrainQueue
  <2>2. /\ reader'.pc = "drain" /\ reader'.aborted = reader.aborted
        /\ reader'.todo \subseteq reader.todo
    BY <2>1 DEF Typed, ReaderSet
  <2> QED
    BY <2>1, <2>2 DEF Sorted, Proceeds, Over, Handling
<1>12. CASE Drained \/ DrainTimeout
  <2>1. GoTo("ended") \/ GoTo("timeout")
    BY <1>12 DEF Drained, DrainTimeout
  <2>2. UNCHANGED << wire, client >> /\ reader.pc = "drain"
    BY <1>12 DEF Drained, DrainTimeout
  <2> QED
    BY <2>1, <2>2, GoToIs DEF Sorted, Proceeds, Over, Handling
<1> QED
  BY <1>1, <1>2, <1>3, <1>4, <1>5, <1>6, <1>7, <1>8, <1>9, <1>10, <1>11, <1>12 DEF ReaderStep

\* A step of any other task leaves the reader and the wire alone.
Elsewhere ==
  /\ UNCHANGED << wire, client >> /\ reader'.pc = reader.pc /\ reader'.frame = reader.frame
  /\ reader'.todo = reader.todo /\ (reader.aborted => reader'.aborted)

LEMMA Steps ==
  ASSUME Typed, Routed, Sorted, [Next]_vars
  PROVE  \/ CloseConnection \/ \E s \in Stream : ClientStep(s)
         \/ (ReaderStep \/ DrainTimeout) /\ (ReadFrame \/ Proceeds)
         \/ (MarkClosed \/ CloseAllStreams) /\ Elsewhere
         \/ \E s \in Stream : (AppClose(s) \/ AppTake(s) \/ AppStep(s)) /\ Elsewhere
         \/ \E s \in Stream : DecodeStep(s) /\ Elsewhere
         \/ UNCHANGED vars /\ Elsewhere
<1>1. CASE ReaderStep \/ DrainTimeout
  BY <1>1, ReaderMoves
<1>2. CASE \/ MarkClosed \/ CloseAllStreams
           \/ \E s \in Stream : AppClose(s) \/ AppTake(s) \/ AppStep(s)
  <2>1. reader.aborted => reader'.aborted
    BY <1>2 DEF MarkClosed, CloseAllStreams, AppClose, AppTake, AppStep, AppReserve, AppRemove,
                tasks, Typed, ReaderSet
  <2>2. Elsewhere
    BY <1>2, <2>1, TypedApplication DEF Elsewhere
  <2> QED
    BY <1>2, <2>2
<1>3. ASSUME NEW s \in Stream, DecodeStep(s)
      PROVE  Elsewhere
  BY <1>3, TypedDecode DEF Elsewhere
<1>4. CASE UNCHANGED vars
  BY <1>4 DEF vars, server, tasks, client, Elsewhere
<1> QED
  BY <1>1, <1>2, <1>3, <1>4 DEF Next

\* A stream of which no message comes any more stays so.
LEMMA NoMoreStays ==
  ASSUME Typed, Routed, Numbered, Sorted, [Next]_vars, NEW s \in Stream, NoMore(s)
  PROVE  NoMore(s)'
<1>0. /\ wire \in Seq(Sendable)
      /\ \A i \in 1 .. Len(wire) : ~(wire[i].type = "data" /\ wire[i].s = s)
      /\ Final(s) /\ ~InHand("data", s)
  BY DEF Typed, NoMore
<1>1. CASE CloseConnection \/ \E t \in Stream : ClientStep(t)
  <2>1. /\ Final(s)' /\ UNCHANGED reader
        /\ Quiet \/ (\E t \in Stream : ~Final(t) /\ Puts(t)) \/ \E f \in Sendable : Ends(f)
    BY <1>0, <1>1, ClientIs DEF server, tasks
  <2>2. CASE Quiet
    BY <1>0, <2>1, <2>2 DEF Quiet, NoMore, InHand
  <2>3. ASSUME NEW f, wire' = Append(wire, f), ~(f.type = "data" /\ f.s = s)
        PROVE  NoMore(s)'
    <3>1. \A i \in 1 .. Len(wire') : ~(wire'[i].type = "data" /\ wire'[i].s = s)
      BY <1>0, <2>3
    <3> QED
      BY <1>0, <2>1, <3>1 DEF NoMore, InHand
  <2>4. ASSUME NEW t \in Stream, ~Final(t), Puts(t)
        PROVE  NoMore(s)'
    <3>1. wire' = Append(wire, sender[t]) /\ sender[t].s = t /\ t # s
      BY <1>0, <2>4 DEF Puts
    <3> QED
      BY <2>3, <3>1
  <2>5. ASSUME NEW f \in Sendable, Ends(f)
        PROVE  NoMore(s)'
    <3>1. wire' = Append(wire, f) /\ f.type # "data"
      BY <2>5, FrameTypes DEF Ends
    <3> QED
      BY <2>3, <3>1
  <2> QED
    BY <2>1, <2>2, <2>4, <2>5
<1>2. CASE ReadFrame
  <2>1. /\ wire # << >> /\ wire' = Tail(wire) /\ reader'.frame = Head(wire)
        /\ UNCHANGED client
    BY <1>2, ReadFrameIs DEF ReadFrame, readerOnly
  <2>2. Final(s)'
    BY <1>0, <2>1 DEF client, Final
  <2>3. \A i \in 1 .. Len(wire') : ~(wire'[i].type = "data" /\ wire'[i].s = s)
    BY <1>0, <2>1
  <2>4. ~InHand("data", s)'
    <3>1. Head(wire) = wire[1] /\ 1 \in 1 .. Len(wire)
      BY <1>0, <2>1
    <3> QED
      BY <1>0, <2>1, <3>1 DEF InHand
  <2> QED
    BY <2>2, <2>3, <2>4 DEF NoMore
<1>3. CASE Proceeds \/ Elsewhere
  BY <1>0, <1>3 DEF Proceeds, Elsewhere, client, NoMore, Final, InHand
<1> QED
  BY <1>1, <1>2, <1>3, Steps

\* Nothing more is sent once it has been said so, and the reader stays over.
LEMMA FinalStays ==
  ASSUME Typed, Routed, Numbered, Sorted, [Next]_vars
  PROVE  /\ \A s \in Stream : Final(s) => Final(s)'
         /\ closing => closing'
         /\ Over => Over'
         /\ reader.aborted => reader'.aborted
         /\ reader.pc = "timeout" => reader'.pc = "timeout"
<1>1. CASE CloseConnection \/ \E t \in Stream : ClientStep(t)
  BY <1>1, ClientIs DEF server, tasks, Over
<1>2. CASE ReadFrame
  BY <1>2, ReadFrameIs DEF ReadFrame, readerOnly, client, Final, Over
<1>3. CASE Proceeds \/ Elsewhere
  BY <1>3 DEF Proceeds, Elsewhere, client, Final, Over
<1> QED
  BY <1>1, <1>2, <1>3, Steps

\* The client's part of the invariant, and the frame in hand.
LEMMA HandsStep ==
  ASSUME Typed, Routed, Numbered, Wires, Hands, [Next]_vars
  PROVE  Numbered' /\ Wires' /\ Hands'
<1>0. wire \in Seq(Sendable) /\ Sorted
  BY DEF Typed, Hands
<1>1. CASE CloseConnection \/ \E t \in Stream : ClientStep(t)
  <2>1. UNCHANGED reader
    BY <1>1, ClientIs DEF server, tasks
  <2>2. ASSUME NEW s \in Stream, InHand("data", s)
        PROVE  OfSent(reader.frame, sent')
    <3>1. OfSent(reader.frame, sent)
      BY <2>2 DEF Hands
    <3>2. reader.frame.s \in Stream /\ reader.frame.n \in 1 .. Len(sent[reader.frame.s])
      BY <3>1 DEF OfSent
    <3>3. /\ Len(sent[reader.frame.s]) \in Nat /\ Len(sent'[reader.frame.s]) \in Nat
          /\ Len(sent[reader.frame.s]) <= Len(sent'[reader.frame.s])
          /\ \A k \in 1 .. Len(sent[reader.frame.s]) : sent'[reader.frame.s][k] = sent[reader.frame.s][k]
      BY <1>1, <3>2, ClientIs, SentGrows
    <3> QED
      BY <3>1, <3>2, <3>3 DEF OfSent
  <2>3. Hands'
    BY <1>0, <2>1, <2>2, NoMoreStays DEF Hands, Sorted, InHand
  <2> QED
    BY <1>1, <2>3, NumberedClient, WiresClient
<1>2. CASE ReadFrame
  <2>1. /\ wire # << >> /\ wire' = Tail(wire) /\ reader'.frame = Head(wire) /\ Head(wire) \in Sendable
        /\ UNCHANGED << opener, sender, closing, sent >>
        /\ Head(wire).type = "eof" => reader'.pc = "drain"
    BY <1>2, ReadFrameIs DEF ReadFrame, readerOnly, client
  <2>2. /\ Head(wire) = wire[1] /\ 1 \in 1 .. Len(wire) /\ Len(wire') = Len(wire) - 1
        /\ Len(wire) \in Nat
        /\ \A i \in 1 .. Len(wire') : wire'[i] = wire[i + 1] /\ i + 1 \in 1 .. Len(wire)
    BY <1>0, <2>1
  <2>3. Numbered'
    BY <2>1 DEF Numbered
  <2>4. OnWire(1)
    BY <2>2 DEF Wires
  <2>5. ASSUME NEW s \in Stream, InHand("data", s)'
        PROVE  OfSent(reader'.frame, sent')
    <3>1. wire[1].type = "data"
      BY <2>1, <2>2, <2>5 DEF InHand
    <3> QED
      BY <2>1, <2>2, <2>4, <3>1, FrameTypes DEF OnWire
  <2>6. ASSUME NEW s \in Stream, InHand("fin", s)'
        PROVE  s # 0 /\ NoMore(s)'
    <3>1. wire[1].type = "fin" /\ wire[1].s = s
      BY <2>1, <2>2, <2>6 DEF InHand
    <3>2. s # 0 /\ Final(s)
      BY <2>4, <3>1, FrameTypes DEF OnWire
    <3>3. ASSUME NEW i \in 1 .. Len(wire'), wire'[i].type = "data", wire'[i].s = s
          PROVE  FALSE
      <4>1. wire[i + 1].type = "data" /\ wire[i + 1].s = s /\ i + 1 \in 1 .. Len(wire) /\ 1 < i + 1
        BY <2>2, <3>3
      <4>2. InOrder(1, i + 1)
        BY <2>2, <4>1 DEF Wires
      <4> QED
        BY <3>1, <4>1, <4>2 DEF InOrder
    <3>4. ~InHand("data", s)'
      BY <2>6 DEF InHand
    <3> QED
      BY <2>1, <3>2, <3>3, <3>4 DEF NoMore, Final
  <2>7. Sorted'
    BY <1>0, <1>2, ReaderMoves DEF ReaderStep
  <2> QED
    BY <1>2, <2>3, <2>5, <2>6, <2>7, WiresRead DEF Hands
<1>3. CASE Proceeds \/ Elsewhere
  <2>1. /\ UNCHANGED << opener, sender, closing, sent, wire >>
        /\ reader'.pc \in Handling => reader.pc \in Handling /\ reader'.frame = reader.frame
    BY <1>3 DEF Proceeds, Elsewhere, client
  <2>2. Numbered' /\ Wires'
    BY <2>1 DEF Numbered, Wires, OnWire, InOrder, Final
  <2>3. \A s \in Stream : (InHand("data", s)' => InHand("data", s)) /\ (InHand("fin", s)' => InHand("fin", s))
    BY <2>1 DEF InHand
  <2>4. Sorted'
    <3>1. CASE Elsewhere
      BY <1>0, <3>1 DEF Elsewhere, Sorted
    <3>2. CASE ReaderStep \/ DrainTimeout
      BY <1>0, <3>2, ReaderMoves
    <3>3. CASE CloseConnection \/ \E t \in Stream : ClientStep(t)
      BY <1>0, <3>3, ClientIs DEF server, tasks, Sorted
    <3> QED
      BY <1>0, <3>1, <3>2, <3>3, Steps
  <2>5. \A s \in Stream : InHand("data", s)' => OfSent(reader'.frame, sent')
    BY <2>1, <2>3 DEF Hands, InHand
  <2> QED
    BY <1>0, <2>2, <2>3, <2>4, <2>5, NoMoreStays DEF Hands
<1> QED
  BY <1>0, <1>1, <1>2, <1>3, Steps

-----------------------------------------------------------------------------
(* The map of streams.                                                     *)

\* A stream that was never registered.
Unused(s) ==
  /\ decode[s].pc = "none" /\ closer[s] = "idle" /\ s \notin on_new /\ on_close[s] = 0
  /\ s \notin closed_peer_streams /\ s \notin ended
  /\ delivered[s] = << >> /\ incoming[s] = << >>
  /\ s = 0 => ~default_stream

Entry(s) ==
  /\ registered[s] <= 1 /\ on_close[s] <= 1
  /\ s \in contexts => Decoding(s) /\ registered[s] = 1 /\ on_close[s] = 0 /\ ~closed[s]
  /\ Decoding(s) /\ ~closed[s] => s \in contexts
  /\ registered[s] = 0 => Unused(s)
  /\ decode[s].pc = "none" => registered[s] = 0
  /\ s = 0 /\ registered[s] = 1 => default_stream \/ conn = "released"

Registry == \A s \in Stream : Entry(s)

\* What the reader has found out still holds.
LookedUp ==
  LET s == reader.frame.s IN
  /\ reader.pc \in {"reserved", "make"} =>
       s \notin contexts /\ (s = 0 => registered[s] = 0 \/ conn # "open")
  /\ reader.pc = "make" => registered[s] = 0 \/ conn # "open"
  /\ reader.pc \in {"announce", "queue"} => registered[s] = 1

\* A connection closes when the reader is stopped or has stopped.
Closes ==
  /\ conn # "open" => reader.aborted \/ reader.pc \in {"ended", "timeout"}
  /\ conn = "released" => contexts = {}

\* What keeps frames from opening a stream again once it is released.
Barred(s) == s = 0 \/ s \in closed_peer_streams \/ NoMore(s) \/ Over \/ conn # "open"

Gone ==
  \A s \in Stream :
    /\ registered[s] = 1 /\ s \notin contexts => Barred(s)
    /\ closer[s] = "remove" \/ decode[s].pc = "remove" => Barred(s)

LEMMA RegistryApplication ==
  ASSUME Typed, Registry,
         \/ MarkClosed \/ CloseAllStreams
         \/ \E s \in Stream : AppClose(s) \/ AppTake(s) \/ AppStep(s)
  PROVE  Registry'
<1> USE DEF client, maps, queues, tasks, state
<1>0. /\ decode \in [Stream -> DecodeSet] /\ closer \in [Stream -> {"idle", "reserve", "remove", "done"}]
      /\ closed \in [Stream -> BOOLEAN] /\ registered \in [Stream -> Nat] /\ on_close \in [Stream -> Nat]
      /\ contexts \subseteq Stream
  BY DEF Typed
<1>1. ASSUME NEW s \in Stream, AppClose(s) \/ AppReserve(s)
      PROVE  Registry'
  <2>1. /\ closer' = [closer EXCEPT ![s] = closer'[s]] /\ registered[s] # 0
        /\ closed_peer_streams' \in {closed_peer_streams, closed_peer_streams \cup {s}}
        /\ UNCHANGED << contexts, default_stream, queues, reader, decode, state >>
    BY <1>0, <1>1 DEF AppClose, AppReserve, Reserve, Registry, Entry, Unused
  <2> QED
    BY <1>0, <2>1 DEF Registry, Entry, Unused, Decoding
<1>2. ASSUME NEW s \in Stream, AppTake(s)
      PROVE  Registry'
  BY <1>2 DEF AppTake, Registry, Entry, Unused, Decoding
<1>3. ASSUME NEW s \in Stream, AppRemove(s)
      PROVE  Registry'
  <2>1. /\ closer' = [closer EXCEPT ![s] = "done"] /\ registered[s] # 0
        /\ UNCHANGED << default_stream, closed_peer_streams, queues, decode, conn, registered, on_new, ended >>
    BY <1>0, <1>3 DEF AppRemove, Registry, Entry, Unused
  <2>2. \/ UNCHANGED << contexts, closed, on_close >>
        \/ /\ s \in contexts /\ contexts' = contexts \ {s} /\ closed' = [closed EXCEPT ![s] = TRUE]
           /\ on_close' = [on_close EXCEPT ![s] = @ + 1]
    BY <1>3 DEF AppRemove, RemoveStream
  <2> QED
    BY <1>0, <2>1, <2>2 DEF Registry, Entry, Unused, Decoding
<1>4. CASE MarkClosed
  BY <1>4 DEF MarkClosed, Registry, Entry, Unused, Decoding
<1>5. CASE CloseAllStreams
  <2>1. ASSUME NEW s \in Stream PROVE Entry(s)'
    <3>1. /\ s \notin contexts' /\ conn' = "released" /\ ~default_stream' /\ contexts' = {}
          /\ UNCHANGED << closed_peer_streams, incoming, delivered, decode, closer, registered, on_new, ended >>
      BY <1>5 DEF CloseAllStreams
    <3>2. /\ closed'[s] <=> closed[s] \/ s \in contexts
          /\ on_close'[s] = IF s \in contexts THEN on_close[s] + 1 ELSE on_close[s]
      BY <1>5 DEF CloseAllStreams
    <3>3. Entry(s) /\ on_close[s] \in Nat
      BY <1>0 DEF Registry
    <3>4. on_close'[s] <= 1 /\ (s \notin contexts => on_close'[s] = on_close[s])
      BY <3>2, <3>3 DEF Entry
    <3> QED
      BY <3>1, <3>2, <3>3, <3>4 DEF Entry, Unused, Decoding
  <2> QED
    BY <2>1 DEF Registry
<1> QED
  BY <1>1, <1>2, <1>3, <1>4, <1>5 DEF AppStep

LEMMA RegistryReader ==
  ASSUME Typed, Routed, Registry, LookedUp, ReaderStep \/ DrainTimeout
  PROVE  Registry'
<1> USE DEF client, maps, queues, tasks, state
<1>0. /\ decode \in [Stream -> DecodeSet] /\ registered \in [Stream -> Nat]
      /\ closed \in [Stream -> BOOLEAN] /\ on_close \in [Stream -> Nat]
      /\ incoming \in [Stream -> Seq(Sendable)]
  BY DEF Typed
<1>1. CASE ReadFrame \/ ReaderAborted \/ FinLookup \/ Lookup \/ CheckReserved \/ QueueFails
  <2>1. UNCHANGED << maps, queues, decode, closer, state >>
    BY <1>1 DEF ReadFrame, ReaderAborted, FinLookup, Lookup, CheckReserved, QueueFails, readerOnly
  <2> QED
    BY <2>1 DEF Registry, Entry, Unused, Decoding
<1>2. CASE FinUnreserve
  BY <1>2 DEF FinUnreserve, Registry, Entry, Unused, Decoding
<1>3. CASE MakeStream
  <2>0. PICK s \in Stream : s = reader.frame.s
    BY <1>3 DEF MakeStream, Routed, Handling
  <2>1. registered[s] = 0 \/ conn # "open"
    BY <1>3, <2>0 DEF MakeStream, LookedUp
  <2>2. UNCHANGED << closed_peer_streams, queues, closer, conn, on_new, on_close, ended >>
    BY <1>3 DEF MakeStream
  <2>3. CASE MayRegister(s)
    <3>1. /\ contexts' = contexts \cup {s} /\ default_stream' = (default_stream \/ s = 0)
          /\ registered' = [registered EXCEPT ![s] = @ + 1]
          /\ closed' = [closed EXCEPT ![s] = FALSE]
          /\ decode' = [decode EXCEPT ![s].pc = "run"] /\ registered[s] = 0
      BY <1>3, <2>0, <2>1, <2>3 DEF MakeStream, MayRegister
    <3>2. registered'[s] = 1 /\ decode'[s].pc = "run" /\ ~closed'[s] /\ s \in contexts'
      BY <1>0, <2>1, <3>1 DEF DecodeSet
    <3>3. ASSUME NEW t \in Stream, t # s
          PROVE  /\ registered'[t] = registered[t] /\ decode'[t] = decode[t] /\ closed'[t] = closed[t]
                 /\ t \in contexts' <=> t \in contexts
      BY <1>0, <2>1, <3>1, <3>3
    <3>4. Entry(s)'
      <4>1. on_close[s] = 0 /\ (s = 0 => default_stream')
        BY <3>1 DEF Registry, Entry, Unused
      <4>2. on_close'[s] = 0
        BY <2>2, <4>1
      <4> QED
        BY <3>2, <4>1, <4>2 DEF Entry, Decoding
    <3>5. ASSUME NEW t \in Stream, t # s
          PROVE  Entry(t)'
      BY ZenonT(40), <2>2, <3>1, <3>3, <3>5 DEF Registry, Entry, Unused, Decoding
    <3> QED
      BY <3>4, <3>5 DEF Registry
  <2>4. CASE ~MayRegister(s)
    <3>1. UNCHANGED << contexts, default_stream, registered, closed, decode >>
      BY <1>3, <2>0, <2>4 DEF MakeStream
    <3> QED
      BY <2>2, <3>1 DEF Registry, Entry, Unused, Decoding
  <2> QED
    BY <2>3, <2>4
<1>4. CASE Announce
  <2> DEFINE s == reader.frame.s
  <2>1. registered[s] = 1 /\ on_new' = on_new \cup {s}
    BY <1>4 DEF Announce, LookedUp
  <2> QED
    BY <1>4, <2>1 DEF Announce, Registry, Entry, Unused, Decoding
<1>5. ASSUME NEW s \in Stream, NEW f, Decoding(s), incoming' = [incoming EXCEPT ![s] = Append(@, f)],
             UNCHANGED << maps, inbox, delivered, decode, closer, state >>
      PROVE  Registry'
  <2>1. registered[s] # 0
    BY <1>5 DEF Registry, Entry, Unused, Decoding
  <2> QED
    BY <1>0, <1>5, <2>1 DEF Registry, Entry, Unused, Decoding
<1>6. CASE QueueFrame
  BY <1>5, <1>6 DEF QueueFrame, Routed, Handling
<1>7. ASSUME NEW s \in Stream, DrainQueue(s)
      PROVE  Registry'
  <2>1. CASE Decoding(s)
    BY <1>5, <1>7, <2>1 DEF DrainQueue
  <2>2. CASE ~Decoding(s)
    <3>1. UNCHANGED << maps, queues, decode, closer, state >>
      BY <1>7, <2>2 DEF DrainQueue
    <3> QED
      BY <3>1 DEF Registry, Entry, Unused, Decoding
  <2> QED
    BY <2>1, <2>2
<1>8. CASE Drained \/ DrainTimeout
  BY <1>8 DEF Drained, DrainTimeout, Registry, Entry, Unused, Decoding
<1> QED
  BY <1>1, <1>2, <1>3, <1>4, <1>6, <1>7, <1>8 DEF ReaderStep

LEMMA RegistryDecode ==
  ASSUME Typed, Registry, NEW s \in Stream, DecodeStep(s)
  PROVE  Registry'
<1> USE DEF client, maps, queues, tasks, state
<1>0. /\ decode \in [Stream -> DecodeSet] /\ registered \in [Stream -> Nat]
      /\ closed \in [Stream -> BOOLEAN] /\ on_close \in [Stream -> Nat]
      /\ incoming \in [Stream -> Seq(Sendable)] /\ delivered \in [Stream -> Seq(Frame)]
  BY DEF Typed
<1>1. decode[s].pc # "none" /\ decode[s].pc # "ended"
  BY DEF DecodeStep, DecodeTake, DecodeStop, Dispatch, DecodeFin, DecodeError, DecodeReserve, DecodeRemove
<1>2. Decoding(s) /\ registered[s] = 1
  BY <1>0, <1>1 DEF Registry, Entry, Unused, Decoding
<1>3. ASSUME NEW d, decode' = [decode EXCEPT ![s] = d], d.pc \notin {"none", "ended"},
             UNCHANGED << contexts, default_stream, closer, state >>,
             closed_peer_streams' \subseteq closed_peer_streams \cup {s},
             \A t \in Stream \ {s} : incoming'[t] = incoming[t] /\ delivered'[t] = delivered[t]
      PROVE  Registry'
  <2>1. decode'[s] = d /\ \A t \in Stream \ {s} : decode'[t] = decode[t]
    BY <1>0, <1>3
  <2>2. Entry(s)'
    BY <1>2, <1>3, <2>1 DEF Registry, Entry, Decoding
  <2>3. ASSUME NEW t \in Stream \ {s} PROVE Entry(t)'
    BY <1>3, <2>1 DEF Registry, Entry, Unused, Decoding
  <2> QED
    BY <2>2, <2>3 DEF Registry
<1>4. CASE DecodeTake(s)
  <2>1. /\ incoming' = [incoming EXCEPT ![s] = Tail(@)]
        /\ \E pc \in {"release", "error", "dispatch"} :
             decode' = [decode EXCEPT ![s] = [pc |-> pc, frame |-> Head(incoming[s])]]
    BY <1>4, DecodeTakeIs
  <2>2. PICK pc \in {"release", "error", "dispatch"} :
             decode' = [decode EXCEPT ![s] = [pc |-> pc, frame |-> Head(incoming[s])]]
    BY <2>1
  <2>3. [pc |-> pc, frame |-> Head(incoming[s])].pc \notin {"none", "ended"}
    OBVIOUS
  <2>4. UNCHANGED << maps, delivered, closer, state >>
    BY <1>4 DEF DecodeTake, decodeOnly
  <2>5. \A t \in Stream \ {s} : incoming'[t] = incoming[t] /\ delivered'[t] = delivered[t]
    BY <1>0, <2>1, <2>4
  <2> QED
    BY <1>3, <2>2, <2>3, <2>4, <2>5
<1>5. CASE Dispatch(s)
  <2>1. /\ decode' = [decode EXCEPT ![s] = [pc |-> "run", frame |-> None]]
        /\ UNCHANGED << maps, incoming, closer, state >>
        /\ delivered' = delivered \/ delivered' = [delivered EXCEPT ![s] = Append(@, decode[s].frame)]
    BY <1>5 DEF Dispatch
  <2>2. [pc |-> "run", frame |-> None].pc \notin {"none", "ended"}
    OBVIOUS
  <2>3. \A t \in Stream \ {s} : incoming'[t] = incoming[t] /\ delivered'[t] = delivered[t]
    BY <1>0, <2>1
  <2> QED
    BY <1>3, <2>1, <2>2, <2>3
<1>6. CASE DecodeError(s)
  <2>1. AfterCheck(s) \in {"reserve", "remove"}
    BY DEF AfterCheck
  <2>2. decode' = [decode EXCEPT ![s].pc = AfterCheck(s)] /\ UNCHANGED << maps, queues, closer, state >>
    BY <1>6 DEF DecodeError, decodeOnly
  <2>3. decode' = [decode EXCEPT ![s] = decode'[s]] /\ decode'[s].pc = AfterCheck(s)
    BY <1>0, <2>2 DEF DecodeSet
  <2> QED
    BY <1>3, <2>1, <2>2, <2>3
<1>7. CASE DecodeReserve(s)
  <2>1. /\ decode' = [decode EXCEPT ![s].pc = "remove"]
        /\ UNCHANGED << contexts, default_stream, queues, closer, state >>
        /\ closed_peer_streams' \subseteq closed_peer_streams \cup {s}
    BY <1>7 DEF DecodeReserve, Reserve
  <2>2. decode' = [decode EXCEPT ![s] = decode'[s]] /\ decode'[s].pc = "remove"
    BY <1>0, <2>1 DEF DecodeSet
  <2> QED
    BY <1>3, <2>1, <2>2
<1>8. ASSUME DecodeEnds(s), s \notin contexts', closed'[s], on_close'[s] <= 1,
             UNCHANGED << default_stream, closed_peer_streams, delivered, closer, conn, registered, on_new >>,
             ended' \subseteq ended \cup {s},
             \A t \in Stream \ {s} : /\ t \in contexts' <=> t \in contexts
                                     /\ closed'[t] = closed[t] /\ on_close'[t] = on_close[t]
      PROVE  Registry'
  <2>1. /\ decode'[s].pc = "ended"
        /\ \A t \in Stream \ {s} : decode'[t] = decode[t] /\ incoming'[t] = incoming[t]
    BY <1>0, <1>8 DEF DecodeEnds
  <2>2. Entry(s)'
    BY <1>2, <1>8, <2>1 DEF Registry, Entry, Decoding
  <2>3. ASSUME NEW t \in Stream \ {s} PROVE Entry(t)'
    BY <1>8, <2>1 DEF Registry, Entry, Unused, Decoding
  <2> QED
    BY <2>2, <2>3 DEF Registry
<1>9. CASE DecodeStop(s)
  <2>1. closed[s] /\ s \notin contexts /\ on_close[s] <= 1
    BY <1>9 DEF DecodeStop, Registry, Entry
  <2> QED
    BY <1>8, <1>9, <2>1 DEF DecodeStop, decodeOnly
<1>10. ASSUME NEW notifies \in BOOLEAN, RemoveStream(s, notifies)
       PROVE  /\ s \notin contexts' /\ closed'[s] /\ on_close'[s] <= 1
              /\ \A t \in Stream \ {s} : /\ t \in contexts' <=> t \in contexts
                                         /\ closed'[t] = closed[t] /\ on_close'[t] = on_close[t]
  <2>1. CASE s \in contexts
    <3>1. on_close[s] = 0
      BY <2>1 DEF Registry, Entry
    <3>2. /\ contexts' = contexts \ {s} /\ closed' = [closed EXCEPT ![s] = TRUE]
          /\ on_close' = [on_close EXCEPT ![s] = IF notifies THEN @ + 1 ELSE @]
      BY <1>10, <2>1 DEF RemoveStream
    <3>3. on_close'[s] <= 1
      BY <1>0, <3>1, <3>2
    <3> QED
      BY <1>0, <3>2, <3>3
  <2>2. CASE s \notin contexts
    BY <1>2, <1>10, <2>2 DEF RemoveStream, Registry, Entry
  <2> QED
    BY <2>1, <2>2
<1>11. CASE DecodeFin(s)
  BY <1>8, <1>10, <1>11 DEF DecodeFin
<1>12. CASE DecodeRemove(s)
  BY <1>8, <1>10, <1>12 DEF DecodeRemove
<1> QED
  BY <1>4, <1>5, <1>6, <1>7, <1>9, <1>11, <1>12 DEF DecodeStep

LEMMA RegistryStep ==
  ASSUME Typed, Routed, Sorted, Registry, LookedUp, [Next]_vars
  PROVE  Registry'
<1>1. CASE (CloseConnection \/ \E s \in Stream : ClientStep(s)) \/ UNCHANGED vars
  <2>1. UNCHANGED server
    BY <1>1, TypedClient DEF vars
  <2> QED
    BY <2>1 DEF server, maps, queues, tasks, state, Registry, Entry, Unused, Decoding
<1> QED
  BY <1>1, Steps, RegistryApplication, RegistryReader, RegistryDecode

\* Only make_stream registers streams, and a closed connection stays closed.
LEMMA OnlyMakeRegisters ==
  ASSUME Typed, Routed, Sorted, [Next]_vars
  PROVE  /\ MakeStream \/ (contexts' \subseteq contexts /\ UNCHANGED registered)
         /\ conn # "open" => conn' # "open"
<1> USE DEF client, maps, queues, tasks, state
<1>1. CASE (CloseConnection \/ \E s \in Stream : ClientStep(s)) \/ UNCHANGED vars
  BY <1>1, TypedClient DEF vars, server
<1>2. CASE \/ MarkClosed \/ CloseAllStreams
           \/ \E s \in Stream : AppClose(s) \/ AppTake(s) \/ AppStep(s)
  BY <1>2 DEF MarkClosed, CloseAllStreams, AppClose, AppTake, AppStep, AppReserve, AppRemove, RemoveStream
<1>3. CASE ReaderStep \/ DrainTimeout
  BY <1>3 DEF ReaderStep, DrainTimeout, ReadFrame, ReaderAborted, FinUnreserve, FinLookup, Lookup,
              CheckReserved, MakeStream, Announce, QueueFrame, QueueFails, DrainQueue, Drained, readerOnly
<1>4. ASSUME NEW s \in Stream, DecodeStep(s)
      PROVE  contexts' \subseteq contexts /\ UNCHANGED << registered, conn >>
  BY <1>4 DEF DecodeStep, DecodeTake, DecodeStop, Dispatch, DecodeFin, DecodeError, DecodeReserve,
              DecodeRemove, RemoveStream, decodeOnly
<1> QED
  BY <1>1, <1>2, <1>3, <1>4, Steps

\* A frame of a stream that was released opens it no more.
LEMMA LookedUpStep ==
  ASSUME Typed, Routed, Sorted, Registry, LookedUp, Closes, Gone, [Next]_vars
  PROVE  LookedUp'
<1>0. /\ registered \in [Stream -> Nat]
      /\ \A s \in Stream : registered[s] = 0 \/ registered[s] = 1
  <2>1. \A s \in Stream : registered[s] \in Nat /\ registered[s] <= 1
    BY DEF Typed, Registry, Entry
  <2> QED
    BY <2>1 DEF Typed
<1>1. /\ MakeStream \/ (contexts' \subseteq contexts /\ UNCHANGED registered)
      /\ conn # "open" => conn' # "open"
  BY OnlyMakeRegisters
<1>2. ASSUME ~MakeStream, reader'.pc = reader.pc, reader'.frame = reader.frame
      PROVE  LookedUp'
  BY <1>1, <1>2 DEF LookedUp
<1>3. CASE CloseConnection \/ \E s \in Stream : ClientStep(s)
  BY <1>3, TypedClient DEF server, maps, tasks, state, LookedUp
<1>4. CASE Elsewhere /\ ~MakeStream
  BY <1>2, <1>4 DEF Elsewhere
<1>5. CASE ReaderStep \/ DrainTimeout
  <2>1. CASE ReadFrame
    BY <2>1, ReadFrameIs DEF LookedUp, Sendable
  <2>2. CASE ReaderAborted \/ FinUnreserve \/ Drained \/ DrainTimeout
    BY <2>2, GoToIs DEF ReaderAborted, FinUnreserve, Drained, DrainTimeout, LookedUp
  <2>3. ASSUME Found(reader.frame.s), reader.frame.s \in Stream
        PROVE  registered[reader.frame.s] = 1
    BY <1>0, <2>3 DEF Found, Registry, Entry, Unused
  <2>4. CASE FinLookup
    <3>1. UNCHANGED registered /\ reader.frame.s \in Stream /\ reader.pc = "fin"
      BY <2>4 DEF FinLookup, readerOnly, state, Routed, Handling
    <3>2. CASE Found(reader.frame.s)
      <4>1. GoTo("queue")
        BY <2>4, <3>2 DEF FinLookup
      <4> QED
        BY <2>3, <3>1, <3>2, <4>1, GoToIs DEF LookedUp
    <3>3. CASE ~Found(reader.frame.s)
      <4>1. ReadNext
        BY <2>4, <3>3 DEF FinLookup
      <4> QED
        BY <4>1, ReadNextIs DEF LookedUp
    <3> QED
      BY <3>2, <3>3
  <2>5. CASE Lookup
    <3>1. UNCHANGED << registered, contexts, conn >> /\ reader.frame.s \in Stream
      BY <2>5 DEF Lookup, readerOnly, state, maps, Routed, Handling
    <3>2. CASE Found(reader.frame.s)
      <4>1. GoTo("queue")
        BY <2>5, <3>2 DEF Lookup
      <4> QED
        BY <2>3, <3>1, <3>2, <4>1, GoToIs DEF LookedUp
    <3>3. CASE ~Found(reader.frame.s)
      <4>1. GoTo("reserved") /\ reader.frame.s \notin contexts
        BY <2>5, <3>3 DEF Lookup, Found
      <4>2. reader.frame.s = 0 => registered[reader.frame.s] = 0 \/ conn # "open"
        BY <1>0, <3>1, <3>3 DEF Found, Registry, Entry
      <4> QED
        BY <3>1, <4>1, <4>2, GoToIs DEF LookedUp
    <3> QED
      BY <3>2, <3>3
  <2>6. CASE CheckReserved
    <3>1. /\ UNCHANGED << registered, contexts, conn >> /\ reader.frame.s \in Stream
          /\ reader.pc = "reserved" /\ reader.frame.type = "data"
      BY <2>6 DEF CheckReserved, readerOnly, state, maps, Routed, Handling, Sorted
    <3>2. CASE reader.frame.s \in closed_peer_streams
      <4>1. ReadNext
        BY <2>6, <3>2 DEF CheckReserved
      <4> QED
        BY <4>1, ReadNextIs DEF LookedUp
    <3>3. CASE reader.frame.s \notin closed_peer_streams
      <4>1. GoTo("make")
        BY <2>6, <3>3 DEF CheckReserved
      <4>2. /\ reader.frame.s \notin contexts
            /\ reader.frame.s = 0 => registered[reader.frame.s] = 0 \/ conn # "open"
        BY <3>1 DEF LookedUp
      <4>3. ~NoMore(reader.frame.s) /\ ~Over
        BY <3>1 DEF NoMore, InHand, Handling, Over
      <4>4. registered[reader.frame.s] = 1 => Barred(reader.frame.s)
        BY <3>1, <4>2 DEF Gone
      <4>5. registered[reader.frame.s] = 0 \/ conn # "open"
        BY <1>0, <3>1, <3>3, <4>2, <4>3, <4>4 DEF Barred
      <4> QED
        BY <3>1, <4>1, <4>2, <4>5, GoToIs DEF LookedUp
    <3> QED
      BY <3>2, <3>3
  <2>7. CASE MakeStream
    <3>1. reader.frame.s \in Stream /\ reader.pc = "make"
      BY <2>7 DEF MakeStream, Routed, Handling
    <3>2. CASE MayRegister(reader.frame.s)
      <4>1. GoTo("announce") /\ registered' = [registered EXCEPT ![reader.frame.s] = @ + 1]
        BY <2>7, <3>2 DEF MakeStream
      <4>2. registered[reader.frame.s] = 0
        BY <3>1, <3>2 DEF LookedUp, MayRegister
      <4>3. registered'[reader.frame.s] = 1
        BY <1>0, <3>1, <4>1, <4>2
      <4> QED
        BY <4>1, <4>3, GoToIs DEF LookedUp
    <3>3. CASE ~MayRegister(reader.frame.s)
      <4>1. GoTo("ended")
        BY <2>7, <3>3 DEF MakeStream
      <4> QED
        BY <4>1, GoToIs DEF LookedUp
    <3> QED
      BY <3>2, <3>3
  <2>8. CASE Announce
    <3>1. GoTo("queue") /\ reader.pc = "announce" /\ UNCHANGED registered
      BY <2>8 DEF Announce
    <3> QED
      BY <3>1, GoToIs DEF LookedUp
  <2>9. CASE QueueFrame \/ QueueFails
    <3>1. GoTo("ended") \/ ReadNext
      BY <2>9 DEF QueueFrame, QueueFails
    <3> QED
      BY <3>1, GoToIs, ReadNextIs DEF LookedUp
  <2>10. ASSUME NEW s \in Stream, DrainQueue(s) PROVE LookedUp'
    <3>1. reader'.pc = "drain"
      BY <2>10 DEF DrainQueue, Typed, ReaderSet
    <3> QED
      BY <3>1 DEF LookedUp
  <2> QED
    BY <1>5, <2>1, <2>2, <2>4, <2>5, <2>6, <2>7, <2>8, <2>9, <2>10 DEF ReaderStep
<1> QED
  BY <1>3, <1>4, <1>5, Steps DEF ReaderStep

LEMMA ClosesStep ==
  ASSUME Typed, Routed, Numbered, Sorted, Registry, LookedUp, Closes, [Next]_vars
  PROVE  Closes'
<1> USE DEF client, maps, queues, tasks, state
<1>1. CASE (CloseConnection \/ \E s \in Stream : ClientStep(s)) \/ UNCHANGED vars
  <2>1. UNCHANGED server
    BY <1>1, TypedClient DEF vars
  <2> QED
    BY <2>1 DEF server, Closes
<1>2. CASE Elsewhere
  <2>1. reader.aborted => reader'.aborted
    BY <1>2 DEF Elsewhere
  <2>2. CASE MarkClosed
    <3>1. reader'.aborted /\ conn' = "closed"
      BY <2>2 DEF MarkClosed, Typed, ReaderSet
    <3> QED
      BY <3>1 DEF Closes
  <2>3. CASE CloseAllStreams
    BY <1>2, <2>3 DEF CloseAllStreams, Elsewhere, Closes
  <2>4. CASE UNCHANGED conn /\ contexts' \subseteq contexts
    BY <1>2, <2>4 DEF Elsewhere, Closes
  <2>5. ASSUME NEW s \in Stream, AppClose(s) \/ AppTake(s) \/ AppStep(s)
        PROVE  UNCHANGED conn /\ contexts' \subseteq contexts
    BY <2>5 DEF AppClose, AppTake, AppStep, AppReserve, AppRemove, RemoveStream
  <2>6. ASSUME NEW s \in Stream, DecodeStep(s)
        PROVE  UNCHANGED conn /\ contexts' \subseteq contexts
    BY <2>6 DEF DecodeStep, DecodeTake, DecodeStop, Dispatch, DecodeFin, DecodeError, DecodeReserve,
                DecodeRemove, RemoveStream, decodeOnly
  <2>7. ASSUME ReaderStep \/ DrainTimeout
        PROVE  \/ (UNCHANGED conn /\ contexts' \subseteq contexts) \/ MakeStream
               \/ Drained \/ DrainTimeout
    BY <2>7 DEF ReaderStep, ReadFrame, ReaderAborted, FinUnreserve, FinLookup, Lookup,
                CheckReserved, Announce, QueueFrame, QueueFails, DrainQueue, readerOnly
  <2>8. ~MakeStream
    BY <1>2, GoToIs DEF MakeStream, Elsewhere
  <2>9. ~Drained /\ ~DrainTimeout
    BY <1>2, GoToIs DEF Drained, DrainTimeout, Elsewhere
  <2> QED
    BY <1>1, <2>2, <2>3, <2>4, <2>5, <2>6, <2>7, <2>8, <2>9 DEF Next
<1>3. CASE ReaderStep \/ DrainTimeout
  <2>1. CASE Drained \/ DrainTimeout
    <3>1. GoTo("ended") \/ GoTo("timeout")
      BY <2>1 DEF Drained, DrainTimeout
    <3>2. (conn' = "released" => conn = "released") /\ UNCHANGED contexts
      BY <2>1 DEF Drained, DrainTimeout
    <3> QED
      BY <3>1, <3>2, GoToIs DEF Closes
  <2>2. CASE MakeStream
    <3>1. UNCHANGED conn /\ (conn # "open" => UNCHANGED contexts)
      BY <2>2 DEF MakeStream, MayRegister
    <3>2. reader'.aborted = reader.aborted /\ reader.pc = "make"
      BY <2>2, GoToIs DEF MakeStream
    <3> QED
      BY <3>1, <3>2 DEF Closes
  <2>3. CASE ReadFrame
    <3>1. UNCHANGED << conn, contexts >> /\ reader'.aborted = reader.aborted /\ reader.pc = "read"
      BY <2>3, ReadFrameIs DEF ReadFrame, readerOnly
    <3> QED
      BY <3>1 DEF Closes
  <2>4. CASE Proceeds /\ ~(Drained \/ DrainTimeout) /\ ~MakeStream /\ ~ReadFrame
    <3>1. UNCHANGED << conn, contexts >>
      BY <1>3, <2>4 DEF ReaderStep, ReadFrame, ReaderAborted, FinUnreserve, FinLookup, Lookup,
                  CheckReserved, Announce, QueueFrame, QueueFails, DrainQueue, readerOnly
    <3>2. reader.pc # "ended"
      BY <1>3, <2>4 DEF ReaderStep, ReaderAborted, FinUnreserve, FinLookup, Lookup,
                  CheckReserved, Announce, QueueFrame, QueueFails, DrainQueue
    <3> QED
      BY <2>4, <3>1, <3>2 DEF Closes, Proceeds
  <2> QED
    BY <1>3, <2>1, <2>2, <2>3, <2>4, ReaderMoves
<1> QED
  BY <1>1, <1>2, <1>3, Steps

\* An ID that was reserved stays so until the FIN, after which nothing comes.
LEMMA BarredStays ==
  ASSUME Typed, Routed, Numbered, Hands, [Next]_vars, NEW s \in Stream, Barred(s)
  PROVE  Barred(s)'
<1> USE DEF client, maps, queues, tasks, state
<1>0. Sorted
  BY DEF Hands
<1>1. CASE s \in closed_peer_streams
  <2>1. CASE FinUnreserve
    <3>1. CASE reader.frame.s = s
      <4>1. InHand("fin", s)
        BY <1>0, <2>1, <3>1 DEF FinUnreserve, Sorted, InHand, Handling
      <4> QED
        BY <1>0, <4>1, NoMoreStays DEF Hands, Barred
    <3>2. CASE reader.frame.s # s
      BY <1>1, <2>1, <3>2 DEF FinUnreserve, Barred
    <3> QED
      BY <3>1, <3>2
  <2>2. ASSUME NEW t \in Stream, ClientStep(t) PROVE UNCHANGED closed_peer_streams
    BY <2>2, TypedClient DEF server
  <2>3. ASSUME NEW t \in Stream, AppClose(t) \/ AppTake(t) \/ AppStep(t) \/ DecodeStep(t)
        PROVE  closed_peer_streams \subseteq closed_peer_streams'
    BY <2>3 DEF AppClose, AppTake, AppStep, AppReserve, AppRemove, Reserve, DecodeStep, DecodeTake,
                DecodeStop, Dispatch, DecodeFin, DecodeError, DecodeReserve, DecodeRemove, decodeOnly
  <2>4. CASE \/ CloseConnection \/ MarkClosed \/ CloseAllStreams \/ UNCHANGED vars
             \/ DrainTimeout \/ (ReaderStep /\ ~FinUnreserve)
    <3>1. UNCHANGED closed_peer_streams
      BY <2>4 DEF CloseConnection, MarkClosed, CloseAllStreams, DrainTimeout, vars, server,
                  ReaderStep, ReadFrame, ReaderAborted, FinLookup, Lookup,
                  CheckReserved, MakeStream, Announce, QueueFrame, QueueFails, DrainQueue, Drained, readerOnly
    <3> QED
      BY <1>1, <3>1 DEF Barred
  <2> QED
    BY <1>1, <2>1, <2>2, <2>3, <2>4 DEF Next, Barred
<1>2. CASE s = 0 \/ Over \/ conn # "open"
  BY <1>0, <1>2, FinalStays, OnlyMakeRegisters DEF Barred
<1>3. CASE NoMore(s)
  BY <1>0, <1>3, NoMoreStays DEF Barred
<1> QED
  BY <1>1, <1>2, <1>3 DEF Barred

\* A stream that its FIN is about to release: nothing of it comes any more.
FinIsLast == \A s \in Stream : s \in contexts /\ decode[s].pc = "release" => NoMore(s) \/ Over

LEMMA GoneStep ==
  ASSUME Typed, Routed, Numbered, Hands, Registry, LookedUp, Closes, Gone, FinIsLast, [Next]_vars
  PROVE  Gone'
<1> USE DEF client, maps, queues, tasks, state
<1>0. /\ Sorted /\ decode \in [Stream -> DecodeSet]
      /\ closer \in [Stream -> {"idle", "reserve", "remove", "done"}]
      /\ registered \in [Stream -> Nat]
  BY DEF Hands, Typed
<1>1. \A s \in Stream : Barred(s) => Barred(s)'
  BY BarredStays
<1>2. \A s \in Stream : registered[s] # 0 => registered[s] = 1
  <2>1. \A s \in Stream : registered[s] \in Nat /\ registered[s] <= 1
    BY <1>0 DEF Registry, Entry
  <2> QED
    BY <2>1
<1>3. ASSUME NEW s \in Stream, registered[s] # 0, s \notin contexts \/ s = 0
      PROVE  Barred(s)
  BY <1>2, <1>3 DEF Gone, Barred
<1>4. CASE MakeStream
  <2>0. PICK s \in Stream : s = reader.frame.s
    BY <1>4 DEF MakeStream, Routed, Handling
  <2>1. CASE MayRegister(s)
    <3>1. /\ contexts' = contexts \cup {s} /\ registered' = [registered EXCEPT ![s] = @ + 1]
          /\ decode' = [decode EXCEPT ![s].pc = "run"] /\ UNCHANGED closer
          /\ registered[s] = 0 \/ conn # "open"
      BY <1>4, <2>0, <2>1 DEF MakeStream, LookedUp
    <3>2. Unused(s)
      BY <2>1, <3>1 DEF MayRegister, Registry, Entry
    <3>3. decode'[s].pc = "run" /\ closer'[s] = "idle" /\ s \in contexts'
      BY <1>0, <3>1, <3>2 DEF DecodeSet, Unused
    <3>4. ASSUME NEW t \in Stream, t # s
          PROVE  /\ registered'[t] = registered[t] /\ decode'[t] = decode[t] /\ closer'[t] = closer[t]
                 /\ t \in contexts' <=> t \in contexts
      BY <1>0, <3>1, <3>4
    <3> QED
      BY <1>1, <3>3, <3>4 DEF Gone
  <2>2. CASE ~MayRegister(s)
    BY <1>1, <1>4, <2>0, <2>2 DEF MakeStream, Gone
  <2> QED
    BY <2>1, <2>2
<1>5. CASE (ReaderStep /\ ~MakeStream) \/ DrainTimeout
  <2>1. UNCHANGED << registered, contexts, closer, decode >>
    BY <1>5 DEF DrainTimeout,
                ReaderStep, ReadFrame, ReaderAborted, FinUnreserve, FinLookup, Lookup,
                CheckReserved, Announce, QueueFrame, QueueFails, DrainQueue, Drained, readerOnly
  <2> QED
    BY <1>1, <2>1 DEF Gone
<1>6. CASE (CloseConnection \/ \E s \in Stream : ClientStep(s)) \/ UNCHANGED vars
  <2>1. UNCHANGED << registered, contexts, closer, decode >>
    BY <1>6, TypedClient DEF server, vars
  <2> QED
    BY <1>1, <2>1 DEF Gone
<1>7. CASE MarkClosed
  BY <1>1, <1>7 DEF MarkClosed, Gone
<1>8. CASE CloseAllStreams
  <2>1. conn' # "open" /\ UNCHANGED << registered, closer, decode >>
    BY <1>8 DEF CloseAllStreams
  <2> QED
    BY <2>1 DEF Gone, Barred
<1>9. ASSUME NEW s \in Stream, AppTake(s) PROVE Gone'
  BY <1>1, <1>9 DEF AppTake, Gone
<1>10. ASSUME NEW s \in Stream, AppClose(s) PROVE Gone'
  <2>1. /\ closer' = [closer EXCEPT ![s] = AfterCheck(s)] /\ UNCHANGED << registered, contexts, decode >>
        /\ registered[s] # 0
    BY <1>10 DEF AppClose, Registry, Entry, Unused
  <2>2. AfterCheck(s) = "remove" => Barred(s)
    BY <1>3, <2>1 DEF AfterCheck
  <2> QED
    BY <1>0, <1>1, <2>1, <2>2 DEF Gone
<1>11. ASSUME NEW s \in Stream, AppReserve(s) PROVE Gone'
  <2>1. /\ closer' = [closer EXCEPT ![s] = "remove"] /\ UNCHANGED << registered, contexts, decode >>
        /\ s \in closed_peer_streams'
    BY <1>11 DEF AppReserve, Reserve
  <2>2. Barred(s)'
    BY <2>1 DEF Barred
  <2> QED
    BY <1>0, <1>1, <2>1, <2>2 DEF Gone
<1>12. ASSUME NEW s \in Stream, AppRemove(s) PROVE Gone'
  <2>1. /\ closer' = [closer EXCEPT ![s] = "done"] /\ UNCHANGED << registered, decode >>
        /\ contexts' = contexts \/ contexts' = contexts \ {s}
        /\ closer[s] = "remove"
    BY <1>12 DEF AppRemove, RemoveStream
  <2>2. Barred(s)'
    BY <1>1, <2>1 DEF Gone
  <2> QED
    BY <1>0, <1>1, <2>1, <2>2 DEF Gone
<1>13. ASSUME NEW s \in Stream, DecodeStep(s) PROVE Gone'
  <2>1. UNCHANGED << registered, closer >> /\ decode[s].pc \notin {"none", "ended"}
    BY <1>13 DEF DecodeStep, DecodeTake, DecodeStop, Dispatch, DecodeFin, DecodeError, DecodeReserve,
                 DecodeRemove, decodeOnly
  <2>2. registered[s] # 0
    BY <2>1 DEF Registry, Entry, Unused
  <2>3. ASSUME \A t \in Stream \ {s} : decode'[t] = decode[t] /\ (t \in contexts' <=> t \in contexts),
               decode'[s].pc = "remove" \/ s \notin contexts' => Barred(s)'
        PROVE  Gone'
    BY <1>1, <2>1, <2>3 DEF Gone
  <2>4. ASSUME NEW d, decode' = [decode EXCEPT ![s] = d], UNCHANGED contexts, d.pc = "remove" => Barred(s)'
        PROVE  Gone'
    <3>1. decode'[s] = d /\ \A t \in Stream \ {s} : decode'[t] = decode[t]
      BY <1>0, <2>4
    <3>2. s \notin contexts' => Barred(s)'
      BY <1>1, <1>3, <2>2, <2>4
    <3> QED
      BY <2>3, <2>4, <3>1, <3>2
  <2>5. CASE DecodeTake(s)
    <3>1. PICK pc \in {"release", "error", "dispatch"} :
             decode' = [decode EXCEPT ![s] = [pc |-> pc, frame |-> Head(incoming[s])]]
      BY <2>5, DecodeTakeIs
    <3>2. UNCHANGED contexts
      BY <2>5 DEF DecodeTake, decodeOnly
    <3> QED
      BY <2>4, <3>1, <3>2
  <2>6. CASE Dispatch(s)
    <3>1. decode' = [decode EXCEPT ![s] = [pc |-> "run", frame |-> None]] /\ UNCHANGED contexts
      BY <2>6 DEF Dispatch
    <3> QED
      BY <2>4, <3>1
  <2>7. CASE DecodeError(s)
    <3>1. /\ decode' = [decode EXCEPT ![s].pc = AfterCheck(s)] /\ UNCHANGED contexts
          /\ AfterCheck(s) = "remove" => Barred(s)
      BY <1>3, <2>2, <2>7 DEF DecodeError, decodeOnly, AfterCheck
    <3>2. decode' = [decode EXCEPT ![s] = decode'[s]] /\ decode'[s].pc = AfterCheck(s)
      BY <1>0, <3>1 DEF DecodeSet
    <3> QED
      BY <1>1, <2>4, <3>1, <3>2
  <2>8. CASE DecodeReserve(s)
    <3>1. decode' = [decode EXCEPT ![s].pc = "remove"] /\ UNCHANGED contexts /\ s \in closed_peer_streams'
      BY <2>8 DEF DecodeReserve, Reserve
    <3>2. decode' = [decode EXCEPT ![s] = decode'[s]] /\ Barred(s)'
      BY <1>0, <3>1 DEF DecodeSet, Barred
    <3> QED
      BY <2>4, <3>1, <3>2
  <2>9. CASE DecodeStop(s)
    <3>1. DecodeEnds(s) /\ UNCHANGED contexts
      BY <2>9 DEF DecodeStop, decodeOnly
    <3> QED
      BY <2>4, <3>1 DEF DecodeEnds
  <2>10. ASSUME DecodeEnds(s), contexts' = contexts \/ contexts' = contexts \ {s}, Barred(s)
         PROVE  Gone'
    <3>1. \A t \in Stream \ {s} : decode'[t] = decode[t]
      BY <1>0, <2>10 DEF DecodeEnds
    <3> QED
      BY <1>1, <2>3, <2>10, <3>1
  <2>11. CASE DecodeRemove(s)
    <3>1. DecodeEnds(s) /\ (contexts' = contexts \/ contexts' = contexts \ {s}) /\ Barred(s)
      BY <2>11 DEF DecodeRemove, RemoveStream, Gone
    <3> QED
      BY <2>10, <3>1
  <2>12. CASE DecodeFin(s)
    <3>1. DecodeEnds(s) /\ (contexts' = contexts \/ contexts' = contexts \ {s}) /\ decode[s].pc = "release"
      BY <2>12 DEF DecodeFin, RemoveStream
    <3>2. Barred(s)
      BY <1>3, <2>2, <3>1 DEF FinIsLast, Barred
    <3> QED
      BY <2>10, <3>1, <3>2
  <2> QED
    BY <1>13, <2>5, <2>6, <2>7, <2>8, <2>9, <2>11, <2>12 DEF DecodeStep
<1> QED
  BY <1>4, <1>5, <1>6, <1>7, <1>8, <1>9, <1>10, <1>11, <1>12, <1>13 DEF Next, AppStep

-----------------------------------------------------------------------------
(* The way of a message, from the client to the inbox.                     *)

\* The stream loses nothing: it is not registered yet, or it is and its decode
\* task has met no error.
Healthy(s) ==
  registered[s] = 0 \/ (s \in contexts /\ decode[s].pc \in {"run", "dispatch", "release"})

\* How many messages have reached the decode task, its queue and the reader.
Base(s) == Len(delivered[s]) + IF decode[s].pc = "dispatch" THEN 1 ELSE 0
Queued(s) == Base(s) + Len(incoming[s])
Taken(s) == Queued(s) + IF InHand("data", s) THEN 1 ELSE 0

Waits(s, i) ==
  \/ Base(s) + i <= Len(sent[s]) /\ incoming[s][i] = sent[s][Base(s) + i]
  \/ incoming[s][i].type = "fin" /\ Len(sent[s]) < Base(s) + i /\ Final(s)

\* What waits in the queue of s, and what its decode task has in hand.
Waiting(s) ==
  Healthy(s) =>
    /\ \A i \in 1 .. Len(incoming[s]) : Waits(s, i)
    /\ decode[s].pc = "dispatch" => Base(s) <= Len(sent[s]) /\ decode[s].frame = sent[s][Base(s)]
    /\ decode[s].pc = "release" => Len(sent[s]) <= Base(s) /\ Final(s)

\* What the reader has in hand.
Holding(s) ==
  Healthy(s) =>
    /\ InHand("data", s) => reader.frame.n = Queued(s) + 1
    /\ InHand("fin", s) => Len(sent[s]) <= Queued(s)
    /\ reader.pc = "drain" /\ (s \in reader.todo \/ registered[s] = 0) => Len(sent[s]) <= Queued(s)

\* What is on the wire.
Coming(s) ==
  Healthy(s) /\ ~Over =>
    /\ \A i \in 1 .. Len(wire) : wire[i].type = "data" /\ wire[i].s = s => Taken(s) < wire[i].n
    /\ \A k \in 1 .. Len(sent[s]) :
         Taken(s) < k => \E i \in 1 .. Len(wire) : wire[i] = sent[s][k]

Pipeline == \A s \in Stream : Waiting(s) /\ Holding(s) /\ Coming(s)

\* The messages delivered are the first ones sent.
Prefix ==
  \A s \in Stream :
    /\ Len(delivered[s]) <= Len(sent[s])
    /\ \A i \in 1 .. Len(delivered[s]) : delivered[s][i] = sent[s][i]
    /\ s \in ended => delivered[s] = sent[s] /\ Final(s) /\ decode[s].pc = "ended"

HasBad(s) == \E i \in 1 .. Len(sent[s]) : sent[s][i].kind = "bad"

\* A clean close, and why a stream was released.
Draining ==
  /\ reader.pc = "drain" => closing
  /\ reader.pc = "ended" /\ ~reader.aborted =>
       /\ closing /\ contexts = {}
       /\ \A s \in Stream : registered[s] = 0 => sent[s] = << >>
  /\ \A s \in Stream :
       /\ s \in contexts /\ decode[s].pc \in {"error", "reserve", "remove"} => HasBad(s)
       /\ registered[s] = 1 /\ s \notin contexts =>
            \/ s \in ended \/ closer[s] = "done" \/ HasBad(s)
            \/ reader.aborted \/ reader.pc = "timeout"

Inv ==
  /\ Typed /\ Routed /\ Numbered /\ Wires /\ Hands
  /\ Registry /\ LookedUp /\ Closes /\ Gone
  /\ Pipeline /\ Prefix /\ Draining

LEMMA Sizes ==
  ASSUME Typed, NEW s \in Stream
  PROVE  /\ Len(sent[s]) \in Nat /\ Len(delivered[s]) \in Nat /\ Len(incoming[s]) \in Nat
         /\ Base(s) \in Nat /\ Queued(s) \in Nat /\ Taken(s) \in Nat
         /\ Len(delivered[s]) <= Base(s) /\ Base(s) <= Queued(s) /\ Queued(s) <= Taken(s)
<1>1. Len(sent[s]) \in Nat /\ Len(delivered[s]) \in Nat /\ Len(incoming[s]) \in Nat
  BY DEF Typed
<1>2. Base(s) \in Nat /\ Len(delivered[s]) <= Base(s)
  <2>1. Base(s) = Len(delivered[s]) \/ Base(s) = Len(delivered[s]) + 1
    <3>1. decode[s].pc = "dispatch" => Base(s) = Len(delivered[s]) + 1
      BY DEF Base
    <3>2. decode[s].pc # "dispatch" => Base(s) = Len(delivered[s]) + 0
      BY DEF Base
    <3> QED
      BY <1>1, <3>1, <3>2
  <2> QED
    BY <1>1, <2>1
<1>3. Queued(s) \in Nat /\ Base(s) <= Queued(s)
  BY <1>1, <1>2 DEF Queued
<1> QED
  BY <1>1, <1>2, <1>3 DEF Taken

LEMMA SentStays ==
  ASSUME Typed, Routed, Numbered, Sorted, [Next]_vars, NEW s \in Stream
  PROVE  /\ Len(sent[s]) \in Nat /\ Len(sent'[s]) \in Nat /\ Len(sent[s]) <= Len(sent'[s])
         /\ \A k \in 1 .. Len(sent[s]) : sent'[s][k] = sent[s][k]
         /\ Final(s) => sent'[s] = sent[s]
         /\ closing => sent' = sent
<1>1. CASE CloseConnection \/ \E t \in Stream : ClientStep(t)
  BY <1>1, ClientIs, SentGrows
<1>2. CASE ReadFrame \/ Proceeds \/ Elsewhere
  <2>1. UNCHANGED sent
    BY <1>2 DEF ReadFrame, Proceeds, Elsewhere, readerOnly, client
  <2> QED
    BY <2>1, Sizes
<1> QED
  BY <1>1, <1>2, Steps

\* A step that does nothing to what s has received.
Same(s) ==
  /\ registered'[s] = registered[s] /\ decode'[s] = decode[s] /\ delivered'[s] = delivered[s]
  /\ incoming'[s] = incoming[s] /\ (s \in contexts' => s \in contexts)

LEMMA SameSizes ==
  ASSUME NEW s \in Stream, Same(s)
  PROVE  (Healthy(s)' => Healthy(s)) /\ Base(s)' = Base(s) /\ Queued(s)' = Queued(s)
  BY DEF Same, Healthy, Base, Queued

LEMMA SameOrNot ==
  ASSUME Typed, Routed, Sorted, [Next]_vars, NEW s \in Stream
  PROVE  \/ Same(s) \/ DrainQueue(s) \/ DecodeStep(s)
         \/ reader.frame.s = s /\ (MakeStream \/ QueueFrame)
<1> USE DEF client, maps, queues, tasks, state
<1>0. /\ incoming \in [Stream -> Seq(Sendable)] /\ decode \in [Stream -> DecodeSet]
      /\ registered \in [Stream -> Nat] /\ delivered \in [Stream -> Seq(Frame)]
  BY DEF Typed
<1>1. CASE (CloseConnection \/ \E t \in Stream : ClientStep(t)) \/ UNCHANGED vars
  <2>1. UNCHANGED server
    BY <1>1, TypedClient DEF vars
  <2> QED
    BY <2>1 DEF server, Same
<1>2. CASE \/ MarkClosed \/ CloseAllStreams
           \/ \E t \in Stream : AppClose(t) \/ AppTake(t) \/ AppStep(t)
  BY <1>2 DEF MarkClosed, CloseAllStreams, AppClose, AppTake, AppStep, AppReserve, AppRemove,
              RemoveStream, Same
<1>3. CASE DrainTimeout \/ ReadFrame \/ ReaderAborted \/ FinUnreserve \/ FinLookup \/ Lookup
           \/ CheckReserved \/ Announce \/ QueueFails \/ Drained
  BY <1>3 DEF DrainTimeout, ReadFrame, ReaderAborted, FinUnreserve, FinLookup, Lookup,
              CheckReserved, Announce, QueueFails, Drained, readerOnly, Same
<1>4. CASE MakeStream /\ reader.frame.s # s
  <2>1. \/ UNCHANGED << contexts, registered, decode >>
        \/ /\ contexts' = contexts \cup {reader.frame.s}
           /\ registered' = [registered EXCEPT ![reader.frame.s] = @ + 1]
           /\ decode' = [decode EXCEPT ![reader.frame.s].pc = "run"]
    BY <1>4 DEF MakeStream
  <2>2. UNCHANGED << incoming, delivered >>
    BY <1>4 DEF MakeStream
  <2> QED
    BY <1>0, <1>4, <2>1, <2>2 DEF Same
<1>5. CASE QueueFrame /\ reader.frame.s # s
  BY <1>0, <1>5 DEF QueueFrame, Same
<1>6. ASSUME NEW t \in Stream, DrainQueue(t), t # s
      PROVE  Same(s)
  <2>1. incoming' = incoming \/ incoming' = [incoming EXCEPT ![t] = Append(@, Fin(t))]
    BY <1>6 DEF DrainQueue
  <2>2. UNCHANGED << contexts, delivered, decode, registered >>
    BY <1>6 DEF DrainQueue
  <2> QED
    BY <1>0, <1>6, <2>1, <2>2 DEF Same
<1>7. ASSUME NEW t \in Stream, DecodeStep(t), t # s
      PROVE  Same(s)
  <2>1. incoming'[s] = incoming[s] /\ delivered'[s] = delivered[s]
    BY <1>0, <1>7 DEF DecodeStep, DecodeTake, DecodeStop, Dispatch, DecodeFin, DecodeError, DecodeReserve,
                 DecodeRemove, DecodeEnds, decodeOnly
  <2>2. UNCHANGED registered /\ contexts' \subseteq contexts
    BY <1>7 DEF DecodeStep, DecodeTake, DecodeStop, Dispatch, DecodeFin, DecodeError, DecodeReserve,
                 DecodeRemove, RemoveStream, decodeOnly
  <2>3. decode'[s] = decode[s]
    <3>1. CASE DecodeTake(t)
      BY ZenonT(40), <1>0, <1>7, <3>1, DecodeTakeIs
    <3>2. CASE ~DecodeTake(t)
      BY <1>0, <1>7, <3>2 DEF DecodeStep, DecodeStop, Dispatch, DecodeFin, DecodeError, DecodeReserve,
                 DecodeRemove, DecodeEnds
    <3> QED
      BY <3>1, <3>2
  <2> QED
    BY <2>1, <2>2, <2>3 DEF Same
<1> QED
  BY <1>1, <1>2, <1>3, <1>4, <1>5, <1>6, <1>7 DEF Next, ReaderStep

\* What a step of the decode task of s does to what it has received.
LEMMA DecodeLine ==
  ASSUME Inv, NEW s \in Stream, DecodeStep(s), Healthy(s)'
  PROVE  /\ Healthy(s) /\ UNCHANGED << sent, opener, sender, closing, wire, reader >>
         /\ \/ /\ decode[s].pc = "run" /\ incoming[s] # << >> /\ incoming'[s] = Tail(incoming[s])
               /\ delivered'[s] = delivered[s] /\ decode'[s].frame = Head(incoming[s])
               /\ \/ decode'[s].pc = "release" /\ Head(incoming[s]).type = "fin"
                  \/ decode'[s].pc = "dispatch" /\ Head(incoming[s]).type # "fin"
            \/ /\ decode[s].pc = "dispatch" /\ decode'[s].pc = "run" /\ incoming'[s] = incoming[s]
               /\ delivered'[s] = Append(delivered[s], decode[s].frame)
<1> USE DEF client, maps, queues, tasks, state
<1>0. /\ incoming \in [Stream -> Seq(Sendable)] /\ decode \in [Stream -> DecodeSet]
      /\ delivered \in [Stream -> Seq(Frame)] /\ Typed /\ Entry(s) /\ closed \in [Stream -> BOOLEAN]
  BY DEF Inv, Typed, Registry
<1>1. UNCHANGED << sent, opener, sender, closing, wire, reader >>
  BY <1>0, TypedDecode
<1>2. decode[s].pc \notin {"none", "ended"} /\ UNCHANGED registered /\ contexts' \subseteq contexts
  BY DEF DecodeStep, DecodeTake, DecodeStop, Dispatch, DecodeFin, DecodeError, DecodeReserve,
         DecodeRemove, RemoveStream, decodeOnly
<1>3. registered[s] # 0 /\ s \in contexts /\ ~closed[s] /\ decode'[s].pc \in {"run", "dispatch", "release"}
  BY <1>0, <1>2 DEF Healthy, Entry, Unused
<1>4. CASE DecodeTake(s)
  <2> DEFINE x == Head(incoming[s])
  <2>1. /\ incoming[s] # << >> /\ decode[s].pc = "run" /\ incoming' = [incoming EXCEPT ![s] = Tail(@)]
    BY <1>0, <1>4, DecodeTakeIs
  <2>2. PICK pc \in {"release", "error", "dispatch"} :
               /\ decode' = [decode EXCEPT ![s] = [pc |-> pc, frame |-> x]]
               /\ pc = "release" <=> x.type = "fin"
    BY <1>0, <1>4, DecodeTakeIs
  <2> HIDE DEF x
  <2>3. decode'[s].pc = pc /\ decode'[s].frame = x /\ incoming'[s] = Tail(incoming[s])
    BY <1>0, <2>1, <2>2
  <2>4. UNCHANGED delivered
    BY <1>4 DEF DecodeTake, decodeOnly
  <2> QED
    BY <1>1, <1>3, <2>1, <2>2, <2>3, <2>4 DEF Healthy, x
<1>5. CASE Dispatch(s)
  <2>1. /\ decode[s].pc = "dispatch" /\ UNCHANGED incoming
        /\ decode' = [decode EXCEPT ![s] = [pc |-> "run", frame |-> None]]
        /\ delivered' = [delivered EXCEPT ![s] = Append(@, decode[s].frame)]
    BY <1>3, <1>5 DEF Dispatch, InboxRefuses
  <2>2. decode'[s].pc = "run" /\ delivered'[s] = Append(delivered[s], decode[s].frame)
    BY <1>0, <2>1
  <2> QED
    BY <1>1, <1>3, <2>1, <2>2 DEF Healthy
<1>6. CASE DecodeStop(s) \/ DecodeRemove(s) \/ DecodeFin(s)
  <2>1. decode'[s].pc = "ended"
    <3>1. decode' = [decode EXCEPT ![s] = [pc |-> "ended", frame |-> None]]
      BY <1>6 DEF DecodeStop, DecodeRemove, DecodeFin, DecodeEnds
    <3> QED
      BY <1>0, <3>1
  <2> QED
    BY <1>3, <2>1
<1>7. CASE DecodeError(s) \/ DecodeReserve(s)
  <2>1. decode'[s].pc \in {"reserve", "remove"}
    BY <1>0, <1>7 DEF DecodeError, DecodeReserve, AfterCheck, DecodeSet
  <2> QED
    BY <1>3, <2>1
<1> QED
  BY <1>4, <1>5, <1>6, <1>7 DEF DecodeStep

LEMMA BaseIs ==
  ASSUME NEW s \in Stream
  PROVE  /\ decode[s].pc = "dispatch" => Base(s) = Len(delivered[s]) + 1
         /\ decode[s].pc # "dispatch" => Base(s) = Len(delivered[s]) + 0
         /\ Queued(s) = Base(s) + Len(incoming[s])
         /\ InHand("data", s) => Taken(s) = Queued(s) + 1
         /\ ~InHand("data", s) => Taken(s) = Queued(s) + 0
<1>1. decode[s].pc = "dispatch" => Base(s) = Len(delivered[s]) + 1
  BY DEF Base
<1>2. decode[s].pc # "dispatch" => Base(s) = Len(delivered[s]) + 0
  BY DEF Base
<1>3. InHand("data", s) => Taken(s) = Queued(s) + 1
  BY DEF Taken
<1>4. ~InHand("data", s) => Taken(s) = Queued(s) + 0
  BY DEF Taken
<1> QED
  BY <1>1, <1>2, <1>3, <1>4 DEF Queued

\* The sizes after a step.
LEMMA BaseWillBe ==
  ASSUME NEW s \in Stream
  PROVE  /\ decode'[s].pc = "dispatch" => Base(s)' = Len(delivered'[s]) + 1
         /\ decode'[s].pc # "dispatch" => Base(s)' = Len(delivered'[s]) + 0
         /\ Queued(s)' = Base(s)' + Len(incoming'[s])
         /\ InHand("data", s)' => Taken(s)' = Queued(s)' + 1
         /\ ~InHand("data", s)' => Taken(s)' = Queued(s)' + 0
<1>1. decode'[s].pc = "dispatch" => Base(s)' = Len(delivered'[s]) + 1
  BY DEF Base
<1>2. decode'[s].pc # "dispatch" => Base(s)' = Len(delivered'[s]) + 0
  BY DEF Base
<1>3. InHand("data", s)' => Taken(s)' = Queued(s)' + 1
  BY DEF Taken
<1>4. ~InHand("data", s)' => Taken(s)' = Queued(s)' + 0
  BY DEF Taken
<1> QED
  BY <1>1, <1>2, <1>3, <1>4 DEF Queued

\* Taking a message, taking a FIN and delivering a message.
LEMMA DecodeSizes ==
  ASSUME Inv, NEW s \in Stream, DecodeStep(s), Healthy(s)'
  PROVE  /\ Healthy(s) /\ UNCHANGED << sent, opener, sender, closing, wire, reader >>
         /\ \/ /\ decode'[s].pc = "dispatch" /\ Base(s)' = Base(s) + 1 /\ Queued(s)' = Queued(s)
               /\ incoming[s] # << >> /\ incoming'[s] = Tail(incoming[s])
               /\ Base(s) + 1 <= Len(sent[s]) /\ decode'[s].frame = sent[s][Base(s) + 1]
            \/ /\ decode'[s].pc = "release" /\ Base(s)' = Base(s) /\ Queued(s) = Queued(s)' + 1
               /\ Len(sent[s]) <= Base(s) /\ Final(s) /\ Base(s) <= Queued(s)'
               /\ incoming[s] # << >> /\ incoming'[s] = Tail(incoming[s])
            \/ /\ decode'[s].pc = "run" /\ Base(s)' = Base(s) /\ Queued(s)' = Queued(s)
               /\ incoming'[s] = incoming[s]
<1>0. /\ Typed /\ incoming[s] \in Seq(Sendable) /\ delivered[s] \in Seq(Frame) /\ Waiting(s)
      /\ sent[s] \in Seq(DataFrame)
  BY DEF Inv, Typed, Pipeline
<1>1. /\ Healthy(s) /\ UNCHANGED << sent, opener, sender, closing, wire, reader >>
      /\ \/ /\ decode[s].pc = "run" /\ incoming[s] # << >> /\ incoming'[s] = Tail(incoming[s])
            /\ delivered'[s] = delivered[s] /\ decode'[s].frame = Head(incoming[s])
            /\ \/ decode'[s].pc = "release" /\ Head(incoming[s]).type = "fin"
               \/ decode'[s].pc = "dispatch" /\ Head(incoming[s]).type # "fin"
         \/ /\ decode[s].pc = "dispatch" /\ decode'[s].pc = "run" /\ incoming'[s] = incoming[s]
            /\ delivered'[s] = Append(delivered[s], decode[s].frame)
  BY DecodeLine
<1>2. /\ Len(sent[s]) \in Nat /\ Len(delivered[s]) \in Nat /\ Len(incoming[s]) \in Nat
      /\ Base(s) \in Nat /\ Queued(s) \in Nat
  BY <1>0, Sizes
<1>3. CASE /\ decode[s].pc = "run" /\ incoming[s] # << >> /\ incoming'[s] = Tail(incoming[s])
           /\ delivered'[s] = delivered[s] /\ decode'[s].frame = Head(incoming[s])
  <2>1. /\ 1 \in 1 .. Len(incoming[s]) /\ Head(incoming[s]) = incoming[s][1]
        /\ Len(incoming'[s]) = Len(incoming[s]) - 1
    BY <1>0, <1>3
  <2>2. Waits(s, 1)
    BY <1>0, <1>1, <2>1 DEF Waiting
  <2>3. Base(s) = Len(delivered[s])
    BY <1>2, <1>3, BaseIs
  <2>4. CASE decode'[s].pc = "release" /\ Head(incoming[s]).type = "fin"
    <3>1. ~(Base(s) + 1 <= Len(sent[s]) /\ incoming[s][1] = sent[s][Base(s) + 1])
      <4> SUFFICES ASSUME Base(s) + 1 <= Len(sent[s]), incoming[s][1] = sent[s][Base(s) + 1]
                   PROVE  FALSE
        OBVIOUS
      <4>1. Base(s) + 1 \in 1 .. Len(sent[s])
        BY <1>2
      <4>2. sent[s][Base(s) + 1] \in DataFrame
        BY <1>0, <4>1
      <4> QED
        BY <2>1, <2>4, <4>2 DEF DataFrame
    <3>2. Len(sent[s]) < Base(s) + 1 /\ Final(s)
      BY <2>2, <3>1 DEF Waits
    <3>3. Base(s)' = Base(s)
      BY <1>2, <1>3, <2>3, <2>4, BaseWillBe
    <3>4. Queued(s)' = Base(s) + Len(incoming'[s]) /\ Queued(s) = Base(s) + Len(incoming[s])
      BY <3>3, BaseIs, BaseWillBe
    <3> QED
      BY SMTT(30), <1>1, <1>2, <1>3, <2>1, <2>4, <3>2, <3>3, <3>4
  <2>5. CASE decode'[s].pc = "dispatch" /\ Head(incoming[s]).type # "fin"
    <3>1. Base(s) + 1 <= Len(sent[s]) /\ incoming[s][1] = sent[s][Base(s) + 1]
      BY <2>1, <2>2, <2>5 DEF Waits
    <3>2. Base(s)' = Base(s) + 1
      BY <1>2, <1>3, <2>3, <2>5, BaseWillBe
    <3>3. Queued(s)' = Base(s) + 1 + Len(incoming'[s]) /\ Queued(s) = Base(s) + Len(incoming[s])
      BY <3>2, BaseIs, BaseWillBe
    <3>4. Queued(s)' = Queued(s)
      BY <1>2, <2>1, <3>3
    <3> QED
      BY <1>1, <1>3, <2>1, <2>5, <3>1, <3>2, <3>4
  <2> QED
    BY <1>1, <1>3, <2>4, <2>5
<1>4. CASE /\ decode[s].pc = "dispatch" /\ decode'[s].pc = "run" /\ incoming'[s] = incoming[s]
           /\ delivered'[s] = Append(delivered[s], decode[s].frame)
  <2>1. Len(delivered'[s]) = Len(delivered[s]) + 1
    BY <1>0, <1>4
  <2>2. Base(s)' = Len(delivered'[s]) + 0 /\ Base(s) = Len(delivered[s]) + 1
    BY <1>4, BaseIs, BaseWillBe
  <2>3. Base(s)' = Base(s)
    BY <1>2, <2>1, <2>2
  <2>4. Queued(s)' = Queued(s)
    BY <1>4, <2>3, BaseIs, BaseWillBe
  <2> QED
    BY <1>1, <1>4, <2>3, <2>4
<1> QED
  BY <1>1, <1>3, <1>4

\* make_stream gives a stream its first decode task.
LEMMA MakeLine ==
  ASSUME Inv, NEW s \in Stream, MakeStream, reader.frame.s = s, Healthy(s)'
  PROVE  /\ Healthy(s) /\ UNCHANGED << sent, opener, sender, closing, wire, incoming, delivered >>
         /\ decode'[s].pc \in {"none", "run", "dispatch", "release"} /\ Base(s)' = Base(s) /\ Queued(s)' = Queued(s)
         /\ decode'[s] # decode[s] => decode'[s].pc = "run"
         /\ reader'.pc = "announce" \/ reader'.pc = "ended"
         /\ reader.pc = "make" /\ reader'.frame = reader.frame
<1>0. /\ decode \in [Stream -> DecodeSet] /\ registered \in [Stream -> Nat] /\ Typed /\ Entry(s)
      /\ LookedUp
  BY DEF Inv, Typed, Registry
<1>1. /\ UNCHANGED << sent, opener, sender, closing, wire, incoming, delivered >> /\ reader.pc = "make"
  BY DEF MakeStream, client, queues
<1>2. CASE MayRegister(s)
  <2>1. GoTo("announce") /\ decode' = [decode EXCEPT ![s].pc = "run"] /\ registered[s] = 0
    BY <1>0, <1>1, <1>2 DEF MakeStream, MayRegister, LookedUp
  <2>2. decode'[s].pc = "run" /\ decode[s].pc = "none"
    BY <1>0, <2>1 DEF DecodeSet, Entry, Unused
  <2>3. Base(s)' = Base(s) /\ Queued(s)' = Queued(s)
    BY <1>1, <2>2, BaseIs, BaseWillBe
  <2> QED
    BY <1>0, <1>1, <2>1, <2>2, <2>3, GoToIs DEF Healthy
<1>3. CASE ~MayRegister(s)
  <2>1. GoTo("ended") /\ UNCHANGED << contexts, registered, decode >>
    BY <1>3 DEF MakeStream
  <2>2. Healthy(s) /\ Base(s)' = Base(s) /\ Queued(s)' = Queued(s)
    BY <1>1, <2>1 DEF Healthy, Base, Queued
  <2>3. decode[s].pc \in {"none", "run", "dispatch", "release"}
    BY <1>0, <2>2 DEF Healthy, Entry, Unused
  <2> QED
    BY <1>0, <1>1, <2>1, <2>2, <2>3, GoToIs
<1> QED
  BY <1>2, <1>3

\* A frame is queued for s.
LEMMA QueueLine ==
  ASSUME Inv, NEW s \in Stream, NEW f, incoming' = [incoming EXCEPT ![s] = Append(@, f)],
         UNCHANGED << contexts, delivered, decode, registered >>
  PROVE  /\ Healthy(s)' => Healthy(s)
         /\ Base(s)' = Base(s) /\ Queued(s)' = Queued(s) + 1
         /\ incoming'[s] = Append(incoming[s], f) /\ incoming[s] \in Seq(Sendable)
<1>0. incoming \in [Stream -> Seq(Sendable)] /\ Typed
  BY DEF Inv, Typed
<1>1. incoming'[s] = Append(incoming[s], f) /\ incoming[s] \in Seq(Sendable)
  BY <1>0
<1>2. Base(s)' = Base(s) /\ (Healthy(s)' => Healthy(s))
  BY DEF Base, Healthy
<1>3. Len(incoming'[s]) = Len(incoming[s]) + 1 /\ Len(incoming[s]) \in Nat /\ Base(s) \in Nat
  BY <1>0, <1>1, Sizes
<1>4. Queued(s)' = Base(s) + Len(incoming'[s]) /\ Queued(s) = Base(s) + Len(incoming[s])
  BY <1>2, BaseIs, BaseWillBe
<1> QED
  BY <1>1, <1>2, <1>3, <1>4

LEMMA WaitingStep ==
  ASSUME Inv, [Next]_vars, NEW s \in Stream
  PROVE  Waiting(s)'
<1> SUFFICES ASSUME Healthy(s)'
             PROVE  /\ \A i \in 1 .. Len(incoming'[s]) : Waits(s, i)'
                    /\ decode'[s].pc = "dispatch" =>
                         Base(s)' <= Len(sent'[s]) /\ decode'[s].frame = sent'[s][Base(s)']
                    /\ decode'[s].pc = "release" => Len(sent'[s]) <= Base(s)' /\ Final(s)'
  BY DEF Waiting
<1>0. /\ Typed /\ Routed /\ Numbered /\ Sorted /\ Hands /\ Registry /\ Draining
      /\ Waiting(s) /\ Holding(s) /\ incoming[s] \in Seq(Sendable)
  BY DEF Inv, Hands, Pipeline, Typed
<1>1. /\ Len(sent[s]) \in Nat /\ Len(sent'[s]) \in Nat /\ Len(sent[s]) <= Len(sent'[s])
      /\ \A k \in 1 .. Len(sent[s]) : sent'[s][k] = sent[s][k]
      /\ Final(s) => sent'[s] = sent[s]
      /\ Final(s) => Final(s)'
  BY <1>0, SentStays, FinalStays
<1>2. /\ Len(incoming[s]) \in Nat /\ Base(s) \in Nat /\ Queued(s) = Base(s) + Len(incoming[s])
  BY <1>0, Sizes, BaseIs
<1>3. ASSUME Healthy(s), Base(s)' = Base(s), NEW i \in 1 .. Len(incoming[s]), incoming'[s][i] = incoming[s][i]
      PROVE  Waits(s, i)'
  <2>1. Waits(s, i)
    BY <1>0, <1>3 DEF Waiting
  <2>2. CASE Base(s) + i <= Len(sent[s]) /\ incoming[s][i] = sent[s][Base(s) + i]
    <3>1. Base(s) + i \in 1 .. Len(sent[s]) /\ Base(s) + i <= Len(sent'[s])
      BY <1>1, <1>2, <2>2
    <3>2. sent'[s][Base(s) + i] = sent[s][Base(s) + i]
      BY <1>1, <3>1
    <3> QED
      BY <1>3, <2>2, <3>1, <3>2 DEF Waits
  <2>3. CASE incoming[s][i].type = "fin" /\ Len(sent[s]) < Base(s) + i /\ Final(s)
    BY <1>1, <1>3, <2>3 DEF Waits
  <2> QED
    BY <2>1, <2>2, <2>3 DEF Waits
<1>4. ASSUME Healthy(s), Base(s)' = Base(s), decode'[s] = decode[s]
      PROVE  /\ decode'[s].pc = "dispatch" =>
                  Base(s)' <= Len(sent'[s]) /\ decode'[s].frame = sent'[s][Base(s)']
             /\ decode'[s].pc = "release" => Len(sent'[s]) <= Base(s)' /\ Final(s)'
  <2>1. CASE decode[s].pc = "dispatch"
    <3>1. Base(s) <= Len(sent[s]) /\ decode[s].frame = sent[s][Base(s)]
      BY <1>0, <1>4, <2>1 DEF Waiting
    <3>2. Base(s) \in 1 .. Len(sent[s])
      <4>1. Base(s) = Len(delivered[s]) + 1 /\ Len(delivered[s]) \in Nat
        BY <1>0, <2>1, BaseIs, Sizes
      <4> QED
        BY <1>1, <3>1, <4>1
    <3>3. sent'[s][Base(s)] = sent[s][Base(s)] /\ Base(s) <= Len(sent'[s])
      BY <1>1, <3>2
    <3> QED
      BY <1>4, <2>1, <3>1, <3>3
  <2>2. CASE decode[s].pc = "release"
    <3>1. Len(sent[s]) <= Base(s) /\ Final(s)
      BY <1>0, <1>4, <2>2 DEF Waiting
    <3> QED
      BY <1>1, <1>4, <2>2, <3>1
  <2> QED
    BY <1>4, <2>1, <2>2
<1>5. CASE Same(s)
  <2>1. Healthy(s) /\ Base(s)' = Base(s) /\ incoming'[s] = incoming[s] /\ decode'[s] = decode[s]
    BY <1>5, SameSizes DEF Same
  <2> QED
    BY <1>3, <1>4, <2>1
<1>6. CASE MakeStream /\ reader.frame.s = s
  <2>1. /\ Healthy(s) /\ Base(s)' = Base(s) /\ incoming'[s] = incoming[s]
        /\ decode'[s] # decode[s] => decode'[s].pc = "run"
    BY <1>6, MakeLine
  <2> QED
    BY <1>3, <1>4, <2>1
<1>7. ASSUME NEW f, incoming' = [incoming EXCEPT ![s] = Append(@, f)],
             UNCHANGED << contexts, delivered, decode, registered, sent >>,
             Healthy(s) =>
               \/ Queued(s) + 1 <= Len(sent[s]) /\ f = sent[s][Queued(s) + 1]
               \/ f.type = "fin" /\ Len(sent[s]) <= Queued(s) /\ Final(s)
      PROVE  /\ \A i \in 1 .. Len(incoming'[s]) : Waits(s, i)'
             /\ decode'[s].pc = "dispatch" =>
                  Base(s)' <= Len(sent'[s]) /\ decode'[s].frame = sent'[s][Base(s)']
             /\ decode'[s].pc = "release" => Len(sent'[s]) <= Base(s)' /\ Final(s)'
  <2>1. /\ Healthy(s) /\ Base(s)' = Base(s) /\ incoming'[s] = Append(incoming[s], f)
    BY <1>7, QueueLine
  <2>2. /\ Len(incoming'[s]) = Len(incoming[s]) + 1 /\ incoming'[s][Len(incoming[s]) + 1] = f
        /\ \A i \in 1 .. Len(incoming[s]) : incoming'[s][i] = incoming[s][i]
    BY <1>0, <2>1
  <2>3. \A i \in 1 .. Len(incoming[s]) : Waits(s, i)'
    BY <1>3, <2>1, <2>2
  <2>4. ASSUME NEW i, i = Len(incoming[s]) + 1 PROVE Waits(s, i)'
    <3>1. Base(s)' + i = Queued(s) + 1 /\ Queued(s) \in Nat
      BY <1>2, <2>1, <2>4
    <3>2. incoming'[s][i] = f
      BY <2>2, <2>4
    <3>3. CASE Queued(s) + 1 <= Len(sent[s]) /\ f = sent[s][Queued(s) + 1]
      BY <1>7, <3>1, <3>2, <3>3 DEF Waits
    <3>4. CASE f.type = "fin" /\ Len(sent[s]) <= Queued(s) /\ Final(s)
      <4>1. Len(sent'[s]) < Base(s)' + i
        BY <1>1, <1>7, <3>1, <3>4
      <4> QED
        BY <1>1, <3>2, <3>4, <4>1 DEF Waits
    <3> QED
      BY <1>7, <2>1, <3>3, <3>4
  <2>5. \A i \in 1 .. Len(incoming'[s]) : Waits(s, i)'
    <3> TAKE i \in 1 .. Len(incoming'[s])
    <3>1. i \in 1 .. Len(incoming[s]) \/ i = Len(incoming[s]) + 1
      BY <1>2, <2>2
    <3> QED
      BY <2>3, <2>4, <3>1
  <2> QED
    BY <1>4, <1>7, <2>1, <2>5
<1>8. CASE QueueFrame /\ reader.frame.s = s
  <2>1. /\ incoming' = [incoming EXCEPT ![s] = Append(@, reader.frame)] /\ reader.pc = "queue"
        /\ UNCHANGED << contexts, delivered, decode, registered, sent >>
    BY <1>8 DEF QueueFrame, client, maps, state
  <2>2. reader.frame.type = "data" \/ reader.frame.type = "fin"
    BY <1>0, <2>1 DEF Routed, Handling
  <2>3. ASSUME Healthy(s), reader.frame.type = "data"
        PROVE  Queued(s) + 1 <= Len(sent[s]) /\ reader.frame = sent[s][Queued(s) + 1]
    <3>1. InHand("data", s)
      BY <1>8, <2>1, <2>3 DEF InHand, Handling
    <3>2. reader.frame.n = Queued(s) + 1 /\ OfSent(reader.frame, sent)
      BY <1>0, <2>3, <3>1 DEF Holding, Hands
    <3> QED
      BY <1>1, <1>8, <3>2 DEF OfSent
  <2>4. ASSUME Healthy(s), reader.frame.type = "fin"
        PROVE  Len(sent[s]) <= Queued(s) /\ Final(s)
    <3>1. InHand("fin", s)
      BY <1>8, <2>1, <2>4 DEF InHand, Handling
    <3> QED
      BY <1>0, <2>4, <3>1 DEF Holding, Hands, NoMore
  <2> QED
    BY <1>7, <2>1, <2>2, <2>3, <2>4
<1>9. CASE DrainQueue(s)
  <2>1. CASE Decoding(s)
    <3>1. /\ incoming' = [incoming EXCEPT ![s] = Append(@, Fin(s))] /\ reader.pc = "drain"
          /\ UNCHANGED << contexts, delivered, decode, registered, sent >> /\ s \in reader.todo
      BY <1>9, <2>1 DEF DrainQueue, client, maps, state
    <3>2. Healthy(s) => Len(sent[s]) <= Queued(s) /\ Final(s) /\ Fin(s).type = "fin"
      BY <1>0, <3>1, FrameTypes DEF Holding, Draining, Final
    <3> QED
      BY <1>7, <3>1, <3>2
  <2>2. CASE ~Decoding(s)
    BY <1>5, <1>9, <2>2 DEF DrainQueue, Same, maps, state
  <2> QED
    BY <2>1, <2>2
<1>10. CASE DecodeStep(s)
  <2>1. Healthy(s) /\ UNCHANGED << sent, opener, sender, closing >>
    BY <1>10, DecodeSizes
  <2>2. CASE /\ decode'[s].pc = "dispatch" /\ Base(s)' = Base(s) + 1
             /\ incoming[s] # << >> /\ incoming'[s] = Tail(incoming[s])
             /\ Base(s) + 1 <= Len(sent[s]) /\ decode'[s].frame = sent[s][Base(s) + 1]
    <3>1. ASSUME NEW i \in 1 .. Len(incoming'[s]) PROVE Waits(s, i)'
      <4>1. i + 1 \in 1 .. Len(incoming[s]) /\ incoming'[s][i] = incoming[s][i + 1]
        BY <1>0, <2>2
      <4>2. Waits(s, i + 1)
        BY <1>0, <2>1, <4>1 DEF Waiting
      <4>3. Base(s) + (i + 1) = Base(s)' + i
        BY <1>2, <2>2
      <4> QED
        BY <2>1, <4>1, <4>2, <4>3 DEF Waits, Final
    <3> QED
      BY <2>1, <2>2, <3>1
  <2>3. CASE /\ decode'[s].pc = "release" /\ Base(s)' = Base(s) /\ Queued(s) = Queued(s)' + 1
             /\ Len(sent[s]) <= Base(s) /\ Final(s)
             /\ incoming[s] # << >> /\ incoming'[s] = Tail(incoming[s])
    <3>1. ASSUME NEW i \in 1 .. Len(incoming'[s]) PROVE Waits(s, i)'
      <4>1. i + 1 \in 1 .. Len(incoming[s]) /\ incoming'[s][i] = incoming[s][i + 1]
        BY <1>0, <2>3
      <4>2. Waits(s, i + 1)
        BY <1>0, <2>1, <4>1 DEF Waiting
      <4>3. ~(Base(s) + (i + 1) <= Len(sent[s])) /\ Len(sent[s]) < Base(s) + i
        BY <1>1, <1>2, <2>3
      <4>4. incoming'[s][i].type = "fin" /\ Final(s)'
        BY <1>1, <2>3, <4>1, <4>2, <4>3 DEF Waits
      <4> QED
        BY <2>1, <2>3, <4>3, <4>4 DEF Waits
    <3> QED
      BY <1>1, <2>1, <2>3, <3>1
  <2>4. CASE decode'[s].pc = "run" /\ Base(s)' = Base(s) /\ incoming'[s] = incoming[s]
    BY <1>3, <2>1, <2>4
  <2> QED
    BY <1>10, <2>2, <2>3, <2>4, DecodeSizes
<1> QED
  BY <1>0, <1>5, <1>6, <1>8, <1>9, <1>10, SameOrNot

\* The frame that is read next: the next message of its stream, or none is left.
LEMMA NextFrame ==
  ASSUME Inv, ReadFrame, NEW s \in Stream, Healthy(s)
  PROVE  /\ Taken(s) = Queued(s) /\ Queued(s) \in Nat
         /\ Head(wire).type = "data" /\ Head(wire).s = s => Head(wire).n = Queued(s) + 1
         /\ Head(wire).type = "fin" /\ Head(wire).s = s => Len(sent[s]) <= Queued(s)
         /\ Head(wire).type = "eof" => Len(sent[s]) <= Queued(s) /\ Head(wire) = Eof /\ closing
<1>0. /\ Typed /\ wire \in Seq(Sendable) /\ Wires /\ Coming(s) /\ Numbered
      /\ sent[s] \in Seq(DataFrame)
  BY DEF Inv, Typed, Pipeline
<1>1. reader.pc = "read" /\ wire # << >>
  BY <1>0, ReadFrameIs
<1>2. Taken(s) = Queued(s) /\ Queued(s) \in Nat /\ Len(sent[s]) \in Nat
  <2>1. ~InHand("data", s)
    BY <1>1 DEF InHand, Handling
  <2> QED
    BY <1>0, <2>1, Sizes, BaseIs
<1>3. Head(wire) = wire[1] /\ 1 \in 1 .. Len(wire) /\ Len(wire) \in Nat /\ OnWire(1)
  BY <1>0, <1>1 DEF Wires
<1>4. /\ \A i \in 1 .. Len(wire) : wire[i].type = "data" /\ wire[i].s = s => Queued(s) < wire[i].n
      /\ \A k \in 1 .. Len(sent[s]) :
           Queued(s) < k => \E i \in 1 .. Len(wire) : wire[i] = sent[s][k]
  <2>1. ~Over
    BY <1>1 DEF Over
  <2> QED
    BY <1>0, <1>2, <2>1 DEF Coming
<1>5. ASSUME Queued(s) < Len(sent[s])
      PROVE  \E i \in 1 .. Len(wire) : wire[i].type = "data" /\ wire[i].s = s /\ wire[i].n = Queued(s) + 1
  <2>1. Queued(s) + 1 \in 1 .. Len(sent[s]) /\ Queued(s) < Queued(s) + 1
    BY <1>2, <1>5
  <2>2. PICK i \in 1 .. Len(wire) : wire[i] = sent[s][Queued(s) + 1]
    BY <1>4, <2>1
  <2>3. sent[s][Queued(s) + 1].s = s /\ sent[s][Queued(s) + 1].n = Queued(s) + 1
    BY <1>0, <2>1 DEF Numbered
  <2>4. sent[s][Queued(s) + 1] \in DataFrame
    BY <1>0, <2>1
  <2> QED
    BY <2>2, <2>3, <2>4 DEF DataFrame
<1>6. ASSUME wire[1].type = "data", wire[1].s = s
      PROVE  wire[1].n = Queued(s) + 1
  <2>1. Queued(s) < wire[1].n
    BY <1>3, <1>4, <1>6
  <2>2. OfSent(wire[1], sent)
    BY <1>3, <1>6, FrameTypes DEF OnWire
  <2>3. wire[1].n \in 1 .. Len(sent[s])
    BY <1>6, <2>2 DEF OfSent
  <2>4. Queued(s) < Len(sent[s])
    BY <1>2, <2>1, <2>3
  <2>5. PICK i \in 1 .. Len(wire) : wire[i].type = "data" /\ wire[i].s = s /\ wire[i].n = Queued(s) + 1
    BY <1>5, <2>4
  <2>6. CASE i = 1
    BY <2>5, <2>6
  <2>7. CASE 1 < i
    <3>1. InOrder(1, i)
      BY <1>0, <1>3, <2>7 DEF Wires
    <3>2. wire[1].n < Queued(s) + 1
      BY <1>6, <2>5, <3>1 DEF InOrder
    <3> QED
      BY <1>2, <2>1, <2>3, <3>2
  <2> QED
    BY <2>6, <2>7
<1>7. ASSUME wire[1].type = "fin", wire[1].s = s
      PROVE  Len(sent[s]) <= Queued(s)
  <2> SUFFICES ASSUME Queued(s) < Len(sent[s]) PROVE FALSE
    BY <1>2
  <2>1. PICK i \in 1 .. Len(wire) : wire[i].type = "data" /\ wire[i].s = s
    BY <1>5
  <2>2. 1 < i
    BY <1>7, <2>1
  <2>3. InOrder(1, i)
    BY <1>0, <1>3, <2>2 DEF Wires
  <2> QED
    BY <1>7, <2>1, <2>3 DEF InOrder
<1>8. ASSUME wire[1].type = "eof"
      PROVE  Len(sent[s]) <= Queued(s) /\ wire[1] = Eof /\ closing
  <2>1. wire[1] = Eof /\ closing /\ 1 = Len(wire)
    BY <1>3, <1>8 DEF OnWire
  <2>2. ~(Queued(s) < Len(sent[s]))
    <3> SUFFICES ASSUME Queued(s) < Len(sent[s]) PROVE FALSE
      OBVIOUS
    <3>1. PICK i \in 1 .. Len(wire) : wire[i].type = "data"
      BY <1>5
    <3>2. i \in 1 .. 1
      BY <2>1, <3>1
    <3>3. i = 1
      BY <3>2
    <3> QED
      BY <1>8, <3>1, <3>3
  <2> QED
    BY <1>2, <2>1, <2>2
<1> QED
  BY <1>2, <1>3, <1>6, <1>7, <1>8

\* The frame in hand survives the step, or the reader has dropped it.
Keeps ==
  /\ reader'.pc \in Handling => reader.pc \in Handling /\ reader'.frame = reader.frame
  /\ reader'.pc = "drain" => reader.pc = "drain" /\ reader'.todo \subseteq reader.todo

LEMMA HoldingStep ==
  ASSUME Inv, [Next]_vars, NEW s \in Stream
  PROVE  Holding(s)'
<1> SUFFICES ASSUME Healthy(s)'
             PROVE  /\ InHand("data", s)' => reader'.frame.n = Queued(s)' + 1
                    /\ InHand("fin", s)' => Len(sent'[s]) <= Queued(s)'
                    /\ reader'.pc = "drain" /\ (s \in reader'.todo \/ registered'[s] = 0) =>
                         Len(sent'[s]) <= Queued(s)'
  BY DEF Holding
<1>0. /\ Typed /\ Routed /\ Numbered /\ Sorted /\ Hands /\ Registry /\ Draining /\ Holding(s)
  BY DEF Inv, Hands, Pipeline
<1>1. /\ Len(sent[s]) \in Nat /\ (Final(s) => sent'[s] = sent[s]) /\ (closing => sent' = sent)
      /\ Base(s) \in Nat /\ Queued(s) \in Nat
  BY <1>0, SentStays, Sizes
<1>2. ASSUME Keeps, Healthy(s), Queued(s)' = Queued(s), registered'[s] = 0 => registered[s] = 0
      PROVE  /\ InHand("data", s)' => reader'.frame.n = Queued(s)' + 1
             /\ InHand("fin", s)' => Len(sent'[s]) <= Queued(s)'
             /\ reader'.pc = "drain" /\ (s \in reader'.todo \/ registered'[s] = 0) =>
                  Len(sent'[s]) <= Queued(s)'
  <2>1. InHand("data", s)' => reader'.frame.n = Queued(s)' + 1
    BY <1>0, <1>2 DEF Keeps, InHand, Holding
  <2>2. ASSUME InHand("fin", s)' PROVE Len(sent'[s]) <= Queued(s)'
    <3>1. InHand("fin", s)
      BY <1>2, <2>2 DEF Keeps, InHand
    <3>2. Len(sent[s]) <= Queued(s) /\ Final(s)
      BY <1>0, <1>2, <3>1 DEF Holding, Hands, NoMore
    <3> QED
      BY <1>1, <1>2, <3>2
  <2>3. ASSUME reader'.pc = "drain", s \in reader'.todo \/ registered'[s] = 0
        PROVE  Len(sent'[s]) <= Queued(s)'
    <3>1. reader.pc = "drain" /\ (s \in reader.todo \/ registered[s] = 0)
      BY <1>2, <2>3 DEF Keeps
    <3>2. Len(sent[s]) <= Queued(s) /\ closing
      BY <1>0, <1>2, <3>1 DEF Holding, Draining
    <3> QED
      BY <1>1, <1>2, <3>2
  <2> QED
    BY <2>1, <2>2, <2>3
<1>3. ASSUME ~ReadFrame PROVE Keeps
  <2>1. CASE CloseConnection \/ \E t \in Stream : ClientStep(t)
    BY <1>0, <2>1, ClientIs DEF server, tasks, Keeps
  <2>2. CASE Proceeds \/ Elsewhere
    BY <2>2 DEF Proceeds, Elsewhere, Keeps
  <2> QED
    BY <1>0, <1>3, <2>1, <2>2, Steps
<1>4. CASE ReadFrame
  <2>1. Same(s) /\ UNCHANGED << sent, contexts >>
    BY <1>4 DEF ReadFrame, readerOnly, client, maps, queues, state, Same
  <2>2. Healthy(s) /\ Queued(s)' = Queued(s) /\ registered'[s] = registered[s]
    BY <2>1, SameSizes DEF Same
  <2>3. /\ Head(wire).type = "data" /\ Head(wire).s = s => Head(wire).n = Queued(s) + 1
        /\ Head(wire).type = "fin" /\ Head(wire).s = s => Len(sent[s]) <= Queued(s)
        /\ Head(wire).type = "eof" => Len(sent[s]) <= Queued(s)
    BY <1>4, <2>2, NextFrame
  <2>4. /\ reader'.frame = Head(wire) /\ Head(wire) \in Sendable
        /\ Head(wire).type = "data" => reader'.pc = "lookup"
        /\ Head(wire).type = "fin" => reader'.pc = "unreserve"
    BY <1>0, <1>4, ReadFrameIs
  <2>5. reader'.pc = "drain" => Head(wire).type = "eof"
    BY <2>4 DEF Sendable
  <2> QED
    BY <2>1, <2>2, <2>3, <2>4, <2>5 DEF InHand
<1>5. CASE Same(s) /\ ~ReadFrame
  BY <1>2, <1>3, <1>5, SameSizes DEF Same
<1>6. CASE MakeStream /\ reader.frame.s = s
  <2>1. /\ Healthy(s) /\ Queued(s)' = Queued(s) /\ reader'.frame = reader.frame /\ reader.pc = "make"
        /\ reader'.pc # "drain"
    BY <1>6, MakeLine
  <2>2. reader.frame.type = "data" /\ InHand("data", s)
    BY <1>0, <1>6, <2>1 DEF Sorted, InHand, Handling
  <2>3. reader.frame.n = Queued(s) + 1
    BY <1>0, <2>1, <2>2 DEF Holding
  <2> QED
    BY <2>1, <2>2, <2>3 DEF InHand
<1>7. CASE QueueFrame
  <2>1. reader'.pc = "read"
    BY <1>0, <1>7, ReadNextIs DEF QueueFrame
  <2> QED
    BY <2>1 DEF InHand, Handling
<1>8. CASE DrainQueue(s)
  <2>1. CASE Decoding(s)
    <3>1. /\ reader' = [reader EXCEPT !.todo = @ \ {s}] /\ reader.pc = "drain" /\ UNCHANGED registered
      BY <1>8, <2>1 DEF DrainQueue, state
    <3>2. reader'.pc = "drain" /\ s \notin reader'.todo
      BY <1>0, <3>1 DEF Typed, ReaderSet
    <3>3. registered'[s] # 0
      BY <1>0, <2>1, <3>1 DEF Registry, Entry, Unused, Decoding
    <3> QED
      BY <3>2, <3>3 DEF InHand, Handling
  <2>2. CASE ~Decoding(s)
    <3>1. Same(s)
      BY <1>8, <2>2 DEF DrainQueue, Same, maps, state
    <3> QED
      BY <1>4, <1>5, <3>1
  <2> QED
    BY <2>1, <2>2
<1>9. CASE DecodeStep(s)
  <2>0. /\ Healthy(s) /\ UNCHANGED << sent, reader >>
        /\ \/ Queued(s)' = Queued(s)
           \/ Queued(s) = Queued(s)' + 1 /\ Len(sent[s]) <= Base(s) /\ Base(s) <= Queued(s)'
    BY <1>9, DecodeSizes
  <2>1. CASE Queued(s)' = Queued(s)
    <3>1. UNCHANGED registered
      BY <1>9 DEF DecodeStep, DecodeTake, DecodeStop, Dispatch, DecodeFin, DecodeError, DecodeReserve,
                  DecodeRemove, decodeOnly, state
    <3> QED
      BY <1>2, <2>0, <2>1, <3>1 DEF Keeps
  <2>2. CASE Queued(s) = Queued(s)' + 1 /\ Len(sent[s]) <= Base(s) /\ Base(s) <= Queued(s)'
    <3>0. Typed'
      BY <1>0, <1>9, TypedDecode
    <3>1. Queued(s)' \in Nat
      BY <1>9, <2>2, <1>1, <3>0 DEF Typed, Queued, Base
    <3>2. Len(sent'[s]) <= Queued(s)'
      BY <1>1, <2>0, <2>2, <3>1
    <3>3. ~InHand("data", s)
      <4> SUFFICES ASSUME InHand("data", s) PROVE FALSE
        OBVIOUS
      <4>1. reader.frame.n = Queued(s) + 1 /\ OfSent(reader.frame, sent) /\ reader.frame.s = s
        BY <1>0, <2>0 DEF Holding, Hands, InHand
      <4>2. Queued(s) + 1 <= Len(sent[s])
        BY <1>1, <4>1 DEF OfSent
      <4> QED
        BY <1>1, <2>2, <3>1, <4>2
    <3> QED
      BY <2>0, <3>2, <3>3 DEF InHand
  <2> QED
    BY <2>0, <2>1, <2>2
<1> QED
  BY <1>0, <1>4, <1>5, <1>6, <1>7, <1>8, <1>9, SameOrNot

\* The reader never runs ahead of the client.
LEMMA NotAhead ==
  ASSUME Inv, NEW s \in Stream, Healthy(s), ~Final(s)
  PROVE  Taken(s) <= Len(sent[s])
<1>0. Typed /\ Waiting(s) /\ Holding(s) /\ Hands /\ Prefix
  BY DEF Inv, Pipeline
<1>1. /\ Len(sent[s]) \in Nat /\ Len(delivered[s]) \in Nat /\ Len(incoming[s]) \in Nat
      /\ Base(s) \in Nat /\ Queued(s) \in Nat /\ Queued(s) = Base(s) + Len(incoming[s])
  BY <1>0, Sizes, BaseIs
<1>2. Base(s) <= Len(sent[s])
  <2>1. CASE decode[s].pc = "dispatch"
    BY <1>0, <2>1 DEF Waiting
  <2>2. CASE decode[s].pc # "dispatch"
    <3>1. Base(s) = Len(delivered[s]) /\ Len(delivered[s]) <= Len(sent[s])
      BY <1>0, <1>1, <2>2, BaseIs DEF Prefix
    <3> QED
      BY <3>1
  <2> QED
    BY <2>1, <2>2
<1>3. Queued(s) <= Len(sent[s])
  <2>1. CASE Len(incoming[s]) = 0
    BY <1>1, <1>2, <2>1
  <2>2. CASE Len(incoming[s]) # 0
    <3>1. Len(incoming[s]) \in 1 .. Len(incoming[s])
      BY <1>1, <2>2
    <3>2. Waits(s, Len(incoming[s]))
      BY <1>0, <3>1 DEF Waiting
    <3> QED
      BY <1>1, <3>2 DEF Waits
  <2> QED
    BY <2>1, <2>2
<1>4. CASE InHand("data", s)
  <2>1. reader.frame.n = Queued(s) + 1 /\ OfSent(reader.frame, sent) /\ reader.frame.s = s
    BY <1>0, <1>4 DEF Holding, Hands, InHand
  <2>2. Queued(s) + 1 <= Len(sent[s])
    BY <1>1, <2>1 DEF OfSent
  <2> QED
    BY <1>4, <2>2, BaseIs
<1>5. CASE ~InHand("data", s)
  BY <1>1, <1>3, <1>5, BaseIs
<1> QED
  BY <1>4, <1>5

\* A message in hand is dropped only if its stream is not there to take it.
LEMMA DropsNothing ==
  ASSUME Inv, [Next]_vars, NEW s \in Stream, Healthy(s), InHand("data", s), ~Over', ~QueueFrame
  PROVE  InHand("data", s)'
<1>0. /\ Typed /\ Routed /\ Numbered /\ Sorted /\ LookedUp /\ Entry(s)
  BY DEF Inv, Hands, Registry
<1>1. reader.pc \in Handling /\ reader.frame.type = "data" /\ reader.frame.s = s
  BY DEF InHand
<1>2. CASE CloseConnection \/ \E t \in Stream : ClientStep(t)
  BY <1>0, <1>1, <1>2, ClientIs DEF server, tasks, InHand
<1>3. CASE Elsewhere
  BY <1>1, <1>3 DEF Elsewhere, InHand
<1>4. CASE ReaderStep \/ DrainTimeout
  <2>1. CASE ReadFrame
    BY <1>1, <2>1 DEF ReadFrame, Handling
  <2>2. CASE FinUnreserve \/ FinLookup
    BY <1>0, <1>1, <2>2 DEF FinUnreserve, FinLookup, Sorted
  <2>3. CASE ReaderAborted
    BY <1>0, <2>3, GoToIs DEF ReaderAborted, Over
  <2>4. CASE Lookup
    <3>1. GoTo("queue") \/ GoTo("reserved")
      BY <2>4 DEF Lookup
    <3> QED
      BY <1>0, <1>1, <3>1, GoToIs DEF InHand, Handling
  <2>5. CASE CheckReserved
    <3>1. s \notin contexts
      BY <1>0, <1>1, <2>5 DEF CheckReserved, LookedUp
    <3>2. s \notin closed_peer_streams
      BY <1>0, <3>1 DEF Healthy, Entry, Unused
    <3>3. GoTo("make")
      BY <1>1, <2>5, <3>2 DEF CheckReserved
    <3> QED
      BY <1>0, <1>1, <3>3, GoToIs DEF InHand, Handling
  <2>6. CASE MakeStream
    <3>1. GoTo("announce") \/ GoTo("ended")
      BY <2>6 DEF MakeStream
    <3> QED
      BY <1>0, <1>1, <3>1, GoToIs DEF InHand, Handling, Over
  <2>7. CASE Announce
    <3>1. GoTo("queue")
      BY <2>7 DEF Announce
    <3> QED
      BY <1>0, <1>1, <3>1, GoToIs DEF InHand, Handling
  <2>8. CASE QueueFails
    <3>1. registered[s] = 1 /\ ~Decoding(s)
      BY <1>0, <1>1, <2>8 DEF QueueFails, LookedUp
    <3> QED
      BY <1>0, <3>1 DEF Healthy, Entry
  <2>9. CASE (\E t \in Stream : DrainQueue(t)) \/ Drained \/ DrainTimeout
    BY <1>1, <2>9 DEF DrainQueue, Drained, DrainTimeout, Handling
  <2> QED
    BY <1>4, <2>1, <2>2, <2>3, <2>4, <2>5, <2>6, <2>7, <2>8, <2>9 DEF ReaderStep
<1> QED
  BY <1>0, <1>2, <1>3, <1>4, Steps

LEMMA ComingStep ==
  ASSUME Inv, [Next]_vars, NEW s \in Stream
  PROVE  Coming(s)'
<1> DEFINE Ahead == \A i \in 1 .. Len(wire') :
                      wire'[i].type = "data" /\ wire'[i].s = s => Taken(s)' < wire'[i].n
           NoneLost == \A k \in 1 .. Len(sent'[s]) :
                         Taken(s)' < k => \E i \in 1 .. Len(wire') : wire'[i] = sent'[s][k]
<1> SUFFICES ASSUME Healthy(s)', ~Over'
             PROVE  Ahead /\ NoneLost
  BY DEF Coming
<1>0. /\ Typed /\ Routed /\ Numbered /\ Sorted /\ Hands /\ Wires /\ Registry /\ Coming(s) /\ Holding(s)
      /\ wire \in Seq(Sendable) /\ sent[s] \in Seq(DataFrame) /\ ~Over /\ Len(wire) \in Nat
  <2>1. Typed /\ Routed /\ Numbered /\ Sorted /\ Hands /\ Wires /\ Registry /\ Coming(s) /\ Holding(s)
    BY DEF Inv, Hands, Pipeline
  <2>2. ~Over
    BY <2>1, FinalStays
  <2>3. wire \in Seq(Sendable) /\ sent[s] \in Seq(DataFrame)
    BY <2>1 DEF Typed
  <2> QED
    BY <2>1, <2>2, <2>3
<1>1. /\ Len(sent[s]) \in Nat /\ Base(s) \in Nat /\ Queued(s) \in Nat /\ Taken(s) \in Nat
      /\ Base(s) <= Queued(s) /\ Queued(s) <= Taken(s)
  BY <1>0, Sizes
<1>2. ASSUME Healthy(s)
      PROVE  /\ \A i \in 1 .. Len(wire) : wire[i].type = "data" /\ wire[i].s = s => Taken(s) < wire[i].n
             /\ \A k \in 1 .. Len(sent[s]) :
                  Taken(s) < k => \E i \in 1 .. Len(wire) : wire[i] = sent[s][k]
  BY <1>0, <1>2 DEF Coming
<1>3. ASSUME Healthy(s), UNCHANGED wire, sent'[s] = sent[s], Taken(s)' = Taken(s)
      PROVE  Ahead /\ NoneLost
  BY <1>2, <1>3
<1>4. CASE ReadFrame
  <2>1. Same(s) /\ UNCHANGED sent
    BY <1>4 DEF ReadFrame, readerOnly, client, maps, queues, state, Same
  <2>2. Healthy(s) /\ Queued(s)' = Queued(s)
    BY <2>1, SameSizes
  <2>3. /\ Taken(s) = Queued(s)
        /\ Head(wire).type = "data" /\ Head(wire).s = s => Head(wire).n = Queued(s) + 1
    BY <1>4, <2>2, NextFrame
  <2>4. /\ wire # << >> /\ wire' = Tail(wire) /\ reader'.frame = Head(wire) /\ Head(wire) \in Sendable
        /\ Head(wire).type = "data" => reader'.pc = "lookup"
    BY <1>0, <1>4, ReadFrameIs
  <2>5. /\ Head(wire) = wire[1] /\ 1 \in 1 .. Len(wire) /\ Len(wire') = Len(wire) - 1
        /\ \A i \in 1 .. Len(wire') : wire'[i] = wire[i + 1] /\ i + 1 \in 1 .. Len(wire)
    BY <1>0, <2>4
  <2>6. CASE wire[1].type = "data" /\ wire[1].s = s
    <3>1. InHand("data", s)' /\ wire[1].n = Queued(s) + 1
      BY <2>3, <2>4, <2>5, <2>6 DEF InHand, Handling
    <3>2. Taken(s)' = Queued(s) + 1
      BY <2>2, <3>1, BaseWillBe
    <3>3. Ahead
      <4> SUFFICES ASSUME NEW i \in 1 .. Len(wire'), wire'[i].type = "data", wire'[i].s = s
                   PROVE  Taken(s)' < wire'[i].n
        OBVIOUS
      <4>1. i + 1 \in 1 .. Len(wire) /\ 1 < i + 1 /\ wire'[i] = wire[i + 1]
        BY <2>5
      <4>2. InOrder(1, i + 1)
        BY <1>0, <2>5, <4>1 DEF Wires
      <4> QED
        BY <2>6, <3>1, <3>2, <4>1, <4>2 DEF InOrder
    <3>4. NoneLost
      <4> SUFFICES ASSUME NEW k \in 1 .. Len(sent[s]), Taken(s)' < k
                   PROVE  \E i \in 1 .. Len(wire') : wire'[i] = sent[s][k]
        BY <2>1
      <4>1. Taken(s) < k /\ Queued(s) + 1 < k
        BY <1>1, <2>3, <3>2
      <4>2. PICK i \in 1 .. Len(wire) : wire[i] = sent[s][k]
        BY <1>2, <2>2, <4>1
      <4>3. sent[s][k].n = k
        BY <1>0 DEF Numbered
      <4>4. i # 1
        BY <1>1, <3>1, <4>1, <4>2, <4>3
      <4>5. i - 1 \in 1 .. Len(wire') /\ (i - 1) + 1 = i
        BY <1>0, <2>5, <4>2, <4>4
      <4>6. wire'[i - 1] = wire[i]
        BY <2>5, <4>5
      <4> QED
        BY <4>2, <4>5, <4>6
    <3> QED
      BY <3>3, <3>4
  <2>7. CASE ~(wire[1].type = "data" /\ wire[1].s = s)
    <3>1. ~InHand("data", s)'
      BY <2>4, <2>5, <2>7 DEF InHand
    <3>2. Taken(s)' = Taken(s)
      BY <1>1, <2>2, <2>3, <3>1, BaseWillBe
    <3>3. Ahead
      BY <1>2, <2>2, <2>5, <3>2
    <3>4. NoneLost
      <4> SUFFICES ASSUME NEW k \in 1 .. Len(sent[s]), Taken(s)' < k
                   PROVE  \E i \in 1 .. Len(wire') : wire'[i] = sent[s][k]
        BY <2>1
      <4>2. PICK i \in 1 .. Len(wire) : wire[i] = sent[s][k]
        BY <1>2, <2>2, <3>2
      <4>3. sent[s][k].s = s /\ sent[s][k] \in DataFrame
        BY <1>0 DEF Numbered
      <4>4. i # 1
        BY <2>7, <4>2, <4>3 DEF DataFrame
      <4>5. i - 1 \in 1 .. Len(wire') /\ (i - 1) + 1 = i
        BY <1>0, <2>5, <4>2, <4>4
      <4>6. wire'[i - 1] = wire[i]
        BY <2>5, <4>5
      <4> QED
        BY <4>2, <4>5, <4>6
    <3> QED
      BY <3>3, <3>4
  <2> QED
    BY <2>6, <2>7
<1>5. CASE CloseConnection \/ \E t \in Stream : ClientStep(t)
  <2>1. /\ UNCHANGED server
        /\ Quiet \/ (\E t \in Stream : ~Final(t) /\ Puts(t)) \/ \E f \in Sendable : Ends(f)
    BY <1>0, <1>5, ClientIs
  <2>2. Healthy(s) /\ Taken(s)' = Taken(s)
    BY <2>1 DEF server, maps, queues, tasks, state, Healthy, Taken, Queued, Base, InHand
  <2>3. CASE Quiet
    BY <1>3, <2>2, <2>3 DEF Quiet
  <2>4. ASSUME NEW f, wire' = Append(wire, f), sent'[s] = sent[s], ~(f.type = "data" /\ f.s = s)
        PROVE  Ahead /\ NoneLost
    <3>1. /\ Len(wire') = Len(wire) + 1 /\ wire'[Len(wire) + 1] = f
          /\ \A i \in 1 .. Len(wire) : wire'[i] = wire[i] /\ i \in 1 .. Len(wire')
      BY <1>0, <2>4
    <3>2. Ahead
      <4> SUFFICES ASSUME NEW i \in 1 .. Len(wire'), wire'[i].type = "data", wire'[i].s = s
                   PROVE  Taken(s)' < wire'[i].n
        OBVIOUS
      <4>1. i \in 1 .. Len(wire)
        BY <1>0, <2>4, <3>1
      <4> QED
        BY <1>2, <2>2, <3>1, <4>1
    <3>3. NoneLost
      <4> SUFFICES ASSUME NEW k \in 1 .. Len(sent[s]), Taken(s) < k
                   PROVE  \E i \in 1 .. Len(wire') : wire'[i] = sent[s][k]
        BY <2>2, <2>4
      <4>1. PICK i \in 1 .. Len(wire) : wire[i] = sent[s][k]
        BY <1>2, <2>2
      <4> QED
        BY <3>1, <4>1
    <3> QED
      BY <3>2, <3>3
  <2>5. ASSUME NEW t \in Stream, ~Final(t), Puts(t)
        PROVE  Ahead /\ NoneLost
    <3>1. /\ sender[t] \in DataFrame /\ sender[t].s = t /\ sender[t].n = Len(sent[t]) + 1
          /\ wire' = Append(wire, sender[t]) /\ sent' = [sent EXCEPT ![t] = Append(@, sender[t])]
      BY <2>5 DEF Puts
    <3>2. CASE t # s
      BY <1>0, <2>4, <3>1, <3>2 DEF Typed
    <3>3. CASE t = s
      <4>1. /\ sent'[s] = Append(sent[s], sender[s])
        BY <1>0, <3>1, <3>3 DEF Typed
      <4>2. /\ Len(wire') = Len(wire) + 1 /\ wire'[Len(wire) + 1] = sender[s]
            /\ \A i \in 1 .. Len(wire) : wire'[i] = wire[i] /\ i \in 1 .. Len(wire')
        BY <1>0, <3>1, <3>3
      <4>3. /\ Len(sent'[s]) = Len(sent[s]) + 1 /\ sent'[s][Len(sent[s]) + 1] = sender[s]
            /\ \A k \in 1 .. Len(sent[s]) : sent'[s][k] = sent[s][k]
        BY <1>0, <3>1, <3>3, <4>1
      <4>4. Taken(s) <= Len(sent[s])
        BY <2>2, <2>5, <3>3, NotAhead
      <4>5. Ahead
        <5> SUFFICES ASSUME NEW i \in 1 .. Len(wire'), wire'[i].type = "data", wire'[i].s = s
                     PROVE  Taken(s)' < wire'[i].n
          OBVIOUS
        <5>1. CASE i \in 1 .. Len(wire)
          BY <1>2, <2>2, <4>2, <5>1
        <5>2. CASE i = Len(wire) + 1
          BY <1>1, <2>2, <3>1, <3>3, <4>2, <4>4, <5>2
        <5> QED
          BY <1>0, <4>2, <5>1, <5>2
      <4>6. NoneLost
        <5> SUFFICES ASSUME NEW k \in 1 .. Len(sent'[s]), Taken(s) < k
                     PROVE  \E i \in 1 .. Len(wire') : wire'[i] = sent'[s][k]
          BY <2>2
        <5>1. CASE k \in 1 .. Len(sent[s])
          <6>1. PICK i \in 1 .. Len(wire) : wire[i] = sent[s][k]
            BY <1>2, <2>2, <5>1
          <6> QED
            BY <4>2, <4>3, <5>1, <6>1
        <5>2. CASE k = Len(sent[s]) + 1
          <6>1. Len(wire) + 1 \in 1 .. Len(wire')
            BY <1>0, <4>2
          <6> QED
            BY <4>2, <4>3, <5>2, <6>1
        <5> QED
          BY <1>1, <4>3, <5>1, <5>2
      <4> QED
        BY <4>5, <4>6
    <3> QED
      BY <3>2, <3>3
  <2>6. ASSUME NEW f \in Sendable, Ends(f)
        PROVE  Ahead /\ NoneLost
    <3>1. wire' = Append(wire, f) /\ UNCHANGED sent /\ f.type # "data"
      BY <2>6, FrameTypes DEF Ends
    <3> QED
      BY <2>4, <3>1
  <2> QED
    BY <2>1, <2>3, <2>5, <2>6
<1>6. CASE (Proceeds \/ Elsewhere) /\ ~ReadFrame
  <2>0. UNCHANGED << wire, sent >> /\ (InHand("data", s)' => InHand("data", s))
    BY <1>6 DEF Proceeds, Elsewhere, client, InHand
  <2>1. ASSUME Healthy(s), Queued(s)' = Queued(s), ~QueueFrame
        PROVE  Ahead /\ NoneLost
    <3>1. InHand("data", s) <=> InHand("data", s)'
      BY <2>0, <2>1, DropsNothing
    <3>2. Taken(s)' = Taken(s)
      BY <2>1, <3>1, BaseIs, BaseWillBe
    <3> QED
      BY <1>3, <2>0, <2>1, <3>2
  <2>2. CASE QueueFrame
    <3>0. /\ reader.pc = "queue" /\ reader'.pc = "read" /\ reader.frame.s \in Stream
          /\ reader.frame.type = "data" \/ reader.frame.type = "fin"
          /\ incoming' = [incoming EXCEPT ![reader.frame.s] = Append(@, reader.frame)]
          /\ UNCHANGED << contexts, delivered, decode, registered >>
      BY <1>0, <2>2, ReadNextIs DEF QueueFrame, Routed, Handling, maps, state
    <3>1. ~InHand("data", s)'
      BY <3>0 DEF InHand, Handling
    <3>2. CASE reader.frame.s # s
      <4>1. Same(s)
        BY <3>0, <3>2, <1>0 DEF Same, Typed
      <4>2. Healthy(s) /\ Queued(s)' = Queued(s) /\ ~InHand("data", s)
        BY <3>2, <4>1, SameSizes DEF InHand
      <4>3. Taken(s)' = Taken(s)
        BY <3>1, <4>2, BaseIs, BaseWillBe
      <4> QED
        BY <1>3, <2>0, <4>2, <4>3
    <3>3. CASE reader.frame.s = s
      <4>1. Healthy(s) /\ Queued(s)' = Queued(s) + 1
        BY <3>0, <3>3, QueueLine
      <4>2. Taken(s)' = Queued(s) + 1
        BY <1>1, <3>1, <4>1, BaseWillBe
      <4>3. CASE reader.frame.type = "data"
        <5>1. InHand("data", s)
          BY <3>0, <3>3, <4>3 DEF InHand, Handling
        <5>2. Taken(s) = Queued(s) + 1
          BY <5>1, BaseIs
        <5> QED
          BY <1>3, <2>0, <4>1, <4>2, <5>2
      <4>4. CASE reader.frame.type = "fin"
        <5>1. InHand("fin", s)
          BY <3>0, <3>3, <4>4 DEF InHand, Handling
        <5>2. NoMore(s) /\ ~InHand("data", s)
          BY <1>0, <4>4, <5>1 DEF Hands, InHand
        <5>3. Taken(s) = Queued(s)
          BY <1>1, <5>2, BaseIs
        <5>4. Ahead
          BY <2>0, <5>2 DEF NoMore
        <5>5. NoneLost
          <6> SUFFICES ASSUME NEW k \in 1 .. Len(sent[s]), Taken(s)' < k
                       PROVE  \E i \in 1 .. Len(wire) : wire[i] = sent[s][k]
            BY <2>0
          <6>1. Taken(s) < k
            BY <1>1, <4>2, <5>3
          <6> QED
            BY <1>2, <4>1, <6>1
        <5> QED
          BY <5>4, <5>5
      <4> QED
        BY <3>0, <4>3, <4>4
    <3> QED
      BY <3>2, <3>3
  <2>3. CASE Same(s) /\ ~QueueFrame
    BY <2>1, <2>3, SameSizes
  <2>4. CASE MakeStream /\ reader.frame.s = s /\ ~QueueFrame
    BY <2>1, <2>4, MakeLine
  <2>5. CASE DrainQueue(s)
    BY <1>0, <2>5 DEF DrainQueue, Over
  <2>6. CASE DecodeStep(s) /\ ~QueueFrame
    <3>1. /\ Healthy(s)
          /\ \/ Queued(s)' = Queued(s)
             \/ Queued(s) = Queued(s)' + 1 /\ Len(sent[s]) <= Base(s) /\ Base(s) <= Queued(s)'
      BY <2>6, DecodeSizes
    <3>2. CASE Queued(s)' = Queued(s)
      BY <2>1, <2>6, <3>1, <3>2
    <3>3. CASE Queued(s) = Queued(s)' + 1 /\ Len(sent[s]) <= Base(s) /\ Base(s) <= Queued(s)'
      <4>0. Typed'
        BY <1>0, <2>6, TypedDecode
      <4>1. Queued(s)' \in Nat
        BY <4>0 DEF Typed, Queued, Base
      <4>2. Taken(s)' = Queued(s)' \/ Taken(s)' = Queued(s)' + 1
        BY <4>1, BaseWillBe
      <4>3. Taken(s)' \in Nat /\ Taken(s)' <= Taken(s) /\ Len(sent[s]) <= Taken(s)'
        BY <1>1, <3>3, <4>1, <4>2
      <4>4. Ahead
        <5> SUFFICES ASSUME NEW i \in 1 .. Len(wire), wire[i].type = "data", wire[i].s = s
                     PROVE  Taken(s)' < wire[i].n
          BY <2>0
        <5>1. Taken(s) < wire[i].n /\ wire[i] \in Sendable
          BY <1>0, <1>2, <3>1
        <5>2. wire[i].n \in Nat
          BY <5>1 DEF Sendable, Frame
        <5> QED
          BY <1>1, <4>3, <5>1, <5>2
      <4>5. NoneLost
        <5> SUFFICES ASSUME NEW k \in 1 .. Len(sent[s]), Taken(s)' < k
                     PROVE  FALSE
          BY <2>0
        <5> QED
          BY <1>1, <4>3
      <4> QED
        BY <4>4, <4>5
    <3> QED
      BY <3>1, <3>2, <3>3
  <2> QED
    BY <1>0, <2>2, <2>3, <2>4, <2>5, <2>6, SameOrNot
<1> QED
  BY <1>0, <1>4, <1>5, <1>6, Steps

\* The FIN that a decode task has taken is the last frame of its stream.
LEMMA FinWasLast == Inv => FinIsLast
<1> SUFFICES ASSUME Inv, NEW s \in Stream, s \in contexts, decode[s].pc = "release", ~Over
             PROVE  NoMore(s)
  BY DEF FinIsLast
<1>0. Typed /\ Waiting(s) /\ Holding(s) /\ Coming(s) /\ Hands /\ Wires /\ Healthy(s)
  BY DEF Inv, Pipeline, Healthy
<1>1. /\ Len(sent[s]) \in Nat /\ Base(s) \in Nat /\ Queued(s) \in Nat /\ Taken(s) \in Nat
      /\ Base(s) <= Queued(s) /\ Queued(s) <= Taken(s)
  BY <1>0, Sizes
<1>2. Len(sent[s]) <= Base(s) /\ Final(s)
  BY <1>0 DEF Waiting
<1>3. ASSUME InHand("data", s) PROVE FALSE
  <2>1. reader.frame.n = Queued(s) + 1 /\ OfSent(reader.frame, sent) /\ reader.frame.s = s
    BY <1>0, <1>3 DEF Holding, Hands, InHand
  <2>2. Queued(s) + 1 <= Len(sent[s])
    BY <1>1, <2>1 DEF OfSent
  <2> QED
    BY <1>1, <1>2, <2>2
<1>4. ASSUME NEW i \in 1 .. Len(wire), wire[i].type = "data", wire[i].s = s PROVE FALSE
  <2>1. Taken(s) < wire[i].n
    BY <1>0, <1>4 DEF Coming
  <2>2. OfSent(wire[i], sent)
    BY <1>0, <1>4, FrameTypes DEF Wires, OnWire
  <2>3. wire[i].n \in 1 .. Len(sent[s])
    BY <1>4, <2>2 DEF OfSent
  <2> QED
    BY <1>1, <1>2, <2>1, <2>3
<1> QED
  BY <1>2, <1>3, <1>4 DEF NoMore

LEMMA OnlyFinEnds ==
  ASSUME [Next]_vars, Typed, Routed, Sorted, NEW s \in Stream, s \in ended'
  PROVE  s \in ended \/ (DecodeFin(s) /\ s \in contexts)
<1> USE DEF client, maps, queues, tasks, state
<1>1. CASE (CloseConnection \/ \E t \in Stream : ClientStep(t)) \/ UNCHANGED vars
  BY <1>1, TypedClient DEF vars, server
<1>2. CASE \/ MarkClosed \/ CloseAllStreams
           \/ \E t \in Stream : AppClose(t) \/ AppTake(t) \/ AppStep(t)
  BY <1>2 DEF MarkClosed, CloseAllStreams, AppClose, AppTake, AppStep, AppReserve, AppRemove
<1>3. CASE ReaderStep \/ DrainTimeout
  BY <1>3, TypedReader
<1>4. ASSUME NEW t \in Stream, DecodeStep(t) PROVE s \in ended \/ (DecodeFin(s) /\ s \in contexts)
  <2>1. CASE DecodeFin(t)
    BY <2>1 DEF DecodeFin
  <2>2. CASE ~DecodeFin(t)
    BY <1>4, <2>2 DEF DecodeStep, DecodeTake, DecodeStop, Dispatch, DecodeError, DecodeReserve,
                      DecodeRemove, decodeOnly
  <2> QED
    BY <2>1, <2>2
<1> QED
  BY <1>1, <1>2, <1>3, <1>4 DEF Next

LEMMA PrefixStep ==
  ASSUME Inv, [Next]_vars
  PROVE  Prefix'
<1> SUFFICES ASSUME NEW s \in Stream
             PROVE  /\ Len(delivered'[s]) <= Len(sent'[s])
                    /\ \A i \in 1 .. Len(delivered'[s]) : delivered'[s][i] = sent'[s][i]
                    /\ s \in ended' => delivered'[s] = sent'[s] /\ Final(s)' /\ decode'[s].pc = "ended"
  BY DEF Prefix
<1>0. /\ Typed /\ Routed /\ Numbered /\ Sorted /\ LookedUp /\ Entry(s) /\ Waiting(s)
      /\ decode \in [Stream -> DecodeSet] /\ delivered \in [Stream -> Seq(Frame)]
      /\ sent[s] \in Seq(DataFrame)
  BY DEF Inv, Hands, Registry, Pipeline, Typed
<1>1. /\ Len(delivered[s]) <= Len(sent[s]) /\ Len(delivered[s]) \in Nat /\ Len(sent[s]) \in Nat
      /\ \A i \in 1 .. Len(delivered[s]) : delivered[s][i] = sent[s][i]
      /\ s \in ended => delivered[s] = sent[s] /\ Final(s) /\ decode[s].pc = "ended"
  BY <1>0, Sizes DEF Inv, Prefix
<1>2. /\ Len(sent'[s]) \in Nat /\ Len(sent[s]) <= Len(sent'[s])
      /\ \A k \in 1 .. Len(sent[s]) : sent'[s][k] = sent[s][k]
      /\ Final(s) => sent'[s] = sent[s] /\ Final(s)'
  BY <1>0, SentStays, FinalStays
<1>3. ASSUME delivered'[s] = delivered[s]
      PROVE  /\ Len(delivered'[s]) <= Len(sent'[s])
             /\ \A i \in 1 .. Len(delivered'[s]) : delivered'[s][i] = sent'[s][i]
  BY <1>1, <1>2, <1>3
<1>4. ASSUME delivered'[s] = delivered[s], s \notin ended' \/ (s \in ended /\ decode'[s].pc = "ended")
      PROVE  /\ Len(delivered'[s]) <= Len(sent'[s])
             /\ \A i \in 1 .. Len(delivered'[s]) : delivered'[s][i] = sent'[s][i]
             /\ s \in ended' => delivered'[s] = sent'[s] /\ Final(s)' /\ decode'[s].pc = "ended"
  BY <1>1, <1>2, <1>3, <1>4
<1>5. CASE DecodeStep(s)
  <2>1. s \notin ended
    BY <1>1, <1>5 DEF DecodeStep, DecodeTake, DecodeStop, Dispatch, DecodeFin, DecodeError, DecodeReserve,
                      DecodeRemove
  <2>2. CASE Dispatch(s)
    <3>1. /\ decode[s].pc = "dispatch" /\ UNCHANGED << ended, sent >>
          /\ \/ delivered' = delivered
             \/ ~closed[s] /\ delivered' = [delivered EXCEPT ![s] = Append(@, decode[s].frame)]
      BY <2>2 DEF Dispatch, InboxRefuses, client, state
    <3>2. CASE delivered' = delivered
      BY <1>4, <2>1, <3>1, <3>2
    <3>3. CASE ~closed[s] /\ delivered' = [delivered EXCEPT ![s] = Append(@, decode[s].frame)]
      <4>1. Healthy(s)
        BY <1>0, <3>1, <3>3 DEF Healthy, Entry, Decoding
      <4>2. /\ Base(s) <= Len(sent[s]) /\ decode[s].frame = sent[s][Base(s)]
            /\ Base(s) = Len(delivered[s]) + 1
        BY <1>0, <3>1, <4>1, BaseIs DEF Waiting
      <4>3. delivered'[s] = Append(delivered[s], decode[s].frame) /\ delivered[s] \in Seq(Frame)
        BY <1>0, <3>3
      <4>4. /\ Len(delivered'[s]) = Len(delivered[s]) + 1
            /\ delivered'[s][Len(delivered[s]) + 1] = decode[s].frame
            /\ \A i \in 1 .. Len(delivered[s]) : delivered'[s][i] = delivered[s][i]
        BY <4>3
      <4>5. Len(delivered'[s]) <= Len(sent'[s])
        BY <3>1, <4>2, <4>4
      <4>6. ASSUME NEW i \in 1 .. Len(delivered'[s]) PROVE delivered'[s][i] = sent'[s][i]
        <5>1. i \in 1 .. Len(delivered[s]) \/ i = Len(delivered[s]) + 1
          BY <1>1, <4>4
        <5> QED
          BY <1>1, <3>1, <4>2, <4>4, <5>1
      <4> QED
        BY <2>1, <3>1, <4>5, <4>6
    <3> QED
      BY <3>1, <3>2, <3>3
  <2>3. CASE DecodeFin(s) /\ s \in contexts
    <3>1. /\ UNCHANGED << delivered, sent >> /\ decode[s].pc = "release"
          /\ decode' = [decode EXCEPT ![s] = [pc |-> "ended", frame |-> None]]
      BY <2>3 DEF DecodeFin, DecodeEnds, client
    <3>2. Healthy(s) /\ decode'[s].pc = "ended"
      BY <1>0, <2>3, <3>1 DEF Healthy
    <3>3. Len(sent[s]) <= Base(s) /\ Final(s) /\ Base(s) = Len(delivered[s])
      BY <1>0, <1>1, <3>1, <3>2, BaseIs DEF Waiting
    <3>4. Len(sent[s]) = Len(delivered[s]) /\ delivered[s] \in Seq(Frame)
      BY <1>0, <1>1, <3>3
    <3>5. delivered[s] = sent[s]
      <4>1. sent[s] \in Seq(Frame)
        <5>1. DataFrame \subseteq Frame
          BY FrameTypes
        <5> QED
          BY <1>0, <5>1
      <4> QED
        BY <1>1, <3>4, <4>1, SeqEqual
    <3> QED
      BY <1>1, <1>2, <3>1, <3>2, <3>3, <3>5
  <2>4. CASE ~Dispatch(s) /\ ~(DecodeFin(s) /\ s \in contexts)
    <3>1. delivered'[s] = delivered[s]
      BY <1>5, <2>4 DEF DecodeStep, DecodeTake, DecodeStop, DecodeFin, DecodeError, DecodeReserve,
                        DecodeRemove, decodeOnly, queues
    <3>2. s \notin ended'
      BY <1>0, <2>1, <2>4, OnlyFinEnds
    <3> QED
      BY <1>4, <3>1, <3>2
  <2> QED
    BY <2>2, <2>3, <2>4
<1>6. ASSUME ~DecodeStep(s)
      PROVE  s \in ended' => s \in ended
  BY <1>0, <1>6, OnlyFinEnds DEF DecodeStep
<1>7. CASE Same(s) /\ ~DecodeStep(s)
  BY <1>1, <1>4, <1>6, <1>7 DEF Same
<1>8. CASE MakeStream /\ reader.frame.s = s /\ ~DecodeStep(s)
  <2>1. UNCHANGED delivered /\ reader.pc = "make"
    BY <1>8 DEF MakeStream, queues
  <2>2. CASE MayRegister(s)
    <3>1. s \notin ended
      BY <1>0, <1>8, <2>1, <2>2 DEF LookedUp, MayRegister, Entry, Unused
    <3> QED
      BY <1>4, <1>6, <1>8, <2>1, <3>1
  <2>3. CASE ~MayRegister(s)
    <3>1. UNCHANGED decode
      BY <1>8, <2>3 DEF MakeStream
    <3> QED
      BY <1>1, <1>4, <1>6, <1>8, <2>1, <3>1
  <2> QED
    BY <2>2, <2>3
<1>9. CASE (QueueFrame \/ DrainQueue(s)) /\ ~DecodeStep(s)
  <2>1. UNCHANGED << delivered, decode >>
    BY <1>9 DEF QueueFrame, DrainQueue
  <2> QED
    BY <1>1, <1>4, <1>6, <1>9, <2>1
<1> QED
  BY <1>0, <1>5, <1>7, <1>8, <1>9, SameOrNot

\* Who releases a stream, and that what is done stays done.
LEMMA Leaves ==
  ASSUME Typed, Routed, Sorted, [Next]_vars, NEW s \in Stream
  PROVE  /\ s \in contexts /\ s \notin contexts' =>
              CloseAllStreams \/ AppRemove(s) \/ DecodeFin(s) \/ DecodeRemove(s)
         /\ s \in ended => s \in ended'
         /\ closer[s] = "done" => closer'[s] = "done"
<1> USE DEF client, maps, queues, tasks, state
<1>0. closer \in [Stream -> {"idle", "reserve", "remove", "done"}]
  BY DEF Typed
<1>1. CASE (CloseConnection \/ \E t \in Stream : ClientStep(t)) \/ UNCHANGED vars
  BY <1>1, TypedClient DEF vars, server
<1>2. CASE MarkClosed \/ CloseAllStreams
  BY <1>2 DEF MarkClosed, CloseAllStreams
<1>3. ASSUME NEW t \in Stream, AppClose(t) \/ AppTake(t) \/ AppStep(t)
      PROVE  /\ s \in contexts /\ s \notin contexts' =>
                  CloseAllStreams \/ AppRemove(s) \/ DecodeFin(s) \/ DecodeRemove(s)
             /\ s \in ended => s \in ended'
             /\ closer[s] = "done" => closer'[s] = "done"
  <2>1. CASE AppRemove(t)
    <3>1. \/ contexts' = contexts \/ contexts' = contexts \ {t}
      BY <2>1 DEF AppRemove, RemoveStream
    <3> QED
      BY <1>0, <2>1, <3>1 DEF AppRemove
  <2>2. CASE ~AppRemove(t)
    BY <1>0, <1>3, <2>2 DEF AppClose, AppTake, AppStep, AppReserve
  <2> QED
    BY <2>1, <2>2
<1>4. CASE ReaderStep \/ DrainTimeout
  <2>1. UNCHANGED << closer, ended >>
    BY <1>4, TypedReader
  <2>2. contexts \subseteq contexts'
    BY <1>4 DEF ReaderStep, DrainTimeout, ReadFrame, ReaderAborted, FinUnreserve, FinLookup, Lookup,
                CheckReserved, MakeStream, Announce, QueueFrame, QueueFails, DrainQueue, Drained, readerOnly
  <2> QED
    BY <2>1, <2>2
<1>5. ASSUME NEW t \in Stream, DecodeStep(t)
      PROVE  /\ s \in contexts /\ s \notin contexts' =>
                  CloseAllStreams \/ AppRemove(s) \/ DecodeFin(s) \/ DecodeRemove(s)
             /\ s \in ended => s \in ended'
             /\ closer[s] = "done" => closer'[s] = "done"
  <2>1. CASE DecodeFin(t) \/ DecodeRemove(t)
    <3>1. \/ contexts' = contexts \/ contexts' = contexts \ {t}
      BY <2>1 DEF DecodeFin, DecodeRemove, RemoveStream
    <3>2. ended \subseteq ended' /\ UNCHANGED closer
      BY <2>1 DEF DecodeFin, DecodeRemove
    <3> QED
      BY <2>1, <3>1, <3>2
  <2>2. CASE ~(DecodeFin(t) \/ DecodeRemove(t))
    BY <1>5, <2>2 DEF DecodeStep, DecodeTake, DecodeStop, Dispatch, DecodeError, DecodeReserve, decodeOnly
  <2> QED
    BY <2>1, <2>2
<1> QED
  BY <1>1, <1>2, <1>3, <1>4, <1>5 DEF Next

LEMMA HasBadStays ==
  ASSUME Inv, [Next]_vars, NEW s \in Stream, HasBad(s)
  PROVE  HasBad(s)'
<1>0. Typed /\ Routed /\ Numbered /\ Sorted
  BY DEF Inv, Hands
<1>1. PICK i \in 1 .. Len(sent[s]) : sent[s][i].kind = "bad"
  BY DEF HasBad
<1>2. /\ Len(sent[s]) \in Nat /\ Len(sent'[s]) \in Nat /\ Len(sent[s]) <= Len(sent'[s])
      /\ sent'[s][i] = sent[s][i]
  BY <1>0, <1>1, SentStays
<1>3. i \in 1 .. Len(sent'[s])
  BY <1>1, <1>2
<1> QED
  BY <1>1, <1>2, <1>3 DEF HasBad

\* When the reader ends of itself, every stream is released and none is missing.
LEMMA EndsWhenDrained ==
  ASSUME Inv, [Next]_vars, reader'.pc = "ended", ~reader'.aborted
  PROVE  /\ closing' /\ contexts' = {}
         /\ \A s \in Stream : registered'[s] = 0 => sent'[s] = << >>
<1>0. /\ Typed /\ Routed /\ Numbered /\ Sorted /\ LookedUp /\ Closes /\ Draining /\ Registry /\ Pipeline
      /\ sent \in [Stream -> Seq(DataFrame)]
  BY DEF Inv, Hands, Typed
<1>1. ~reader.aborted /\ (closing => closing' /\ sent' = sent)
  <2>1. ~reader.aborted /\ (closing => closing')
    BY <1>0, FinalStays
  <2>2. CASE \E s \in Stream : TRUE
    BY <1>0, <2>1, <2>2, SentStays
  <2>3. CASE ~\E s \in Stream : TRUE
    <3>1. CASE CloseConnection
      BY <2>1, <3>1 DEF CloseConnection
    <3>2. CASE ReadFrame \/ Proceeds \/ Elsewhere
      BY <2>1, <3>2 DEF ReadFrame, Proceeds, Elsewhere, readerOnly, client
    <3> QED
      BY <1>0, <2>3, <3>1, <3>2, Steps
  <2> QED
    BY <2>2, <2>3
<1>2. ASSUME reader.pc = "ended", ~MakeStream
      PROVE  /\ closing' /\ contexts' = {}
             /\ \A s \in Stream : registered'[s] = 0 => sent'[s] = << >>
  <2>1. closing /\ contexts = {} /\ \A s \in Stream : registered[s] = 0 => sent[s] = << >>
    BY <1>0, <1>1, <1>2 DEF Draining
  <2>2. contexts' \subseteq contexts /\ UNCHANGED registered
    BY <1>0, <1>2, OnlyMakeRegisters
  <2> QED
    BY <1>1, <2>1, <2>2
<1>3. CASE CloseConnection \/ \E t \in Stream : ClientStep(t)
  <2>1. UNCHANGED << reader, contexts, registered >>
    BY <1>0, <1>3, ClientIs DEF server, tasks, maps, state
  <2>2. closing /\ contexts = {} /\ \A s \in Stream : registered[s] = 0 => sent[s] = << >>
    BY <1>0, <1>1, <2>1 DEF Draining
  <2> QED
    BY <1>1, <2>1, <2>2
<1>4. CASE Elsewhere
  <2>1. reader.pc = "ended"
    BY <1>4 DEF Elsewhere
  <2> QED
    BY <1>2, <2>1 DEF MakeStream
<1>5. CASE ReaderStep \/ DrainTimeout
  <2>1. CASE ReadFrame
    <3>1. reader'.pc # "ended"
      BY <1>0, <2>1, ReadFrameIs DEF Sendable
    <3> QED
      BY <3>1
  <2>2. CASE ReaderAborted
    BY <1>1, <2>2 DEF ReaderAborted
  <2>3. CASE FinUnreserve \/ FinLookup \/ Lookup \/ CheckReserved \/ Announce \/ QueueFrame \/ DrainTimeout
    <3>1. GoTo("fin") \/ GoTo("queue") \/ GoTo("reserved") \/ GoTo("make") \/ GoTo("timeout") \/ ReadNext
      BY <2>3 DEF FinUnreserve, FinLookup, Lookup, CheckReserved, Announce, QueueFrame, DrainTimeout
    <3>2. reader'.pc # "ended"
      BY <1>0, <3>1, GoToIs, ReadNextIs
    <3> QED
      BY <3>2
  <2>4. CASE MakeStream
    <3>1. GoTo("ended") /\ ~MayRegister(reader.frame.s) /\ reader.pc = "make"
      BY <1>0, <2>4, GoToIs DEF MakeStream
    <3>2. conn # "open"
      BY <1>0, <3>1 DEF MayRegister, LookedUp
    <3> QED
      BY <1>0, <1>1, <3>1, <3>2 DEF Closes
  <2>5. CASE QueueFails
    <3>1. conn # "open" /\ reader.pc = "queue"
      BY <1>0, <2>5, ReadNextIs DEF QueueFails
    <3> QED
      BY <1>0, <1>1, <3>1 DEF Closes
  <2>6. ASSUME NEW s \in Stream, DrainQueue(s) PROVE FALSE
    BY <1>0, <2>6 DEF DrainQueue, Typed, ReaderSet
  <2>7. CASE Drained
    <3>1. reader.pc = "drain" /\ contexts = {} /\ UNCHANGED << contexts, registered, sent >>
      BY <2>7 DEF Drained, StreamsDone, maps, client
    <3>2. closing
      BY <1>0, <3>1 DEF Draining
    <3>3. ASSUME NEW s \in Stream, registered[s] = 0 PROVE sent[s] = << >>
      <4>1. Healthy(s) /\ Unused(s) /\ Holding(s)
        BY <1>0, <3>3 DEF Healthy, Registry, Entry, Pipeline
      <4>2. Len(sent[s]) <= Queued(s)
        BY <3>1, <3>3, <4>1 DEF Holding
      <4>3. Queued(s) = 0 + 0 + 0
        <5>1. /\ decode[s].pc # "dispatch" /\ Len(delivered[s]) = 0 /\ Len(incoming[s]) = 0
          BY <4>1 DEF Unused
        <5> QED
          BY <5>1, BaseIs
      <4>4. Len(sent[s]) = 0 /\ sent[s] \in Seq(DataFrame)
        BY <1>0, <4>2, <4>3
      <4> QED
        BY <4>4
    <3> QED
      BY <1>1, <3>1, <3>2, <3>3
  <2> QED
    BY <1>5, <2>1, <2>2, <2>3, <2>4, <2>5, <2>6, <2>7 DEF ReaderStep
<1> QED
  BY <1>0, <1>3, <1>4, <1>5, Steps

\* A decode task in error has met a message that cannot be decoded.
LEMMA ErrorsAreBad ==
  ASSUME Inv, [Next]_vars, NEW s \in Stream, s \in contexts',
         decode'[s].pc \in {"error", "reserve", "remove"}
  PROVE  HasBad(s)'
<1>0. /\ Typed /\ Routed /\ Numbered /\ Sorted /\ Draining /\ Entry(s) /\ Waiting(s)
      /\ decode \in [Stream -> DecodeSet] /\ sent[s] \in Seq(DataFrame) /\ incoming[s] \in Seq(Sendable)
  BY DEF Inv, Hands, Registry, Pipeline, Typed
<1>1. ASSUME s \in contexts, decode[s].pc \in {"error", "reserve", "remove"} PROVE HasBad(s)'
  BY <1>0, <1>1, HasBadStays DEF Draining
<1>2. CASE Same(s)
  BY <1>1, <1>2 DEF Same
<1>3. CASE QueueFrame \/ DrainQueue(s)
  BY <1>1, <1>3 DEF QueueFrame, DrainQueue, maps
<1>4. CASE MakeStream /\ reader.frame.s = s
  <2>1. CASE MayRegister(s)
    <3>1. decode' = [decode EXCEPT ![s].pc = "run"]
      BY <1>4, <2>1 DEF MakeStream
    <3>2. decode'[s].pc = "run"
      BY <1>0, <3>1 DEF DecodeSet
    <3> QED
      BY <3>2
  <2>2. CASE ~MayRegister(s)
    BY <1>1, <1>4, <2>2 DEF MakeStream
  <2> QED
    BY <2>1, <2>2
<1>5. CASE DecodeStep(s)
  <2>0. contexts' \subseteq contexts /\ s \in contexts
    BY <1>5 DEF DecodeStep, DecodeTake, DecodeStop, Dispatch, DecodeFin, DecodeError, DecodeReserve,
                DecodeRemove, RemoveStream, decodeOnly, maps
  <2>1. CASE DecodeTake(s)
    <3> DEFINE x == Head(incoming[s])
    <3>1. incoming[s] # << >> /\ decode[s].pc = "run" /\ x \in Sendable
      BY <1>0, <2>1, DecodeTakeIs
    <3>2. PICK pc \in {"release", "error", "dispatch"} :
                 /\ decode' = [decode EXCEPT ![s] = [pc |-> pc, frame |-> x]]
                 /\ pc = "release" <=> x.type = "fin"
                 /\ pc = "error" => x.kind = "bad"
      BY <1>0, <2>1, DecodeTakeIs
    <3>3. x = incoming[s][1] /\ 1 \in 1 .. Len(incoming[s])
      BY <1>0, <3>1
    <3> HIDE DEF x
    <3>4. decode'[s].pc = pc
      BY <1>0, <3>2
    <3>5. x.type # "fin" /\ x.kind = "bad"
      BY <3>2, <3>4
    <3>6. Waits(s, 1)
      BY <1>0, <2>0, <3>1, <3>3 DEF Waiting, Healthy
    <3>7. Base(s) + 1 <= Len(sent[s]) /\ x = sent[s][Base(s) + 1]
      BY <3>3, <3>5, <3>6 DEF Waits
    <3>8. Base(s) + 1 \in 1 .. Len(sent[s])
      BY <1>0, <3>7, Sizes
    <3>9. HasBad(s)
      BY <3>5, <3>7, <3>8 DEF HasBad
    <3> QED
      BY <3>9, HasBadStays
  <2>2. CASE DecodeError(s) \/ DecodeReserve(s)
    BY <1>1, <2>0, <2>2 DEF DecodeError, DecodeReserve
  <2>3. CASE Dispatch(s)
    <3>1. decode' = [decode EXCEPT ![s] = [pc |-> "run", frame |-> None]]
      BY <2>3 DEF Dispatch
    <3>2. decode'[s].pc = "run"
      BY <1>0, <3>1
    <3> QED
      BY <3>2
  <2>4. CASE DecodeStop(s) \/ DecodeFin(s) \/ DecodeRemove(s)
    <3>1. decode' = [decode EXCEPT ![s] = [pc |-> "ended", frame |-> None]]
      BY <2>4 DEF DecodeStop, DecodeFin, DecodeRemove, DecodeEnds
    <3>2. decode'[s].pc = "ended"
      BY <1>0, <3>1
    <3> QED
      BY <3>2
  <2> QED
    BY <1>5, <2>1, <2>2, <2>3, <2>4 DEF DecodeStep
<1> QED
  BY <1>0, <1>2, <1>3, <1>4, <1>5, SameOrNot

LEMMA DrainingStep ==
  ASSUME Inv, [Next]_vars
  PROVE  Draining'
<1>0. /\ Typed /\ Routed /\ Numbered /\ Sorted /\ Wires /\ LookedUp /\ Closes /\ Draining /\ Registry
      /\ wire \in Seq(Sendable) /\ registered \in [Stream -> Nat]
      /\ closer \in [Stream -> {"idle", "reserve", "remove", "done"}]
  BY DEF Inv, Hands, Typed
<1>1. ASSUME reader'.pc = "drain" PROVE closing'
  <2>1. closing => closing'
    BY <1>0, FinalStays
  <2>2. CASE ReadFrame
    <3>1. /\ wire # << >> /\ Head(wire) \in Sendable /\ UNCHANGED closing
          /\ Head(wire).type = "data" => reader'.pc = "lookup"
          /\ Head(wire).type = "fin" => reader'.pc = "unreserve"
      BY <1>0, <2>2, ReadFrameIs DEF ReadFrame, readerOnly, client
    <3>2. Head(wire).type = "eof" /\ Head(wire) = wire[1] /\ 1 \in 1 .. Len(wire)
      BY <1>0, <1>1, <3>1 DEF Sendable
    <3>3. OnWire(1)
      BY <1>0, <3>2 DEF Wires
    <3> QED
      BY <3>1, <3>2, <3>3 DEF OnWire
  <2>3. CASE CloseConnection \/ \E t \in Stream : ClientStep(t)
    BY <1>0, <1>1, <2>1, <2>3, ClientIs DEF server, tasks, Draining
  <2>4. CASE Proceeds \/ Elsewhere
    BY <1>0, <1>1, <2>1, <2>4 DEF Proceeds, Elsewhere, Draining
  <2> QED
    BY <1>0, <2>2, <2>3, <2>4, Steps
<1>2. ASSUME NEW s \in Stream, registered'[s] = 1, s \notin contexts'
      PROVE  \/ s \in ended' \/ closer'[s] = "done" \/ HasBad(s)'
             \/ reader'.aborted \/ reader'.pc = "timeout"
  <2>1. CASE s \notin contexts /\ registered[s] = 1
    <3>1. \/ s \in ended \/ closer[s] = "done" \/ HasBad(s)
          \/ reader.aborted \/ reader.pc = "timeout"
      BY <1>0, <2>1 DEF Draining
    <3>2. (reader.aborted => reader'.aborted) /\ (reader.pc = "timeout" => reader'.pc = "timeout")
      BY <1>0, FinalStays
    <3>3. (s \in ended => s \in ended') /\ (closer[s] = "done" => closer'[s] = "done")
      BY <1>0, Leaves
    <3> QED
      BY <3>1, <3>2, <3>3, HasBadStays
  <2>2. CASE s \notin contexts /\ registered[s] # 1
    <3>1. MakeStream
      BY <1>0, <1>2, <2>2, OnlyMakeRegisters
    <3>2. /\ registered' = [registered EXCEPT ![reader.frame.s] = @ + 1]
          /\ contexts' = contexts \cup {reader.frame.s}
      BY <1>2, <2>2, <3>1 DEF MakeStream
    <3> QED
      BY <1>0, <1>2, <2>2, <3>2
  <2>3. CASE s \in contexts
    <3>1. CloseAllStreams \/ AppRemove(s) \/ DecodeFin(s) \/ DecodeRemove(s)
      BY <1>0, <1>2, <2>3, Leaves
    <3>2. CASE CloseAllStreams
      <4>1. conn = "closed" /\ UNCHANGED reader
        BY <3>2 DEF CloseAllStreams, tasks
      <4>2. reader.aborted \/ reader.pc \in {"ended", "timeout"}
        BY <1>0, <4>1 DEF Closes
      <4>3. ~(reader.pc = "ended" /\ ~reader.aborted)
        BY <1>0, <2>3 DEF Draining
      <4> QED
        BY <4>1, <4>2, <4>3
    <3>3. CASE AppRemove(s)
      BY <1>0, <3>3 DEF AppRemove
    <3>4. CASE DecodeFin(s)
      BY <2>3, <3>4 DEF DecodeFin
    <3>5. CASE DecodeRemove(s)
      BY <1>0, <2>3, <3>5, HasBadStays DEF DecodeRemove, Draining
    <3> QED
      BY <3>1, <3>2, <3>3, <3>4, <3>5
  <2> QED
    BY <2>1, <2>2, <2>3
<1> QED
  BY <1>1, <1>2, EndsWhenDrained, ErrorsAreBad DEF Draining

-----------------------------------------------------------------------------
(* The theorems.                                                           *)

LEMMA InvInit == Init => Inv
<1> SUFFICES ASSUME Init PROVE Inv
  OBVIOUS
<1>1. Typed /\ Routed
  BY TypedInit
<1>2. /\ reader.pc = "read" /\ ~reader.aborted /\ wire = << >> /\ contexts = {} /\ conn = "open"
      /\ closed_peer_streams = {} /\ on_new = {} /\ ended = {} /\ ~default_stream
  BY DEF Init
<1>3. ASSUME NEW s \in Stream
      PROVE  /\ sender[s] = None /\ sent[s] = << >> /\ incoming[s] = << >> /\ delivered[s] = << >>
             /\ decode[s].pc = "none" /\ closer[s] = "idle" /\ ~closed[s] /\ registered[s] = 0
             /\ on_close[s] = 0 /\ opener[s] # "fin"
  BY DEF Init
<1>4. Numbered
  BY <1>3 DEF Numbered
<1>5. Wires /\ Hands
  BY <1>2 DEF Wires, Hands, Sorted, InHand, Handling
<1>6. Registry /\ LookedUp /\ Closes /\ Gone
  BY <1>2, <1>3 DEF Registry, Entry, Unused, Decoding, LookedUp, Closes, Gone
<1>7. Prefix /\ Draining
  BY <1>2, <1>3 DEF Prefix, Draining
<1>8. ASSUME NEW s \in Stream PROVE Waiting(s) /\ Holding(s) /\ Coming(s)
  BY <1>2, <1>3 DEF Waiting, Holding, Coming, InHand, Handling
<1> QED
  BY <1>1, <1>4, <1>5, <1>6, <1>7, <1>8 DEF Inv, Pipeline

LEMMA InvStep == Inv /\ [Next]_vars => Inv'
<1> SUFFICES ASSUME Inv, [Next]_vars PROVE Inv'
  OBVIOUS
<1>1. /\ Typed /\ Routed /\ Numbered /\ Wires /\ Hands /\ Sorted
      /\ Registry /\ LookedUp /\ Closes /\ Gone
  BY DEF Inv, Hands
<1>2. Typed' /\ Routed'
  BY <1>1, TypedStep
<1>3. Numbered' /\ Wires' /\ Hands'
  BY <1>1, HandsStep
<1>4. Registry' /\ LookedUp' /\ Closes'
  BY <1>1, RegistryStep, LookedUpStep, ClosesStep
<1>5. Gone'
  BY <1>1, GoneStep, FinWasLast
<1>6. Pipeline'
  BY WaitingStep, HoldingStep, ComingStep DEF Pipeline
<1>7. Prefix' /\ Draining'
  BY PrefixStep, DrainingStep
<1> QED
  BY <1>2, <1>3, <1>4, <1>5, <1>6, <1>7 DEF Inv

LEMMA InvAlways == Spec => []Inv
  BY InvInit, InvStep, PTL DEF Spec

\* Types; and on_close_stream runs once at most for a stream, whoever releases
\* it: the application, the FIN, an error or the end of the connection.
THEOREM StreamTypes == Spec => []TypeOK
<1>1. Inv => TypeOK
  <2> SUFFICES ASSUME Inv PROVE TypeOK
    OBVIOUS
  <2>1. Typed /\ Registry
    BY DEF Inv
  <2>2. Sendable \subseteq Frame /\ DataFrame \subseteq Frame /\ None \in Frame
    BY FrameTypes
  <2>3. sender \in [Stream -> Frame]
    BY <2>1, <2>2 DEF Typed
  <2>4. wire \in Seq(Frame)
    BY <2>1, <2>2 DEF Typed
  <2>5. incoming \in [Stream -> Seq(Frame)]
    <3>1. Seq(Sendable) \subseteq Seq(Frame)
      BY <2>2
    <3> QED
      BY <2>1, <3>1 DEF Typed
  <2>6. on_close \in [Stream -> 0 .. 1]
    <3>1. on_close \in [Stream -> Nat] /\ \A s \in Stream : on_close[s] <= 1
      BY <2>1 DEF Typed, Registry, Entry
    <3>2. \A s \in Stream : on_close[s] \in 0 .. 1
      BY <3>1
    <3> QED
      BY <3>1, <3>2
  <2>7. /\ reader \in [pc : {"read", "unreserve", "fin", "lookup", "reserved", "make", "announce", "queue",
                             "drain", "ended", "timeout"},
                       frame : Frame, todo : SUBSET Stream, aborted : BOOLEAN]
    BY <2>1 DEF Typed, ReaderSet, Handling
  <2> QED
    BY <2>1, <2>3, <2>4, <2>5, <2>6, <2>7 DEF Typed, TypeOK, DecodeSet
<1> QED
  BY <1>1, InvAlways, PTL

\* A stream is registered once at most: a frame that comes after the stream was
\* released does not open it again (remove_peer_stream reserves the ID until the
\* FIN; make_stream looks whether the connection has closed).
THEOREM NeverReopened == Spec => []NotReopened
<1>1. Inv => NotReopened
  BY DEF Inv, Registry, Entry, NotReopened
<1> QED
  BY <1>1, InvAlways, PTL

\* Messages are delivered in the order they were sent, and the FIN releases a
\* stream only after all of them (send_lock, queue_fin).
THEOREM FinAlwaysLast == Spec => []FinComesLast
<1>1. Inv => FinComesLast
  BY DEF Inv, Prefix, FinComesLast
<1> QED
  BY <1>1, InvAlways, PTL

\* A clean close by the peer closes the connection only after everything that
\* was sent before it is delivered, if it does not time out and the stream was
\* not closed here (close_by_peer).
THEOREM CleanCloseDelivers == Spec => []DrainDelivers
<1>1. Inv => DrainDelivers
  <2> SUFFICES ASSUME Inv, ~reader.aborted, reader.pc = "ended", NEW s \in Stream
               PROVE  \/ delivered[s] = sent[s]
                      \/ closer[s] # "idle"
                      \/ \E i \in 1 .. Len(sent[s]) : sent[s][i].kind = "bad"
    BY DEF DrainDelivers
  <2>1. Draining /\ Entry(s) /\ Prefix /\ registered[s] \in Nat
    BY DEF Inv, Registry, Typed
  <2>2. contexts = {} /\ (registered[s] = 0 => sent[s] = << >>)
    BY <2>1 DEF Draining
  <2>3. CASE registered[s] = 0
    BY <2>1, <2>2, <2>3 DEF Entry, Unused
  <2>4. CASE registered[s] = 1
    <3>1. s \in ended \/ closer[s] = "done" \/ HasBad(s)
      BY <2>1, <2>2, <2>4 DEF Draining
    <3> QED
      BY <2>1, <3>1 DEF HasBad, Prefix
  <2> QED
    BY <2>1, <2>3, <2>4 DEF Entry
<1> QED
  BY <1>1, InvAlways, PTL

=============================================================================
