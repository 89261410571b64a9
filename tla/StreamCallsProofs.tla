-------------------------- MODULE StreamCallsProofs -------------------------
(***************************************************************************)
(* Proofs about StreamCalls, for any callers and any number of requests,   *)
(* where the peer answers every request and no caller drops a send_recv:   *)
(* a request gets its own reply, the reply that is owed is kept, and only  *)
(* late replies are discarded.                                             *)
(***************************************************************************)
EXTENDS StreamCalls, TLAPS

Calls == [pc : {"idle", "send", "take", "read"},
          kind : {"none", "send_recv", "recv", "peek"}, req : Message]
Outcomes == {"none", "waits", "own", "other", "timeout", "dropped", "closed"}

\* Types, without the bound on the count of stale replies.
Typed ==
  /\ recv_active \in BOOLEAN
  /\ stale_replies \in Nat
  /\ peeked \in Message
  /\ inbox \in Seq(Request)
  /\ closed \in BOOLEAN
  /\ call \in [Caller -> Calls]
  /\ requests \in Seq(Request)
  /\ replies \in Seq(Request)
  /\ next \in 1 .. MaxRequest + 1
  /\ owed \in Message
  /\ outcome \in [Request -> Outcomes]
  /\ discarded \subseteq Request

\* One call at a time holds the guard.
Guarded ==
  /\ \A c, d \in Caller : call[c] # Idle /\ call[d] # Idle => c = d
  /\ \A c \in Caller : call[c] # Idle => recv_active

\* A call under way waits for a request: its own, or the one that is owed.
CallOK(c) ==
  call[c] # Idle =>
    /\ call[c].pc # "idle"
    /\ call[c].req \in Request /\ outcome[call[c].req] = "waits"
    /\ call[c].pc = "read" => peeked = None
    /\ \/ call[c].kind = "send_recv" /\ owed = None
       \/ call[c].kind \in {"recv", "peek"} /\ call[c].req = owed /\ call[c].pc # "send"

\* What is owed waits, what was peeked is owed, and later requests are not made yet.
Books ==
  /\ \A c \in Caller : CallOK(c)
  /\ owed # None => outcome[owed] = "waits"
  /\ peeked # None => peeked = owed
  /\ \A r \in Request : r >= next => outcome[r] = "none"

-----------------------------------------------------------------------------
(* The replies that will be read, in order: those in the inbox, then those *)
(* on their way, then those the peer has still to make.                    *)

Total == Len(inbox) + Len(replies) + Len(requests)

At(i) ==
  IF i <= Len(inbox) THEN inbox[i]
  ELSE IF i <= Len(inbox) + Len(replies) THEN replies[i - Len(inbox)]
  ELSE requests[i - Len(inbox) - Len(replies)]

\* A closed stream gets no more.
Reach == IF closed THEN Len(inbox) ELSE Total

\* The request that was sent and whose reply is to be received.
Awaited(m) ==
  \/ owed # None /\ m = owed
  \/ \E c \in Caller : call[c].kind = "send_recv" /\ call[c].pc # "send" /\ m = call[c].req

\* First come as many replies as are to be discarded, each to a request that
\* timed out; then at most one, and that is awaited.
Flow ==
  /\ \A i \in 1 .. Reach, m \in Request :
       At(i) = m /\ i <= stale_replies => outcome[m] = "timeout"
  /\ \A i \in 1 .. Reach, m \in Request :
       At(i) = m /\ i > stale_replies => i = stale_replies + 1 /\ Awaited(m) /\ peeked = None
  /\ ~closed =>
       /\ stale_replies <= Total
       /\ (\E m \in Request : Awaited(m)) /\ peeked = None => Total = stale_replies + 1

-----------------------------------------------------------------------------
LEMMA ConstantTypes ==
  /\ MaxRequest \in Nat
  /\ Request \subseteq Nat /\ None \notin Request /\ Message = Request \cup {None}
  /\ Idle \in Calls /\ Idle.kind = "none" /\ Idle.pc = "idle"
  BY StreamCallsAssumption DEF Request, None, Message, Idle, Calls

LEMMA TypedInit == Init => Typed
  <1> SUFFICES ASSUME Init PROVE Typed
    OBVIOUS
  <1>1. call \in [Caller -> Calls] /\ outcome \in [Request -> Outcomes]
    BY ConstantTypes DEF Init, Outcomes
  <1>2. inbox \in Seq(Request) /\ requests \in Seq(Request) /\ replies \in Seq(Request)
    BY DEF Init
  <1>3. next \in 1 .. MaxRequest + 1 /\ stale_replies \in Nat
    BY ConstantTypes DEF Init
  <1>4. QED
    BY <1>1, <1>2, <1>3, ConstantTypes DEF Init, Typed

\* The call of c returns, to whatever outcome of its request.
LEMMA ReturnsTyped ==
  ASSUME Typed, NEW c \in Caller, Returns(c)
  PROVE  /\ call' \in [Caller -> Calls] /\ recv_active' = FALSE
         /\ call'[c] = Idle
         /\ \A d \in Caller : d # c => call'[d] = call[d]
  BY ConstantTypes DEF Returns, Typed

LEMMA TypedStep ==
  ASSUME Typed, Books, [Next]_vars
  PROVE  Typed'
  <1> USE ConstantTypes
  <1>1. CASE UNCHANGED vars
    BY <1>1 DEF Typed, vars, stream, network
  <1>2. /\ inbox \in Seq(Request) /\ replies \in Seq(Request) /\ requests \in Seq(Request)
        /\ next \in 1 .. MaxRequest + 1 /\ stale_replies \in Nat
        /\ call \in [Caller -> Calls] /\ outcome \in [Request -> Outcomes]
        /\ owed \in Message /\ peeked \in Message
    BY DEF Typed
  <1>3. ASSUME NEW s \in Seq(Request), s # << >>
        PROVE  Head(s) \in Request /\ Tail(s) \in Seq(Request)
    BY <1>3
  <1>4. \A s \in Seq(Request), r \in Request : Append(s, r) \in Seq(Request)
    OBVIOUS
  <1>5. \A r \in Request, o \in Outcomes : [outcome EXCEPT ![r] = o] \in [Request -> Outcomes]
    BY <1>2
  <1>6. CASE Answer
    BY <1>2, <1>3, <1>4, <1>6 DEF Answer, Typed, stream
  <1>7. CASE Arrive
    BY <1>2, <1>3, <1>4, <1>7 DEF Arrive, Typed
  <1>8. CASE Close
    BY <1>8 DEF Close, Typed, network
  <1>9. ASSUME NEW c \in Caller, CallStep(c) PROVE Typed'
    <2>1. call[c] \in Calls
      BY <1>2
    <2>2. next <= MaxRequest => next \in Request /\ next + 1 \in 1 .. MaxRequest + 1
      BY <1>2 DEF Request
    <2>3. call[c] # Idle => call[c].req \in Request
      BY DEF Books, CallOK
    <2>4. ASSUME NEW r \in Request PROVE Sent(r) => requests' \in Seq(Request)
      BY <1>2, <1>4 DEF Sent
    <2>5. CASE Send(c)
      <3>1. next \in Request /\ requests' \in Seq(Request) /\ next' \in 1 .. MaxRequest + 1
        BY <2>2, <2>4, <2>5 DEF Send
      <3>2. outcome' \in [Request -> Outcomes] /\ owed' \in Message
        BY <1>5, <2>5, <3>1 DEF Send, Outcomes
      <3>3. QED
        BY <2>5, <3>1, <3>2 DEF Send, Typed, stream
    <2>6. CASE SendRecv(c)
      <3>1. next \in Request /\ next' \in 1 .. MaxRequest + 1
        BY <2>2, <2>6 DEF SendRecv
      <3>2. [pc |-> "send", kind |-> "send_recv", req |-> next] \in Calls
        BY <3>1 DEF Calls
      <3>3. call' \in [Caller -> Calls] /\ outcome' \in [Request -> Outcomes]
        BY <1>2, <1>5, <2>6, <3>1, <3>2 DEF SendRecv, Outcomes
      <3>4. QED
        BY <2>6, <3>1, <3>3 DEF SendRecv, Typed, network
    <2>7. CASE SendRecvSends(c)
      <3>1. call[c] # Idle
        BY <2>7 DEF SendRecvSends
      <3>2. requests' \in Seq(Request) /\ call[c].req \in Request
        BY <2>3, <2>4, <2>7, <3>1 DEF SendRecvSends
      <3>3. CASE closed
        <4>1. Returns(c) /\ outcome' = [outcome EXCEPT ![call[c].req] = "closed"]
          BY <2>7, <3>3 DEF SendRecvSends
        <4>2. outcome' \in [Request -> Outcomes]
          BY <1>5, <3>2, <4>1 DEF Outcomes
        <4>3. QED
          BY <2>7, <3>2, <4>1, <4>2, ReturnsTyped DEF SendRecvSends, Typed
      <3>4. CASE ~closed
        <4>1. call' = [call EXCEPT ![c].pc = "take"]
          BY <2>7, <3>4 DEF SendRecvSends
        <4>2. call' \in [Caller -> Calls]
          BY <1>2, <4>1 DEF Calls
        <4>3. QED
          BY <2>7, <3>2, <3>4, <4>2 DEF SendRecvSends, Typed
      <3>5. QED
        BY <3>3, <3>4
    <2>8. ASSUME NEW kind \in {"recv", "peek"}, RecvOrPeek(c, kind) PROVE Typed'
      <3>1. [pc |-> "take", kind |-> kind, req |-> owed] \in Calls
        BY <1>2 DEF Calls
      <3>2. call' \in [Caller -> Calls]
        BY <1>2, <2>8, <3>1 DEF RecvOrPeek
      <3>3. QED
        BY <2>8, <3>2 DEF RecvOrPeek, Typed, network
    <2>9. ASSUME NEW m \in Request, Receives(c, m), call[c] # Idle
          PROVE  /\ outcome' \in [Request -> Outcomes] /\ owed' \in Message
                 /\ call' \in [Caller -> Calls] /\ recv_active' = FALSE
      <3>1. outcome' \in [Request -> Outcomes]
        BY <1>5, <2>3, <2>9 DEF Receives, Outcomes
      <3>2. QED
        BY <1>2, <2>9, <3>1, ReturnsTyped DEF Receives
    <2>10. CASE TakePeeked(c)
      <3>1. call[c] # Idle /\ peeked \in Request
        BY <1>2, <2>10 DEF TakePeeked
      <3>2. CASE call[c].kind = "peek"
        BY <2>10, <3>2, ReturnsTyped DEF TakePeeked, Typed, network
      <3>3. CASE call[c].kind # "peek"
        BY <2>9, <2>10, <3>1, <3>3 DEF TakePeeked, Typed, network
      <3>4. QED
        BY <3>2, <3>3
    <2>11. CASE TakeNone(c)
      <3>1. call' \in [Caller -> Calls]
        BY <1>2, <2>11 DEF TakeNone, Calls
      <3>2. QED
        BY <2>11, <3>1 DEF TakeNone, Typed, stream, network
    <2>12. CASE ReadStale(c)
      <3>1. Head(inbox) \in Request /\ inbox' \in Seq(Request)
        BY <1>2, <1>3, <2>12 DEF ReadStale
      <3>2. stale_replies' \in Nat
        BY <1>2, <2>12 DEF ReadStale, AfterDiscard
      <3>3. discarded' \subseteq Request
        BY <2>12, <3>1 DEF ReadStale, Typed
      <3>4. QED
        BY <2>12, <3>1, <3>2, <3>3 DEF ReadStale, Typed, network
    <2>13. CASE ReadMessage(c)
      <3>1. call[c] # Idle /\ Head(inbox) \in Request /\ inbox' \in Seq(Request)
        BY <1>2, <1>3, <2>13 DEF ReadMessage
      <3>2. CASE call[c].kind = "peek"
        BY <2>13, <3>1, <3>2, ReturnsTyped DEF ReadMessage, Typed, network
      <3>3. CASE call[c].kind # "peek"
        BY <2>9, <2>13, <3>1, <3>3 DEF ReadMessage, Typed, network
      <3>4. QED
        BY <3>2, <3>3
    <2>14. CASE ReadTimeout(c)
      <3>1. call[c] # Idle
        BY <2>14 DEF ReadTimeout
      <3>2. outcome' \in [Request -> Outcomes] /\ stale_replies' \in Nat
        BY <1>2, <1>5, <2>3, <2>14, <3>1 DEF ReadTimeout, AfterTimeout, Outcomes
      <3>3. QED
        BY <2>14, <3>2, ReturnsTyped DEF ReadTimeout, Typed, network
    <2>15. CASE ReadClosed(c)
      <3>1. call[c] # Idle
        BY <2>15 DEF ReadClosed
      <3>2. outcome' \in [Request -> Outcomes]
        BY <1>5, <2>3, <2>15, <3>1 DEF ReadClosed, Outcomes
      <3>3. QED
        BY <2>15, <3>2, ReturnsTyped DEF ReadClosed, Typed, network
    <2>16. CASE DropCall(c)
      <3>1. call[c] # Idle
        BY <2>16 DEF DropCall
      <3>2. outcome' \in [Request -> Outcomes]
        BY <1>2, <1>5, <2>3, <2>16, <3>1 DEF DropCall, Outcomes
      <3>3. QED
        BY <2>16, <3>2, ReturnsTyped DEF DropCall, Typed, network
    <2>17. QED
      BY <1>9, <2>5, <2>6, <2>7, <2>8, <2>10, <2>11, <2>12, <2>13, <2>14, <2>15, <2>16
         DEF CallStep
  <1>10. QED
    BY <1>1, <1>6, <1>7, <1>8, <1>9 DEF Next

-----------------------------------------------------------------------------
LEMMA GuardInit == Init => Guarded /\ Books
  BY ConstantTypes DEF Init, Guarded, Books, CallOK

\* Who is in a call after c has returned.
LEMMA ReturnsAlone ==
  ASSUME Typed, Guarded, NEW c \in Caller, call[c] # Idle, Returns(c)
  PROVE  \A d \in Caller : call'[d] = Idle
  BY ReturnsTyped DEF Guarded

\* The first message in the inbox.
LEMMA InboxHead ==
  ASSUME Typed, inbox # << >>
  PROVE  /\ 1 \in 1 .. Reach /\ At(1) = Head(inbox) /\ Head(inbox) \in Request
         /\ Len(inbox) \in Nat \ {0}
  <1>1. /\ inbox \in Seq(Request) /\ Len(replies) \in Nat /\ Len(requests) \in Nat
        /\ Len(inbox) \in Nat /\ Len(inbox) # 0
    BY DEF Typed
  <1>2. Head(inbox) = inbox[1] /\ Head(inbox) \in Request
    BY <1>1
  <1>3. QED
    BY <1>1, <1>2 DEF Reach, Total, At

\* A call that may read finds the reply it waits for once nothing is stale.
LEMMA ReadsAwaited ==
  ASSUME Typed, Guarded, Books, Flow, NEW c \in Caller, call[c].pc = "read",
         inbox # << >>, stale_replies = 0
  PROVE  Head(inbox) = call[c].req /\ Awaited(Head(inbox))
  <1>1. Awaited(Head(inbox))
    BY InboxHead DEF Flow
  <1>2. call[c] # Idle
    BY ConstantTypes
  <1>3. /\ call[c].req \in Request
        /\ \/ call[c].kind = "send_recv" /\ owed = None
           \/ call[c].kind \in {"recv", "peek"} /\ call[c].req = owed
    BY <1>2 DEF Books, CallOK
  <1>4. CASE owed # None /\ Head(inbox) = owed
    BY <1>1, <1>3, <1>4
  <1>5. ASSUME NEW d \in Caller, call[d].kind = "send_recv", Head(inbox) = call[d].req
        PROVE  Head(inbox) = call[c].req
    <2>1. call[d] # Idle
      BY <1>5, ConstantTypes
    <2>2. QED
      BY <1>2, <1>5, <2>1 DEF Guarded
  <1>6. QED
    BY <1>1, <1>4, <1>5 DEF Awaited

LEMMA GuardStep ==
  ASSUME Typed, Typed', Guarded, Books, Flow, [Next]_vars
  PROVE  Guarded' /\ Books'
  <1> USE ConstantTypes
  <1>1. ASSUME UNCHANGED << recv_active, peeked, call, owed, outcome, next >>
        PROVE  Guarded' /\ Books'
    BY <1>1 DEF Guarded, Books, CallOK
  <1>2. CASE UNCHANGED vars \/ Answer \/ Arrive \/ Close
    BY <1>1, <1>2 DEF vars, stream, Answer, Arrive, Close
  <1>3. /\ call \in [Caller -> Calls] /\ outcome \in [Request -> Outcomes]
        /\ owed \in Message /\ peeked \in Message /\ next \in Nat
    BY DEF Typed
  <1>4. \A d \in Caller : CallOK(d)
    BY DEF Books
  <1>5. ASSUME NEW c \in Caller, CallStep(c) PROVE Guarded' /\ Books'
    \* A call that returns leaves nobody in a call.
    <2>1. ASSUME call[c] # Idle, Returns(c),
                 owed' # None => outcome'[owed'] = "waits",
                 peeked' # None => peeked' = owed',
                 \A r \in Request : r >= next' => outcome'[r] = "none"
          PROVE  Guarded' /\ Books'
      <3>1. \A d \in Caller : call'[d] = Idle
        BY <2>1, ReturnsAlone
      <3>2. QED
        BY <2>1, <3>1 DEF Guarded, Books, CallOK
    \* The request of a call that waits is not one that is yet to be made.
    <2>2. ASSUME call[c] # Idle
          PROVE  /\ call[c].req \in Request /\ outcome[call[c].req] = "waits"
                 /\ call[c].req < next
      <3>1. call[c].req \in Request /\ outcome[call[c].req] = "waits"
        BY <1>4, <2>2 DEF CallOK
      <3>2. ~(call[c].req >= next)
        BY <3>1 DEF Books
      <3>3. call[c].req \in Nat
        BY <3>1
      <3>4. QED
        BY <1>3, <3>1, <3>2, <3>3
    <2>3. ASSUME call[c] # Idle, next' = next, NEW o \in Outcomes,
                 outcome' = [outcome EXCEPT ![call[c].req] = o]
          PROVE  /\ \A r \in Request : r >= next' => outcome'[r] = "none"
                 /\ \A r \in Request : r # call[c].req => outcome'[r] = outcome[r]
      <3>1. \A r \in Request : r # call[c].req => outcome'[r] = outcome[r]
        BY <1>3, <2>3
      <3>2. \A r \in Request : r >= next => r # call[c].req
        BY <1>3, <2>2, <2>3
      <3>3. QED
        BY <2>3, <3>1, <3>2 DEF Books
    <2>0. next <= MaxRequest => next \in Request /\ outcome[next] = "none"
      <3>1. next <= MaxRequest => next \in Request /\ next >= next
        BY DEF Typed, Request
      <3>2. QED
        BY <3>1 DEF Books
    <2>4. CASE Send(c)
      <3>1. /\ next \in Request /\ outcome[next] = "none" /\ owed = None
            /\ \A d \in Caller : call[d].kind # "send_recv"
            /\ UNCHANGED << call, recv_active, peeked >> /\ next' = next + 1
            /\ outcome' = [outcome EXCEPT ![next] = IF closed THEN "closed" ELSE "waits"]
            /\ owed' = IF closed THEN None ELSE next
        BY <2>0, <2>4 DEF Send, stream
      <3>2. \A d \in Caller : call[d] = Idle
        <4>1. \A d \in Caller : call[d] # Idle => call[d].req \in Request /\ call[d].req = owed
          BY <1>4, <3>1 DEF CallOK
        <4>2. QED
          BY <3>1, <4>1
      <3>3. \A r \in Request : r >= next' => outcome'[r] = "none"
        BY <1>3, <3>1 DEF Books
      <3>4. owed' # None => outcome'[owed'] = "waits"
        BY <1>3, <3>1
      <3>5. peeked' = None
        BY <3>1 DEF Books
      <3>6. QED
        BY <3>1, <3>2, <3>3, <3>4, <3>5 DEF Guarded, Books, CallOK
    <2>5. CASE SendRecv(c)
      <3>1. /\ next \in Request /\ outcome[next] = "none" /\ owed = None /\ ~recv_active
            /\ recv_active' = TRUE /\ UNCHANGED << peeked, owed >> /\ next' = next + 1
            /\ outcome' = [outcome EXCEPT ![next] = "waits"]
            /\ call' = [call EXCEPT ![c] = [pc |-> "send", kind |-> "send_recv", req |-> next]]
        BY <2>0, <2>5 DEF SendRecv, GuardTaken
      <3>2. \A d \in Caller : d # c => call'[d] = Idle
        BY <1>3, <3>1 DEF Guarded
      <3>3. call'[c] = [pc |-> "send", kind |-> "send_recv", req |-> next]
        BY <1>3, <3>1
      <3>4. \A r \in Request : r >= next' => outcome'[r] = "none"
        BY <1>3, <3>1 DEF Books
      <3>5. outcome'[next] = "waits"
        BY <1>3, <3>1
      <3>6. CallOK(c)'
        BY <3>1, <3>3, <3>5 DEF CallOK
      <3>7. \A d \in Caller : CallOK(d)'
        BY <3>2, <3>6 DEF CallOK
      <3>8. peeked = None
        BY <3>1 DEF Books
      <3>9. QED
        BY <3>1, <3>2, <3>4, <3>7, <3>8 DEF Guarded, Books
    \* A call goes on.
    <2>6. ASSUME call[c] # Idle, NEW pc \in {"take", "read"}, call' = [call EXCEPT ![c].pc = pc],
                 UNCHANGED << recv_active, peeked, owed, outcome, next >>,
                 pc = "read" => peeked = None
          PROVE  Guarded' /\ Books'
      <3>1. /\ call'[c].pc = pc /\ call'[c].kind = call[c].kind /\ call'[c].req = call[c].req
            /\ \A d \in Caller : d # c => call'[d] = call[d]
        BY <1>3, <2>6 DEF Calls
      <3>2. CallOK(c)'
        BY <1>4, <2>6, <3>1 DEF CallOK
      <3>3. \A d \in Caller : CallOK(d)'
        BY <1>4, <2>6, <3>1, <3>2 DEF CallOK
      <3>4. QED
        BY <2>6, <3>1, <3>3 DEF Guarded, Books
    <2>7. CASE SendRecvSends(c)
      <3>1. call[c] # Idle /\ UNCHANGED << peeked, owed, next >>
        BY <2>7 DEF SendRecvSends
      <3>2. CASE closed
        <4>1. Returns(c) /\ outcome' = [outcome EXCEPT ![call[c].req] = "closed"]
          BY <2>7, <3>2 DEF SendRecvSends
        <4>2. call[c].kind = "send_recv" /\ owed = None
          BY <1>4, <2>7, <3>1 DEF CallOK, SendRecvSends
        <4>3. \A r \in Request : r >= next' => outcome'[r] = "none"
          BY <2>3, <3>1, <4>1 DEF Outcomes
        <4>4. QED
          BY <2>1, <3>1, <4>1, <4>2, <4>3 DEF Books
      <3>3. CASE ~closed
        BY <2>6, <2>7, <3>1, <3>3 DEF SendRecvSends
      <3>4. QED
        BY <3>2, <3>3
    <2>8. ASSUME NEW kind \in {"recv", "peek"}, RecvOrPeek(c, kind) PROVE Guarded' /\ Books'
      <3>1. /\ owed # None /\ ~recv_active /\ recv_active' = TRUE
            /\ call' = [call EXCEPT ![c] = [pc |-> "take", kind |-> kind, req |-> owed]]
            /\ UNCHANGED << peeked, owed, outcome, next >>
        BY <2>8 DEF RecvOrPeek, GuardTaken
      <3>2. \A d \in Caller : d # c => call'[d] = Idle
        BY <1>3, <3>1 DEF Guarded
      <3>3. call'[c] = [pc |-> "take", kind |-> kind, req |-> owed]
        BY <1>3, <3>1
      <3>4. owed \in Request /\ outcome[owed] = "waits"
        BY <1>3, <3>1 DEF Books
      <3>5. CallOK(c)'
        BY <3>1, <3>3, <3>4 DEF CallOK
      <3>6. \A d \in Caller : CallOK(d)'
        BY <3>2, <3>5 DEF CallOK
      <3>7. QED
        BY <3>1, <3>2, <3>6 DEF Guarded, Books
    \* A request gets a message: a recv settles what is owed, a send_recv owes nothing.
    <2>9. ASSUME NEW m, Receives(c, m), call[c] # Idle, call[c].kind # "peek", next' = next,
                 peeked' = None
          PROVE  Guarded' /\ Books'
      <3>1. Returns(c) /\ owed' = None
        BY <1>4, <2>9 DEF Receives, CallOK
      <3>2. PICK o \in {"own", "other"} : outcome' = [outcome EXCEPT ![call[c].req] = o]
        BY <2>9 DEF Receives
      <3>3. \A r \in Request : r >= next' => outcome'[r] = "none"
        BY <2>3, <2>9, <3>2 DEF Outcomes
      <3>4. QED
        BY <2>1, <2>9, <3>1, <3>3
    <2>10. CASE TakePeeked(c)
      <3>1. call[c] # Idle
        BY <2>10 DEF TakePeeked
      <3>2. CASE call[c].kind = "peek"
        BY <2>1, <2>10, <3>1, <3>2 DEF TakePeeked, Books
      <3>3. CASE call[c].kind # "peek"
        BY <2>9, <2>10, <3>1, <3>3 DEF TakePeeked
      <3>4. QED
        BY <3>2, <3>3
    <2>11. CASE TakeNone(c)
      <3>1. call[c] # Idle
        BY <2>11 DEF TakeNone
      <3>2. QED
        BY <2>6, <2>11, <3>1 DEF TakeNone, stream
    <2>12. CASE ReadStale(c)
      BY <1>1, <2>12 DEF ReadStale
    <2>13. CASE ReadMessage(c)
      <3>1. call[c] # Idle /\ peeked = None /\ next' = next
        BY <1>4, <2>13 DEF ReadMessage, CallOK
      <3>2. CASE call[c].kind # "peek"
        BY <2>9, <2>13, <3>1, <3>2 DEF ReadMessage
      <3>3. CASE call[c].kind = "peek"
        <4>1. Head(inbox) = call[c].req /\ call[c].req = owed
          BY <1>4, <2>13, <3>1, <3>3, ReadsAwaited DEF ReadMessage, CallOK
        <4>2. Returns(c) /\ peeked' = owed /\ UNCHANGED << owed, outcome >>
          BY <2>13, <3>3, <4>1 DEF ReadMessage
        <4>3. QED
          BY <2>1, <3>1, <4>2 DEF Books
      <3>4. QED
        BY <3>2, <3>3
    <2>14. CASE ReadTimeout(c)
      <3>1. call[c] # Idle /\ UNCHANGED << peeked, owed, next >> /\ Returns(c)
        BY <2>14 DEF ReadTimeout
      <3>2. CASE call[c].kind = "send_recv"
        <4>1. outcome' = [outcome EXCEPT ![call[c].req] = "timeout"] /\ owed = None
          BY <1>4, <2>14, <3>1, <3>2 DEF ReadTimeout, CallOK
        <4>2. \A r \in Request : r >= next' => outcome'[r] = "none"
          BY <2>3, <3>1, <4>1 DEF Outcomes
        <4>3. QED
          BY <2>1, <3>1, <4>1, <4>2 DEF Books
      <3>3. CASE call[c].kind # "send_recv"
        BY <2>1, <2>14, <3>1, <3>3 DEF ReadTimeout, Books
      <3>4. QED
        BY <3>2, <3>3
    <2>15. CASE ReadClosed(c)
      <3>1. /\ call[c] # Idle /\ UNCHANGED << peeked, next >> /\ Returns(c) /\ owed' = None
            /\ outcome' = [outcome EXCEPT ![call[c].req] = "closed"]
            /\ peeked = None
        BY <1>4, <2>15 DEF ReadClosed, CallOK
      <3>2. \A r \in Request : r >= next' => outcome'[r] = "none"
        BY <2>3, <3>1 DEF Outcomes
      <3>3. QED
        BY <2>1, <3>1, <3>2
    <2>16. CASE DropCall(c)
      <3>1. call[c] # Idle /\ UNCHANGED << peeked, owed, next >> /\ Returns(c)
        BY <2>16 DEF DropCall
      <3>2. CASE call[c].kind = "send_recv"
        <4>1. outcome' = [outcome EXCEPT ![call[c].req] = "dropped"] /\ owed = None
          BY <1>4, <2>16, <3>1, <3>2 DEF DropCall, CallOK
        <4>2. \A r \in Request : r >= next' => outcome'[r] = "none"
          BY <2>3, <3>1, <4>1 DEF Outcomes
        <4>3. QED
          BY <2>1, <3>1, <4>1, <4>2 DEF Books
      <3>3. CASE call[c].kind # "send_recv"
        BY <2>1, <2>16, <3>1, <3>3 DEF DropCall, Books
      <3>4. QED
        BY <3>2, <3>3
    <2>17. QED
      BY <1>5, <2>4, <2>5, <2>7, <2>8, <2>10, <2>11, <2>12, <2>13, <2>14, <2>15, <2>16
         DEF CallStep
  <1>6. QED
    BY <1>2, <1>5 DEF Next


-----------------------------------------------------------------------------
LEMMA Positions ==
  ASSUME Typed
  PROVE  /\ Len(inbox) \in Nat /\ Len(replies) \in Nat /\ Len(requests) \in Nat
         /\ Total \in Nat /\ Reach \in Nat /\ Reach <= Total /\ Len(inbox) <= Reach
         /\ \A i \in 1 .. Reach : At(i) \in Request
  <1>1. /\ inbox \in Seq(Request) /\ replies \in Seq(Request) /\ requests \in Seq(Request)
        /\ closed \in BOOLEAN
    BY DEF Typed
  <1>2. /\ Len(inbox) \in Nat /\ Len(replies) \in Nat /\ Len(requests) \in Nat
        /\ \A i \in 1 .. Len(inbox) : inbox[i] \in Request
        /\ \A i \in 1 .. Len(replies) : replies[i] \in Request
        /\ \A i \in 1 .. Len(requests) : requests[i] \in Request
    BY <1>1
  <1>3. Total \in Nat /\ Reach \in Nat /\ Reach <= Total /\ Len(inbox) <= Reach
    BY <1>2 DEF Total, Reach
  <1>4. ASSUME NEW i \in 1 .. Reach PROVE At(i) \in Request
    <2>1. i \in 1 .. Total
      BY <1>3
    <2>2. CASE i <= Len(inbox)
      BY <1>2, <2>1, <2>2 DEF At
    <2>3. CASE i > Len(inbox) /\ i <= Len(inbox) + Len(replies)
      <3>1. i - Len(inbox) \in 1 .. Len(replies) /\ ~(i <= Len(inbox))
        BY <1>2, <2>1, <2>3
      <3>2. QED
        BY <1>2, <2>3, <3>1 DEF At
    <2>4. CASE i > Len(inbox) + Len(replies)
      <3>1. /\ i - Len(inbox) - Len(replies) \in 1 .. Len(requests)
            /\ ~(i <= Len(inbox)) /\ ~(i <= Len(inbox) + Len(replies))
        BY <1>2, <2>1, <2>4 DEF Total
      <3>2. QED
        BY <1>2, <3>1 DEF At
    <2>5. QED
      BY <1>2, <1>3, <2>2, <2>3, <2>4
  <1>5. QED
    BY <1>2, <1>3, <1>4

\* A request that timed out stays so.
LEMMA TimeoutStays ==
  ASSUME Typed, Books, [Next]_vars, NEW m \in Request, outcome[m] = "timeout"
  PROVE  outcome'[m] = "timeout"
  <1> USE ConstantTypes
  <1>1. outcome \in [Request -> Outcomes] /\ next \in 1 .. MaxRequest + 1
    BY DEF Typed
  <1>2. CASE UNCHANGED outcome
    BY <1>2
  <1>3. ASSUME NEW c \in Caller, call[c] # Idle, NEW o,
               outcome' = [outcome EXCEPT ![call[c].req] = o]
        PROVE  outcome'[m] = "timeout"
    <2>1. outcome[call[c].req] = "waits"
      BY <1>3 DEF Books, CallOK
    <2>2. QED
      BY <1>1, <1>3, <2>1
  <1>4. ASSUME NEW o, next <= MaxRequest, outcome' = [outcome EXCEPT ![next] = o]
        PROVE  outcome'[m] = "timeout"
    <2>1. next \in Request /\ next >= next
      BY <1>1, <1>4 DEF Request
    <2>2. outcome[next] = "none"
      BY <2>1 DEF Books
    <2>3. QED
      BY <1>1, <1>4, <2>2
  <1>5. ASSUME NEW c \in Caller, CallStep(c) PROVE outcome'[m] = "timeout"
    <2>1. CASE Send(c) \/ SendRecv(c)
      BY <1>4, <2>1 DEF Send, SendRecv
    <2>2. CASE SendRecvSends(c) \/ ReadTimeout(c) \/ ReadClosed(c) \/ DropCall(c)
      <3>1. call[c] # Idle
        BY <2>2 DEF SendRecvSends, ReadTimeout, ReadClosed, DropCall
      <3>2. UNCHANGED outcome \/ \E o \in Outcomes : outcome' = [outcome EXCEPT ![call[c].req] = o]
        BY <2>2 DEF SendRecvSends, ReadTimeout, ReadClosed, DropCall, Outcomes
      <3>3. QED
        BY <1>2, <1>3, <3>1, <3>2
    <2>3. CASE TakePeeked(c) \/ ReadMessage(c)
      <3>1. call[c] # Idle
        BY <2>3 DEF TakePeeked, ReadMessage
      <3>2. UNCHANGED outcome \/ \E o \in Outcomes : outcome' = [outcome EXCEPT ![call[c].req] = o]
        BY <2>3 DEF TakePeeked, ReadMessage, Receives, Outcomes
      <3>3. QED
        BY <1>2, <1>3, <3>1, <3>2
    <2>4. CASE RecvOrPeek(c, "recv") \/ RecvOrPeek(c, "peek") \/ TakeNone(c) \/ ReadStale(c)
      BY <1>2, <2>4 DEF RecvOrPeek, TakeNone, ReadStale
    <2>5. QED
      BY <1>5, <2>1, <2>2, <2>3, <2>4 DEF CallStep
  <1>6. QED
    BY <1>2, <1>5 DEF Next, Answer, Arrive, Close, vars

\* The replies to be read are the same, or fewer because the stream closes.
LEMMA FlowKept ==
  ASSUME Typed, Typed', Flow, stale_replies' = stale_replies,
         \A m \in Request : outcome[m] = "timeout" => outcome'[m] = "timeout",
         Reach' <= Reach, \A i \in 1 .. Reach' : At(i)' = At(i),
         Reach' > stale_replies /\ peeked = None =>
           peeked' = None /\ \A m \in Request : Awaited(m) => Awaited(m)',
         ~closed' => ~closed /\ Total' = Total,
         ~closed' /\ peeked' = None /\ (\E m \in Request : Awaited(m)') =>
           peeked = None /\ \E m \in Request : Awaited(m)
  PROVE  Flow'
  <1>1. Reach \in Nat /\ stale_replies \in Nat
    BY Positions DEF Typed
  <1>2. Reach' \in Nat
    BY DEF Typed, Reach, Total
  <1>3. \A i \in 1 .. Reach' : i \in 1 .. Reach
    BY <1>1, <1>2
  <1>4. \A i \in 1 .. Reach', m \in Request :
          At(i)' = m /\ i <= stale_replies' => outcome'[m] = "timeout"
    BY <1>3 DEF Flow
  <1>5. ASSUME NEW i \in 1 .. Reach', NEW m \in Request, At(i)' = m, i > stale_replies'
        PROVE  i = stale_replies' + 1 /\ Awaited(m)' /\ peeked' = None
    <2>1. i = stale_replies + 1 /\ Awaited(m) /\ peeked = None
      BY <1>3, <1>5 DEF Flow
    <2>2. Reach' > stale_replies
      BY <1>1, <1>2, <1>5
    <2>3. QED
      BY <2>1, <2>2
  <1>6. QED
    BY <1>4, <1>5 DEF Flow

\* The same, where nothing moves.
LEMMA FlowStays ==
  ASSUME Typed, Typed', Flow, stale_replies' = stale_replies,
         \A m \in Request : outcome[m] = "timeout" => outcome'[m] = "timeout",
         UNCHANGED << inbox, replies, requests, closed >>,
         Reach > stale_replies /\ peeked = None =>
           peeked' = None /\ \A m \in Request : Awaited(m) => Awaited(m)',
         ~closed /\ peeked' = None /\ (\E m \in Request : Awaited(m)') =>
           peeked = None /\ \E m \in Request : Awaited(m)
  PROVE  Flow'
  <1>1. Reach' = Reach /\ Total' = Total /\ \A i \in 1 .. Reach' : At(i)' = At(i)
    BY DEF Reach, Total, At
  <1>2. Reach \in Nat
    BY Positions
  <1>3. Reach' <= Reach
    BY <1>1, <1>2
  <1>4. QED
    BY <1>1, <1>3, FlowKept

\* A request is sent: nothing was awaited before.
LEMMA FlowSends ==
  ASSUME Typed, Typed', Flow, stale_replies' = stale_replies,
         \A m \in Request : outcome[m] = "timeout" => outcome'[m] = "timeout",
         ~closed, UNCHANGED << inbox, replies, closed >>, peeked' = None,
         NEW r \in Request, requests' = Append(requests, r),
         \A m \in Request : ~Awaited(m), Awaited(r)'
  PROVE  Flow'
  <1>1. /\ Len(inbox) \in Nat /\ Len(replies) \in Nat /\ Len(requests) \in Nat
        /\ Total \in Nat /\ Reach = Total /\ stale_replies \in Nat
        /\ \A i \in 1 .. Total : At(i) \in Request
    BY Positions DEF Typed, Reach
  <1>2. Total = stale_replies
    <2>1. stale_replies <= Total
      BY DEF Flow
    <2>2. ASSUME Total > stale_replies PROVE FALSE
      <3>1. Total \in 1 .. Reach /\ Total > stale_replies
        BY <1>1, <2>2
      <3>2. PICK m \in Request : At(Total) = m
        BY <1>1, <3>1
      <3>3. Awaited(m)
        BY <3>1, <3>2 DEF Flow
      <3>4. QED
        BY <3>3
    <2>3. QED
      BY <1>1, <2>1, <2>2
  <1>3. requests \in Seq(Request)
    BY DEF Typed
  <1>4. /\ Len(requests') = Len(requests) + 1
        /\ \A i \in 1 .. Len(requests) : requests'[i] = requests[i]
        /\ requests'[Len(requests) + 1] = r
    BY <1>3
  <1>5. Total' = Total + 1 /\ Reach' = Total + 1
    BY <1>1, <1>4 DEF Total, Reach
  <1>6. ASSUME NEW i \in 1 .. Total PROVE At(i)' = At(i)
    <2>1. CASE i <= Len(inbox) + Len(replies)
      BY <1>1, <2>1 DEF At
    <2>2. CASE ~(i <= Len(inbox) + Len(replies))
      <3>1. i - Len(inbox) - Len(replies) \in 1 .. Len(requests) /\ ~(i <= Len(inbox))
        BY <1>1, <2>2 DEF Total
      <3>2. QED
        BY <1>4, <2>2, <3>1 DEF At
    <2>3. QED
      BY <2>1, <2>2
  <1>7. ASSUME NEW i \in 1 .. Reach', i > stale_replies PROVE i = Total + 1 /\ At(i)' = r
    <2>1. i = Total + 1
      BY <1>1, <1>2, <1>5, <1>7
    <2>2. /\ i - Len(inbox) - Len(replies) = Len(requests) + 1
          /\ ~(i <= Len(inbox)) /\ ~(i <= Len(inbox) + Len(replies))
      BY <1>1, <2>1 DEF Total
    <2>3. QED
      BY <1>4, <2>1, <2>2 DEF At
  <1>8. \A i \in 1 .. Reach', m \in Request :
          At(i)' = m /\ i <= stale_replies' => outcome'[m] = "timeout"
    <2> SUFFICES ASSUME NEW i \in 1 .. Reach', NEW m \in Request, At(i)' = m, i <= stale_replies
                 PROVE  outcome'[m] = "timeout"
      OBVIOUS
    <2>1. i \in 1 .. Total
      BY <1>1, <1>2, <1>5
    <2>2. At(i) = m
      BY <1>6, <2>1
    <2>3. QED
      BY <1>1, <2>1, <2>2 DEF Flow
  <1>9. \A i \in 1 .. Reach', m \in Request :
          At(i)' = m /\ i > stale_replies' =>
            i = stale_replies' + 1 /\ Awaited(m)' /\ peeked' = None
    BY <1>2, <1>7
  <1>10. QED
    BY <1>1, <1>2, <1>5, <1>8, <1>9 DEF Flow

\* What is left once the first message is read.
LEMMA InboxTail ==
  ASSUME Typed, inbox # << >>, inbox' = Tail(inbox), UNCHANGED << replies, requests, closed >>
  PROVE  /\ Reach' = Reach - 1 /\ Total' = Total - 1
         /\ \A i \in 1 .. Reach - 1 : At(i)' = At(i + 1)
  <1>1. /\ Len(inbox) \in Nat \ {0} /\ Len(replies) \in Nat /\ Len(requests) \in Nat
        /\ Total \in Nat /\ Reach \in Nat /\ Reach <= Total
    BY Positions, InboxHead
  <1>2. inbox \in Seq(Request)
    BY DEF Typed
  <1>3. /\ Len(inbox') = Len(inbox) - 1
        /\ \A i \in 1 .. Len(inbox) - 1 : inbox'[i] = inbox[i + 1]
    BY <1>2
  <1>4. Reach' = Reach - 1 /\ Total' = Total - 1
    BY <1>1, <1>3 DEF Reach, Total
  <1>5. ASSUME NEW i \in 1 .. Reach - 1 PROVE At(i)' = At(i + 1)
    <2>1. i \in Nat /\ i >= 1
      BY <1>1
    <2>2. CASE i <= Len(inbox')
      <3>1. i \in 1 .. Len(inbox) - 1 /\ i + 1 <= Len(inbox)
        BY <1>1, <1>3, <2>1, <2>2
      <3>2. QED
        BY <1>3, <2>2, <3>1 DEF At
    <2>3. CASE ~(i <= Len(inbox'))
      <3>1. /\ ~(i + 1 <= Len(inbox))
            /\ i - Len(inbox') = (i + 1) - Len(inbox)
            /\ i <= Len(inbox') + Len(replies) <=> i + 1 <= Len(inbox) + Len(replies)
            /\ i - Len(inbox') - Len(replies) = (i + 1) - Len(inbox) - Len(replies)
        BY <1>1, <1>3, <2>1, <2>3
      <3>2. QED
        BY <2>3, <3>1 DEF At
    <2>4. QED
      BY <2>2, <2>3
  <1>6. QED
    BY <1>4, <1>5


\* A reply moves on to the next queue and keeps its place.
LEMMA AnswerMoves ==
  ASSUME Typed, Unanswered \cap Request = {}, Answer
  PROVE  Total' = Total /\ Reach' = Reach /\ \A i \in 1 .. Reach : At(i)' = At(i)
  <1>1. /\ inbox \in Seq(Request) /\ replies \in Seq(Request) /\ requests \in Seq(Request)
        /\ requests # << >> /\ UNCHANGED << inbox, closed >> /\ requests' = Tail(requests)
    BY DEF Typed, Answer, stream
  <1>2. Head(requests) \in Request /\ Head(requests) = requests[1]
    BY <1>1
  <1>3. replies' = Append(replies, Head(requests))
    BY <1>2 DEF Answer
  <1>4. PICK h \in Request : h = requests[1] /\ replies' = Append(replies, h)
    BY <1>2, <1>3
  <1>5. /\ Len(inbox) \in Nat /\ Len(replies) \in Nat /\ Len(requests) \in Nat \ {0}
        /\ Len(replies') = Len(replies) + 1 /\ Len(requests') = Len(requests) - 1
        /\ \A i \in 1 .. Len(replies) : replies'[i] = replies[i]
        /\ replies'[Len(replies) + 1] = h
        /\ \A i \in 1 .. Len(requests) - 1 : requests'[i] = requests[i + 1]
    BY <1>1, <1>4
  <1>6. Total' = Total /\ Reach' = Reach
    BY <1>1, <1>5 DEF Total, Reach
  <1>7. ASSUME NEW i \in 1 .. Reach PROVE At(i)' = At(i)
    <2>1. i \in 1 .. Total /\ i \in Nat
      BY Positions
    <2>2. CASE i <= Len(inbox)
      BY <1>1, <2>2 DEF At
    <2>3. CASE ~(i <= Len(inbox)) /\ i <= Len(inbox) + Len(replies)
      <3>1. i - Len(inbox) \in 1 .. Len(replies) /\ i <= Len(inbox) + Len(replies')
        BY <1>5, <2>1, <2>3
      <3>2. QED
        BY <1>1, <1>5, <2>3, <3>1 DEF At
    <2>4. CASE i = Len(inbox) + Len(replies) + 1
      <3>1. /\ i - Len(inbox) = Len(replies) + 1 /\ i - Len(inbox) - Len(replies) = 1
            /\ ~(i <= Len(inbox)) /\ ~(i <= Len(inbox) + Len(replies))
            /\ i <= Len(inbox) + Len(replies')
        BY <1>5, <2>4
      <3>2. At(i) = h
        BY <1>4, <3>1 DEF At
      <3>3. At(i)' = h
        BY <1>1, <1>5, <3>1 DEF At
      <3>4. QED
        BY <3>2, <3>3
    <2>5. CASE i > Len(inbox) + Len(replies) + 1
      <3>1. /\ ~(i <= Len(inbox)) /\ ~(i <= Len(inbox) + Len(replies))
            /\ ~(i <= Len(inbox) + Len(replies'))
            /\ i - Len(inbox) - Len(replies') \in 1 .. Len(requests) - 1
            /\ (i - Len(inbox) - Len(replies')) + 1 = i - Len(inbox) - Len(replies)
        BY <1>5, <2>1, <2>5 DEF Total
      <3>2. QED
        BY <1>1, <1>5, <3>1 DEF At
    <2>6. QED
      BY <1>5, <2>1, <2>2, <2>3, <2>4, <2>5
  <1>8. QED
    BY <1>6, <1>7

LEMMA ArriveMoves ==
  ASSUME Typed, Arrive
  PROVE  /\ Reach' = Reach /\ \A i \in 1 .. Reach : At(i)' = At(i)
         /\ ~closed => Total' = Total
  <1>1. /\ inbox \in Seq(Request) /\ replies \in Seq(Request) /\ requests \in Seq(Request)
        /\ replies # << >> /\ UNCHANGED << requests, closed >> /\ replies' = Tail(replies)
    BY DEF Typed, Arrive
  <1>2. Head(replies) \in Request /\ Head(replies) = replies[1]
    BY <1>1
  <1>3. PICK h \in Request : /\ h = replies[1]
                             /\ inbox' = IF closed THEN inbox ELSE Append(inbox, h)
    BY <1>2 DEF Arrive
  <1>4. CASE closed
    <2>1. inbox' = inbox /\ Len(inbox) \in Nat
      BY <1>1, <1>3, <1>4
    <2>2. Reach = Len(inbox) /\ Reach' = Len(inbox)
      BY <1>1, <1>4, <2>1 DEF Reach
    <2>3. QED
      BY <1>4, <2>1, <2>2 DEF At
  <1>5. CASE ~closed
    <2>1. /\ Len(inbox) \in Nat /\ Len(requests) \in Nat /\ Len(replies) \in Nat \ {0}
          /\ Len(inbox') = Len(inbox) + 1 /\ Len(replies') = Len(replies) - 1
          /\ \A i \in 1 .. Len(inbox) : inbox'[i] = inbox[i]
          /\ inbox'[Len(inbox) + 1] = h
          /\ \A i \in 1 .. Len(replies) - 1 : replies'[i] = replies[i + 1]
      BY <1>1, <1>3, <1>5
    <2>2. Total' = Total /\ Reach' = Reach
      BY <1>1, <1>5, <2>1 DEF Total, Reach
    <2>3. ASSUME NEW i \in 1 .. Reach PROVE At(i)' = At(i)
      <3>1. i \in 1 .. Total /\ i \in Nat
        BY Positions
      <3>2. CASE i <= Len(inbox)
        <4>1. i \in 1 .. Len(inbox) /\ i <= Len(inbox')
          BY <2>1, <3>1, <3>2
        <4>2. QED
          BY <2>1, <3>2, <4>1 DEF At
      <3>3. CASE i = Len(inbox) + 1
        <4>1. /\ ~(i <= Len(inbox)) /\ i <= Len(inbox') /\ i - Len(inbox) = 1
              /\ i <= Len(inbox) + Len(replies)
          BY <2>1, <3>3
        <4>2. At(i) = h
          BY <1>3, <4>1 DEF At
        <4>3. At(i)' = h
          BY <2>1, <3>3, <4>1 DEF At
        <4>4. QED
          BY <4>2, <4>3
      <3>4. CASE i > Len(inbox) + 1
        <4>1. /\ ~(i <= Len(inbox)) /\ ~(i <= Len(inbox'))
              /\ i <= Len(inbox') + Len(replies') <=> i <= Len(inbox) + Len(replies)
              /\ i - Len(inbox') - Len(replies') = i - Len(inbox) - Len(replies)
              /\ (i - Len(inbox')) + 1 = i - Len(inbox)
              /\ i <= Len(inbox) + Len(replies) => i - Len(inbox') \in 1 .. Len(replies) - 1
          BY <2>1, <3>1, <3>4
        <4>2. CASE i <= Len(inbox) + Len(replies)
          BY <2>1, <4>1, <4>2 DEF At
        <4>3. CASE ~(i <= Len(inbox) + Len(replies))
          BY <1>1, <4>1, <4>3 DEF At
        <4>4. QED
          BY <4>2, <4>3
      <3>5. QED
        BY <2>1, <3>1, <3>2, <3>3, <3>4
    <2>4. QED
      BY <2>2, <2>3
  <1>6. QED
    BY <1>4, <1>5

LEMMA FlowInit == Init => Flow
  <1> SUFFICES ASSUME Init PROVE Flow
    OBVIOUS
  <1>1. Total = 0 /\ Reach = 0
    BY DEF Init, Total, Reach
  <1>2. \A m \in Request : ~Awaited(m)
    BY ConstantTypes DEF Init, Awaited
  <1>3. QED
    BY <1>1, <1>2 DEF Init, Flow

LEMMA FlowStep ==
  ASSUME Unanswered \cap Request = {}, "send_recv" \notin MayDrop,
         Typed, Typed', Guarded, Books, Flow, [Next]_vars
  PROVE  Flow'
  <1> USE ConstantTypes
  <1>1. \A m \in Request : outcome[m] = "timeout" => outcome'[m] = "timeout"
    BY TimeoutStays
  <1>2. /\ Reach \in Nat /\ Total \in Nat /\ stale_replies \in Nat /\ Len(inbox) \in Nat
        /\ Len(inbox) <= Reach /\ Reach <= Total
    BY Positions DEF Typed
  <1>3. ASSUME UNCHANGED << call, owed >> PROVE \A m \in Request : Awaited(m)' <=> Awaited(m)
    BY <1>3 DEF Awaited
  <1>4. CASE Answer \/ Arrive \/ Close
    <2>1. UNCHANGED << call, owed, peeked, stale_replies >>
      BY <1>4 DEF Answer, Arrive, Close, stream
    <2>2. Reach' <= Reach /\ \A i \in 1 .. Reach' : At(i)' = At(i)
      <3>1. CASE Answer
        BY <1>2, <3>1, AnswerMoves
      <3>2. CASE Arrive
        BY <1>2, <3>2, ArriveMoves
      <3>3. CASE Close
        BY <1>2, <3>3 DEF Close, Reach, network, At
      <3>4. QED
        BY <1>4, <3>1, <3>2, <3>3
    <2>3. ~closed' => ~closed /\ Total' = Total
      BY <1>4, AnswerMoves, ArriveMoves DEF Answer, Arrive, Close, stream
    <2>4. QED
      BY <1>1, <1>3, <2>1, <2>2, <2>3, FlowKept
  <1>5. CASE UNCHANGED vars
    BY <1>1, <1>3, <1>5, FlowStays DEF vars, stream, network
  <1>6. ASSUME NEW c \in Caller, CallStep(c) PROVE Flow'
    <2>1. call \in [Caller -> Calls] /\ call[c] \in Calls
          /\ owed \in Message /\ peeked \in Message
      BY DEF Typed
    \* After c has returned nothing but what is owed is awaited.
    <2>2. ASSUME call[c] # Idle, Returns(c)
          PROVE  \A m \in Request : Awaited(m)' <=> (owed' # None /\ m = owed')
      <3>1. \A d \in Caller : call'[d] = Idle
        BY <2>2, ReturnsAlone
      <3>2. QED
        BY <3>1 DEF Awaited
    <2>3. ASSUME call[c] # Idle, call[c].kind \in {"recv", "peek"}
          PROVE  /\ owed # None /\ \A m \in Request : Awaited(m) <=> m = owed
                 /\ call[c].req = owed /\ owed \in Request
      <3>1. \A d \in Caller : call[d].kind # "send_recv"
        BY <2>3 DEF Guarded
      <3>2. call[c].req = owed /\ call[c].req \in Request
        BY <2>3 DEF Books, CallOK
      <3>3. QED
        BY <3>1, <3>2 DEF Awaited
    <2>4. ASSUME call[c] # Idle, call[c].kind \notin {"recv", "peek"}
          PROVE  /\ owed = None /\ call[c].kind = "send_recv" /\ peeked = None
                 /\ \A m \in Request : Awaited(m) <=> (call[c].pc # "send" /\ m = call[c].req)
      <3>1. owed = None /\ call[c].kind = "send_recv"
        BY <2>4 DEF Books, CallOK
      <3>2. \A d \in Caller : call[d].kind = "send_recv" => d = c
        BY <2>4 DEF Guarded
      <3>3. peeked = None
        BY <3>1 DEF Books
      <3>4. QED
        BY <3>1, <3>2, <3>3 DEF Awaited
    <2>5. CASE Send(c)
      <3>1. /\ owed = None /\ \A d \in Caller : call[d].kind # "send_recv"
            /\ UNCHANGED << call, inbox, replies, closed, peeked, stale_replies >>
            /\ next \in Request
        BY <2>5 DEF Send, stream, Typed, Request
      <3>2. \A m \in Request : ~Awaited(m)
        BY <3>1 DEF Awaited
      <3>3. CASE closed
        <4>1. owed' = None /\ requests' = requests
          BY <2>5, <3>3 DEF Send, Sent
        <4>2. QED
          BY <1>1, <1>3, <3>1, <4>1, FlowStays
      <3>4. CASE ~closed
        <4>1. owed' = next /\ requests' = Append(requests, next)
          BY <2>5, <3>4 DEF Send, Sent
        <4>2. PICK r \in Request : r = next
          BY <3>1
        <4>3. Awaited(r)'
          BY <4>1, <4>2 DEF Awaited
        <4>4. peeked' = None
          BY <3>1 DEF Books
        <4>5. QED
          BY <1>1, <3>1, <3>2, <3>4, <4>1, <4>2, <4>3, <4>4, FlowSends
      <3>5. QED
        BY <3>3, <3>4
    <2>6. CASE SendRecv(c)
      <3>1. /\ call[c] = Idle
            /\ call' = [call EXCEPT ![c] = [pc |-> "send", kind |-> "send_recv", req |-> next]]
            /\ UNCHANGED << stale_replies, peeked, inbox, closed, replies, requests, owed >>
        BY <2>6 DEF SendRecv, network
      <3>2. call'[c] = [pc |-> "send", kind |-> "send_recv", req |-> next]
            /\ \A d \in Caller : d # c => call'[d] = call[d]
        BY <2>1, <3>1
      <3>3. \A m \in Request : Awaited(m)' <=> Awaited(m)
        BY <3>1, <3>2 DEF Awaited
      <3>4. QED
        BY <1>1, <3>1, <3>3, FlowStays
    <2>7. CASE SendRecvSends(c)
      <3>1. /\ call[c] # Idle /\ call[c].pc = "send" /\ Sent(call[c].req)
            /\ UNCHANGED << stale_replies, peeked, inbox, closed, replies, owed >>
        BY <2>7 DEF SendRecvSends
      <3>2. /\ owed = None /\ peeked = None /\ call[c].req \in Request
            /\ call[c].kind = "send_recv" /\ \A m \in Request : ~Awaited(m)
        <4>1. call[c].kind \notin {"recv", "peek"} /\ call[c].req \in Request
          BY <3>1 DEF Books, CallOK
        <4>2. QED
          BY <2>4, <3>1, <4>1
      <3>3. CASE closed
        <4>1. Returns(c) /\ requests' = requests
          BY <2>7, <3>1, <3>3 DEF SendRecvSends, Sent
        <4>2. \A m \in Request : ~Awaited(m)'
          BY <2>2, <3>1, <3>2, <4>1
        <4>3. QED
          BY <1>1, <3>1, <3>2, <4>1, <4>2, FlowStays
      <3>4. CASE ~closed
        <4>1. requests' = Append(requests, call[c].req) /\ call' = [call EXCEPT ![c].pc = "take"]
          BY <2>7, <3>1, <3>4 DEF SendRecvSends, Sent
        <4>2. PICK r \in Request : r = call[c].req
          BY <3>2
        <4>3. call'[c].pc = "take" /\ call'[c].kind = "send_recv" /\ call'[c].req = r
          BY <2>1, <3>2, <4>1, <4>2 DEF Calls
        <4>4. Awaited(r)'
          BY <4>3 DEF Awaited
        <4>5. QED
          BY <1>1, <3>1, <3>2, <3>4, <4>1, <4>2, <4>4, FlowSends
      <3>5. QED
        BY <3>3, <3>4
    <2>8. ASSUME NEW kind \in {"recv", "peek"}, RecvOrPeek(c, kind) PROVE Flow'
      <3>1. /\ call[c] = Idle
            /\ call' = [call EXCEPT ![c] = [pc |-> "take", kind |-> kind, req |-> owed]]
            /\ UNCHANGED << stale_replies, peeked, inbox, closed, replies, requests, owed >>
        BY <2>8 DEF RecvOrPeek, network
      <3>2. call'[c] = [pc |-> "take", kind |-> kind, req |-> owed]
            /\ \A d \in Caller : d # c => call'[d] = call[d]
        BY <2>1, <3>1
      <3>3. \A m \in Request : Awaited(m)' <=> Awaited(m)
        BY <3>1, <3>2 DEF Awaited
      <3>4. QED
        BY <1>1, <3>1, <3>3, FlowStays
    <2>9. CASE TakePeeked(c)
      <3>1. /\ call[c] # Idle /\ call[c].pc = "take" /\ peeked # None /\ Returns(c)
            /\ UNCHANGED << stale_replies, inbox, closed, replies, requests >>
        BY <2>9 DEF TakePeeked, Receives, network
      <3>2. call[c].kind \in {"recv", "peek"}
        BY <2>4, <3>1
      <3>3. ~closed /\ peeked' = None => \A m \in Request : ~Awaited(m)'
        <4>1. CASE call[c].kind = "peek"
          BY <2>9, <3>1, <4>1 DEF TakePeeked
        <4>2. CASE call[c].kind = "recv"
          <5>1. owed' = None
            BY <2>9, <4>2 DEF TakePeeked, Receives
          <5>2. QED
            BY <2>2, <3>1, <5>1
        <4>3. QED
          BY <3>2, <4>1, <4>2
      <3>4. QED
        BY <1>1, <3>1, <3>3, FlowStays
    <2>10. CASE TakeNone(c)
      <3>1. /\ call[c].pc = "take" /\ call' = [call EXCEPT ![c].pc = "read"]
            /\ UNCHANGED << stale_replies, peeked, inbox, closed, replies, requests, owed >>
        BY <2>10 DEF TakeNone, stream, network
      <3>2. /\ call'[c].pc = "read" /\ call'[c].kind = call[c].kind /\ call'[c].req = call[c].req
            /\ \A d \in Caller : d # c => call'[d] = call[d]
        BY <2>1, <3>1 DEF Calls
      <3>3. \A m \in Request : Awaited(m)' <=> Awaited(m)
        BY <3>1, <3>2 DEF Awaited
      <3>4. QED
        BY <1>1, <3>1, <3>3, FlowStays
    <2>11. CASE ReadStale(c)
      <3>1. /\ inbox # << >> /\ stale_replies > 0 /\ stale_replies' = stale_replies - 1
            /\ inbox' = Tail(inbox)
            /\ UNCHANGED << peeked, closed, call, replies, requests, owed, outcome >>
        BY <2>11 DEF ReadStale, AfterDiscard, network
      <3>2. /\ Reach' = Reach - 1 /\ Total' = Total - 1
            /\ \A i \in 1 .. Reach - 1 : At(i)' = At(i + 1)
        BY <3>1, InboxTail
      <3>3. \A m \in Request : Awaited(m)' <=> Awaited(m)
        BY <1>3, <3>1
      <3>4. ASSUME NEW i \in 1 .. Reach', NEW m \in Request, At(i)' = m
            PROVE  /\ i <= stale_replies' => outcome'[m] = "timeout"
                   /\ i > stale_replies' =>
                        i = stale_replies' + 1 /\ Awaited(m)' /\ peeked' = None
        <4>1. i + 1 \in 1 .. Reach /\ At(i + 1) = m
          BY <1>2, <3>2, <3>4
        <4>2. CASE i <= stale_replies'
          <5>1. i + 1 <= stale_replies /\ ~(i > stale_replies')
            BY <1>2, <3>1, <4>2
          <5>2. QED
            BY <3>1, <4>1, <5>1 DEF Flow
        <4>3. CASE i > stale_replies'
          <5>1. i + 1 > stale_replies /\ ~(i <= stale_replies')
            BY <1>2, <3>1, <4>3
          <5>2. i + 1 = stale_replies + 1 /\ Awaited(m) /\ peeked = None
            BY <4>1, <5>1 DEF Flow
          <5>3. i = stale_replies' + 1
            BY <1>2, <3>1, <5>2
          <5>4. QED
            BY <3>1, <3>3, <5>1, <5>2, <5>3
        <4>4. QED
          BY <1>2, <3>1, <4>2, <4>3
      <3>5. ~closed' =>
              /\ stale_replies' <= Total'
              /\ (\E m \in Request : Awaited(m)') /\ peeked' = None => Total' = stale_replies' + 1
        BY <1>2, <3>1, <3>2, <3>3 DEF Flow
      <3>6. QED
        BY <3>4, <3>5 DEF Flow
    <2>12. CASE ReadMessage(c)
      <3>1. /\ call[c] # Idle /\ call[c].pc = "read" /\ inbox # << >> /\ stale_replies = 0
            /\ inbox' = Tail(inbox) /\ Returns(c)
            /\ UNCHANGED << stale_replies, closed, replies, requests >>
        BY <2>12 DEF ReadMessage, Receives, network
      <3>2. Reach' = Reach - 1 /\ Total' = Total - 1
        BY <3>1, InboxTail
      <3>3. Reach = 1
        <4>1. Reach >= 1 /\ Reach \in 1 .. Reach
          BY <1>2, <3>1, InboxHead
        <4>2. PICK m \in Request : At(Reach) = m
          BY <4>1, Positions
        <4>3. QED
          BY <1>2, <3>1, <4>1, <4>2 DEF Flow
      <3>4. peeked' = None => \A m \in Request : ~Awaited(m)'
        <4>1. CASE call[c].kind = "peek"
          <5>1. peeked' = Head(inbox) /\ Head(inbox) \in Request
            BY <2>12, <3>1, <4>1, InboxHead DEF ReadMessage
          <5>2. QED
            BY <5>1
        <4>2. CASE call[c].kind # "peek"
          <5>1. owed' = IF call[c].kind = "recv" THEN None ELSE owed
            BY <2>12, <4>2 DEF ReadMessage, Receives
          <5>2. owed' = None
            BY <2>4, <3>1, <4>2, <5>1
          <5>3. QED
            BY <2>2, <3>1, <5>2
        <4>3. QED
          BY <4>1, <4>2
      <3>5. Reach' = 0 /\ stale_replies' <= Total'
        BY <1>2, <3>1, <3>2, <3>3
      <3>6. QED
        BY <3>4, <3>5 DEF Flow
    <2>13. CASE ReadTimeout(c)
      <3>1. /\ call[c] # Idle /\ call[c].pc = "read" /\ ~closed /\ Returns(c)
            /\ UNCHANGED << peeked, inbox, closed, replies, requests, owed >>
        BY <2>13 DEF ReadTimeout, network
      <3>2. CASE call[c].kind \in {"recv", "peek"}
        <4>1. stale_replies' = stale_replies
          BY <2>13, <3>2 DEF ReadTimeout, AfterTimeout
        <4>2. \A m \in Request : Awaited(m)' <=> Awaited(m)
          BY <2>2, <2>3, <3>1, <3>2
        <4>3. QED
          BY <1>1, <3>1, <4>1, <4>2, FlowStays
      <3>3. CASE call[c].kind \notin {"recv", "peek"}
        <4>1. /\ owed = None /\ call[c].kind = "send_recv" /\ peeked = None
              /\ \A m \in Request : Awaited(m) <=> m = call[c].req
          BY <2>4, <3>1, <3>3
        <4>2. /\ stale_replies' = stale_replies + 1
              /\ outcome' = [outcome EXCEPT ![call[c].req] = "timeout"]
          BY <2>13, <4>1 DEF ReadTimeout, AfterTimeout
        <4>3. call[c].req \in Request
          BY <3>1 DEF Books, CallOK
        <4>4. outcome'[call[c].req] = "timeout"
          BY <4>2, <4>3 DEF Typed
        <4>5. Total = stale_replies + 1
          BY <3>1, <4>1, <4>3 DEF Flow
        <4>6. Reach = Total /\ Reach' = Total /\ Total' = Total
              /\ \A i \in 1 .. Total : At(i)' = At(i)
          BY <3>1 DEF Reach, Total, At
        <4>7. \A m \in Request : ~Awaited(m)'
          BY <2>2, <3>1, <4>1
        <4>8. ASSUME NEW i \in 1 .. Reach', NEW m \in Request, At(i)' = m
              PROVE  i <= stale_replies' /\ ~(i > stale_replies') /\ outcome'[m] = "timeout"
          <5>1. i \in 1 .. Reach /\ At(i) = m
            BY <4>6, <4>8
          <5>2. i <= stale_replies' /\ ~(i > stale_replies')
            BY <1>2, <4>2, <4>5, <4>6
          <5>3. CASE i <= stale_replies
            <6>1. outcome[m] = "timeout"
              BY <1>1, <5>1, <5>3 DEF Flow
            <6>2. outcome'[m] = "timeout"
              BY <4>2, <4>3, <4>4, <6>1 DEF Typed
            <6>3. QED
              BY <5>2, <6>2
          <5>4. CASE i > stale_replies
            <6>1. Awaited(m)
              BY <1>1, <5>1, <5>4 DEF Flow
            <6>2. QED
              BY <4>1, <4>4, <5>2, <6>1
          <5>5. QED
            BY <1>2, <5>1, <5>3, <5>4
        <4>9. stale_replies' <= Total'
          BY <1>2, <4>2, <4>5, <4>6
        <4>10. QED
          BY <4>7, <4>8, <4>9 DEF Flow
      <3>4. QED
        BY <3>2, <3>3
    <2>14. CASE ReadClosed(c)
      <3>1. /\ call[c] # Idle /\ inbox = << >> /\ closed /\ Returns(c)
            /\ UNCHANGED << stale_replies, peeked, inbox, closed, replies, requests >>
        BY <2>14 DEF ReadClosed, network
      <3>2. Reach = 0
        BY <3>1 DEF Reach
      <3>3. ~(Reach > stale_replies)
        BY <1>2, <3>2
      <3>4. QED
        BY <1>1, <3>1, <3>3, FlowStays
    <2>15. CASE DropCall(c)
      <3>1. /\ call[c] # Idle /\ Returns(c) /\ call[c].kind # "send_recv"
            /\ UNCHANGED << stale_replies, peeked, inbox, closed, replies, requests, owed >>
        BY <2>15 DEF DropCall, network
      <3>2. call[c].kind \in {"recv", "peek"}
        BY <2>4, <3>1
      <3>3. \A m \in Request : Awaited(m)' <=> Awaited(m)
        BY <2>2, <2>3, <3>1, <3>2
      <3>4. QED
        BY <1>1, <3>1, <3>3, FlowStays
    <2>16. QED
      BY <1>6, <2>5, <2>6, <2>7, <2>8, <2>9, <2>10, <2>11, <2>12, <2>13, <2>14, <2>15
         DEF CallStep
  <1>7. QED
    BY <1>4, <1>5, <1>6 DEF Next


-----------------------------------------------------------------------------
\* The whole invariant, with the two properties that speak of the past.
Inv ==
  /\ Typed
  /\ Guarded
  /\ Books
  /\ Flow
  /\ OwnReply
  /\ DiscardsOnlyLate

LEMMA InvInit == Init => Inv
  <1> SUFFICES ASSUME Init PROVE Inv
    OBVIOUS
  <1>1. OwnReply /\ DiscardsOnlyLate
    BY DEF Init, OwnReply, DiscardsOnlyLate
  <1>2. QED
    BY <1>1, TypedInit, GuardInit, FlowInit DEF Inv

\* What a call returns is the reply to its own request.
LEMMA OwnReplyStep ==
  ASSUME Typed, Guarded, Books, Flow, OwnReply, [Next]_vars
  PROVE  OwnReply'
  <1> USE ConstantTypes
  <1>1. outcome \in [Request -> Outcomes] /\ \A r \in Request : outcome[r] # "other"
    BY DEF Typed, OwnReply
  <1>2. ASSUME NEW r, NEW o, o # "other", outcome' = [outcome EXCEPT ![r] = o]
        PROVE  OwnReply'
    BY <1>1, <1>2 DEF OwnReply
  <1>3. CASE UNCHANGED outcome
    BY <1>1, <1>3 DEF OwnReply
  <1>4. ASSUME NEW c \in Caller, CallStep(c) PROVE OwnReply'
    <2>1. CASE Send(c)
      BY <1>2, <2>1 DEF Send
    <2>2. CASE SendRecv(c)
      BY <1>2, <2>2 DEF SendRecv
    <2>3. CASE SendRecvSends(c)
      BY <1>2, <1>3, <2>3 DEF SendRecvSends
    <2>4. CASE ReadTimeout(c) \/ ReadClosed(c) \/ DropCall(c)
      BY ZenonT(40), <1>2, <1>3, <2>4 DEF ReadTimeout, ReadClosed, DropCall
    <2>5. CASE TakePeeked(c)
      <3>1. CASE call[c].kind = "peek"
        BY <1>3, <2>5, <3>1 DEF TakePeeked
      <3>2. CASE call[c].kind # "peek"
        <4>1. /\ call[c].pc = "take" /\ peeked # None
              /\ outcome' = [outcome EXCEPT ![call[c].req] =
                               IF peeked = call[c].req THEN "own" ELSE "other"]
          BY <2>5, <3>2 DEF TakePeeked, Receives
        <4>2. call[c] # Idle /\ peeked = owed
          BY <4>1 DEF Books
        <4>3. peeked = call[c].req
          BY <4>1, <4>2 DEF Books, CallOK
        <4>4. QED
          BY <1>2, <4>1, <4>3
      <3>3. QED
        BY <3>1, <3>2
    <2>6. CASE ReadMessage(c)
      <3>1. CASE call[c].kind = "peek"
        BY <1>3, <2>6, <3>1 DEF ReadMessage
      <3>2. CASE call[c].kind # "peek"
        <4>1. /\ call[c].pc = "read" /\ inbox # << >> /\ stale_replies = 0
              /\ outcome' = [outcome EXCEPT ![call[c].req] =
                               IF Head(inbox) = call[c].req THEN "own" ELSE "other"]
          BY <2>6, <3>2 DEF ReadMessage, Receives
        <4>2. Head(inbox) = call[c].req
          BY <4>1, ReadsAwaited
        <4>3. QED
          BY <1>2, <4>1, <4>2
      <3>3. QED
        BY <3>1, <3>2
    <2>7. CASE RecvOrPeek(c, "recv") \/ RecvOrPeek(c, "peek") \/ TakeNone(c) \/ ReadStale(c)
      BY <1>3, <2>7 DEF RecvOrPeek, TakeNone, ReadStale
    <2>8. QED
      BY <1>4, <2>1, <2>2, <2>3, <2>4, <2>5, <2>6, <2>7 DEF CallStep
  <1>5. QED
    BY <1>3, <1>4 DEF Next, Answer, Arrive, Close, vars

\* The message at the head of the inbox is late while replies are to be discarded.
LEMMA DiscardsOnlyLateStep ==
  ASSUME Typed, Books, Flow, DiscardsOnlyLate, [Next]_vars
  PROVE  DiscardsOnlyLate'
  <1>1. \A m \in Request : outcome[m] = "timeout" => outcome'[m] = "timeout"
    BY TimeoutStays
  <1>2. discarded \subseteq Request /\ stale_replies \in Nat
    BY DEF Typed
  <1>3. CASE UNCHANGED discarded
    BY <1>1, <1>2, <1>3 DEF DiscardsOnlyLate
  <1>4. ASSUME NEW c \in Caller, ReadStale(c) PROVE DiscardsOnlyLate'
    <2>1. /\ inbox # << >> /\ stale_replies > 0
          /\ discarded' = discarded \cup {Head(inbox)}
      BY <1>4 DEF ReadStale
    <2>2. 1 \in 1 .. Reach /\ At(1) = Head(inbox) /\ Head(inbox) \in Request
      BY <2>1, InboxHead
    <2>3. 1 <= stale_replies
      BY <1>2, <2>1
    <2>4. outcome[Head(inbox)] = "timeout"
      BY <2>2, <2>3 DEF Flow
    <2>5. QED
      BY <1>1, <1>2, <2>1, <2>2, <2>4 DEF DiscardsOnlyLate
  <1>5. ASSUME NEW c \in Caller, CallStep(c), ~ReadStale(c) PROVE UNCHANGED discarded
    BY <1>5 DEF CallStep, Send, SendRecv, SendRecvSends, RecvOrPeek, TakePeeked, TakeNone,
                ReadMessage, ReadTimeout, ReadClosed, DropCall
  <1>6. QED
    BY <1>3, <1>4, <1>5 DEF Next, Answer, Arrive, Close, vars

LEMMA InvStep ==
  ASSUME Unanswered \cap Request = {}, "send_recv" \notin MayDrop, Inv, [Next]_vars
  PROVE  Inv'
  <1>1. Typed /\ Guarded /\ Books /\ Flow /\ OwnReply /\ DiscardsOnlyLate
    BY DEF Inv
  <1>2. Typed'
    BY <1>1, TypedStep
  <1>3. Guarded' /\ Books'
    BY <1>1, <1>2, GuardStep
  <1>4. Flow'
    BY <1>1, <1>2, FlowStep
  <1>5. OwnReply' /\ DiscardsOnlyLate'
    BY <1>1, OwnReplyStep, DiscardsOnlyLateStep
  <1>6. QED
    BY <1>2, <1>3, <1>4, <1>5 DEF Inv

LEMMA InvAlways ==
  ASSUME Unanswered \cap Request = {}, "send_recv" \notin MayDrop
  PROVE  Spec => []Inv
  <1>1. Init => Inv
    BY InvInit
  <1>2. Inv /\ [Next]_vars => Inv'
    BY InvStep
  <1>3. QED
    BY <1>1, <1>2, PTL DEF Spec

\* Whatever timed out before and whoever peeked, a request gets its own reply
\* (send_recv, recv), where the peer answers every request and the future of a
\* send_recv is never dropped.
THEOREM RequestsGetOwnReply ==
  ASSUME Unanswered \cap Request = {}, "send_recv" \notin MayDrop
  PROVE  Spec => []OwnReply
  <1>1. Inv => OwnReply
    BY DEF Inv
  <1>2. Spec => []Inv
    BY InvAlways
  <1>3. QED
    BY <1>1, <1>2, PTL

\* On the same terms, the discard of stale replies (read_raw) only ever drops a
\* reply whose request has timed out.
THEOREM OnlyLateDiscarded ==
  ASSUME Unanswered \cap Request = {}, "send_recv" \notin MayDrop
  PROVE  Spec => []DiscardsOnlyLate
  <1>1. Inv => DiscardsOnlyLate
    BY DEF Inv
  <1>2. Spec => []Inv
    BY InvAlways
  <1>3. QED
    BY <1>1, <1>2, PTL

\* On the same terms, a reply that is owed to a recv is in one place or another
\* until it is received, however many recv and peek_wire time out or are dropped.
THEOREM OwedReplyIsKept ==
  ASSUME Unanswered \cap Request = {}, "send_recv" \notin MayDrop
  PROVE  Spec => []ReplyIsKept
  <1>1. ASSUME Inv PROVE ReplyIsKept
    <2> SUFFICES ASSUME owed # None, ~closed, peeked # owed
                 PROVE  \E queue \in {requests, replies, inbox} :
                          \E i \in 1 .. Len(queue) : queue[i] = owed
      BY DEF ReplyIsKept
    <2>1. Typed /\ Guarded /\ Books /\ Flow
      BY <1>1 DEF Inv
    <2>2. peeked = None /\ owed \in Request
      BY <2>1, ConstantTypes DEF Books, Typed
    <2>3. Awaited(owed)
      BY DEF Awaited
    <2>4. Total = stale_replies + 1 /\ Reach = Total
      BY <2>1, <2>2, <2>3 DEF Flow, Reach
    <2>5. /\ Len(inbox) \in Nat /\ Len(replies) \in Nat /\ Len(requests) \in Nat
          /\ Total \in Nat /\ stale_replies \in Nat
          /\ \A i \in 1 .. Reach : At(i) \in Request
      BY <2>1, Positions DEF Typed
    <2>6. Total \in 1 .. Reach /\ Total > stale_replies
      BY <2>4, <2>5
    <2>7. At(Total) \in Request /\ Awaited(At(Total))
      BY <2>1, <2>5, <2>6 DEF Flow
    <2>8. At(Total) = owed
      <3>1. ASSUME NEW c \in Caller PROVE call[c].kind # "send_recv"
        BY <2>1, ConstantTypes DEF Books, CallOK
      <3>2. QED
        BY <2>7, <3>1 DEF Awaited
    <2>9. CASE Total <= Len(inbox)
      BY <2>5, <2>6, <2>8, <2>9 DEF At
    <2>10. CASE Total > Len(inbox) /\ Total <= Len(inbox) + Len(replies)
      <3>1. Total - Len(inbox) \in 1 .. Len(replies) /\ ~(Total <= Len(inbox))
        BY <2>5, <2>10
      <3>2. replies[Total - Len(inbox)] = owed
        BY <2>8, <2>10, <3>1 DEF At
      <3>3. QED
        BY <3>1, <3>2
    <2>11. CASE Total > Len(inbox) + Len(replies)
      <3>1. /\ Total - Len(inbox) - Len(replies) \in 1 .. Len(requests)
            /\ ~(Total <= Len(inbox)) /\ ~(Total <= Len(inbox) + Len(replies))
        BY <2>5, <2>11 DEF Total
      <3>2. requests[Total - Len(inbox) - Len(replies)] = owed
        BY <2>8, <3>1 DEF At
      <3>3. QED
        BY <3>1, <3>2
    <2>12. QED
      BY <2>5, <2>9, <2>10, <2>11
  <1>2. Spec => []Inv
    BY InvAlways
  <1>3. QED
    BY <1>1, <1>2, PTL

=============================================================================
