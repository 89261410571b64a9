----------------------------- MODULE StreamCalls ----------------------------
(***************************************************************************)
(* Requests and replies on one stream: the calls send_recv, send, recv and *)
(* peek_wire of several tasks that share the stream, the recv guard, the   *)
(* peeked message, the count of stale replies, and timeouts that race the  *)
(* replies.  A caller may also drop the future of a call that waits.  The  *)
(* peer's handler task answers requests one at a time, in order.  A        *)
(* request and its reply are known by the same number.                     *)
(*                                                                         *)
(* The stream carries one conversation, as its documentation asks for: a   *)
(* request made with send is answered to a later recv, and no other        *)
(* request is made before that.                                            *)
(***************************************************************************)
EXTENDS Integers, Sequences, FiniteSets

CONSTANTS
  Caller,      \* tasks that use the stream
  MaxRequest,  \* bound: requests in all
  Unanswered,  \* requests whose reply the peer fails to encode
  MayDrop      \* calls whose caller may stop waiting and drop their future

ASSUME StreamCallsAssumption ==
  /\ MaxRequest \in Nat
  /\ Unanswered \subseteq Nat
  /\ MayDrop \subseteq {"send_recv", "recv", "peek"}

Request == 1 .. MaxRequest
None == 0

VARIABLES
  recv_active,    \* the flag of the recv guard
  stale_replies,  \* replies to discard when they arrive
  peeked,         \* the message peek_wire has read
  inbox,          \* messages that wait for the application
  closed,         \* the stream is closed
  call,           \* call[c]: what caller c is doing
  requests,       \* requests that wait for the peer's handler
  replies,        \* replies on their way
  next,           \* the next request
  owed,           \* the request made with send that waits for a recv
  outcome,        \* history: what became of a request
  discarded       \* history: replies dropped as stale

stream == << recv_active, stale_replies, peeked, inbox, closed >>
network == << requests, replies >>
vars == << stream, network, call, next, owed, outcome, discarded >>

Idle == [pc |-> "idle", kind |-> "none", req |-> None]

Init ==
  /\ recv_active = FALSE
  /\ stale_replies = 0
  /\ peeked = None
  /\ inbox = << >>
  /\ closed = FALSE
  /\ call = [c \in Caller |-> Idle]
  /\ requests = << >>
  /\ replies = << >>
  /\ next = 1
  /\ owed = None
  /\ outcome = [r \in Request |-> "none"]
  /\ discarded = {}

-----------------------------------------------------------------------------
\* Mutant: calls do not exclude each other.
GuardTakenNever == FALSE

\* recv_guard fails with Error::ConcurrentRecv, and nothing is sent.
GuardTaken == recv_active

\* send: the request reaches the peer, unless the stream is closed.
Sent(r) == requests' = IF closed THEN requests ELSE Append(requests, r)

\* The call returns and drops its guard.
Returns(c) ==
  /\ call' = [call EXCEPT ![c] = Idle]
  /\ recv_active' = FALSE

\* send, by itself: no guard.
Send(c) ==
  /\ call[c] = Idle /\ next <= MaxRequest /\ owed = None
  /\ \A d \in Caller : call[d].kind # "send_recv"
  /\ Sent(next)
  /\ owed' = IF closed THEN None ELSE next
  /\ next' = next + 1
  /\ outcome' = [outcome EXCEPT ![next] = IF closed THEN "closed" ELSE "waits"]
  /\ UNCHANGED << stream, replies, call, discarded >>

\* send_recv takes the guard before it sends.
SendRecv(c) ==
  /\ call[c] = Idle /\ next <= MaxRequest /\ owed = None /\ ~GuardTaken
  /\ recv_active' = TRUE
  /\ call' = [call EXCEPT ![c] = [pc |-> "send", kind |-> "send_recv", req |-> next]]
  /\ next' = next + 1
  /\ outcome' = [outcome EXCEPT ![next] = "waits"]
  /\ UNCHANGED << stale_replies, peeked, inbox, closed, network, owed, discarded >>

SendRecvSends(c) ==
  /\ call[c].pc = "send"
  /\ Sent(call[c].req)
  /\ IF closed
     THEN Returns(c) /\ outcome' = [outcome EXCEPT ![call[c].req] = "closed"]
     ELSE /\ call' = [call EXCEPT ![c].pc = "take"]
          /\ UNCHANGED << recv_active, outcome >>
  /\ UNCHANGED << stale_replies, peeked, inbox, closed, replies, next, owed, discarded >>

\* recv for the reply to owed, or peek_wire.
RecvOrPeek(c, kind) ==
  /\ call[c] = Idle /\ owed # None /\ ~GuardTaken
  /\ recv_active' = TRUE
  /\ call' = [call EXCEPT ![c] = [pc |-> "take", kind |-> kind, req |-> owed]]
  /\ UNCHANGED << stale_replies, peeked, inbox, closed, network, next, owed, outcome,
                  discarded >>

-----------------------------------------------------------------------------
\* A request gets message m; recv also settles what was owed.
Receives(c, m) ==
  /\ outcome' = [outcome EXCEPT ![call[c].req] = IF m = call[c].req THEN "own" ELSE "other"]
  /\ owed' = IF call[c].kind = "recv" THEN None ELSE owed
  /\ Returns(c)

\* take_raw returns the message that was peeked, peek_wire only its name.
TakePeeked(c) ==
  /\ call[c].pc = "take" /\ peeked # None
  /\ IF call[c].kind = "peek"
     THEN Returns(c) /\ UNCHANGED << peeked, owed, outcome >>
     ELSE Receives(c, peeked) /\ peeked' = None
  /\ UNCHANGED << stale_replies, inbox, closed, network, next, discarded >>

\* Otherwise read_raw waits for the inbox.
TakeNone(c) ==
  /\ call[c].pc = "take" /\ peeked = None
  /\ call' = [call EXCEPT ![c].pc = "read"]
  /\ UNCHANGED << stream, network, next, owed, outcome, discarded >>

\* Mutant: discarding a stale reply leaves the count.
AfterDiscardKeeps == stale_replies

AfterDiscard == stale_replies - 1

ReadStale(c) ==
  /\ call[c].pc = "read" /\ inbox # << >> /\ stale_replies > 0
  /\ stale_replies' = AfterDiscard
  /\ discarded' = discarded \cup {Head(inbox)}
  /\ inbox' = Tail(inbox)
  /\ UNCHANGED << recv_active, peeked, closed, call, network, next, owed, outcome >>

ReadMessage(c) ==
  /\ call[c].pc = "read" /\ inbox # << >> /\ stale_replies = 0
  /\ inbox' = Tail(inbox)
  /\ IF call[c].kind = "peek"
     THEN Returns(c) /\ peeked' = Head(inbox) /\ UNCHANGED << owed, outcome >>
     ELSE Receives(c, Head(inbox)) /\ UNCHANGED peeked
  /\ UNCHANGED << stale_replies, closed, network, next, discarded >>

\* Mutant: every call that times out gives a reply up.
AfterTimeoutAny(kind) == stale_replies + 1

\* Only send_recv gives its reply up.
AfterTimeout(kind) == IF kind = "send_recv" THEN stale_replies + 1 ELSE stale_replies

ReadTimeout(c) ==
  /\ call[c].pc = "read" /\ inbox = << >> /\ ~closed
  /\ stale_replies' = AfterTimeout(call[c].kind)
  /\ outcome' = IF call[c].kind = "send_recv"
                THEN [outcome EXCEPT ![call[c].req] = "timeout"] ELSE outcome
  /\ Returns(c)
  /\ UNCHANGED << peeked, inbox, closed, network, next, owed, discarded >>

\* What arrived before the stream closed is still returned, then Error::Closed.
ReadClosed(c) ==
  /\ call[c].pc = "read" /\ inbox = << >> /\ closed
  /\ outcome' = [outcome EXCEPT ![call[c].req] = "closed"]
  /\ owed' = None
  /\ Returns(c)
  /\ UNCHANGED << stale_replies, peeked, inbox, closed, network, next, discarded >>

\* A future that waits is dropped, and its guard with it; the inbox and what was
\* peeked stay as they are.  A request that was not sent yet never is.
DropCall(c) ==
  /\ call[c].pc \in {"send", "read"} /\ call[c].kind \in MayDrop
  /\ outcome' = IF call[c].kind = "send_recv"
                THEN [outcome EXCEPT ![call[c].req] = "dropped"] ELSE outcome
  /\ Returns(c)
  /\ UNCHANGED << stale_replies, peeked, inbox, closed, network, next, owed, discarded >>

-----------------------------------------------------------------------------
\* The peer's handler task.  A reply that cannot be encoded, such as one above
\* max_frame, is dropped.
Answer ==
  /\ requests # << >>
  /\ requests' = Tail(requests)
  /\ replies' = IF Head(requests) \in Unanswered THEN replies
                ELSE Append(replies, Head(requests))
  /\ UNCHANGED << stream, call, next, owed, outcome, discarded >>

\* The reader and the decode task; inbox_q drops the message of a closed stream.
Arrive ==
  /\ replies # << >>
  /\ replies' = Tail(replies)
  /\ inbox' = IF closed THEN inbox ELSE Append(inbox, Head(replies))
  /\ UNCHANGED << recv_active, stale_replies, peeked, closed, requests, call, next, owed,
                  outcome, discarded >>

Close ==
  /\ ~closed
  /\ closed' = TRUE
  /\ UNCHANGED << recv_active, stale_replies, peeked, inbox, network, call, next, owed,
                  outcome, discarded >>

CallStep(c) ==
  \/ Send(c) \/ SendRecv(c) \/ SendRecvSends(c)
  \/ RecvOrPeek(c, "recv") \/ RecvOrPeek(c, "peek")
  \/ TakePeeked(c) \/ TakeNone(c)
  \/ ReadStale(c) \/ ReadMessage(c) \/ ReadTimeout(c) \/ ReadClosed(c)
  \/ DropCall(c)

Next == Answer \/ Arrive \/ Close \/ \E c \in Caller : CallStep(c)

Spec == Init /\ [][Next]_vars

-----------------------------------------------------------------------------
(* Properties.                                                             *)

Message == Request \cup {None}

\* Types; no more replies are given up than requests were made.
TypeOK ==
  /\ recv_active \in BOOLEAN
  /\ stale_replies \in 0 .. MaxRequest
  /\ peeked \in Message
  /\ inbox \in Seq(Request)
  /\ closed \in BOOLEAN
  /\ call \in [Caller -> [pc : {"idle", "send", "take", "read"},
                          kind : {"none", "send_recv", "recv", "peek"}, req : Message]]
  /\ requests \in Seq(Request)
  /\ replies \in Seq(Request)
  /\ next \in 1 .. MaxRequest + 1
  /\ owed \in Message
  /\ outcome \in [Request -> {"none", "waits", "own", "other", "timeout", "dropped", "closed"}]
  /\ discarded \subseteq Request

\* Whatever timed out before and whoever peeked, a request is answered by its own
\* reply: "the next request on this stream receives its own reply" (send_recv).
OwnReply == \A r \in Request : outcome[r] # "other"

\* The reply that a recv is still owed is not lost, however often a recv or a
\* peek_wire for it times out or is dropped, and whatever requests timed out
\* before: it is on its way, or the next recv will find it (read_raw, peek_wire).
ReplyIsKept ==
  owed # None /\ ~closed =>
    \/ peeked = owed
    \/ \E queue \in {requests, replies, inbox} : \E i \in 1 .. Len(queue) : queue[i] = owed

\* Only a late reply is discarded, never that of a request still waiting for it:
\* "After Error::RecvTimeout the stream discards the late reply when it arrives,
\* so the next request on this stream receives its own reply" (send_recv).
DiscardsOnlyLate == \A r \in discarded : outcome[r] = "timeout"
=============================================================================
