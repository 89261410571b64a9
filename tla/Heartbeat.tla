------------------------------ MODULE Heartbeat -----------------------------
(***************************************************************************)
(* Time on a v3 transport: the writer's wait (ACK delay or heartbeat       *)
(* interval, whichever is shorter), the reader's heartbeat timeout, and    *)
(* the options they use.  While the transport works, what is written is    *)
(* read at once, or when the flush that follows ends.  A step takes no     *)
(* time; time passes, in ticks, when no task can take a step, and during   *)
(* a flush.                                                                *)
(***************************************************************************)
EXTENDS RecoveryOptions, Sequences

CONSTANTS
  Configured,   \* the ServerRecoveryOptions to try
  Senders,      \* the endpoints whose application sends
  FlushTicks    \* how long a flush may take

Endpoint == {"client", "server"}

ASSUME HeartbeatAssumption ==
  Configured \subseteq Options /\ Senders \subseteq Endpoint /\ FlushTicks \in Nat

VARIABLES
  mode,     \* "attach", "refused", "up" or "timed_out"
  opts,     \* the options each endpoint uses
  writer,   \* the writer task of each endpoint
  queued,   \* is a frame in outbound_rx?
  wake,     \* send_notify holds a permit
  wire,     \* frames that an endpoint has yet to read
  silent,   \* ticks since the reader began to read
  ack,      \* what the endpoint has to acknowledge, and when
  age,      \* ticks since the oldest frame not yet acknowledged was received
  works     \* does the transport carry what is written?

vars == << mode, opts, writer, queued, wake, wire, silent, ack, age, works >>

Peer(e) == IF e = "client" THEN "server" ELSE "client"

\* The writer goes on with write_next.
Resume(dirty) == [pc |-> "write", dirty |-> dirty, left |-> 0, beat |-> FALSE]

NoAck == [pending |-> 0, due |-> FALSE, timer |-> FALSE, left |-> 0]

Init ==
  /\ mode = "attach"
  /\ \E configured \in Configured : opts = [e \in Endpoint |-> Normalized(configured)]
  /\ writer = [e \in Endpoint |-> Resume(FALSE)]
  /\ queued = [e \in Endpoint |-> FALSE]
  /\ wake = [e \in Endpoint |-> FALSE]
  /\ wire = [e \in Endpoint |-> << >>]
  /\ silent = [e \in Endpoint |-> 0]
  /\ ack = [e \in Endpoint |-> NoAck]
  /\ age = [e \in Endpoint |-> 0]
  /\ works = TRUE

running == << writer, queued, wake, wire, silent, ack, age, works >>

\* The attach response: encoded by the server, checked by the client, which
\* normalises what it accepts.
Attach ==
  LET received == Decoded(opts["server"]) IN
  /\ mode = "attach"
  /\ IF Encodable(opts["server"]) /\ Acceptable(received)
     THEN mode' = "up" /\ opts' = [opts EXCEPT !["client"] = Normalized(received)]
     ELSE mode' = "refused" /\ UNCHANGED opts
  /\ UNCHANGED running

-----------------------------------------------------------------------------
(* The writer.                                                             *)

\* A frame is written to the transport.
Write(e, type) ==
  /\ wire' = IF works THEN [wire EXCEPT ![Peer(e)] = Append(@, type)] ELSE wire
  /\ writer' = [writer EXCEPT ![e] = Resume(TRUE)]

\* ack_may_be_due.
AckDue(e) == ack[e].due \/ (ack[e].timer /\ ack[e].left = 0)

\* A frame is sent.  Bound: whatever was written before has been read.
AppSend(e) ==
  /\ e \in Senders
  /\ mode = "up" /\ ~queued[e] /\ \A f \in Endpoint : wire[f] = << >>
  /\ queued' = [queued EXCEPT ![e] = TRUE]
  /\ UNCHANGED << mode, opts, writer, wake, wire, silent, ack, age, works >>

\* write_next: an ACK that is due, ...
WriteAck(e) ==
  /\ mode = "up" /\ writer[e].pc = "write" /\ AckDue(e)
  /\ Write(e, "ack")
  /\ ack' = [ack EXCEPT ![e] = NoAck]
  /\ age' = [age EXCEPT ![e] = 0]
  /\ UNCHANGED << mode, opts, queued, wake, silent, works >>

\* ... else a frame that is queued, ...
WriteQueued(e) ==
  /\ mode = "up" /\ writer[e].pc = "write" /\ ~AckDue(e) /\ queued[e]
  /\ Write(e, "data")
  /\ queued' = [queued EXCEPT ![e] = FALSE]
  /\ UNCHANGED << mode, opts, wake, silent, ack, age, works >>

\* ... else flush_and_wait flushes what was written.
WriteNothing(e) ==
  /\ mode = "up" /\ writer[e].pc = "write" /\ ~AckDue(e) /\ ~queued[e]
  /\ writer' = [writer EXCEPT ![e].pc = "flush",
                                ![e].left = IF writer[e].dirty THEN FlushTicks ELSE 0]
  /\ UNCHANGED << mode, opts, queued, wake, wire, silent, ack, age, works >>

\* next_ack_wait: zero if no ACK is pending, and if its time has come.
NextAckWait(e) == IF ack[e].timer /\ ~ack[e].due THEN ack[e].left ELSE 0

\* Mutant: the heartbeat's tick is taken for the ACK's.
MinWaitNoBeat(ack_wait, interval) ==
  [left |-> IF ack_wait = 0 \/ interval < ack_wait THEN interval ELSE ack_wait,
   beat |-> ack_wait # 0 /\ interval >= ack_wait]

\* min_wait: how long the writer waits, and whether a PING is due then.
MinWait(ack_wait, interval) ==
  IF ack_wait = 0 \/ interval < ack_wait
  THEN [left |-> interval, beat |-> TRUE]
  ELSE [left |-> ack_wait, beat |-> FALSE]

\* The flush ends, and the wait starts.
Flushed(e) ==
  LET wait == MinWait(NextAckWait(e), opts[e].heartbeat_interval) IN
  /\ mode = "up" /\ writer[e].pc = "flush"
  /\ writer' = [writer EXCEPT ![e] = [pc |-> "wait", dirty |-> FALSE,
                                      left |-> wait.left, beat |-> wait.beat]]
  /\ UNCHANGED << mode, opts, queued, wake, wire, silent, ack, age, works >>

\* What may end the wait: a signal, ...
Signalled(e) ==
  /\ mode = "up" /\ writer[e].pc = "wait" /\ wake[e]
  /\ wake' = [wake EXCEPT ![e] = FALSE]
  /\ writer' = [writer EXCEPT ![e] = Resume(FALSE)]
  /\ UNCHANGED << mode, opts, queued, wire, silent, ack, age, works >>

\* ... a frame, written at once, ...
TakeFrame(e) ==
  /\ mode = "up" /\ writer[e].pc = "wait" /\ queued[e]
  /\ Write(e, "data")
  /\ queued' = [queued EXCEPT ![e] = FALSE]
  /\ UNCHANGED << mode, opts, wake, silent, ack, age, works >>

\* ... or its time: the heartbeat's is answered with a PING.
SleepEnds(e) ==
  /\ mode = "up" /\ writer[e].pc = "wait" /\ writer[e].left = 0
  /\ IF writer[e].beat
     THEN Write(e, "ping")
     ELSE writer' = [writer EXCEPT ![e] = Resume(FALSE)] /\ UNCHANGED wire
  /\ UNCHANGED << mode, opts, queued, wake, silent, ack, age, works >>

-----------------------------------------------------------------------------
(* The reader.                                                             *)

\* Mutant: the first frame starts no timer.
NoteReceivedNoTimer(e) ==
  LET pending == ack[e].pending + 1
      due == ack[e].due \/ pending >= opts[e].ack_every
  IN [pending |-> IF due THEN opts[e].ack_every ELSE pending, due |-> due,
      timer |-> FALSE, left |-> 0]

\* note_received of a frame that is next in sequence: the ACK is due at the
\* ack_every-th frame, and ack_delay after the first.
NoteReceived(e) ==
  LET pending == ack[e].pending + 1
      due == ack[e].due \/ pending >= opts[e].ack_every
  IN [pending |-> IF due THEN opts[e].ack_every ELSE pending, due |-> due, timer |-> ~due,
      left |-> IF due THEN 0 ELSE IF ack[e].timer THEN ack[e].left ELSE opts[e].ack_delay]

ReadData(e) ==
  /\ mode = "up" /\ wire[e] # << >> /\ Head(wire[e]) = "data"
  /\ wire' = [wire EXCEPT ![e] = Tail(@)]
  /\ silent' = [silent EXCEPT ![e] = 0]
  /\ ack' = [ack EXCEPT ![e] = NoteReceived(e)]
  /\ wake' = [wake EXCEPT ![e] = @ \/ NoteReceived(e).due \/ ~ack[e].timer]
  /\ UNCHANGED << mode, opts, writer, queued, age, works >>

\* An ACK wakes the writer, which may hold a frame; a PING is only read.
ReadControl(e) ==
  /\ mode = "up" /\ wire[e] # << >> /\ Head(wire[e]) # "data"
  /\ wire' = [wire EXCEPT ![e] = Tail(@)]
  /\ silent' = [silent EXCEPT ![e] = 0]
  /\ wake' = [wake EXCEPT ![e] = @ \/ Head(wire[e]) = "ack"]
  /\ UNCHANGED << mode, opts, writer, queued, ack, age, works >>

\* read_frame_within gives up; a frame that is there goes first.
ReadTimeout(e) ==
  /\ mode = "up" /\ wire[e] = << >> /\ silent[e] >= opts[e].heartbeat_timeout
  /\ mode' = "timed_out"
  /\ UNCHANGED << opts, running >>

\* The peer or the network goes silent, without an error.
Silenced ==
  /\ mode = "up" /\ works
  /\ works' = FALSE
  /\ wire' = [e \in Endpoint |-> << >>]
  /\ UNCHANGED << mode, opts, writer, queued, wake, silent, ack, age >>

-----------------------------------------------------------------------------
(* Time.                                                                   *)

Flushing(e) == writer[e].pc = "flush" /\ writer[e].dirty
Waiting(e) == writer[e].pc = "wait" /\ ~wake[e] /\ ~queued[e] /\ writer[e].left > 0

MayTick ==
  \A e \in Endpoint :
    /\ Waiting(e) \/ (Flushing(e) /\ writer[e].left > 0)
    /\ wire[e] = << >> \/ Flushing(Peer(e))
    /\ silent[e] < opts[e].heartbeat_timeout

\* The age of an ACK is counted to one tick more than AckWithinInterval allows.
AgeLimit(e) == opts[e].ack_delay + opts[e].heartbeat_interval + FlushTicks + 1

Tick ==
  /\ mode = "up" /\ MayTick
  /\ writer' = [e \in Endpoint |-> [writer[e] EXCEPT !.left = @ - 1]]
  /\ silent' = [e \in Endpoint |-> silent[e] + 1]
  /\ ack' = [e \in Endpoint |-> [ack[e] EXCEPT !.left = IF @ = 0 THEN 0 ELSE @ - 1]]
  /\ age' = [e \in Endpoint |-> IF ack[e].pending = 0 \/ age[e] = AgeLimit(e)
                                THEN age[e] ELSE age[e] + 1]
  /\ UNCHANGED << mode, opts, queued, wake, wire, works >>

Step(e) ==
  \/ AppSend(e) \/ WriteAck(e) \/ WriteQueued(e) \/ WriteNothing(e) \/ Flushed(e)
  \/ Signalled(e) \/ TakeFrame(e) \/ SleepEnds(e)
  \/ ReadData(e) \/ ReadControl(e) \/ ReadTimeout(e)

Next == Attach \/ Silenced \/ Tick \/ \E e \in Endpoint : Step(e)

Spec == Init /\ [][Next]_vars

-----------------------------------------------------------------------------
(* Properties.                                                             *)

\* Types; the wait is never longer than the heartbeat interval, so a writer
\* always wakes in time to send a PING.
TypeOK ==
  /\ mode \in {"attach", "refused", "up", "timed_out"} /\ works \in BOOLEAN
  /\ opts \in [Endpoint -> Options]
  /\ \A e \in Endpoint :
       /\ writer[e].pc \in {"write", "flush", "wait"}
       /\ {writer[e].dirty, writer[e].beat, queued[e], wake[e]} \subseteq BOOLEAN
       /\ writer[e].pc = "wait" => writer[e].left <= opts[e].heartbeat_interval
       /\ wire[e] \in Seq({"data", "ack", "ping"})
       /\ silent[e] <= opts[e].heartbeat_timeout
       /\ ack[e].pending <= opts[e].ack_every /\ ack[e].left <= opts[e].ack_delay

\* A transport that works is not given up, however applications send and ACKs
\* wake the writer: the wait starts anew at every signal (flush_and_wait), and
\* heartbeat_timeout must leave room for that.  DEVELOP.md: "Sends periodic PING
\* at negotiated heartbeat interval when idle."
HealthyIsKept == mode = "timed_out" => ~works

\* What a server announces, its client accepts (decode_negotiated_recovery_
\* options): DEVELOP.md, "negotiated recovery values must satisfy
\* heartbeat_timeout_ms >= 2 * heartbeat_interval_ms".
OptionsAccepted == mode # "refused"

\* A received frame is acknowledged within ack_delay, and the time that flushes
\* take: ServerRecoveryOptions::ack_delay is the "Delay before flushing a
\* pending ACK".
AckInTime == \A e \in Endpoint : age[e] <= opts[e].ack_delay + FlushTicks

\* An ACK whose time passes during a flush still goes out, with the heartbeat at
\* the latest (next_ack_wait, min_wait).
AckWithinInterval == \A e \in Endpoint : age[e] < AgeLimit(e)
=============================================================================
