# adaptivemsg-rust: TLA+ models and proofs

adaptivemsg is a message library for Rust: a client opens one connection to a
server, multiplexes logical streams over it, and sends typed messages. With
protocol v3 a connection survives its transport: both ends keep unacknowledged
frames, and the client reconnects and resumes. This directory models the parts of
the library in which tasks, failures and timers meet, checks them with TLC on
small instances, and proves the most important invariants with TLAPS for every
value of the parameters.

File names below without a directory are under `src/src/`.

## 1. The system

| Component | State | Operations | Correct when |
| --- | --- | --- | --- |
| Replay buffer (`replay.rs`) | queue of frames, byte count | stage, ack, snapshot_from | the byte count is exact; every frame the peer has not acknowledged is kept |
| Recovery session (`recovery_runtime.rs`, `recovery.rs`) | sequence numbers, ACK state, held frame, frames to replay, writer commands | write, read, ACK, attach, detach, resume, expire, CLOSE | messages arrive once and in order whatever transports fail; nothing gets stuck |
| v3 writer task (`recovery_runtime.rs`) | queue of frames, commands, one permit, held frame | step, write_next, flush_and_wait, wait_detached, send, signal, close | frames leave in sequence; no signal is lost, so sends, due ACKs and close get through |
| Transport life cycle (`recovery_runtime.rs`) | generation, attached flag, abort handle of the reader, reconnect flag | attach, detach, reconnect loop, expiry timer | a late failure leaves the newer transport alone; an open client always has a transport or somebody dialing |
| Heartbeats, ACK timers (`recovery_runtime.rs`, `recovery.rs`) | sleep of the writer, deadline of the reader, due time of an ACK | flush_and_wait, read with timeout, note_received | a working transport is kept; an ACK is not delayed for long |
| Recovery options (`recovery.rs`, `recovery_protocol.rs`) | the negotiated durations | normalise, encode, decode | what a server announces its client accepts |
| Streams (`connection.rs`, `stream.rs`) | stream table, reserved IDs, queues, one decode task and one handler task per stream | open, dispatch, FIN, local close, close_by_peer | a stream ID is opened once; FIN comes last; the inbox of a closed stream blocks nobody |
| Calls (`stream.rs`) | recv guard, peeked message, stale replies | send, recv, peek_wire, send_recv | a request gets its own reply, also after a timeout |
| Plain connection, v2 (`connection.rs`) | outbound queue, closing and closed flags | enqueue, write, flush, close | close writes what was queued, and ends on a blocked transport |
| Ownership (`connection.rs`, `stream.rs`, `context.rs`) | handles, stream table, default stream, the gate of a context | clone, drop, new_stream, new_task, background close | without handles the connection is closed and freed; one handler task at a time |
| Frame header (`frame.rs`) | bytes of the frame being read | build, write, read, parse | the frames read are the frames written; a cut transport is not a clean close |
| Server (`server.rs`) | connections to close, recovery registry | accept, handshake, attach, resume, shutdown | serve returns after all connections are done; the registry holds live sessions |
| Connecting (`client.rs`, `protocol.rs`) | dial attempts, offered version | dial, handshake, fall back, attach | both ends agree on version, codec and limits; no silent loss of recovery |

The application calls into streams; streams queue frames in the connection's
outbound channel; the writer task of the connection (plain or recovery) writes
them; the reader task at the other end dispatches them to stream queues, decode
tasks and handlers. In v3 the reader also hands ACKs to the replay buffer, which
the writer shares, and either task may report a transport failure, which detaches
the transport, starts the client's reconnect loop or the server's expiry timer, and
ends in an attach that gives the writer and a new reader the next transport.
The server's registry connects a resume to the session it belongs to.

What is hard here: several tasks per connection on a multi-threaded runtime, with
state in atomics and short critical sections; `abort` that takes effect at an await
only; failures that are noticed by two tasks, and late; a resume that overlaps the
transport it replaces; timeouts that race replies; closing from either end while
queues are full. `PROJECT.json` lists these hazards line by line with the properties
that answer them.

## 2. Modules

| Module | Models | Run modules |
| --- | --- | --- |
| `Replay` | the operators stage, ack, snapshot of the replay buffer | used by `ReplayBuffer`, `Session` |
| `ReplayBuffer` | that buffer shared by the writer and the reader task | implemented by `WriterLoop` |
| `WriterLoop` | the v3 writer task, step by step, and all that wakes it | `MCWriterLoop` |
| `ReliableChannel` | abstract: an ordered channel that loses and duplicates nothing | implemented by `Session` |
| `Session` | both ends of a v3 connection and its transports | `MCSession` |
| `ReaderHandover` | old and new reader at a resume, several threads | itself |
| `TransportLifecycle` | every access to shared state in attach, detach, reconnect, expiry | itself |
| `RecoveryOptions`, `Heartbeat` | options, and time on one transport | `MCHeartbeat` |
| `Streams` | dispatch, FIN, closing of streams at the accepting end | `MCStreams` |
| `StreamCalls` | requests and replies on one stream | itself |
| `PlainConnection` | send queue, writer and close of one v2 end | used by `Ownership` |
| `Ownership` | the handles of that connection, its streams and handler tasks | itself |
| `ServerLifecycle` | accept loop, connection tasks, registry, shutdown | itself |
| `Connect` | dial, version fallback, handshake, attach | used by `Framing` |
| `Framing` | the frames of the connection that `Connect` makes, as bytes | `MCConnect` |
| `ReplayProofs`, `ReplayBufferProofs` | lemmas on `Replay`; theorems on `ReplayBuffer`, `WriterLoop` | tlapm |
| `SessionProofs` | theorems on `Session` and `ReliableChannel` | tlapm |
| `TransportLifecycleProofs`, `StreamsProofs`, `StreamCallsProofs` | theorems on the module named | tlapm |
| `ConnectionProofs` | theorems on `ServerLifecycle`, `ReaderHandover`, `PlainConnection`, `Ownership` | tlapm |
| `WireProofs` | theorems on `Heartbeat`, `Connect`, `Framing` | tlapm |

The `MC` modules only define the values of constants. `PROJECT.json` maps each
definition to the lines it stands for. Definitions called "Mutant" show how the code
could be wrong: each property has one that breaks it.

### Granularity

An action is what a task does between two awaits, a whole handler included.
`Session` takes the view of a runtime with one thread, where attach, detach and abort
are one step each; this is what makes two complete endpoints checkable.
`WriterLoop` has one endpoint with the steps of its writer task and its signals;
`ReaderHandover` and `TransportLifecycle` take the same functions apart, one access
to shared state at a time, on one thread or on several; `Streams` and
`ServerLifecycle` interleave accesses to the shared maps in any case.

### Correspondence, module by module

`Replay`, `ReplayBuffer`. A record has a number and a size. `StageOutcome` with `Keep`, `Ack` and `SnapshotFrom`
are `ReplayBuffer::stage`, `ack` and `snapshot_from`; they are written with filters
and cardinalities, not recursion, so that proofs can use them. The writer and the reader
call them between one another's steps; a resume is two critical sections, the ACK
of what the peer reports and the snapshot, and an ACK may come in between.

`WriterLoop`. `writer` is where `RecoveryWriter::run` stands and its locals, `permit` is
`send_notify`, which merges signals, `cmds` the command channel, `outbound` the bounded
queue, `send` the calls of `enqueue_frame` past their closing check. Queueing and
signalling are two steps of a sender, of the reader and of close; the check for commands and
write_next are one, as no await lies between them, and so are the command, the flag and the
signal of an attach. A resume starts at a number the peer once had (`Attach`): it read
last_recv_seq before the hand-over, so it may have more by now, and never more than was sent,
so the minimum the code takes is left out. `peer` is what the peer received and what it
acknowledged: each frame once (`note_received` asks for no second ACK), either on the current transport
(`ReaderAcks`, sent and handled in one step) or on one that is lost or about to be replaced
(`AckGetsLost`), which may still happen after the attach here. `prepare_resume` is two critical sections, as in
`ReplayBuffer`. One reader signals at a time. The last transport works.

`Session`. `conn` holds the fields of `ConnectionInner` (generation, attached,
next_send_seq, closing, closed), `recv` those of `RecoveryStateFields` about receiving,
`replay` the buffer, `writer` the locals of `RecoveryWriter` (transport, frames to
replay, held frame, close marker), `writer_cmd` its command channel, `reader` the
reader task, `loop` the client's reconnect loop, `handler` the server's handlers of
resume requests, `wire` the frames of each transport per direction. A transport
breaks at any moment and at either end first (`Break`), which also stands for
heartbeat timeouts; what was written and not read is lost. ACKs, ack_every, the ACK
timer, frames held for a full buffer, frames too large for it, CLOSE, the resume
request and its refusal, detached_ttl and the abort of a reader in close_by_peer are
in. PING is not: it changes nothing at its receiver.

`ReaderHandover`. `last_recv_seq` is shared; each reader has a copy. A reader counts a
frame after it delivered it. With several threads an aborted reader continues until
it has to wait. Its specification is called `HandoverSpec`, so that `ConnectionProofs` can
extend it together with `ServerLifecycle`; likewise `PlainSpec`, `ConnectSpec` and
`FramingSpec`.

`TransportLifecycle`. One endpoint; `mode`, chosen at the start, says whether it is a client
or a server and whether its runtime has several threads. `AttachBegin` to `AttachStore` and so on follow
`attach_transport_parts` line by line, as do `detach_transport`,
`spawn_reconnect_loop` and `spawn_server_expiry`.

`Heartbeat`. Time is a counter of ticks. Time passes when no task can step, and during
a flush for at most `FlushTicks`. Latency is zero, so that a timeout on a transport that
works is the fault of the endpoints. An application sends when everything written has
been read, which bounds the wire. `RecoveryOptions` models normalisation and
the rounding to milliseconds; a tick is `1/PerMilli` ms, and the durations are scaled down
in proportion to the defaults.

`Streams`. The client opens streams and sends numbered messages and FIN; `Kinds` says which
messages may be undecodable; the server end is modelled in full. A FIN flag on a data frame is handled by the code but
never sent by it, so it is not generated. Messages to the opener of a stream are not modelled.
on_new_stream is a step of its own after the registration, on_close_stream one of the
end; both are counted. A decode task in "error" waits in `protocol_error` for its error reply to be
queued; `DecodeError` is the end of that wait, after which the stream is released.

`StreamCalls`. Callers share a stream; a recv guard that is taken makes a second call fail.
The peer answers in order, except the requests in `Unanswered`. A caller may drop the future of
the calls in `MayDrop` at any await. A reply that does not decode closes the stream, which
`Close` allows at any moment.

`PlainConnection`. Senders wait for room in the queue after they checked `closing`.
A frame is a task and a number. An aborted writer ends at once: each of its steps ends
at an await. `CloseReturns` is possible at any time after close began, since
`CLOSE_FLUSH_TIMEOUT` bounds it. `CloseDropped` is a caller that drops the future of close.

`Ownership`. `handles` are the holders of the `Owner`: the connection, each stream opened from
it, each handler task. Dropping the last one spawns close, or calls close_now outside
a runtime. `table`, `default` and `decoding` are the references of the connection to
itself; `Freed` says that none is left. The decode task of the default stream stands for its
handler task too, whose calls of new_task are `TaskHandle`, `TaskStarts`, `TaskBusy`.

`ServerLifecycle`. One task per transport, through handshake, attach or resume, response,
on_connect, tracking, serving, on_disconnect; any of them may fail. An accept that fails
leaves no state behind, and is not modelled.

`Connect`. All pairs of configurations are initial states. A handshake reply that is malformed
counts as a transport failure.

`Framing`. After the handshake either side writes frames, each with the configuration it
took from it; headers are sequences of bytes in big-endian order, a byte has
`Base` values (4 in the instance, so that stream IDs and lengths use several bytes), a read
returns any number of bytes, and the transport is shut down or cut.

## 3. Runs

`tlc -config <cfg> <module>` in this directory; `PROJECT.json` names both for each run.
Deadlock is not checked: all of these systems may finish, or rest until the
application acts; that they do not rest too early is what the liveness properties say.

| Run | Shows | Bounds |
| --- | --- | --- |
| `writer_loop` | unacknowledged frames kept; frames leave in sequence across a resume; under fairness a send returns unless the buffer is full and its last ACK is lost, a due ACK is written and the signal of close stops a detached writer | frames of 1, 1 and 2 bytes, a buffer of 2 bytes, a queue of 1, 2 transports, 1 frame received |
| `session_resume` | order, no gap in the sequence, nothing freed before it is delivered, ACKs scheduled; `Session` implements `ReliableChannel`; under fairness a detached client reattaches or closes, an accepted message arrives, and a session that expires or is refused at one end closes at the other | 3 messages from the client, a buffer for two, 3 transports, 1 failure |
| `session_close` | who reads CLOSE has been delivered everything before it | client sends sizes 1, 2 (never fits), 1 with a buffer of 1; both ends close; 2 transports, 1 failure |
| `handover` | several threads: no frame lost, none counted early | 4 frames, 3 transports |
| `handover_duplicate` | violated: a frame is delivered twice (section 4) | the same |
| `lifecycle` | one dialing loop at most; the writer drops only failed transports; on one thread never stranded; only a detached connection expires | client and server, one thread and several, 3 transports |
| `streams` | IDs opened once; FIN last; a clean close delivers; under fairness the inbox of a closed stream stalls nobody, and no task is left behind | 1 stream, 4 messages, the second may not decode, queues of 1 |
| `calls` | own replies; the reply a recv is owed is not lost; only late replies are discarded | 2 callers, 5 requests, dropped futures of recv and peek_wire |
| `server_shutdown` | serve returns after everything, and in the end; the registry is live | 3 transports |
| `connect` | agreement; recovery exactly when both want it; frames arrive as written | 3 dials, 2 codecs, frame limits 0 and 9 (an ACK has 9 bytes), all pairs of configurations, 2 frames in either direction |
| `heartbeat` | a working transport is kept; ACKs within a heartbeat; options accepted | the defaults in proportion, and a configuration that normalisation changes |
| `ownership` | close writes what was queued, in order; a blocked send returns; one handler task at a time; without handles everything is freed | 1 task with 3 sends, queue of 2, handles of connection, stream and handler |

Why the bounds are enough for the cases of interest: a queue or buffer of one is full at
once; three transports let an attach overlap a detach of the transport before and a failure
of the one after, and let a client whose transport failed lose a resume attempt too (an
attempt uses a transport up). In `session_resume` nobody closes, so that `BothClose` is about
detached_ttl and the refusal that follows: with closing applications a client that
resumes into a closing server whose writer has already stopped is attached, times out and
tries again for as long as the server is kept, and that ends by real time only. Closes
that cross are in `session_close`.

Two liveness properties carry an exception, each a wait the code really has. `SendReturns`
excepts a sender behind a full buffer that the peer has acknowledged altogether, in an ACK that was
lost with an old transport; that is the disagreement of `SessionHeldFrame.cfg`, below.
`ClosedStreamStallsNobody` excepts a decode task that waits in `protocol_error` (`stream.rs:482`) for
send_lock and for room in the outbound queue, or in the replay buffer: closing the stream does not
end that wait, so on a transport that takes nothing the reader stays behind the queue of
a closed stream until the connection closes. The test whose name the property quotes is about the
inbox. Without either exception TLC shows the wait.

Further instances, not among the runs, can be checked the same way: `StreamsDrain.cfg`
(`MCStreams`, two streams, 1.4 million states) and `PlainSenders.cfg` (`PlainConnection`, two
sending tasks). Two show the limits of what the library promises: `CallsDropped.cfg`
(`StreamCalls`, `OwnReply` fails when the future of send_recv is dropped after its request was sent: its
reply is not counted as stale, and the next call gets it) and `StreamsCallbackOrder.cfg` (`MCStreams`,
`NewBeforeClose` fails when the connection is closed between a registration and its
on_new_stream); no document says otherwise. Each module has a type invariant; those of
`Session`, `ReplayBuffer`, `ReaderHandover`, `Streams`, `Connect` and `Ownership` are proved, those of
`WriterLoop`, `TransportLifecycle`, `ServerLifecycle`, `StreamCalls`, `PlainConnection`, `Framing` and
`Heartbeat` as far as the proofs need them, inside their inductive invariants.

### Fairness

The liveness runs assume weak fairness of the tasks: the tokio runtime polls every task that
is ready, and its timers fire. `Session`: writer, reader, close, reconnect loop, handlers and
the expiry timer. `Streams`: reader, close_all_streams, the application's close that has begun, and decode tasks,
except that an error reply need not get through while the connection is open. `ServerLifecycle`: connection tasks and the shutdown, each of which is under a timeout.
`WriterLoop`: writer, senders, signals of the reader and close; that the peer
acknowledges what it received, once, and not that the ACK arrives (`WF` of `ReaderAcks`, which
`AckGetsLost` may forestall after a reattach or while detached); strong fairness
of the peer's reading what is flushed, since PINGs keep interrupting it; no sleep and no timeout, since being woken by
one is what the properties exclude.
`Ownership`: the background close, its timeout, decode tasks, and handler tasks at their gate, not
their work. `PlainConnection`: only the timeout of close and senders with room or without a receiver; not
the writer, whose transport may block. Nowhere is the application assumed to send or to
close, nor a transport to fail or to recover, except that failures are finitely many.

## 4. Disagreements found

Places where the code departs from what a comment, a document or a test of the repository
says. TLC reports the violation of the property named; the first is the run
`handover_duplicate`, for the others call `tlc -config <cfg> <module>`. The comment on each property
quotes or names the sentence it states.

| Config, module, property | What happens |
| --- | --- |
| `HandoverDuplicate.cfg`, `ReaderHandover`, `DeliveredOnce` | The old reader, aborted but running, delivers a frame after the new one copied last_recv_seq (`recovery_runtime.rs:105`): a duplicate. |
| `SessionHeldFrame.cfg`, `MCSession`, `HeldIsReleased` | An ACK sent between reading last_recv_seq for the resume response (`server.rs:626`) and the hand-over is lost with the old transport; nothing repeats it, and a peer with a full buffer holds its frame for good. |
| `SessionCrossedClose.cfg`, `MCSession`, `CloseWritesQueued` | A CLOSE read while the own close is waiting ends it at once (`connection.rs:496`): what was queued before the marker is not written. |
| `SessionPeerClose.cfg`, `MCSession`, `PeerCloseReleases` | A writer failure during close_by_peer aborts the reader that runs it (`recovery_runtime.rs:201`); the connection stays detached until it expires, although the peer has closed. |
| `LifecycleStranded.cfg`, `TransportLifecycle`, `NotStranded` | With several threads the writer may fail the new transport before transport_attached is stored (`recovery_runtime.rs:51`): no transport and no loop. |
| `WriterClose.cfg`, `MCWriterLoop`, `CloseStopsWriterAlways` | flush_and_wait takes the permit of close while a frame is held; then the transport is lost, and wait_detached (`recovery_runtime.rs:519`) is not signalled again: close waits for its timeout. |
| `FramingSmall.cfg`, `MCConnect`, `WriterNeverFails` | With recovery and a negotiated max_frame below 9 an ACK cannot be framed: the write fails (`recovery_runtime.rs:534`) and detaches a working transport, also after each reconnect. |
| `StreamsReserved.cfg`, `MCStreams`, `ReservedUntilFin` | A stream closed between reading and handling its FIN is reserved for ever (`connection.rs:712`). |
| `StreamsCallback.cfg`, `MCStreams`, `CloseCallbackRuns` | A decode error closes a stream without its close callback (`stream.rs:493`). |
| `CallsUnanswered.cfg`, `StreamCalls`, `DiscardsOnlyLate` | A reply that could not be sent makes the stream discard the next one (`connection.rs:899`). |
| `HeartbeatAckLate.cfg`, `MCHeartbeat`, `AckInTime` | An ACK due during a flush waits for the next heartbeat: zero means both "none" and "now" (`recovery.rs:395`). |
| `HeartbeatLongDelay.cfg`, `MCHeartbeat`, `HealthyIsKept` | Wake-ups that write nothing restart the heartbeat sleep; with ack_delay as long as the interval a working transport times out (`recovery_runtime.rs:583`); `WorkingIsKept` (section 5) says which options exclude it. |
| `HeartbeatFine.cfg`, `MCHeartbeat`, `OptionsAccepted` | An interval under a millisecond is announced as options the client refuses (`recovery_protocol.rs:196`). |
| `PlainLateSend.cfg`, `PlainConnection`, `SentIsWritten` | A send between its closing check and its place in the queue returns Ok and is dropped behind the close marker (`connection.rs:1033`). |

## 5. Proofs

All are checked by tlapm to the last leaf; constants are arbitrary, under the assumptions
their modules name (`SessionAssumption`, `ReplayBufferAssumption`, `WriterLoopAssumption`,
`HandoverAssumption`, `RecoveryOptionsAssumption`, `HeartbeatAssumption`,
`ConnectAssumption`, `FramingAssumption`, `OwnershipAssumption` and the like), which say that
numbers are naturals and limits positive. Each inductive invariant was
checked by TLC on small instances before it was proved.

### Replay buffer and writer task (`ReplayBufferProofs`)

`ReplayBufferExact`: types, `Accounting` and `KeepsUnacked`. The invariant adds that a held
frame fits an empty buffer, since staging it later numbers it. The byte count is the sum
over the kept frames; TLAPS cannot do induction over a fold, so `Replay` defines the sum as
the cardinality of a set of numbered bytes, and `ReplayProofs` shows how appending and
dropping change it (`SizeOfAppend`, `SizeOfAfter`).

`LoopKeepsUnacked`: `WriterLoop` implements `ReplayBuffer`, so its buffer keeps every
unacknowledged frame. `Numbers` says that only numbers that were taken travel: written,
received or acknowledged by the peer, reported in a resume, replayed; without it an ACK could free a number
nobody took. `Calls` says that a call is queued once, or its frame is held, and that it
waits for its answer: so the frame tried again is the one held.

`LoopWritesInSequence`: a frame is written only if each number between the last one written
on this transport and its own is acknowledged. `Gapless` adds what the writer knows only
implicitly: the frames left to replay are the last ones numbered, so `Behind`, the number
before them, is how far the writer has come, and everything between the last frame written
and `Behind` is acknowledged. An ACK during the replay makes the writer skip a frame but not
a number.

### Session (`SessionProofs`)

`SessionTyped`: `TypeOK`, with `Named` (a running reader and a waiting loop have a
transport), without which a step could index `wire` with no transport.

`SessionDelivers`: `DeliveredInOrder` is not inductive. `Authentic` says that a data frame
anywhere (replay buffer, frames to replay, wire, hands of a reader) carries the message of
its number; `Counted` says that last_recv_seq is the number of delivered messages and that a
running reader's copy agrees. A reader takes a frame only if it is next in number, so it is
next in order. Steps that number and deliver nothing are handled at once by the predicate
`Calm`.

`SessionImplementsChannel`: `Spec => Channel!Spec`, the whole safety part of the refinement:
every step accepts a message, delivers one, closes an endpoint, or is a stutter of
`ReliableChannel`. It needs `Alive`: the tasks of a closed endpoint are gone, so that
nothing is accepted or delivered after the close.

`SessionSchedulesAcks`: a received frame is acknowledged, or an ACK is due or timed. It is
inductive with the types: `note_received` schedules, `take_pending_ack` clears only what it
sends.

`SessionFreesNothingEarly`: a frame leaves the replay buffer only when the peer has it.
`Reported` follows every number that can reach the buffer (ACKs on any transport, resume
requests and responses, commands, handlers) and says that the peer has received it; `Kept`
says that the buffer holds the numbers from last_acked to next_send_seq without a gap.
`Claims` says that a transport in its handshake is used by no task of either end, so that
its numbers are those of one resume.

`SessionNeverGaps`: no reader meets a number beyond the next one, so the error of a gap is
unreachable between two such endpoints. `Gapless` is that of the writer task for both ends;
`Ordered` says that what is on its way to a reader continues what the reader has, `Followed`
that the last frame written is on its way or with the reader. A fresh reader starts from
last_recv_seq, and its transport from what the endpoint reported, which by `Reported` and
`Kept` fit together.

`SessionCloseIsLast`: who reads CLOSE has been delivered all that the peer ever numbered.
`Ended` says that a CLOSE on its way has a writer that stopped, for good (`StopsForGood`:
neither a resume nor a new attach starts it again), and that everything numbered is with the
reader or before CLOSE.

### Transport life cycle (`TransportLifecycleProofs`)

For any number of threads: `OneDialerAlways` (`Dialing` relates the flag to the loop that
owns it) and `WriterKeepsWhatWorks`. For the latter every attach has a generation of its own
(`AttachGens`) and a Detach, as a call or as a command, names a generation whose transport
has failed (`DetachGens`, `Commands`).

On one thread: `ClientNotStranded`, `FlagTellsTheTruth`, `NoReaderEscapes`,
`ExpiryOnlyDetached`. The properties speak of states at rest, and the invariant of all the
moments in between: `Alone` says that one task at most is between two awaits; `Sorted` and
`Backed` that transports come to the writer in the order of their generations and that the
flag stands for one that the writer has or is about to get; `Replaced` that a client without
a transport has a loop or somebody about to start one, which is where the loop's second look
at the flag is needed; `Dropped` that a transport of an earlier generation is about to be
taken away; `Readers` that the slot has the handle of the last reader; `Timely` that a timer
of the current generation runs only while detached. With several threads the first is false
(`LifecycleStranded.cfg`).

### Server and hand-over (`ConnectionProofs`)

`ShutdownReturnsAfterAll`, `RegistryAlwaysLive`, `ShutdownClosesAll`: `Watched` says who
will close a served connection once the shutdown has begun: it is in the list that stop
takes, or it came too late for that list and its own task closes it. `Registered` relates
the registry to the tasks, and `Phases` says that the shutdown returns after the last task.

`HandoverLosesNothing`: for any number of threads; `Counting` bounds what each reader, old
or new, may have in hand by the shared count. `HandoverDeliversOnce`: with one thread;
`Alone` says that only the newest reader is alive and its copy exact. With several threads
it is false (`handover_duplicate`).

### Calls (`StreamCallsProofs`)

`RequestsGetOwnReply`, `OnlyLateDiscarded`, `OwedReplyIsKept`: for any callers and requests,
if the peer answers every request and the future of a send_recv is not dropped. Both
hypotheses hold in the run `calls`, and neither can be left out: `CallsUnanswered.cfg` and
`CallsDropped.cfg` are the counterexamples. The invariant `Flow` reads inbox, replies and
requests as one line: first come as many replies as the counter of stale replies says, each
to a request that timed out, then at most one, the awaited one.

### Streams (`StreamsProofs`)

For any set of streams, any number of messages and any size of the queues. `NeverReopened`:
`Barred` lists what keeps the frames of a released stream from opening it again: its ID is
reserved, no more of its frames come, the reader is done, or the connection is closed;
`LookedUp` says that what the reader has looked up in one step still holds in the next.
`StreamTypes`: the types, and on_close_stream at most once per stream, whoever releases it.
`FinAlwaysLast`: `Pipeline` says that each message of a stream that has met no error is in
one place, delivered, with the decode task, in the queue, in the reader's hand or on the
wire, and that the places follow one another in the order of the numbers; `Wires` that
nothing of a stream follows its FIN. So the FIN that releases the stream finds everything
delivered. `CleanCloseDelivers`: `Draining` adds why a stream was released: by its FIN,
here, by a message that does not decode, or by the end of a connection that was aborted or
timed out. At the end of a clean close only the first two and the bad message are left.

### Plain connection and ownership (`ConnectionProofs`)

`CleanClose`: for any number of sending tasks and any size of the queue, the peer of a v2
connection reads each task's frames in order and once, and with the end of the stream all
that were queued when close began. `Line` strings together all places a frame can be in:
transport, BufWriter, the writer's hands and queue. `Numbered` says that on this line the
frames of each task are numbered from 1; `Bounded` that a close marker or an end has the
frames queued before close in front of it; `OnLine` that nothing sent has left the line
while the writer runs. Each step then appends to the line, cuts it, or moves nothing.

`OneTaskRuns`: the gate of new_task is shut exactly while a task runs. `OwnedCleanClose`:
every step of the owners is a step of the connection or none (`OwnIsPlain`), so the clean
close holds whoever closes and whatever handle is dropped. `LastDropCloses`: a connection
that nobody holds is closed or has its background close on its way, and a closed one holds
nothing any more; `OwnerInv` and `CloserInv` say whose the handles are and that a close
borrows the connection from its caller or is the background one.

### Heartbeats and options (`WireProofs`)

`OptionsAreAccepted`: no client refuses what its server announces, for any durations and any
resolution of the clock, if every normalised interval is at least a millisecond (below, it
is false: `HeartbeatFine.cfg`) and fits its field. `RoundingKeepsRatio` is the arithmetic:
rounding both down keeps a timeout of two intervals. The invariant `Announced` says that the
server has normalised options until they are checked.

`AckNeverLater`: an ACK is sent within ack_delay, one flush and one interval, for any
durations and traffic. `Late` bounds the age of an ACK by what is left to wait at each place
of the writer.

`WorkingIsKept`: a transport that works is never given up (`HealthyIsKept`), if no ack_delay
exceeds its interval and each timeout is more than max(own ack_delay, flush) + flush + the
peer's interval + the peer's ack_delay (`Roomy`). The source asks for a timeout of two
intervals only, and with such a timeout and a long ack_delay the property is false
(`HeartbeatLongDelay.cfg`). The sum cannot be smaller: in every instance tried with TLC, flushes
of zero and of two ticks among them, the property fails when the timeout equals it and holds
when the timeout is one tick more, for example with (ack_every, ack_delay, interval) =
(2, 2, 6) and a flush of 2, where timeouts of 12 and 13 differ. The defaults (20 ms, 30 s,
90 s) leave room for flushes of almost 30 seconds, and the options of `Heartbeat.cfg` satisfy
`Roomy`. ack_delays longer than the interval are not covered.

The difficulty is that the sleep of flush_and_wait starts anew whenever a signal wakes a
writer that has nothing to write. The invariant `HealthyInv` bounds the silence that one end sees
by what the other end still waits (`Heard`), and each signal has to be accounted for: data
that wakes a writer makes it owe an ACK, due within its delay, and an ACK that wakes it
answers data of its own, which ended the silence of the peer not long before. `InTime` bounds
how long that was; `Remembered` says that a writer asleep with an ACK to send wakes for it,
or that its peer is about to wake it, having data of this end to acknowledge; `Tidy` that a
writer that waits has flushed.

### Connecting and frames (`WireProofs`)

`ConnectedAgree`, `RecoveryWhenBothWant`: for any codec lists, frame limits and number of
dials. `MessageInv` says that one message of the handshake at most is on its way and carries
what its sender has settled on, `VersionInv` that v2 after an offer of v3 is the answer of a
server without recovery, `ConfigInv` that what the client adopts is what the server
serves. `FramingSpec` implies `ConnectSpec` (`FramesNeedNoConnect`), so both hold for `Framing` too.

`HeaderReadBack`: parse_header inverts build_header, for any number of values of a byte
(`RoundTrip16`, `RoundTrip32`, `RoundTrip64` are the big-endian integers).
`FramesAreReadBack`: for any frames and any pieces in which the bytes arrive. `Pending` says
that what the reader has of a frame and what is on the transport are, one behind the other, the
encodings of the frames not yet read; its offsets stand in for a recursive concatenation, on
which TLAPS could not do induction. `EndInv` says how the reader ends: in an error only after a
cut, and at the end of a transport that was shut with everything read.

### Only model-checked

All liveness: fairness and ENABLED are outside the prover's reach. The named limits in
section 3 and the disagreements of section 4, which are about instances. Every invariant
that a passing run checks is proved, some under the hypotheses named above.

## 6. Not modelled

Codecs, raw messages and type names (serialisation by libraries, no state); the byte layout
of handshake and attach messages (covered by golden tests; `Connect` has their fields); the message
registry (read-only while serving); the typed value of a stream context (one mutex, replaced and cloned);
transports (taken as ordered byte streams that fail or block at any moment); the times of the dial and
reconnect backoff and the deadline of connect; debug counters, which no control flow reads; the
derive macros and amgen (compile time); examples. Stream IDs end after 2^32 - 2 streams, out of
reach of any instance; a write that blocks on a dead transport delays the writer's commands until the
operating system gives the transport up, which is a time and not a state.

## 7. Plan

Done: the modules above, in the order replay buffer, session, hand-over, life cycle, streams,
calls, server, connecting, heartbeats, plain connection, writer task, ownership, framing.

Proved: every invariant of the passing runs, in all of these modules, and the safety part of
the refinement. What is left to prove is liveness, which the prover cannot do.

Next, models: the client's reconnect backoff and deadline in discrete time, beside `Heartbeat`.
