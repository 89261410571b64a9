------------------------- MODULE TransportLifecycle -------------------------
(***************************************************************************)
(* Attaching and detaching the transports of one v3 endpoint, one access   *)
(* to shared state at a time: the generation counter, the attached flag,   *)
(* the slot that holds the current reader's abort handle, the writer's     *)
(* command channel, the client's reconnect loop and its active flag, the   *)
(* server's expiry timers.  Session.tla takes attach_transport_parts and   *)
(* detach_transport as one step each, which they are on one thread; here   *)
(* MultiThread lets the steps of different tasks interleave.  Frames,      *)
(* sequence numbers and closing by the application are left out.           *)
(***************************************************************************)
EXTENDS Naturals, Sequences, FiniteSets

CONSTANTS
  Roles,         \* "client": a reconnect loop attaches; "server": its handlers do
  Threading,     \* may the runtime run tasks in parallel?
  MaxTransport   \* bound: transports in all; the last one does not fail

ASSUME LifecycleAssumption ==
  /\ Roles \subseteq {"client", "server"}
  /\ Threading \subseteq BOOLEAN
  /\ MaxTransport \in Nat \ {0}

Transport == 1 .. MaxTransport
None == 0
Writer == 0                      \* the writer task; a reader is named by its transport
Task == Transport \cup {Writer}

VARIABLES
  mode,                \* the endpoint's role and its runtime
  transport_gen,       \* generation counter
  transport_attached,  \* the flag
  slot,                \* current_reader_abort: generation of the handle, None if empty
  writer_cmd,          \* the writer's command channel
  writer,              \* the writer task's transport and generation
  reader,              \* reader[t]: the task that reads transport t
  attach,              \* attach[t]: progress of attach_transport_parts with t
  detach,              \* detach[k]: progress of detach_transport called by task k
  loops,               \* client: how many reconnect loops are at each point
  reconnect_active,    \* client: the flag
  timers,              \* server: the generations whose expiry timer runs
  expiring,            \* server: an expiry timer found its generation current
  closed,
  dead                 \* transports that failed

shared == << transport_gen, transport_attached, slot >>
tasks == << writer_cmd, writer, reader >>
calls == << attach, detach >>
loopVars == << loops, reconnect_active >>
endVars == << timers, expiring, closed >>
vars == << mode, shared, tasks, calls, loopVars, endVars, dead >>

Role == mode.role
MultiThread == mode.multi_thread

Idle == [pc |-> "idle", gen |-> 0]
Cmd(type, gen, t) == [type |-> type, gen |-> gen, writer |-> t]

Init ==
  /\ mode \in [role : Roles, multi_thread : Threading]
  /\ transport_gen = 1
  /\ transport_attached = TRUE
  /\ slot = 1
  /\ writer_cmd = << Cmd("attach", 1, 1) >>
  /\ writer = [t |-> None, gen |-> 0]
  /\ reader = [t \in Transport |-> IF t = 1 THEN "run" ELSE "none"]
  /\ attach = [t \in Transport |-> IF t = 1 THEN [pc |-> "done", gen |-> 1] ELSE Idle]
  /\ detach = [k \in Task |-> Idle]
  /\ loops = [resume |-> 0, attach |-> 0, clear |-> 0, check |-> 0]
  /\ reconnect_active = FALSE
  /\ timers = {}
  /\ expiring = FALSE
  /\ closed = FALSE
  /\ dead = {}

-----------------------------------------------------------------------------
Attaching(t) == attach[t].pc \notin {"idle", "done"}
Detaching(k) == detach[k].pc # "idle"

\* Who is inside code that does not await: attach calls (the client's go on to
\* the end of the reconnect loop), detach calls, the end of an expiry timer.
Busy == (\E t \in Transport : Attaching(t)) \/ (\E k \in Task : Detaching(k))
          \/ loops.clear + loops.check > 0 \/ expiring

\* A task may start something new; on one thread, while nobody is inside.
MayStart == ~closed /\ (MultiThread \/ ~Busy)

Fail(t) ==
  /\ ~closed /\ t \notin dead /\ t < MaxTransport /\ attach[t].pc # "idle"
  /\ dead' = dead \cup {t}
  /\ UNCHANGED << shared, tasks, calls, loopVars, endVars >>

-----------------------------------------------------------------------------
(* attach_transport_parts.                                                 *)

\* The next generation.  Transports are named in the order of this step; the
\* client's reconnect loop attaches one at a time, the server's handlers do not
\* wait for each other.
AttachBegin(t) ==
  /\ MayStart /\ attach[t].pc = "idle" /\ attach[t - 1].pc # "idle"
  /\ IF Role = "client"
     THEN /\ loops.resume > 0
          /\ loops' = [loops EXCEPT !.resume = @ - 1, !.attach = @ + 1]
     ELSE UNCHANGED loops
  /\ transport_gen' = transport_gen + 1
  /\ attach' = [attach EXCEPT ![t] = [pc |-> "abort", gen |-> transport_gen + 1]]
  /\ UNCHANGED << transport_attached, slot, tasks, detach, reconnect_active, endVars, dead >>

\* The readers once the reader of generation gen is aborted.
Aborted(gen) ==
  [t \in Transport |-> IF attach[t].gen = gen /\ reader[t] = "run" THEN "none" ELSE reader[t]]

\* Take the handle in the slot and abort that reader.
AttachAbort(t) ==
  /\ attach[t].pc = "abort" /\ ~closed
  /\ reader' = IF slot = None THEN reader ELSE Aborted(slot)
  /\ slot' = None
  /\ attach' = [attach EXCEPT ![t].pc = "send"]
  /\ UNCHANGED << transport_gen, transport_attached, writer_cmd, writer, detach, loopVars,
                  endVars, dead >>

AttachSend(t) ==
  /\ attach[t].pc = "send" /\ ~closed
  /\ writer_cmd' = Append(writer_cmd, Cmd("attach", attach[t].gen, t))
  /\ attach' = [attach EXCEPT ![t].pc = "store"]
  /\ UNCHANGED << shared, writer, reader, detach, loopVars, endVars, dead >>

AttachStore(t) ==
  /\ attach[t].pc = "store" /\ ~closed
  /\ transport_attached' = TRUE
  /\ attach' = [attach EXCEPT ![t].pc = "spawn"]
  /\ UNCHANGED << transport_gen, slot, tasks, detach, loopVars, endVars, dead >>

AttachSpawn(t) ==
  /\ attach[t].pc = "spawn" /\ ~closed
  /\ reader' = [reader EXCEPT ![t] = "run"]
  /\ attach' = [attach EXCEPT ![t].pc = "slot"]
  /\ UNCHANGED << shared, writer_cmd, writer, detach, loopVars, endVars, dead >>

\* The handle replaces what is in the slot, and the client's reconnect loop ends.
AttachSlot(t) ==
  /\ attach[t].pc = "slot" /\ ~closed
  /\ slot' = attach[t].gen
  /\ attach' = [attach EXCEPT ![t].pc = "done"]
  /\ loops' = IF Role = "client" THEN [loops EXCEPT !.attach = @ - 1, !.clear = @ + 1]
              ELSE loops
  /\ UNCHANGED << transport_gen, transport_attached, tasks, detach, reconnect_active, endVars,
                  dead >>

-----------------------------------------------------------------------------
(* detach_transport, called by a reader or the writer whose transport failed. *)

\* Only the task that moves the generation on goes further.
DetachBegin(k, gen) ==
  IF transport_gen = gen
  THEN /\ transport_gen' = gen + 1
       /\ detach' = [detach EXCEPT ![k] = [pc |-> "store", gen |-> gen]]
  ELSE UNCHANGED << transport_gen, detach >>

\* A read fails, and the reader task ends after detach_transport(gen, false).
ReaderFail(t) ==
  /\ MayStart /\ reader[t] = "run" /\ t \in dead
  /\ reader' = [reader EXCEPT ![t] = "none"]
  /\ DetachBegin(t, attach[t].gen)
  /\ UNCHANGED << transport_attached, slot, writer_cmd, writer, attach, loopVars, endVars, dead >>

\* A write fails: detach_transport(gen, true), then the writer drops its transport.
WriterFail ==
  /\ MayStart /\ ~Detaching(Writer) /\ writer.t \in dead
  /\ writer' = [writer EXCEPT !.t = None]
  /\ DetachBegin(Writer, writer.gen)
  /\ UNCHANGED << transport_attached, slot, writer_cmd, reader, attach, loopVars, endVars, dead >>

DetachStore(k) ==
  /\ detach[k].pc = "store" /\ ~closed
  /\ transport_attached' = FALSE
  /\ detach' = [detach EXCEPT ![k].pc = IF k = Writer THEN "abort" ELSE "send"]
  /\ UNCHANGED << transport_gen, slot, tasks, attach, loopVars, endVars, dead >>

\* The handle is taken out of the slot, and used only if it is of this generation.
DetachAbort ==
  /\ detach[Writer].pc = "abort" /\ ~closed
  /\ reader' = IF slot = detach[Writer].gen THEN Aborted(slot) ELSE reader
  /\ slot' = None
  /\ detach' = [detach EXCEPT ![Writer].pc = "send"]
  /\ UNCHANGED << transport_gen, transport_attached, writer_cmd, writer, attach, loopVars,
                  endVars, dead >>

DetachSend(k) ==
  /\ detach[k].pc = "send" /\ ~closed
  /\ writer_cmd' = Append(writer_cmd, Cmd("detach", detach[k].gen, None))
  /\ detach' = [detach EXCEPT ![k].pc = "react"]
  /\ UNCHANGED << shared, writer, reader, attach, loopVars, endVars, dead >>

\* Mutants: a reconnect loop is never started, or whether or not one is active.
StartLoopNever == UNCHANGED loopVars
StartLoopAlways ==
  /\ loops' = [loops EXCEPT !.resume = @ + 1]
  /\ reconnect_active' = TRUE

\* spawn_reconnect_loop: one loop at a time.
StartLoop ==
  IF reconnect_active
  THEN UNCHANGED loopVars
  ELSE /\ loops' = [loops EXCEPT !.resume = @ + 1]
       /\ reconnect_active' = TRUE

DetachReact(k) ==
  /\ detach[k].pc = "react" /\ ~closed
  /\ IF Role = "client"
     THEN StartLoop /\ UNCHANGED timers
     ELSE timers' = timers \cup {detach[k].gen + 1} /\ UNCHANGED loopVars
  /\ detach' = [detach EXCEPT ![k] = Idle]
  /\ UNCHANGED << shared, tasks, attach, expiring, closed, dead >>

-----------------------------------------------------------------------------
(* The end of the reconnect loop, the expiry timer and the writer.         *)

LoopClear ==
  /\ loops.clear > 0 /\ ~closed
  /\ reconnect_active' = FALSE
  /\ loops' = [loops EXCEPT !.clear = @ - 1, !.check = @ + 1]
  /\ UNCHANGED << shared, tasks, calls, endVars, dead >>

\* A detach while the flag was set started no loop of its own, so go on unless
\* a transport is attached or another loop has started.
LoopCheck ==
  /\ loops.check > 0 /\ ~closed
  /\ IF transport_attached \/ reconnect_active
     THEN /\ loops' = [loops EXCEPT !.check = @ - 1]
          /\ UNCHANGED reconnect_active
     ELSE /\ loops' = [loops EXCEPT !.check = @ - 1, !.resume = @ + 1]
          /\ reconnect_active' = TRUE
  /\ UNCHANGED << shared, tasks, calls, endVars, dead >>

\* Mutant: the expiry timer does not look at the generation.
TimerFiresAlways(gen) ==
  /\ MayStart /\ ~expiring /\ gen \in timers
  /\ timers' = timers \ {gen}
  /\ expiring' = TRUE
  /\ UNCHANGED << shared, tasks, calls, loopVars, closed, dead >>

\* detached_ttl passes.
TimerFires(gen) ==
  /\ MayStart /\ ~expiring /\ gen \in timers
  /\ timers' = timers \ {gen}
  /\ expiring' = (transport_gen = gen)
  /\ UNCHANGED << shared, tasks, calls, loopVars, closed, dead >>

Expire ==
  /\ expiring /\ ~closed
  /\ closed' = TRUE
  /\ transport_attached' = FALSE
  /\ UNCHANGED << transport_gen, slot, tasks, calls, loopVars, timers, expiring, dead >>

\* Mutant: a Detach is applied whatever its generation.
AppliedAnyGen(cmd) ==
  IF cmd.type = "attach" THEN [t |-> cmd.writer, gen |-> cmd.gen] ELSE [writer EXCEPT !.t = None]

Applied(cmd) ==
  IF cmd.type = "attach"
  THEN [t |-> cmd.writer, gen |-> cmd.gen]
  ELSE IF cmd.gen = writer.gen THEN [writer EXCEPT !.t = None] ELSE writer

WriterApply ==
  /\ MayStart /\ ~Detaching(Writer) /\ writer_cmd # << >>
  /\ writer' = Applied(Head(writer_cmd))
  /\ writer_cmd' = Tail(writer_cmd)
  /\ UNCHANGED << shared, reader, calls, loopVars, endVars, dead >>

Attach(t) ==
  \/ AttachAbort(t) \/ AttachSend(t) \/ AttachStore(t) \/ AttachSpawn(t) \/ AttachSlot(t)

Detach(k) == DetachStore(k) \/ DetachSend(k) \/ DetachReact(k)

Step ==
  \/ \E t \in Transport \ {1} : AttachBegin(t)
  \/ \E t \in Transport : Attach(t) \/ ReaderFail(t) \/ Fail(t)
  \/ \E k \in Task : Detach(k)
  \/ DetachAbort \/ WriterFail \/ WriterApply
  \/ LoopClear \/ LoopCheck
  \/ \E gen \in timers : TimerFires(gen)
  \/ Expire

\* The mode never changes.
Next == UNCHANGED mode /\ Step

Spec == Init /\ [][Next]_vars

-----------------------------------------------------------------------------
(* Properties.                                                             *)

Call == [pc : {"idle", "abort", "send", "store", "spawn", "slot", "react", "done"}, gen : Nat]

\* A transport moves the generation on twice at most: attached and detached.
TypeOK ==
  /\ mode \in [role : Roles, multi_thread : Threading]
  /\ transport_gen \in 1 .. 2 * MaxTransport
  /\ transport_attached \in BOOLEAN
  /\ slot \in Nat
  /\ writer_cmd \in Seq([type : {"attach", "detach"}, gen : Nat, writer : Task])
  /\ writer \in [t : Task, gen : Nat]
  /\ reader \in [Transport -> {"none", "run"}]
  /\ attach \in [Transport -> Call]
  /\ detach \in [Task -> Call]
  /\ loops \in [resume : Nat, attach : Nat, clear : Nat, check : Nat]
  /\ reconnect_active \in BOOLEAN
  /\ timers \subseteq Nat
  /\ expiring \in BOOLEAN
  /\ closed \in BOOLEAN
  /\ dead \subseteq Transport

\* Nothing is under way and the writer has applied its commands.
AtRest == ~Busy /\ writer_cmd = << >> /\ ~closed

\* A client at rest has a transport, or a reconnect loop at work: "A transport
\* that fails while the reconnect loop is finishing must still be replaced: its
\* detach found the loop running and started none of its own"
\* (regression_test.rs).
NotStranded == Role = "client" /\ AtRest => writer.t # None \/ loops.resume > 0

\* On one thread a client at rest is never stranded: clearing the flag and looking
\* for a transport again makes up for a detach that found the loop running
\* (spawn_reconnect_loop).
NotStrandedOnOneThread == MultiThread \/ NotStranded

\* Two reconnect loops never dial at once: the flag admits one, also while an
\* earlier loop is about to end (spawn_reconnect_loop).
OneDialer == loops.resume + loops.attach + loops.clear <= 1

\* On one thread the flag tells the truth: at rest the endpoint is attached exactly
\* when the writer has a transport, and that is the one of the current generation
\* (attach_transport_parts, detach_transport).
AttachedIsCurrent ==
  ~MultiThread /\ AtRest =>
    /\ transport_attached <=> writer.t # None
    /\ writer.t # None => writer.gen = transport_gen

\* On one thread a running reader is the one whose handle the next attach will
\* abort; a reader that no handle reaches would go on beside its successor
\* (current_reader_abort).
ReaderCanBeAborted ==
  ~MultiThread /\ AtRest => \A t \in Transport : reader[t] = "run" => attach[t].gen = slot

\* The writer gives up a transport for no transport only if that one failed: a
\* stale Detach never takes away a newer transport.
WriterDropsOnlyFailed ==
  [][writer.t # None /\ writer'.t = None => writer.t \in dead]_vars

\* On one thread detached_ttl closes the connection only while it is detached: a
\* resume that came first moved the generation on (spawn_server_expiry).
ExpiresOnlyDetached ==
  [][~MultiThread /\ closed' /\ ~closed =>
       ~transport_attached /\ \A t \in Transport : ~Attaching(t)]_vars
=============================================================================
