----------------------------- MODULE Ownership ------------------------------
(***************************************************************************)
(* Who holds a connection that its caller owns.  Every handle, of the      *)
(* connection or of a stream opened from it, holds the Owner; dropping the *)
(* last one closes the connection in the background.  The connection also  *)
(* refers to itself: its stream table and its default stream hold streams, *)
(* which hold the connection, and so do its tasks; closing has to undo     *)
(* this, or the connection is never freed.  A handler of the default       *)
(* stream starts tasks with new_task, one at a time, each with a handle.   *)
(*                                                                         *)
(* A sender of PlainConnection is a task with a stream of its own.         *)
(***************************************************************************)
EXTENDS PlainConnection

CONSTANT Task    \* the tasks that new_task may have running

\* The handles of the connection, of streams and of tasks are told apart.
ASSUME OwnershipAssumption ==
  /\ Sender \cap Task = {}
  /\ {"conn", "handler", "default"} \cap (Sender \cup Task) = {}

VARIABLES
  handles,   \* who holds the Owner
  streams,   \* the streams opened so far
  table,     \* stream_contexts
  default,   \* is default_stream set?
  decoding,  \* the streams whose decode task runs
  dropper,   \* the background task of Owner::drop
  handler,   \* the handler's call of new_task
  active,    \* handler_task_active of the default stream's context
  tasks      \* where each task is

ownVars == << handles, streams, table, default, decoding, dropper, handler, active, tasks >>
allVars == << plainVars, ownVars >>

OwnInit ==
  /\ PlainInit
  /\ handles = {"conn"}
  /\ streams = {}
  /\ table = {"default"}
  /\ default = TRUE
  /\ decoding = {"default"}
  /\ dropper = "none"
  /\ handler = "idle"
  /\ active = FALSE
  /\ tasks = [i \in Task |-> "none"]

-----------------------------------------------------------------------------
(* Closing, as seen by the stream table.                                   *)

\* Mutant: the connection keeps its default stream.
CloseAllStreamsKeepsDefault ==
  /\ table' = IF closed' /\ ~closed THEN {} ELSE table
  /\ UNCHANGED default

\* close_all_streams, which mark_closed calls the first time.
CloseAllStreams ==
  /\ table' = IF closed' /\ ~closed THEN {} ELSE table
  /\ default' = (default /\ (closed' => closed))

\* A step of the connection that no handle is needed for, or one that is at hand.
ConnectionSteps(A) ==
  /\ A
  /\ CloseAllStreams
  /\ UNCHANGED << handles, streams, decoding, dropper, handler, active, tasks >>

\* A closed stream's decode task ends.  The one of the default stream stands for
\* its handler task too.
DecodeEnds(s) ==
  /\ s \in decoding \ table /\ (s = "default" => handler = "idle")
  /\ decoding' = decoding \ {s}
  /\ UNCHANGED << plainVars, handles, streams, table, default, dropper, handler, active, tasks >>

-----------------------------------------------------------------------------
(* Handles.                                                                *)

\* A handle is dropped.  With the last one goes the Owner: its drop spawns close,
\* or calls close_now if no runtime is at hand.
Release(h) ==
  /\ handles' = handles \ {h}
  /\ \/ /\ handles # {h}
        /\ UNCHANGED << plainVars, dropper >>
     \/ /\ handles = {h}
        /\ dropper' = "spawned"
        /\ UNCHANGED plainVars
     \/ /\ handles = {h}
        /\ CloseNow \/ (closed /\ UNCHANGED plainVars)
        /\ UNCHANGED dropper
  /\ CloseAllStreams

\* A handle that is not in a call is dropped; a call of close borrows its handle.
DropHandle(h) ==
  /\ h \in handles
  /\ h = "conn" => closer \notin Flushing
  /\ h \in Sender => sender[h].pc # "queue"
  /\ h \in Sender \cup {"conn"}
  /\ Release(h)
  /\ UNCHANGED << streams, decoding, handler, active, tasks >>

\* The background close: like any call of close.
DropperCloses ==
  /\ dropper = "spawned"
  /\ \/ Close /\ dropper' = "closing"
     \/ closing /\ CloseNow /\ dropper' = "none"
     \/ closed /\ closing /\ UNCHANGED plainVars /\ dropper' = "none"
  /\ CloseAllStreams
  /\ UNCHANGED << handles, streams, decoding, handler, active, tasks >>

DropperReturns ==
  /\ dropper = "closing" /\ CloseReturns
  /\ dropper' = "none"
  /\ CloseAllStreams
  /\ UNCHANGED << handles, streams, decoding, handler, active, tasks >>

\* new_stream: registered unless the connection is closed, and a handle for it.
NewStream(t) ==
  /\ "conn" \in handles /\ t \notin streams
  /\ streams' = streams \cup {t}
  /\ handles' = handles \cup {t}
  /\ table' = IF closed THEN table ELSE table \cup {t}
  /\ decoding' = IF closed THEN decoding ELSE decoding \cup {t}
  /\ UNCHANGED << plainVars, default, dropper, handler, active, tasks >>

-----------------------------------------------------------------------------
(* new_task.                                                               *)

\* First a handle for the task, which holds the Owner if that still exists.
TaskHandle ==
  /\ handler = "idle" /\ "default" \in decoding
  /\ handler' = "gate"
  /\ handles' = IF handles = {} THEN {} ELSE handles \cup {"handler"}
  /\ UNCHANGED << plainVars, streams, table, default, decoding, dropper, active, tasks >>

\* The task is started with the handle and the guard...
TaskStarts(i) ==
  /\ handler = "gate" /\ ~active /\ tasks[i] = "none"
  /\ active' = TRUE
  /\ tasks' = [tasks EXCEPT ![i] = "run"]
  /\ handles' = IF "handler" \in handles THEN (handles \ {"handler"}) \cup {i} ELSE handles
  /\ handler' = "idle"
  /\ UNCHANGED << plainVars, streams, table, default, decoding, dropper >>

\* Mutant: the guard exists already and clears the flag.
TaskBusyClears ==
  /\ handler = "gate" /\ active
  /\ IF "handler" \in handles THEN Release("handler")
                              ELSE UNCHANGED << plainVars, handles, dropper, table, default >>
  /\ handler' = "idle"
  /\ active' = FALSE
  /\ UNCHANGED << streams, decoding, tasks >>

\* ...or Error::HandlerTaskBusy, and the handle is dropped.
TaskBusy ==
  /\ handler = "gate" /\ active
  /\ IF "handler" \in handles THEN Release("handler")
                              ELSE UNCHANGED << plainVars, handles, dropper, table, default >>
  /\ handler' = "idle"
  /\ UNCHANGED << active, streams, decoding, tasks >>

\* The task's future completes and drops its handle; then its guard.
TaskEnds(i) ==
  /\ tasks[i] = "run"
  /\ IF i \in handles THEN Release(i) ELSE UNCHANGED << plainVars, handles, dropper, table, default >>
  /\ tasks' = [tasks EXCEPT ![i] = "guard"]
  /\ UNCHANGED << streams, decoding, handler, active >>

\* HandlerTaskGuard::drop
TaskClears(i) ==
  /\ tasks[i] = "guard"
  /\ tasks' = [tasks EXCEPT ![i] = "none"]
  /\ active' = FALSE
  /\ UNCHANGED << plainVars, handles, streams, table, default, decoding, dropper, handler >>

-----------------------------------------------------------------------------
\* What the holder of a handle calls.
AppCloses == "conn" \in handles /\ ConnectionSteps(Close \/ CloseNow)
AppDropsClose == dropper # "closing" /\ ConnectionSteps(CloseDropped)
CloseContinues == ConnectionSteps(CloseQueues)
AppReturns == dropper # "closing" /\ ConnectionSteps(CloseReturns)
AppSends(t) == t \in handles /\ ConnectionSteps(SendStep(t))

OwnNext ==
  \/ AppCloses \/ AppDropsClose \/ CloseContinues \/ AppReturns
  \/ ConnectionSteps(PeerCloses \/ ReaderEnds \/ ReaderDrained \/ ReaderFails \/ WriterStep)
  \/ \E t \in Sender : AppSends(t) \/ NewStream(t)
  \/ \E h \in handles : DropHandle(h)
  \/ \E s \in decoding : DecodeEnds(s)
  \/ DropperCloses \/ DropperReturns
  \/ TaskHandle \/ TaskBusy
  \/ \E i \in Task : TaskStarts(i) \/ TaskEnds(i) \/ TaskClears(i)

OwnSpec == OwnInit /\ [][OwnNext]_allVars

\* The runtime runs what is ready, and timers fire.  Nobody need drop a handle,
\* close, or let a task end, and the transport may block for ever.
FairOwnSpec ==
  /\ OwnSpec
  /\ WF_allVars(DropperCloses)
  /\ WF_allVars(AppReturns \/ DropperReturns)
  /\ WF_allVars(TaskBusy \/ \E i \in Task : TaskStarts(i))
  /\ WF_allVars(\E i \in Task : TaskClears(i))
  /\ WF_allVars(\E s \in decoding : DecodeEnds(s))
  /\ \A t \in Sender : WF_allVars(t \in handles /\ ConnectionSteps(SendQueues(t) \/ SendFails(t)))

-----------------------------------------------------------------------------
(* Properties.                                                             *)

OwnTypeOK ==
  /\ PlainTypeOK
  /\ handles \subseteq Sender \cup Task \cup {"conn", "handler"}
  /\ streams \subseteq Sender
  /\ table \subseteq streams \cup {"default"} /\ decoding \subseteq streams \cup {"default"}
  /\ {default, active} \subseteq BOOLEAN
  /\ dropper \in {"none", "spawned", "closing"}
  /\ handler \in {"idle", "gate"}
  /\ tasks \in [Task -> {"none", "run", "guard"}]

\* Nothing refers to the connection, so its memory is given back.
Freed ==
  /\ closed /\ writer.pc = "ended" /\ closer \notin Flushing
  /\ handles = {} /\ dropper = "none"
  /\ table = {} /\ ~default /\ decoding = {}
  /\ handler = "idle" /\ \A i \in Task : tasks[i] = "none"

\* Once the last handle is dropped, in a runtime or outside of one, in the middle
\* of an abandoned close or while a handler starts a task, the connection is closed
\* and freed, although the transport may block for ever: "Once the last handle to it
\* and the last handle to a stream opened from it are dropped, the connection closes
\* in the background" (Connection).  A task that got no handle may keep it.
UnownedIsFreed == handles = {} ~> Freed \/ \E i \in Task : tasks[i] = "run"

\* At most one task of a context runs, and the gate is shut exactly as long as one
\* does: "only one active task is allowed" (new_task).
OneTask ==
  /\ \A i, j \in Task : tasks[i] # "none" /\ tasks[j] # "none" => i = j
  /\ active <=> \E i \in Task : tasks[i] # "none"
=============================================================================
