---------------------- MODULE TransportLifecycleProofs ----------------------
(***************************************************************************)
(* Proofs about TransportLifecycle, for any number of transports: one      *)
(* reconnect loop dials at a time; the writer gives up only a transport    *)
(* that failed; and, where the tasks share one thread, a client at rest    *)
(* has a transport or a loop that dials, the attached flag tells the       *)
(* truth, the next attach can abort every running reader, and detached_ttl *)
(* expires only a detached connection.                                     *)
(***************************************************************************)
EXTENDS TransportLifecycle, TLAPS

LoopCounts == [resume : Nat, attach : Nat, clear : Nat, check : Nat]
Cmds == [type : {"attach", "detach"}, gen : Nat, writer : Task]

\* Types, without the bound on the generation.
Typed ==
  /\ mode \in [role : Roles, multi_thread : Threading]
  /\ transport_gen \in Nat
  /\ transport_attached \in BOOLEAN
  /\ slot \in Nat
  /\ writer_cmd \in Seq(Cmds)
  /\ writer \in [t : Task, gen : Nat]
  /\ reader \in [Transport -> {"none", "run"}]
  /\ attach \in [Transport -> Call]
  /\ detach \in [Task -> Call]
  /\ loops \in LoopCounts
  /\ reconnect_active \in BOOLEAN
  /\ timers \subseteq Nat
  /\ expiring \in BOOLEAN
  /\ closed \in BOOLEAN
  /\ dead \subseteq Transport

\* The flag is set while a loop dials, attaches or is about to clear it, and the
\* client's attach calls are those of the loop.
Dialing ==
  /\ loops.resume + loops.attach + loops.clear = IF reconnect_active THEN 1 ELSE 0
  /\ Role = "client" =>
       /\ \A t \in Transport : Attaching(t) => loops.attach = 1
       /\ \A t, u \in Transport : Attaching(t) /\ Attaching(u) => t = u
       /\ loops.attach > 0 => \E t \in Transport : Attaching(t)

\* The transports of a generation that was detached have failed.
Failed(gen) == \A t \in Transport : attach[t].gen = gen => t \in dead

\* Every attach has a generation of its own, ...
AttachGens ==
  /\ \A t \in Transport : attach[t].pc = "idle" => attach[t].gen = 0 /\ t \notin dead
  /\ \A t \in Transport : attach[t].pc # "idle" => attach[t].gen \in 1 .. transport_gen
  /\ \A t, u \in Transport : attach[t].pc # "idle" /\ attach[t].gen = attach[u].gen => t = u

\* ... and a task detaches an earlier one.
DetachGens ==
  \A k \in Task :
    Detaching(k) => detach[k].gen \in 1 .. transport_gen - 1 /\ Failed(detach[k].gen)

\* The same of a command in the writer's channel, and of the writer's transport.
CommandOK(cmd) ==
  /\ cmd.type = "attach" =>
       /\ cmd.writer \in Transport
       /\ attach[cmd.writer].pc # "idle"
       /\ attach[cmd.writer].gen = cmd.gen
  /\ cmd.type = "detach" => cmd.gen \in 1 .. transport_gen - 1 /\ Failed(cmd.gen)

Commands ==
  /\ \A i \in 1 .. Len(writer_cmd) : CommandOK(writer_cmd[i])
  /\ writer.t # None => attach[writer.t].pc # "idle" /\ attach[writer.t].gen = writer.gen
  /\ writer.gen <= transport_gen

-----------------------------------------------------------------------------
\* The constants' types.
LEMMA ConstantTypes ==
  /\ MaxTransport \in Nat \ {0}
  /\ Transport \subseteq Nat \ {0}
  /\ 1 \in Transport
  /\ Writer \in Task /\ Writer \notin Transport /\ Transport \subseteq Task
  /\ None \in Task /\ None \notin Transport /\ None \in Nat
  /\ Idle \in Call
  BY LifecycleAssumption DEF Transport, Task, Writer, None, Idle, Call

\* A loop starts, attaches, comes to the end of its attach, clears the flag, ends.
LEMMA LoopMoves ==
  ASSUME NEW l \in LoopCounts
  PROVE  /\ [l EXCEPT !.resume = @ + 1] \in LoopCounts
         /\ l.resume > 0 => [l EXCEPT !.resume = @ - 1, !.attach = @ + 1] \in LoopCounts
         /\ l.attach > 0 => [l EXCEPT !.attach = @ - 1, !.clear = @ + 1] \in LoopCounts
         /\ l.clear > 0 => [l EXCEPT !.clear = @ - 1, !.check = @ + 1] \in LoopCounts
         /\ l.check > 0 => [l EXCEPT !.check = @ - 1] \in LoopCounts
         /\ l.check > 0 => [l EXCEPT !.check = @ - 1, !.resume = @ + 1] \in LoopCounts
  <1>1. [l EXCEPT !.resume = @ + 1] \in LoopCounts
    BY DEF LoopCounts
  <1>2. ASSUME l.resume > 0
        PROVE  [l EXCEPT !.resume = @ - 1, !.attach = @ + 1] \in LoopCounts
    <2>1. l.resume - 1 \in Nat /\ l.attach + 1 \in Nat
      BY <1>2 DEF LoopCounts
    <2>2. \A x, y \in Nat : [l EXCEPT !.resume = x, !.attach = y] \in LoopCounts
      BY DEF LoopCounts
    <2>3. [l EXCEPT !.resume = @ - 1, !.attach = @ + 1]
            = [l EXCEPT !.resume = l.resume - 1, !.attach = l.attach + 1]
      BY DEF LoopCounts
    <2>4. QED
      BY <2>1, <2>2, <2>3
  <1>3. ASSUME l.attach > 0
        PROVE  [l EXCEPT !.attach = @ - 1, !.clear = @ + 1] \in LoopCounts
    <2>1. l.attach - 1 \in Nat /\ l.clear + 1 \in Nat
      BY <1>3 DEF LoopCounts
    <2>2. \A x, y \in Nat : [l EXCEPT !.attach = x, !.clear = y] \in LoopCounts
      BY DEF LoopCounts
    <2>3. [l EXCEPT !.attach = @ - 1, !.clear = @ + 1]
            = [l EXCEPT !.attach = l.attach - 1, !.clear = l.clear + 1]
      BY DEF LoopCounts
    <2>4. QED
      BY <2>1, <2>2, <2>3
  <1>4. ASSUME l.clear > 0
        PROVE  [l EXCEPT !.clear = @ - 1, !.check = @ + 1] \in LoopCounts
    <2>1. l.clear - 1 \in Nat /\ l.check + 1 \in Nat
      BY <1>4 DEF LoopCounts
    <2>2. \A x, y \in Nat : [l EXCEPT !.clear = x, !.check = y] \in LoopCounts
      BY DEF LoopCounts
    <2>3. [l EXCEPT !.clear = @ - 1, !.check = @ + 1]
            = [l EXCEPT !.clear = l.clear - 1, !.check = l.check + 1]
      BY DEF LoopCounts
    <2>4. QED
      BY <2>1, <2>2, <2>3
  <1>5. ASSUME l.check > 0
        PROVE  [l EXCEPT !.check = @ - 1] \in LoopCounts
    BY <1>5 DEF LoopCounts
  <1>6. ASSUME l.check > 0
        PROVE  [l EXCEPT !.check = @ - 1, !.resume = @ + 1] \in LoopCounts
    <2>1. l.check - 1 \in Nat /\ l.resume + 1 \in Nat
      BY <1>6 DEF LoopCounts
    <2>2. \A x, y \in Nat : [l EXCEPT !.check = x, !.resume = y] \in LoopCounts
      BY DEF LoopCounts
    <2>3. [l EXCEPT !.check = @ - 1, !.resume = @ + 1]
            = [l EXCEPT !.check = l.check - 1, !.resume = l.resume + 1]
      BY DEF LoopCounts
    <2>4. QED
      BY <2>1, <2>2, <2>3
  <1>7. QED
    BY <1>1, <1>2, <1>3, <1>4, <1>5, <1>6

\* A command of either kind, and the channel after it is sent.
LEMMA SendTyped ==
  ASSUME Typed, NEW type \in {"attach", "detach"}, NEW gen \in Nat, NEW t \in Task
  PROVE  /\ Cmd(type, gen, t) \in Cmds
         /\ Append(writer_cmd, Cmd(type, gen, t)) \in Seq(Cmds)
         /\ Len(Append(writer_cmd, Cmd(type, gen, t))) = Len(writer_cmd) + 1
         /\ \A i \in 1 .. Len(writer_cmd) :
              Append(writer_cmd, Cmd(type, gen, t))[i] = writer_cmd[i]
         /\ Append(writer_cmd, Cmd(type, gen, t))[Len(writer_cmd) + 1] = Cmd(type, gen, t)
  <1> DEFINE c == Cmd(type, gen, t)
  <1>1. c \in Cmds
    BY DEF Cmd, Cmds
  <1>2. writer_cmd \in Seq(Cmds)
    BY DEF Typed
  <1> HIDE DEF c
  <1>3. /\ Append(writer_cmd, c) \in Seq(Cmds)
        /\ Len(Append(writer_cmd, c)) = Len(writer_cmd) + 1
        /\ \A i \in 1 .. Len(writer_cmd) : Append(writer_cmd, c)[i] = writer_cmd[i]
        /\ Append(writer_cmd, c)[Len(writer_cmd) + 1] = c
    BY <1>1, <1>2
  <1>4. QED
    BY <1>1, <1>3 DEF c

\* What the writer takes from its channel.
LEMMA TakeTyped ==
  ASSUME Typed, writer_cmd # << >>
  PROVE  /\ Head(writer_cmd) \in Cmds /\ Head(writer_cmd) = writer_cmd[1]
         /\ Len(writer_cmd) \in Nat \ {0}
         /\ Tail(writer_cmd) \in Seq(Cmds)
         /\ Len(Tail(writer_cmd)) = Len(writer_cmd) - 1
         /\ \A i \in 1 .. Len(writer_cmd) - 1 : Tail(writer_cmd)[i] = writer_cmd[i + 1]
         /\ Applied(Head(writer_cmd)) \in [t : Task, gen : Nat]
  <1>1. writer_cmd \in Seq(Cmds) /\ writer \in [t : Task, gen : Nat]
    BY DEF Typed
  <1>2. /\ Head(writer_cmd) \in Cmds /\ Head(writer_cmd) = writer_cmd[1]
        /\ Len(writer_cmd) \in Nat \ {0}
        /\ Tail(writer_cmd) \in Seq(Cmds)
        /\ Len(Tail(writer_cmd)) = Len(writer_cmd) - 1
        /\ \A i \in 1 .. Len(writer_cmd) - 1 : Tail(writer_cmd)[i] = writer_cmd[i + 1]
    BY <1>1
  <1>3. Applied(Head(writer_cmd)) \in [t : Task, gen : Nat]
    BY <1>1, <1>2, ConstantTypes DEF Applied, Cmds
  <1>4. QED
    BY <1>2, <1>3

LEMMA TypedInit == Init => Typed
  <1> SUFFICES ASSUME Init PROVE Typed
    OBVIOUS
  <1>1. Cmd("attach", 1, 1) \in Cmds
    BY ConstantTypes DEF Cmd, Cmds
  <1>2. writer_cmd \in Seq(Cmds)
    BY <1>1 DEF Init
  <1>3. /\ attach \in [Transport -> Call]
        /\ detach \in [Task -> Call]
        /\ reader \in [Transport -> {"none", "run"}]
    BY ConstantTypes DEF Init, Call
  <1>4. loops \in LoopCounts
    BY DEF Init, LoopCounts
  <1>5. writer \in [t : Task, gen : Nat]
    BY ConstantTypes DEF Init
  <1>6. QED
    BY <1>2, <1>3, <1>4, <1>5, ConstantTypes DEF Init, Typed

\* Every step keeps the types.
LEMMA TypedStep ==
  ASSUME Typed, Dialing, [Next]_vars
  PROVE  Typed'
  <1> USE ConstantTypes
  <1>1. CASE UNCHANGED vars
    BY <1>1 DEF Typed, vars, shared, tasks, calls, loopVars, endVars
  <1> SUFFICES ASSUME Next PROVE Typed'
    BY <1>1
  <1>2. mode' = mode /\ mode \in [role : Roles, multi_thread : Threading]
    BY DEF Next, Typed
  <1>3. ASSUME NEW t \in Transport \ {1}, AttachBegin(t) PROVE Typed'
    <2>1. [pc |-> "abort", gen |-> transport_gen + 1] \in Call
      BY DEF Call, Typed
    <2>2. attach' \in [Transport -> Call]
      BY <1>3, <2>1 DEF AttachBegin, Typed
    <2>3. loops' \in LoopCounts
      BY <1>3, LoopMoves DEF AttachBegin, Typed
    <2>4. QED
      BY <1>2, <1>3, <2>2, <2>3 DEF AttachBegin, Typed, tasks, endVars
  <1>4. ASSUME NEW t \in Transport, Attach(t) PROVE Typed'
    <2>1. attach[t] \in Call /\ attach[t].gen \in Nat
      BY DEF Typed, Call
    <2>2. \A p \in {"send", "store", "spawn", "slot", "done"} :
            [attach EXCEPT ![t].pc = p] \in [Transport -> Call]
      BY DEF Typed, Call
    <2>3. CASE AttachAbort(t)
      <3>1. reader' \in [Transport -> {"none", "run"}]
        BY <2>3 DEF AttachAbort, Aborted, Typed
      <3>2. QED
        BY <1>2, <2>2, <2>3, <3>1 DEF AttachAbort, Typed, loopVars, endVars
    <2>4. CASE AttachSend(t)
      <3>1. writer_cmd' \in Seq(Cmds)
        BY <2>1, <2>4, SendTyped DEF AttachSend
      <3>2. QED
        BY <1>2, <2>2, <2>4, <3>1 DEF AttachSend, Typed, shared, loopVars, endVars
    <2>5. CASE AttachStore(t)
      BY <1>2, <2>2, <2>5 DEF AttachStore, Typed, tasks, loopVars, endVars
    <2>6. CASE AttachSpawn(t)
      BY <1>2, <2>2, <2>6 DEF AttachSpawn, Typed, shared, loopVars, endVars
    <2>7. CASE AttachSlot(t)
      <3>1. loops' \in LoopCounts
        <4>1. loops \in LoopCounts
          BY DEF Typed
        <4>2. CASE Role = "client"
          <5>1. loops.attach = 1
            BY <2>7, <4>2 DEF AttachSlot, Dialing, Attaching
          <5>2. loops' = [loops EXCEPT !.attach = @ - 1, !.clear = @ + 1]
            BY <2>7, <4>2 DEF AttachSlot
          <5>3. loops.attach > 0
            BY <5>1
          <5>4. [loops EXCEPT !.attach = @ - 1, !.clear = @ + 1] \in LoopCounts
            BY <4>1, <5>3, LoopMoves
          <5>5. QED
            BY <5>2, <5>4
        <4>3. QED
          BY <2>7, <4>1, <4>2 DEF AttachSlot
      <3>2. QED
        BY <1>2, <2>1, <2>2, <2>7, <3>1 DEF AttachSlot, Typed, tasks, endVars
    <2>8. QED
      BY <1>4, <2>3, <2>4, <2>5, <2>6, <2>7 DEF Attach
  <1>5. ASSUME NEW k \in Task, NEW g \in Nat, DetachBegin(k, g)
        PROVE  transport_gen' \in Nat /\ detach' \in [Task -> Call]
    <2>1. [pc |-> "store", gen |-> g] \in Call
      BY DEF Call
    <2>2. QED
      BY <1>5, <2>1 DEF DetachBegin, Typed
  <1>6. ASSUME NEW t \in Transport, ReaderFail(t) PROVE Typed'
    <2>1. attach[t].gen \in Nat
      BY DEF Typed, Call
    <2>2. transport_gen' \in Nat /\ detach' \in [Task -> Call]
      BY <1>5, <1>6, <2>1 DEF ReaderFail
    <2>3. QED
      BY <1>2, <1>6, <2>2 DEF ReaderFail, Typed, loopVars, endVars
  <1>7. ASSUME NEW t \in Transport, Fail(t) PROVE Typed'
    BY <1>2, <1>7 DEF Fail, Typed, shared, tasks, calls, loopVars, endVars
  <1>8. ASSUME NEW k \in Task, Detach(k) PROVE Typed'
    <2>1. detach[k] \in Call /\ detach[k].gen \in Nat
      BY DEF Typed, Call
    <2>2. \A p \in {"abort", "send", "react"} :
            [detach EXCEPT ![k].pc = p] \in [Task -> Call]
      BY DEF Typed, Call
    <2>3. CASE DetachStore(k)
      BY <1>2, <2>2, <2>3 DEF DetachStore, Typed, tasks, loopVars, endVars
    <2>4. CASE DetachSend(k)
      <3>1. writer_cmd' \in Seq(Cmds)
        BY <2>1, <2>4, SendTyped DEF DetachSend
      <3>2. QED
        BY <1>2, <2>2, <2>4, <3>1 DEF DetachSend, Typed, shared, loopVars, endVars
    <2>5. CASE DetachReact(k)
      <3>1. detach' \in [Task -> Call]
        BY <2>5 DEF DetachReact, Typed
      <3>2. /\ loops' \in LoopCounts
            /\ reconnect_active' \in BOOLEAN
        BY <2>5, LoopMoves DEF DetachReact, StartLoop, Typed, loopVars
      <3>3. timers' \subseteq Nat
        <4>1. timers' = timers \/ timers' = timers \cup {detach[k].gen + 1}
          BY <2>5 DEF DetachReact
        <4>2. timers \subseteq Nat /\ detach[k].gen + 1 \in Nat
          BY <2>1 DEF Typed
        <4>3. QED
          BY <4>1, <4>2, Zenon
      <3>4. QED
        BY <1>2, <2>5, <3>1, <3>2, <3>3 DEF DetachReact, Typed, shared, tasks
    <2>6. QED
      BY <1>8, <2>3, <2>4, <2>5 DEF Detach
  <1>9. CASE DetachAbort
    <2>1. detach' \in [Task -> Call]
      BY <1>9 DEF DetachAbort, Typed, Call
    <2>2. reader' \in [Transport -> {"none", "run"}]
      BY <1>9 DEF DetachAbort, Aborted, Typed
    <2>3. QED
      BY <1>2, <1>9, <2>1, <2>2 DEF DetachAbort, Typed, loopVars, endVars
  <1>10. CASE WriterFail
    <2>1. writer.gen \in Nat /\ writer' \in [t : Task, gen : Nat]
      BY <1>10 DEF WriterFail, Typed
    <2>2. transport_gen' \in Nat /\ detach' \in [Task -> Call]
      BY <1>5, <1>10, <2>1 DEF WriterFail
    <2>3. QED
      BY <1>2, <1>10, <2>1, <2>2 DEF WriterFail, Typed, loopVars, endVars
  <1>11. CASE WriterApply
    <2>1. writer' \in [t : Task, gen : Nat] /\ writer_cmd' \in Seq(Cmds)
      BY <1>11, TakeTyped DEF WriterApply
    <2>2. QED
      BY <1>2, <1>11, <2>1 DEF WriterApply, Typed, shared, calls, loopVars, endVars
  <1>12. CASE LoopClear
    BY <1>2, <1>12, LoopMoves DEF LoopClear, Typed, shared, tasks, calls, endVars
  <1>13. CASE LoopCheck
    BY <1>2, <1>13, LoopMoves DEF LoopCheck, Typed, shared, tasks, calls, endVars
  <1>14. ASSUME NEW gen \in timers, TimerFires(gen) PROVE Typed'
    BY <1>2, <1>14 DEF TimerFires, Typed, shared, tasks, calls, loopVars
  <1>15. CASE Expire
    BY <1>2, <1>15 DEF Expire, Typed, tasks, calls, loopVars
  <1>16. QED
    BY <1>3, <1>4, <1>6, <1>7, <1>8, <1>9, <1>10, <1>11, <1>12, <1>13, <1>14, <1>15
       DEF Next, Step

-----------------------------------------------------------------------------
\* Which calls are under way after a step of an attach call, ...
LEMMA AttachMoves ==
  ASSUME Typed, NEW t \in Transport, Attach(t)
  PROVE  /\ Attaching(t)
         /\ Attaching(t)' <=> ~AttachSlot(t)
         /\ attach'[t].gen = attach[t].gen
         /\ attach'[t].pc # "idle"
         /\ \A u \in Transport : u # t => attach'[u] = attach[u]
         /\ UNCHANGED << detach, transport_gen, dead, closed, timers, expiring >>
  <1>1. attach[t] \in Call
    BY DEF Typed
  <1>2. ASSUME NEW p \in {"send", "store", "spawn", "slot", "done"},
               attach' = [attach EXCEPT ![t].pc = p]
        PROVE  /\ attach'[t].pc = p /\ attach'[t].gen = attach[t].gen
               /\ \A u \in Transport : u # t => attach'[u] = attach[u]
    BY <1>1, <1>2 DEF Typed, Call
  <1>3. /\ UNCHANGED << detach, transport_gen, dead, closed, timers, expiring >>
        /\ attach[t].pc \in {"abort", "send", "store", "spawn", "slot"}
    BY DEF Attach, AttachAbort, AttachSend, AttachStore, AttachSpawn, AttachSlot,
           shared, tasks, endVars
  <1>4. CASE AttachSlot(t)
    BY <1>2, <1>3, <1>4 DEF AttachSlot, Attaching
  <1>5. CASE ~AttachSlot(t)
    <2>1. \E p \in {"send", "store", "spawn", "slot"} : attach' = [attach EXCEPT ![t].pc = p]
      BY <1>5 DEF Attach, AttachAbort, AttachSend, AttachStore, AttachSpawn
    <2>2. QED
      BY <1>2, <1>3, <1>5, <2>1 DEF Attaching
  <1>6. QED
    BY <1>4, <1>5

\* ... after the first step of one, ...
LEMMA AttachBegins ==
  ASSUME Typed, NEW t \in Transport \ {1}, AttachBegin(t)
  PROVE  /\ attach[t].pc = "idle" /\ ~Attaching(t)
         /\ attach'[t] = [pc |-> "abort", gen |-> transport_gen + 1]
         /\ Attaching(t)'
         /\ \A u \in Transport : u # t => attach'[u] = attach[u]
         /\ UNCHANGED << detach, dead, closed, timers, expiring >>
  BY DEF Typed, AttachBegin, Attaching, endVars

\* ... and after a step of a detach call.
LEMMA DetachMoves ==
  ASSUME Typed, NEW k \in Task, Detach(k) \/ (k = Writer /\ DetachAbort)
  PROVE  /\ Detaching(k)
         /\ Detaching(k)' <=> ~DetachReact(k)
         /\ Detaching(k)' => detach'[k].gen = detach[k].gen
         /\ \A j \in Task : j # k => detach'[j] = detach[j]
         /\ UNCHANGED << attach, transport_gen, dead, closed, expiring >>
  <1>1. detach[k] \in Call
    BY DEF Typed
  <1>2. ASSUME NEW p \in {"abort", "send", "react"},
               detach' = [detach EXCEPT ![k].pc = p]
        PROVE  /\ detach'[k].pc = p /\ detach'[k].gen = detach[k].gen
               /\ \A j \in Task : j # k => detach'[j] = detach[j]
    BY <1>1, <1>2 DEF Typed, Call
  <1>3. /\ UNCHANGED << attach, transport_gen, dead, closed, expiring >>
        /\ detach[k].pc \in {"store", "abort", "send", "react"}
    BY DEF Detach, DetachStore, DetachSend, DetachReact, DetachAbort, shared, tasks, endVars
  <1>4. CASE DetachReact(k)
    BY <1>3, <1>4 DEF DetachReact, Detaching, Typed, Idle
  <1>5. CASE ~DetachReact(k)
    <2>1. \E p \in {"abort", "send", "react"} : detach' = [detach EXCEPT ![k].pc = p]
      BY <1>5 DEF Detach, DetachStore, DetachSend, DetachAbort
    <2>2. QED
      BY <1>2, <1>3, <1>5, <2>1 DEF Detaching
  <1>6. QED
    BY <1>4, <1>5

\* detach_transport moves the generation on, or does nothing.
LEMMA DetachBegins ==
  ASSUME Typed, NEW k \in Task, NEW gen \in Nat, DetachBegin(k, gen)
  PROVE  \/ UNCHANGED << transport_gen, detach >>
         \/ /\ transport_gen = gen /\ transport_gen' = transport_gen + 1
            /\ detach'[k] = [pc |-> "store", gen |-> gen]
            /\ \A j \in Task : j # k => detach'[j] = detach[j]
  BY DEF DetachBegin, Typed

LEMMA DialingInit == Init => Dialing
  BY ConstantTypes DEF Init, Dialing, Attaching, Idle

\* One loop at a time is on its way.
LEMMA DialingStep ==
  ASSUME Typed, Dialing, [Next]_vars
  PROVE  Dialing'
  <1>1. mode' = mode
    BY DEF Next, vars
  <1>2. /\ loops.resume \in Nat /\ loops.attach \in Nat
        /\ loops.clear \in Nat /\ loops.check \in Nat
        /\ loops \in LoopCounts
    BY DEF Typed, LoopCounts
  <1>3. ASSUME UNCHANGED loopVars, \A t \in Transport : Attaching(t)' <=> Attaching(t)
        PROVE  Dialing'
    BY <1>1, <1>3 DEF Dialing, loopVars, Role
  <1>4. ASSUME UNCHANGED << loopVars, attach >> PROVE Dialing'
    BY <1>3, <1>4 DEF Attaching
  <1>5. CASE UNCHANGED vars
    BY <1>4, <1>5 DEF vars, calls
  <1> SUFFICES ASSUME Next PROVE Dialing'
    BY <1>5
  <1>6. ASSUME NEW t \in Transport \ {1}, AttachBegin(t) PROVE Dialing'
    <2>1. UNCHANGED reconnect_active
      BY <1>6 DEF AttachBegin
    <2>2. CASE Role = "client"
      <3>1. loops.resume > 0 /\ loops' = [loops EXCEPT !.resume = @ - 1, !.attach = @ + 1]
        BY <1>6, <2>2 DEF AttachBegin
      <3>2. /\ loops'.resume = loops.resume - 1 /\ loops'.attach = loops.attach + 1
            /\ loops'.clear = loops.clear
        BY <3>1, <1>2 DEF LoopCounts
      <3>3. loops.attach = 0 /\ loops.resume = 1 /\ loops.clear = 0 /\ reconnect_active
        BY <1>2, <3>1 DEF Dialing
      <3>4. \A u \in Transport : ~Attaching(u)
        BY <2>2, <3>3 DEF Dialing
      <3>5. \A u \in Transport : Attaching(u)' <=> u = t
        BY <1>6, <3>4, AttachBegins DEF Attaching
      <3>6. QED
        BY <2>1, <3>2, <3>3, <3>5 DEF Dialing
    <2>3. CASE Role # "client"
      BY <1>1, <1>6, <2>1, <2>3 DEF Dialing, AttachBegin, Role
    <2>4. QED
      BY <2>2, <2>3
  <1>7. ASSUME NEW t \in Transport, Attach(t) PROVE Dialing'
    <2>1. CASE ~AttachSlot(t)
      <3>1. UNCHANGED loopVars
        BY <1>7, <2>1
           DEF Attach, AttachAbort, AttachSend, AttachStore, AttachSpawn, loopVars
      <3>2. \A u \in Transport : Attaching(u)' <=> Attaching(u)
        BY <1>7, <2>1, AttachMoves DEF Attaching
      <3>3. QED
        BY <1>3, <3>1, <3>2
    <2>2. CASE AttachSlot(t)
      <3>1. UNCHANGED reconnect_active
        BY <2>2 DEF AttachSlot
      <3>2. CASE Role = "client"
        <4>1. loops.attach = 1 /\ \A u \in Transport : Attaching(u) => u = t
          BY <1>7, <3>2, AttachMoves DEF Dialing
        <4>2. loops' = [loops EXCEPT !.attach = @ - 1, !.clear = @ + 1]
          BY <2>2, <3>2 DEF AttachSlot
        <4>3. /\ loops'.attach = loops.attach - 1 /\ loops'.clear = loops.clear + 1
              /\ loops'.resume = loops.resume
          BY <4>2, <1>2 DEF LoopCounts
        <4>4. \A u \in Transport : ~Attaching(u)'
          BY <1>7, <2>2, <4>1, AttachMoves DEF Attaching
        <4>5. QED
          BY <1>2, <3>1, <4>1, <4>3, <4>4 DEF Dialing
      <3>3. CASE Role # "client"
        BY <1>1, <2>2, <3>1, <3>3 DEF Dialing, AttachSlot, Role
      <3>4. QED
        BY <3>2, <3>3
    <2>3. QED
      BY <2>1, <2>2
  <1>8. ASSUME NEW k \in Task, Detach(k) PROVE Dialing'
    <2>1. UNCHANGED attach
      BY <1>8, DetachMoves
    <2>2. CASE UNCHANGED loopVars
      BY <1>4, <2>1, <2>2
    <2>3. CASE ~UNCHANGED loopVars
      <3>1. DetachReact(k)
        BY <1>8, <2>3 DEF Detach, DetachStore, DetachSend
      <3>2. /\ ~reconnect_active /\ reconnect_active' = TRUE
            /\ loops' = [loops EXCEPT !.resume = @ + 1]
        BY <2>3, <3>1 DEF DetachReact, StartLoop
      <3>3. loops'.resume = loops.resume + 1 /\ loops'.attach = loops.attach
            /\ loops'.clear = loops.clear
        BY <1>2, <3>2 DEF LoopCounts
      <3>4. \A t \in Transport : Attaching(t)' <=> Attaching(t)
        BY <2>1 DEF Attaching
      <3>5. loops.resume + loops.attach + loops.clear = 0
        BY <3>2 DEF Dialing
      <3>6. loops'.resume + loops'.attach + loops'.clear = 1
        BY <1>2, <3>3, <3>5
      <3>7. QED
        BY <1>1, <3>2, <3>3, <3>4, <3>6 DEF Dialing, Role
    <2>4. QED
      BY <2>2, <2>3
  <1>9. CASE LoopClear
    <2>1. UNCHANGED attach /\ reconnect_active' = FALSE /\ loops.clear > 0
          /\ loops' = [loops EXCEPT !.clear = @ - 1, !.check = @ + 1]
      BY <1>9 DEF LoopClear, calls
    <2>2. /\ loops'.clear = loops.clear - 1 /\ loops'.attach = loops.attach
          /\ loops'.resume = loops.resume
      BY <1>2, <2>1 DEF LoopCounts
    <2>3. \A t \in Transport : Attaching(t)' <=> Attaching(t)
      BY <2>1 DEF Attaching
    <2>4. loops'.resume + loops'.attach + loops'.clear = 0
      BY <1>2, <2>1, <2>2 DEF Dialing
    <2>5. QED
      BY <1>1, <2>1, <2>2, <2>3, <2>4 DEF Dialing, Role
  <1>10. CASE LoopCheck
    <2>1. UNCHANGED attach
      BY <1>10 DEF LoopCheck, calls
    <2>2. \A t \in Transport : Attaching(t)' <=> Attaching(t)
      BY <2>1 DEF Attaching
    <2>3. CASE transport_attached \/ reconnect_active
      <3>1. UNCHANGED reconnect_active /\ loops' = [loops EXCEPT !.check = @ - 1]
        BY <1>10, <2>3 DEF LoopCheck
      <3>2. /\ loops'.clear = loops.clear /\ loops'.attach = loops.attach
            /\ loops'.resume = loops.resume
        BY <1>2, <3>1 DEF LoopCounts
      <3>3. QED
        BY <1>1, <2>2, <3>1, <3>2 DEF Dialing, Role
    <2>4. CASE ~(transport_attached \/ reconnect_active)
      <3>1. /\ reconnect_active' = TRUE
            /\ loops' = [loops EXCEPT !.check = @ - 1, !.resume = @ + 1]
        BY <1>10, <2>4 DEF LoopCheck
      <3>2. /\ loops'.clear = loops.clear /\ loops'.attach = loops.attach
            /\ loops'.resume = loops.resume + 1
        BY <1>2, <3>1 DEF LoopCounts
      <3>3. loops.resume + loops.attach + loops.clear = 0
        BY <2>4 DEF Dialing
      <3>4. loops'.resume + loops'.attach + loops'.clear = 1
        BY <1>2, <3>2, <3>3
      <3>5. QED
        BY <1>1, <2>2, <3>1, <3>2, <3>4 DEF Dialing, Role
    <2>5. QED
      BY <2>3, <2>4
  <1>11. CASE (\E t \in Transport : ReaderFail(t) \/ Fail(t)) \/ DetachAbort \/ WriterFail
              \/ WriterApply \/ (\E gen \in timers : TimerFires(gen)) \/ Expire
    <2>1. UNCHANGED << loopVars, attach >>
      BY <1>11 DEF ReaderFail, Fail, DetachAbort, WriterFail, WriterApply, TimerFires, Expire,
                   calls
    <2>2. QED
      BY <1>4, <2>1
  <1>12. QED
    BY <1>6, <1>7, <1>8, <1>9, <1>10, <1>11 DEF Next, Step


-----------------------------------------------------------------------------
LEMMA GenerationsInit == Init => AttachGens /\ DetachGens /\ Commands
  <1> SUFFICES ASSUME Init PROVE AttachGens /\ DetachGens /\ Commands
    OBVIOUS
  <1>1. \A t \in Transport : attach[t].pc # "idle" => t = 1 /\ attach[t].gen = 1
    BY DEF Init, Idle
  <1>2. \A t \in Transport : attach[t].pc = "idle" => attach[t].gen = 0
    BY DEF Init, Idle
  <1>3. AttachGens /\ DetachGens
    BY <1>1, <1>2 DEF Init, AttachGens, DetachGens, Detaching, Idle
  <1>4. attach[1].pc = "done" /\ attach[1].gen = 1
    BY ConstantTypes DEF Init
  <1>5. Len(writer_cmd) = 1 /\ writer_cmd[1] = Cmd("attach", 1, 1)
    BY DEF Init
  <1>6. CommandOK(Cmd("attach", 1, 1))
    BY <1>4, ConstantTypes DEF CommandOK, Cmd
  <1>7. Commands
    BY <1>5, <1>6 DEF Init, Commands, None
  <1>8. QED
    BY <1>3, <1>7

\* What stays of the generations: nothing is forgotten, so what was known of an
\* earlier generation is still known.
GenGrows ==
  /\ transport_gen' >= transport_gen
  /\ dead \subseteq dead'
  /\ \A t \in Transport :
       \/ attach'[t].gen = attach[t].gen /\ (attach[t].pc # "idle" => attach'[t].pc # "idle")
       \/ attach[t].pc = "idle" /\ attach'[t].pc # "idle" /\ attach'[t].gen > transport_gen

LEMMA GenerationsGrow ==
  ASSUME Typed, [Next]_vars
  PROVE  GenGrows
  <1> USE ConstantTypes
  <1>1. transport_gen \in Nat /\ \A t \in Transport : attach[t].gen \in Nat
    BY DEF Typed, Call
  <1>2. CASE UNCHANGED << attach, transport_gen, dead >>
    BY <1>1, <1>2 DEF GenGrows
  <1>3. ASSUME NEW t \in Transport \ {1}, AttachBegin(t) PROVE GenGrows
    <2>1. transport_gen' = transport_gen + 1 /\ dead' = dead
      BY <1>3 DEF AttachBegin
    <2>2. QED
      BY <1>1, <1>3, <2>1, AttachBegins DEF GenGrows
  <1>4. ASSUME NEW t \in Transport, Attach(t) PROVE GenGrows
    BY <1>1, <1>4, AttachMoves DEF GenGrows
  <1>5. ASSUME NEW t \in Transport, ReaderFail(t) PROVE GenGrows
    <2>1. UNCHANGED << attach, dead >> /\ DetachBegin(t, attach[t].gen)
      BY <1>5 DEF ReaderFail
    <2>2. transport_gen' \in {transport_gen, transport_gen + 1}
      BY <2>1 DEF DetachBegin
    <2>3. QED
      BY <1>1, <2>1, <2>2 DEF GenGrows
  <1>6. CASE WriterFail
    <2>1. UNCHANGED << attach, dead >> /\ DetachBegin(Writer, writer.gen) /\ writer.gen \in Nat
      BY <1>6 DEF WriterFail, Typed
    <2>2. transport_gen' \in {transport_gen, transport_gen + 1}
      BY <2>1 DEF DetachBegin
    <2>3. QED
      BY <1>1, <2>1, <2>2 DEF GenGrows
  <1>7. ASSUME NEW t \in Transport, Fail(t) PROVE GenGrows
    BY <1>1, <1>7 DEF Fail, GenGrows, shared, calls
  <1>8. ASSUME NEW k \in Task, Detach(k) PROVE UNCHANGED << attach, transport_gen, dead >>
    BY <1>8, DetachMoves
  <1>9. CASE DetachAbort \/ WriterApply \/ LoopClear \/ LoopCheck \/ Expire
             \/ \E gen \in timers : TimerFires(gen)
    <2>1. UNCHANGED << attach, transport_gen, dead >>
      BY <1>9 DEF DetachAbort, WriterApply, LoopClear, LoopCheck, Expire, TimerFires,
                  shared, calls
    <2>2. QED
      BY <1>2, <2>1
  <1>10. CASE UNCHANGED vars
    BY <1>2, <1>10 DEF vars, shared, calls
  <1>11. QED
    BY <1>2, <1>3, <1>4, <1>5, <1>6, <1>7, <1>8, <1>9, <1>10 DEF Next, Step

FailedNext(gen) == \A t \in Transport : attach'[t].gen = gen => t \in dead'

LEMMA FailedStays ==
  ASSUME Typed, GenGrows, NEW gen \in 1 .. transport_gen, Failed(gen)
  PROVE  FailedNext(gen)
  BY SMTT(30) DEF Typed, GenGrows, Failed, FailedNext

\* A call begins to detach only the generation of a transport that has failed.
LEMMA FailsFailed ==
  ASSUME Typed, AttachGens, NEW t \in Transport, t \in dead
  PROVE  attach[t].gen \in 1 .. transport_gen /\ Failed(attach[t].gen)
  BY DEF AttachGens, Failed

LEMMA AttachGensStep ==
  ASSUME Typed, AttachGens, [Next]_vars
  PROVE  AttachGens'
  <1> USE ConstantTypes
  <1>1. transport_gen \in Nat /\ \A t \in Transport : attach[t].gen \in Nat
    BY DEF Typed, Call
  <1>2. ASSUME UNCHANGED << attach, dead >>, transport_gen' \in {transport_gen, transport_gen + 1}
        PROVE  AttachGens'
    BY <1>1, <1>2 DEF AttachGens
  <1>3. ASSUME NEW t \in Transport \ {1}, AttachBegin(t) PROVE AttachGens'
    <2>1. transport_gen' = transport_gen + 1 /\ dead' = dead
      BY <1>3 DEF AttachBegin
    <2>2. /\ attach'[t] = [pc |-> "abort", gen |-> transport_gen + 1]
          /\ \A u \in Transport : u # t => attach'[u] = attach[u]
      BY <1>3, AttachBegins, Zenon
    <2>3. ASSUME NEW u \in Transport PROVE attach[u].gen <= transport_gen
      <3>1. attach[u].gen = 0 \/ attach[u].gen \in 1 .. transport_gen
        BY Zenon DEF AttachGens
      <3>2. QED
        BY <1>1, <3>1
    <2>4. /\ attach'[t].pc = "abort" /\ attach'[t].gen = transport_gen + 1
          /\ transport_gen + 1 \in 1 .. transport_gen'
      BY <1>1, <2>1, <2>2
    <2>5. ASSUME NEW u \in Transport
          PROVE  /\ attach'[u].pc = "idle" => attach'[u].gen = 0 /\ u \notin dead'
                 /\ attach'[u].pc # "idle" => attach'[u].gen \in 1 .. transport_gen'
      <3>1. CASE u = t
        BY <2>4, <3>1
      <3>2. CASE u # t
        <4>1. attach'[u] = attach[u]
          BY <2>2, <3>2
        <4>2. /\ attach[u].pc = "idle" => attach[u].gen = 0 /\ u \notin dead
              /\ attach[u].pc # "idle" => attach[u].gen \in 1 .. transport_gen
          BY Zenon DEF AttachGens
        <4>3. QED
          BY <1>1, <2>1, <4>1, <4>2
      <3>3. QED
        BY <3>1, <3>2
    <2>6. ASSUME NEW u \in Transport, NEW v \in Transport,
                 attach'[u].pc # "idle", attach'[u].gen = attach'[v].gen
          PROVE  u = v
      <3>1. CASE u # t /\ v # t
        <4>1. attach'[u] = attach[u] /\ attach'[v] = attach[v]
          BY <2>2, <3>1
        <4>2. QED
          BY Zenon, <2>6, <4>1 DEF AttachGens
      <3>2. CASE u = t /\ v # t
        BY <1>1, <2>2, <2>3, <2>4, <2>6, <3>2
      <3>3. CASE u # t /\ v = t
        BY <1>1, <2>2, <2>3, <2>4, <2>6, <3>3
      <3>4. QED
        BY <3>1, <3>2, <3>3
    <2>7. QED
      BY <2>5, <2>6 DEF AttachGens
  <1>4. ASSUME NEW t \in Transport, Attach(t) PROVE AttachGens'
    <2>1. /\ attach'[t].gen = attach[t].gen /\ attach'[t].pc # "idle" /\ attach[t].pc # "idle"
          /\ \A u \in Transport : u # t => attach'[u] = attach[u]
          /\ UNCHANGED << transport_gen, dead >>
      BY <1>4, AttachMoves DEF Attaching
    <2>2. \A u \in Transport : /\ attach'[u].gen = attach[u].gen
                               /\ attach'[u].pc = "idle" <=> attach[u].pc = "idle"
      BY <2>1
    <2>3. transport_gen' = transport_gen /\ dead' = dead
      BY <2>1
    <2>4. ASSUME NEW u \in Transport
          PROVE  /\ attach'[u].pc = "idle" => attach'[u].gen = 0 /\ u \notin dead'
                 /\ attach'[u].pc # "idle" => attach'[u].gen \in 1 .. transport_gen'
      <3>1. /\ attach[u].pc = "idle" => attach[u].gen = 0 /\ u \notin dead
            /\ attach[u].pc # "idle" => attach[u].gen \in 1 .. transport_gen
        BY Zenon DEF AttachGens
      <3>2. /\ attach'[u].gen = attach[u].gen
            /\ attach'[u].pc = "idle" <=> attach[u].pc = "idle"
        BY Zenon, <2>2
      <3>3. QED
        BY <2>3, <3>1, <3>2
    <2>5. ASSUME NEW u \in Transport, NEW v \in Transport,
                 attach'[u].pc # "idle", attach'[u].gen = attach'[v].gen
          PROVE  u = v
      <3>1. attach[u].pc # "idle" /\ attach[u].gen = attach[v].gen
        BY Zenon, <2>2, <2>5
      <3>2. QED
        BY Zenon, <3>1 DEF AttachGens
    <2>6. QED
      BY <2>4, <2>5 DEF AttachGens
  <1>5. ASSUME NEW t \in Transport, ReaderFail(t) PROVE AttachGens'
    <2>1. UNCHANGED << attach, dead >> /\ DetachBegin(t, attach[t].gen)
      BY <1>5 DEF ReaderFail
    <2>2. QED
      BY <1>1, <1>2, <2>1, DetachBegins
  <1>6. CASE WriterFail
    <2>1. UNCHANGED << attach, dead >> /\ DetachBegin(Writer, writer.gen) /\ writer.gen \in Nat
      BY <1>6 DEF WriterFail, Typed
    <2>2. QED
      BY <1>1, <1>2, <2>1, DetachBegins
  <1>7. ASSUME NEW t \in Transport, Fail(t) PROVE AttachGens'
    BY <1>7 DEF Fail, AttachGens, shared, calls
  <1>8. ASSUME NEW k \in Task, Detach(k) PROVE AttachGens'
    BY <1>2, <1>8, DetachMoves
  <1>9. CASE DetachAbort \/ WriterApply \/ LoopClear \/ LoopCheck \/ Expire
             \/ \E gen \in timers : TimerFires(gen)
    <2>1. UNCHANGED << attach, transport_gen, dead >>
      BY <1>9 DEF DetachAbort, WriterApply, LoopClear, LoopCheck, Expire, TimerFires,
                  shared, calls
    <2>2. QED
      BY <1>2, <2>1
  <1>10. CASE UNCHANGED vars
    BY <1>2, <1>10 DEF vars, shared, calls
  <1>11. QED
    BY <1>3, <1>4, <1>5, <1>6, <1>7, <1>8, <1>9, <1>10 DEF Next, Step

\* A detach call that is under way was so before, or it has just moved on the
\* generation of a transport that failed.
LEMMA DetachFrom ==
  ASSUME Typed, AttachGens, Commands, [Next]_vars, NEW k \in Task, Detaching(k)'
  PROVE  \/ /\ Detaching(k) /\ detach'[k].gen = detach[k].gen
            /\ detach[k].pc = "store" => detach'[k].pc = "store" \/ ~transport_attached'
         \/ /\ ReaderFail(k) \/ (k = Writer /\ WriterFail)
            /\ detach'[k].pc = "store" /\ detach'[k].gen = transport_gen
            /\ transport_gen' = transport_gen + 1
            /\ transport_gen \in 1 .. transport_gen /\ Failed(transport_gen)
            /\ \E t \in Transport : attach[t].gen = transport_gen
  <1> USE ConstantTypes
  <1>1. transport_gen \in Nat /\ detach \in [Task -> Call]
    BY DEF Typed
  <1>2. CASE detach' = detach
    BY <1>2 DEF Detaching
  <1>3. ASSUME NEW j \in Task, NEW t \in Transport, t \in dead, DetachBegin(j, attach[t].gen),
               detach' # detach
        PROVE  /\ detach'[j].pc = "store" /\ detach'[j].gen = transport_gen
               /\ transport_gen' = transport_gen + 1
               /\ transport_gen \in 1 .. transport_gen /\ Failed(transport_gen)
               /\ \E u \in Transport : attach[u].gen = transport_gen
               /\ \A i \in Task : i # j => detach'[i] = detach[i]
    <2>1. attach[t].gen \in 1 .. transport_gen /\ Failed(attach[t].gen)
      BY <1>3, FailsFailed
    <2>2. /\ attach[t].gen = transport_gen /\ transport_gen' = transport_gen + 1
          /\ detach' = [detach EXCEPT ![j] = [pc |-> "store", gen |-> transport_gen]]
      BY <1>3 DEF DetachBegin
    <2>3. /\ detach'[j] = [pc |-> "store", gen |-> transport_gen]
          /\ \A i \in Task : i # j => detach'[i] = detach[i]
      BY <1>1, <2>2
    <2>4. QED
      BY <2>1, <2>2, <2>3
  <1>4. ASSUME NEW t \in Transport, ReaderFail(t), detach' # detach
        PROVE  \/ t # k /\ detach'[k] = detach[k]
               \/ /\ t = k /\ detach'[k].pc = "store" /\ detach'[k].gen = transport_gen
                  /\ transport_gen' = transport_gen + 1
                  /\ transport_gen \in 1 .. transport_gen /\ Failed(transport_gen)
                  /\ \E u \in Transport : attach[u].gen = transport_gen
    BY <1>3, <1>4 DEF ReaderFail
  <1>5. ASSUME WriterFail, detach' # detach
        PROVE  \/ k # Writer /\ detach'[k] = detach[k]
               \/ /\ k = Writer /\ detach'[k].pc = "store" /\ detach'[k].gen = transport_gen
                  /\ transport_gen' = transport_gen + 1
                  /\ transport_gen \in 1 .. transport_gen /\ Failed(transport_gen)
                  /\ \E u \in Transport : attach[u].gen = transport_gen
    <2>1. writer.t \in dead /\ writer.t \in Transport
      BY <1>5 DEF WriterFail, Typed
    <2>2. attach[writer.t].gen = writer.gen
      BY <2>1 DEF Commands
    <2>3. QED
      BY <1>3, <1>5, <2>1, <2>2 DEF WriterFail
  <1>6. ASSUME NEW j \in Task, Detach(j) \/ (j = Writer /\ DetachAbort)
        PROVE  /\ Detaching(k) /\ detach'[k].gen = detach[k].gen
               /\ detach[k].pc = "store" => detach'[k].pc = "store" \/ ~transport_attached'
    <2>1. CASE j # k
      BY <1>6, <2>1, DetachMoves DEF Detaching
    <2>2. CASE j = k
      <3>1. Detaching(k) /\ detach'[k].gen = detach[k].gen
        BY <1>6, <2>2, DetachMoves
      <3>2. ASSUME detach[k].pc = "store" PROVE ~transport_attached'
        BY <1>6, <2>2, <3>2 DEF Detach, DetachStore, DetachSend, DetachReact, DetachAbort
      <3>3. QED
        BY <3>1, <3>2
    <2>3. QED
      BY <2>1, <2>2
  <1>7. CASE WriterApply \/ LoopClear \/ LoopCheck \/ Expire
             \/ \E gen \in timers : TimerFires(gen)
    BY <1>2, <1>7 DEF WriterApply, LoopClear, LoopCheck, Expire, TimerFires, calls
  <1>8. CASE \E t \in Transport : (t # 1 /\ AttachBegin(t)) \/ Attach(t) \/ Fail(t)
    BY <1>2, <1>8, AttachBegins, AttachMoves DEF Fail, calls
  <1>9. CASE UNCHANGED vars
    BY <1>2, <1>9 DEF vars, calls
  <1>10. CASE \E t \in Transport : ReaderFail(t)
    BY <1>2, <1>4, <1>10 DEF Detaching
  <1>11. CASE WriterFail
    BY <1>2, <1>5, <1>11 DEF Detaching
  <1>12. CASE DetachAbort \/ \E j \in Task : Detach(j)
    BY <1>6, <1>12
  <1>13. QED
    BY <1>7, <1>8, <1>9, <1>10, <1>11, <1>12 DEF Next, Step

LEMMA DetachGensStep ==
  ASSUME Typed, Typed', AttachGens, DetachGens, Commands, [Next]_vars
  PROVE  DetachGens'
  <1> SUFFICES ASSUME NEW k \in Task, Detaching(k)'
               PROVE  detach'[k].gen \in 1 .. transport_gen' - 1 /\ FailedNext(detach'[k].gen)
    BY DEF DetachGens, Failed, FailedNext
  <1>1. GenGrows
    BY GenerationsGrow
  <1>2. transport_gen \in Nat
    BY DEF Typed
  <1>3. transport_gen' \in Nat /\ transport_gen' >= transport_gen
    BY <1>1 DEF GenGrows, Typed
  <1>4. CASE Detaching(k) /\ detach'[k].gen = detach[k].gen
    <2>1. detach[k].gen \in 1 .. transport_gen - 1 /\ Failed(detach[k].gen)
      BY <1>4 DEF DetachGens
    <2>2. detach[k].gen \in 1 .. transport_gen /\ detach[k].gen \in 1 .. transport_gen' - 1
      BY <1>2, <1>3, <2>1
    <2>3. QED
      BY <1>1, <1>4, <2>1, <2>2, FailedStays
  <1>5. CASE /\ detach'[k].gen = transport_gen /\ transport_gen' = transport_gen + 1
             /\ transport_gen \in 1 .. transport_gen /\ Failed(transport_gen)
    BY <1>1, <1>2, <1>5, FailedStays
  <1>6. QED
    BY <1>4, <1>5, DetachFrom

\* A command after a step, the channel, and the writer's transport.
CommandOKNext(cmd) ==
  /\ cmd.type = "attach" =>
       /\ cmd.writer \in Transport
       /\ attach'[cmd.writer].pc # "idle"
       /\ attach'[cmd.writer].gen = cmd.gen
  /\ cmd.type = "detach" => cmd.gen \in 1 .. transport_gen' - 1 /\ FailedNext(cmd.gen)

ChannelNext == \A i \in 1 .. Len(writer_cmd') : CommandOKNext(writer_cmd'[i])

HeldNext ==
  /\ writer'.t # None =>
       attach'[writer'.t].pc # "idle" /\ attach'[writer'.t].gen = writer'.gen
  /\ writer'.gen <= transport_gen'

\* What a command or the writer says of a transport stays true.
LEMMA CommandStays ==
  ASSUME Typed, Typed', AttachGens, GenGrows, NEW cmd \in Cmds, CommandOK(cmd)
  PROVE  CommandOKNext(cmd)
  <1>1. /\ transport_gen \in Nat /\ transport_gen' \in Nat /\ transport_gen' >= transport_gen
        /\ cmd.gen \in Nat
    BY DEF Typed, GenGrows, Cmds
  <1>2. CASE cmd.type = "attach"
    BY <1>2 DEF CommandOK, CommandOKNext, GenGrows
  <1>3. CASE cmd.type = "detach"
    <2>1. cmd.gen \in 1 .. transport_gen - 1 /\ Failed(cmd.gen)
      BY <1>3 DEF CommandOK
    <2>2. cmd.gen \in 1 .. transport_gen /\ cmd.gen \in 1 .. transport_gen' - 1
      BY <1>1, <2>1
    <2>3. QED
      BY <1>3, <2>1, <2>2, FailedStays DEF CommandOKNext
  <1>4. QED
    BY <1>2, <1>3 DEF Cmds

\* The writer's transport, after a step that leaves the writer alone or drops it.
LEMMA WriterStays ==
  ASSUME Typed, Typed', GenGrows, Commands,
         writer'.gen = writer.gen, writer'.t \in {writer.t, None}
  PROVE  HeldNext
  <1>1. transport_gen \in Nat /\ transport_gen' \in Nat /\ writer.gen \in Nat
    BY DEF Typed
  <1>2. writer.gen <= transport_gen /\ transport_gen' >= transport_gen
    BY DEF Commands, GenGrows
  <1>3. ASSUME writer.t # None
        PROVE  attach'[writer.t].pc # "idle" /\ attach'[writer.t].gen = writer.gen
    <2>1. writer.t \in Transport /\ attach[writer.t].pc # "idle"
          /\ attach[writer.t].gen = writer.gen
      BY <1>3 DEF Typed, Commands, Task, Writer, None
    <2>2. QED
      BY <2>1 DEF GenGrows
  <1>4. QED
    BY <1>1, <1>2, <1>3 DEF HeldNext

LEMMA CommandsStep ==
  ASSUME Typed, Typed', AttachGens, DetachGens, DetachGens', Commands, [Next]_vars
  PROVE  Commands'
  <1> USE ConstantTypes
  <1>1. GenGrows
    BY GenerationsGrow
  <1>2. writer_cmd \in Seq(Cmds) /\ \A i \in 1 .. Len(writer_cmd) : writer_cmd[i] \in Cmds
    BY DEF Typed
  <1>3. \A i \in 1 .. Len(writer_cmd) : CommandOKNext(writer_cmd[i])
    BY <1>1, <1>2, CommandStays DEF Commands
  <1>4. SUFFICES ChannelNext /\ HeldNext
    BY DEF Commands, CommandOK, CommandOKNext, ChannelNext, HeldNext, Failed, FailedNext
  <1>5. writer' = writer => HeldNext
    BY <1>1, WriterStays
  <1>6. writer_cmd' = writer_cmd => ChannelNext
    BY <1>3 DEF ChannelNext
  <1>7. ASSUME NEW cmd \in Cmds, writer_cmd' = Append(writer_cmd, cmd), CommandOKNext(cmd)
        PROVE  ChannelNext
    <2>1. /\ Len(writer_cmd') = Len(writer_cmd) + 1 /\ Len(writer_cmd) \in Nat
          /\ \A i \in 1 .. Len(writer_cmd) : writer_cmd'[i] = writer_cmd[i]
          /\ writer_cmd'[Len(writer_cmd) + 1] = cmd
      BY <1>2, <1>7
    <2>2. QED
      BY <1>3, <1>7, <2>1 DEF ChannelNext
  <1>8. ASSUME NEW t \in Transport, AttachSend(t) PROVE ChannelNext /\ HeldNext
    <2>1. /\ attach[t].gen \in Nat /\ attach'[t].gen = attach[t].gen /\ attach'[t].pc # "idle"
      BY <1>8, AttachMoves DEF Attach, Typed, Call
    <2>2. Cmd("attach", attach[t].gen, t) \in Cmds
      BY <2>1, SendTyped
    <2>3. CommandOKNext(Cmd("attach", attach[t].gen, t))
      BY <2>1 DEF CommandOKNext, Cmd
    <2>4. QED
      BY <1>5, <1>7, <1>8, <2>2, <2>3 DEF AttachSend
  <1>9. ASSUME NEW k \in Task, DetachSend(k) PROVE ChannelNext /\ HeldNext
    <2>1. /\ detach[k].gen \in Nat /\ detach'[k].gen = detach[k].gen /\ Detaching(k)'
      <3>1. ~DetachReact(k)
        BY <1>9 DEF DetachSend, DetachReact
      <3>2. QED
        BY <1>9, <3>1, DetachMoves DEF Detach, Typed, Call
    <2>2. Cmd("detach", detach[k].gen, None) \in Cmds
      BY <2>1, SendTyped
    <2>3. detach[k].gen \in 1 .. transport_gen' - 1 /\ FailedNext(detach[k].gen)
      BY <2>1 DEF DetachGens, Failed, FailedNext
    <2>4. CommandOKNext(Cmd("detach", detach[k].gen, None))
      BY <2>3 DEF CommandOKNext, Cmd
    <2>5. QED
      BY <1>5, <1>7, <1>9, <2>2, <2>4 DEF DetachSend
  <1>10. CASE WriterFail
    <2>1. /\ writer'.gen = writer.gen /\ writer'.t = None
          /\ writer_cmd' = writer_cmd
      BY <1>10 DEF WriterFail, Typed
    <2>2. QED
      BY <1>1, <1>6, <2>1, WriterStays
  <1>11. CASE WriterApply
    <2> DEFINE cmd == writer_cmd[1]
    <2>1. writer_cmd # << >> /\ writer' = Applied(cmd) /\ writer_cmd' = Tail(writer_cmd)
      BY <1>11, TakeTyped DEF WriterApply
    <2>2. cmd \in Cmds /\ CommandOKNext(cmd)
      BY <1>2, <1>3, <2>1, TakeTyped
    <2>3. ChannelNext
      <3>1. /\ Len(writer_cmd') = Len(writer_cmd) - 1 /\ Len(writer_cmd) \in Nat \ {0}
            /\ \A i \in 1 .. Len(writer_cmd) - 1 : writer_cmd'[i] = writer_cmd[i + 1]
        BY <2>1, TakeTyped
      <3>2. QED
        BY <1>3, <3>1 DEF ChannelNext
    <2>4. CASE cmd.type = "attach"
      <3>1. writer' = [t |-> cmd.writer, gen |-> cmd.gen]
        BY <2>1, <2>4 DEF Applied
      <3>2. /\ cmd.writer \in Transport /\ attach'[cmd.writer].pc # "idle"
            /\ attach'[cmd.writer].gen = cmd.gen
        BY <2>2, <2>4 DEF CommandOKNext
      <3>3. cmd.gen <= transport_gen'
        <4>1. /\ attach[cmd.writer].gen = cmd.gen /\ attach[cmd.writer].pc # "idle"
              /\ transport_gen' = transport_gen
          BY <1>11, <2>1, <2>4, TakeTyped DEF Commands, CommandOK, WriterApply, shared
        <4>2. attach[cmd.writer].gen \in 1 .. transport_gen /\ transport_gen \in Nat
          BY <3>2, <4>1 DEF AttachGens, Typed
        <4>3. QED
          BY <4>1, <4>2
      <3>4. QED
        BY <2>3, <3>1, <3>2, <3>3 DEF HeldNext
    <2>5. CASE cmd.type # "attach"
      <3>1. writer'.gen = writer.gen /\ writer'.t \in {writer.t, None}
        BY <2>1, <2>5 DEF Applied, Typed
      <3>2. QED
        BY <1>1, <2>3, <3>1, WriterStays
    <2>6. QED
      BY <2>4, <2>5
  <1>12. CASE UNCHANGED << writer, writer_cmd >>
    BY <1>5, <1>6, <1>12
  <1>13. \/ UNCHANGED << writer, writer_cmd >>
         \/ WriterFail \/ WriterApply
         \/ \E t \in Transport : AttachSend(t)
         \/ \E k \in Task : DetachSend(k)
    BY DEF Next, Step, vars, tasks, AttachBegin, Attach, AttachAbort, AttachStore, AttachSpawn,
           AttachSlot, ReaderFail, Fail, Detach, DetachStore, DetachReact, DetachAbort,
           LoopClear, LoopCheck, TimerFires, Expire
  <1>14. QED
    BY <1>8, <1>9, <1>10, <1>11, <1>12, <1>13


-----------------------------------------------------------------------------
\* What holds however the tasks interleave.
Inv == Typed /\ Dialing /\ AttachGens /\ DetachGens /\ Commands

LEMMA InvInit == Init => Inv
  BY TypedInit, DialingInit, GenerationsInit DEF Inv

LEMMA InvStep == Inv /\ [Next]_vars => Inv'
  <1> SUFFICES ASSUME Inv, [Next]_vars PROVE Inv'
    OBVIOUS
  <1>1. Typed /\ Dialing /\ AttachGens /\ DetachGens /\ Commands
    BY DEF Inv
  <1>2. Typed' /\ Dialing' /\ AttachGens'
    BY <1>1, TypedStep, DialingStep, AttachGensStep
  <1>3. DetachGens'
    BY <1>1, <1>2, DetachGensStep
  <1>4. Commands'
    BY <1>1, <1>2, <1>3, CommandsStep
  <1>5. QED
    BY <1>2, <1>3, <1>4 DEF Inv

LEMMA InvAlways == Spec => []Inv
  BY InvInit, InvStep, PTL DEF Spec

\* Two reconnect loops never dial at once, however detach, attach and the end of
\* an earlier loop interleave (spawn_reconnect_loop).
THEOREM OneDialerAlways == Spec => []OneDialer
  <1>1. Inv => OneDialer
    BY DEF Inv, Dialing, OneDialer
  <1>2. QED
    BY <1>1, InvAlways, PTL

\* The writer gives up a transport for none only if that one failed: a Detach
\* that comes late is of a generation whose transport has failed, and the
\* writer's transport has a generation of its own (detach_transport,
\* connection_writer_loop_v3).
THEOREM WriterKeepsWhatWorks == Spec => WriterDropsOnlyFailed
  <1>1. ASSUME Inv, [Next]_vars, writer.t # None, writer'.t = None
        PROVE  writer.t \in dead
    <2>1. Typed /\ AttachGens /\ Commands
      BY <1>1 DEF Inv
    <2>2. \/ writer' = writer
          \/ WriterFail \/ WriterApply
      BY <1>1 DEF Next, Step, vars, tasks, AttachBegin, Attach, AttachAbort, AttachSend,
           AttachStore, AttachSpawn, AttachSlot, ReaderFail, Fail, Detach, DetachStore,
           DetachSend, DetachReact, DetachAbort, LoopClear, LoopCheck, TimerFires, Expire
    <2>3. CASE writer' = writer
      BY <1>1, <2>3
    <2>4. CASE WriterFail
      BY <2>4 DEF WriterFail
    <2>5. CASE WriterApply
      <3> DEFINE cmd == writer_cmd[1]
      <3>1. /\ cmd \in Cmds /\ writer' = Applied(cmd) /\ CommandOK(cmd)
        BY <2>1, <2>5, TakeTyped DEF WriterApply, Commands
      <3> HIDE DEF cmd
      <3>2. cmd.type # "attach"
        BY <1>1, <3>1, ConstantTypes DEF Applied, CommandOK
      <3>3. cmd.type = "detach" /\ cmd.gen = writer.gen
        BY <1>1, <3>1, <3>2 DEF Applied, Cmds
      <3>4. Failed(writer.gen)
        BY <3>1, <3>3 DEF CommandOK
      <3>5. writer.t \in Transport /\ attach[writer.t].gen = writer.gen
        BY <1>1, <2>1 DEF Commands, Typed, Task, Writer, None
      <3>6. QED
        BY <3>4, <3>5 DEF Failed
    <2>6. QED
      BY <2>2, <2>3, <2>4, <2>5
  <1>2. Inv /\ [Next]_vars => [writer.t # None /\ writer'.t = None => writer.t \in dead]_vars
    BY <1>1
  <1>3. QED
    BY <1>2, InvAlways, PTL DEF Spec, WriterDropsOnlyFailed


-----------------------------------------------------------------------------
(* One thread.  Tasks are switched only where they await, so at most one   *)
(* is inside attach_transport_parts, detach_transport, the end of the      *)
(* reconnect loop or the end of an expiry timer.                           *)

Alone ==
  /\ \A t, u \in Transport : Attaching(t) /\ Attaching(u) => t = u
  /\ \A j, k \in Task : Detaching(j) /\ Detaching(k) => j = k
  /\ \A t \in Transport, k \in Task : ~(Attaching(t) /\ Detaching(k))
  /\ \A t \in Transport : Attaching(t) => loops.clear + loops.check = 0 /\ ~expiring
  /\ \A k \in Task : Detaching(k) => loops.clear + loops.check = 0 /\ ~expiring
  /\ expiring => loops.clear + loops.check = 0
  /\ loops.clear + loops.check <= 1

\* Nobody is inside.
Quiet ==
  /\ \A t \in Transport : ~Attaching(t)
  /\ \A k \in Task : ~Detaching(k)
  /\ loops.clear + loops.check = 0
  /\ ~expiring

\* On one thread a task starts something new only then.
LEMMA StartsQuiet ==
  ASSUME Typed, ~MultiThread, MayStart
  PROVE  Quiet
  <1>1. loops.clear \in Nat /\ loops.check \in Nat
    BY DEF Typed, LoopCounts
  <1>2. (~(loops.clear + loops.check > 0) /\ Quiet) \/ Busy
    BY <1>1 DEF Busy, Quiet
  <1>3. QED
    BY <1>2 DEF MayStart

\* A step changes a generation, or takes a command, only from there.
LEMMA InsideSteps ==
  ASSUME Typed, ~MultiThread, [Next]_vars
  PROVE  \/ Quiet
         \/ /\ transport_gen' = transport_gen
            /\ \A t \in Transport : attach'[t].gen = attach[t].gen
            /\ writer' = writer
            /\ \/ writer_cmd' = writer_cmd
               \/ \E t \in Transport : AttachSend(t)
               \/ \E k \in Task : DetachSend(k)
  <1> SUFFICES ASSUME ~Quiet
               PROVE  /\ transport_gen' = transport_gen
                      /\ \A t \in Transport : attach'[t].gen = attach[t].gen
                      /\ writer' = writer
                      /\ \/ writer_cmd' = writer_cmd
                         \/ \E t \in Transport : AttachSend(t)
                         \/ \E k \in Task : DetachSend(k)
    OBVIOUS
  <1>1. ~MayStart
    BY StartsQuiet
  <1>2. \/ UNCHANGED vars
        \/ \E t \in Transport : Attach(t) \/ Fail(t)
        \/ \E k \in Task : Detach(k)
        \/ DetachAbort \/ LoopClear \/ LoopCheck \/ Expire
    BY <1>1 DEF Next, Step, AttachBegin, ReaderFail, WriterFail, WriterApply, TimerFires
  <1>3. CASE \E t \in Transport : Attach(t)
    <2> PICK t \in Transport : Attach(t)
      BY <1>3
    <2>1. /\ transport_gen' = transport_gen
          /\ \A u \in Transport : attach'[u].gen = attach[u].gen
      BY AttachMoves
    <2>2. writer' = writer /\ (writer_cmd' = writer_cmd \/ AttachSend(t))
      BY DEF Attach, AttachAbort, AttachSend, AttachStore, AttachSpawn, AttachSlot, tasks
    <2>3. QED
      BY <2>1, <2>2
  <1>4. CASE \E k \in Task : Detach(k)
    <2> PICK k \in Task : Detach(k)
      BY <1>4
    <2>1. transport_gen' = transport_gen /\ attach' = attach
      BY DetachMoves
    <2>2. writer' = writer /\ (writer_cmd' = writer_cmd \/ DetachSend(k))
      BY DEF Detach, DetachStore, DetachSend, DetachReact, tasks
    <2>3. QED
      BY <2>1, <2>2
  <1>5. CASE \/ UNCHANGED vars \/ (\E t \in Transport : Fail(t))
             \/ DetachAbort \/ LoopClear \/ LoopCheck \/ Expire
    <2>1. UNCHANGED << transport_gen, attach, writer, writer_cmd >>
      BY <1>5 DEF vars, shared, tasks, calls, Fail, DetachAbort, LoopClear, LoopCheck, Expire
    <2>2. QED
      BY <2>1
  <1>6. QED
    BY <1>2, <1>3, <1>4, <1>5

\* The loops at their end, after each step that changes a count.
LEMMA LoopEnds ==
  ASSUME Typed
  PROVE  /\ \A t \in Transport \ {1} :
              AttachBegin(t) => loops'.clear = loops.clear /\ loops'.check = loops.check
         /\ \A t \in Transport :
              AttachSlot(t) => /\ loops'.clear \in {loops.clear, loops.clear + 1}
                               /\ loops'.check = loops.check
         /\ \A k \in Task :
              Detach(k) => loops'.clear = loops.clear /\ loops'.check = loops.check
         /\ LoopClear => loops'.clear = loops.clear - 1 /\ loops'.check = loops.check + 1
         /\ LoopCheck => loops'.clear = loops.clear /\ loops'.check = loops.check - 1
  <1>1. loops \in LoopCounts
    BY DEF Typed
  <1>2. ASSUME NEW t \in Transport \ {1}, AttachBegin(t)
        PROVE  loops'.clear = loops.clear /\ loops'.check = loops.check
    BY <1>1, <1>2 DEF AttachBegin, LoopCounts
  <1>3. ASSUME NEW t \in Transport, AttachSlot(t)
        PROVE  loops'.clear \in {loops.clear, loops.clear + 1} /\ loops'.check = loops.check
    BY <1>1, <1>3 DEF AttachSlot, LoopCounts
  <1>4. ASSUME NEW k \in Task, Detach(k)
        PROVE  loops'.clear = loops.clear /\ loops'.check = loops.check
    <2>1. CASE loops' = loops
      BY <2>1
    <2>2. CASE loops' # loops
      <3>1. DetachReact(k)
        BY <1>4, <2>2 DEF Detach, DetachStore, DetachSend, loopVars
      <3>2. QED
        BY <1>1, <2>2, <3>1 DEF DetachReact, StartLoop, LoopCounts, loopVars
    <2>3. QED
      BY <2>1, <2>2
  <1>5. ASSUME LoopClear
        PROVE  loops'.clear = loops.clear - 1 /\ loops'.check = loops.check + 1
    BY <1>1, <1>5 DEF LoopClear, LoopCounts
  <1>6. ASSUME LoopCheck
        PROVE  loops'.clear = loops.clear /\ loops'.check = loops.check - 1
    BY <1>1, <1>6 DEF LoopCheck, LoopCounts
  <1>7. QED
    BY <1>2, <1>3, <1>4, <1>5, <1>6

LEMMA AloneInit == Init => Alone
  BY DEF Init, Alone, Attaching, Detaching, Idle

\* Nobody new goes inside.
LEMMA AloneStays ==
  ASSUME Typed, Typed', Alone,
         \A t \in Transport : Attaching(t)' => Attaching(t),
         \A k \in Task : Detaching(k)' => Detaching(k),
         loops'.clear + loops'.check <= loops.clear + loops.check,
         expiring' => expiring
  PROVE  Alone'
  <1>1. /\ loops.clear \in Nat /\ loops.check \in Nat
        /\ loops'.clear \in Nat /\ loops'.check \in Nat
    BY DEF Typed, LoopCounts
  <1>2. /\ loops.clear + loops.check = 0 => loops'.clear + loops'.check = 0
        /\ loops.clear + loops.check <= 1 => loops'.clear + loops'.check <= 1
    BY <1>1
  <1>3. QED
    BY <1>2 DEF Alone

LEMMA AloneStep ==
  ASSUME Typed, Typed', Dialing, Alone, ~MultiThread, [Next]_vars
  PROVE  Alone'
  <1> USE ConstantTypes
  <1>1. /\ loops.clear \in Nat /\ loops.check \in Nat
        /\ loops'.clear \in Nat /\ loops'.check \in Nat
    BY DEF Typed, LoopCounts
  <1>2. ASSUME UNCHANGED << attach, detach, expiring >>,
               loops'.clear + loops'.check <= loops.clear + loops.check
        PROVE  Alone'
    BY <1>2, AloneStays DEF Attaching, Detaching
  <1>3. ASSUME NEW t \in Transport \ {1}, AttachBegin(t) PROVE Alone'
    <2>1. Quiet /\ expiring' = expiring /\ detach' = detach
      BY <1>3, StartsQuiet, AttachBegins DEF AttachBegin
    <2>2. \A u \in Transport : Attaching(u)' => u = t
      BY <1>3, <2>1, AttachBegins DEF Attaching, Quiet
    <2>3. loops'.clear = loops.clear /\ loops'.check = loops.check
      BY <1>3, LoopEnds
    <2>4. QED
      BY <2>1, <2>2, <2>3 DEF Alone, Quiet, Detaching
  <1>4. ASSUME NEW t \in Transport, Attach(t) PROVE Alone'
    <2>1. /\ Attaching(t) /\ UNCHANGED << detach, expiring >>
          /\ \A u \in Transport : Attaching(u)' => Attaching(u)
      BY <1>4, AttachMoves DEF Attaching
    <2>2. CASE AttachSlot(t)
      <3>1. \A u \in Transport : ~Attaching(u)'
        <4>1. ~Attaching(t)'
          BY <1>4, <2>2, AttachMoves
        <4>2. \A u \in Transport : Attaching(u) => u = t
          BY <2>1 DEF Alone
        <4>3. QED
          BY Zenon, <2>1, <4>1, <4>2
      <3>2. /\ \A k \in Task : ~Detaching(k)'
            /\ loops.clear + loops.check = 0 /\ ~expiring'
        BY <2>1 DEF Alone, Detaching
      <3>3. loops'.clear + loops'.check <= 1
        BY <1>1, <2>2, <3>2, LoopEnds
      <3>4. QED
        BY <3>1, <3>2, <3>3 DEF Alone
    <2>3. CASE ~AttachSlot(t)
      <3>1. loops' = loops
        BY <1>4, <2>3 DEF Attach, AttachAbort, AttachSend, AttachStore, AttachSpawn, loopVars
      <3>2. QED
        BY <1>1, <2>1, <3>1, AloneStays DEF Detaching
    <2>4. QED
      BY <2>2, <2>3
  <1>5. ASSUME NEW k \in Task, NEW gen \in Nat, MayStart, DetachBegin(k, gen),
               UNCHANGED << attach, loops, expiring >>
        PROVE  Alone'
    <2>1. Quiet
      BY <1>5, StartsQuiet
    <2>2. \A j \in Task : Detaching(j)' => j = k
      BY ZenonT(40), <1>5, <2>1, DetachBegins DEF Detaching, Quiet
    <2>3. QED
      BY <1>5, <2>1, <2>2 DEF Alone, Quiet, Attaching
  <1>6. ASSUME NEW t \in Transport, ReaderFail(t) PROVE Alone'
    <2>1. attach[t].gen \in Nat
      BY DEF Typed, Call
    <2>2. QED
      BY <1>5, <1>6, <2>1 DEF ReaderFail, loopVars, endVars
  <1>7. CASE WriterFail
    <2>1. writer.gen \in Nat
      BY DEF Typed
    <2>2. QED
      BY <1>5, <1>7, <2>1 DEF WriterFail, loopVars, endVars
  <1>8. ASSUME NEW k \in Task, Detach(k) \/ (k = Writer /\ DetachAbort) PROVE Alone'
    <2>1. /\ \A j \in Task : Detaching(j)' => Detaching(j)
          /\ UNCHANGED << attach, expiring >>
      BY <1>8, DetachMoves DEF Detaching
    <2>2. loops'.clear + loops'.check <= loops.clear + loops.check
      BY <1>1, <1>8, LoopEnds DEF DetachAbort, loopVars
    <2>3. QED
      BY <2>1, <2>2, AloneStays DEF Attaching
  <1>9. CASE LoopClear
    <2>1. UNCHANGED << attach, detach, expiring >>
      BY <1>9 DEF LoopClear, calls, endVars
    <2>2. QED
      BY <1>1, <1>2, <1>9, <2>1, LoopEnds
  <1>10. CASE LoopCheck
    <2>1. UNCHANGED << attach, detach, expiring >>
      BY <1>10 DEF LoopCheck, calls, endVars
    <2>2. QED
      BY <1>1, <1>2, <1>10, <2>1, LoopEnds
  <1>11. ASSUME NEW gen \in timers, TimerFires(gen) PROVE Alone'
    <2>1. Quiet
      BY <1>11, StartsQuiet DEF TimerFires
    <2>2. UNCHANGED << attach, detach, loops >>
      BY <1>11 DEF TimerFires, calls, loopVars
    <2>3. QED
      BY <2>1, <2>2 DEF Quiet, Alone, Attaching, Detaching
  <1>12. CASE WriterApply \/ Expire \/ (\E t \in Transport : Fail(t)) \/ UNCHANGED vars
    <2>1. UNCHANGED << attach, detach, expiring, loops >>
      BY <1>12 DEF WriterApply, Expire, Fail, vars, calls, loopVars, endVars
    <2>2. QED
      BY <1>1, <1>2, <2>1
  <1>13. QED
    BY <1>3, <1>4, <1>6, <1>7, <1>8, <1>9, <1>10, <1>11, <1>12 DEF Next, Step


-----------------------------------------------------------------------------
\* The flag is set by an attach only.
LEMMA FlagSet ==
  ASSUME [Next]_vars, transport_attached'
  PROVE  transport_attached \/ \E t \in Transport : AttachStore(t)
  <1>1. CASE UNCHANGED transport_attached
    BY <1>1
  <1>2. QED
    BY <1>1 DEF Next, Step, vars, shared, AttachBegin, Attach, AttachAbort, AttachSend,
       AttachSpawn, AttachSlot, ReaderFail, Fail, Detach, DetachStore, DetachSend, DetachReact,
       DetachAbort, WriterFail, WriterApply, LoopClear, LoopCheck, TimerFires, Expire

\* A detach call under way detached the last generation that was attached, and the
\* flag is cleared once it has stored it.
DetachIsLast ==
  \A k \in Task : Detaching(k) =>
    /\ transport_gen = detach[k].gen + 1
    /\ \A t \in Transport : attach[t].gen < transport_gen
    /\ \E t \in Transport : attach[t].gen = detach[k].gen
    /\ detach[k].pc # "store" => ~transport_attached

\* An attach call under way has the current generation.
AttachIsLast == \A t \in Transport : Attaching(t) => attach[t].gen = transport_gen

\* A timer of the current generation runs only while the connection is detached.
Timely ==
  /\ \A g \in timers :
       /\ g <= transport_gen
       /\ g = transport_gen => ~transport_attached /\ \A t \in Transport : ~Attaching(t)
  /\ expiring => ~transport_attached

LEMMA LastInit == Init => DetachIsLast /\ AttachIsLast /\ Timely
  BY DEF Init, DetachIsLast, AttachIsLast, Timely, Attaching, Detaching, Idle

LEMMA AttachIsLastStep ==
  ASSUME Typed, AttachIsLast, ~MultiThread, [Next]_vars
  PROVE  AttachIsLast'
  <1> SUFFICES ASSUME NEW t \in Transport, Attaching(t)'
               PROVE  attach'[t].gen = transport_gen'
    BY DEF AttachIsLast
  <1>1. CASE \E u \in Transport \ {1} : AttachBegin(u)
    <2> PICK u \in Transport \ {1} : AttachBegin(u)
      BY <1>1
    <2>1. Quiet
      BY StartsQuiet DEF AttachBegin
    <2>2. t = u
      BY <2>1, AttachBegins DEF Quiet, Attaching
    <2>3. attach'[u] = [pc |-> "abort", gen |-> transport_gen + 1]
          /\ transport_gen' = transport_gen + 1
      BY AttachBegins DEF AttachBegin
    <2>4. QED
      BY <2>2, <2>3
  <1>2. CASE ~\E u \in Transport \ {1} : AttachBegin(u)
    <2>1. Attaching(t)
      <3>1. CASE UNCHANGED attach
        BY <3>1 DEF Attaching
      <3>2. CASE \E u \in Transport : Attach(u)
        BY <3>2, AttachMoves DEF Attaching
      <3>3. UNCHANGED attach \/ \E u \in Transport : Attach(u)
        BY <1>2 DEF Next, Step, vars, calls, ReaderFail, Fail, Detach, DetachStore, DetachSend,
           DetachReact, DetachAbort, WriterFail, WriterApply, LoopClear, LoopCheck, TimerFires,
           Expire
      <3>4. QED
        BY <3>1, <3>2, <3>3
    <2>2. ~Quiet
      BY <2>1 DEF Quiet
    <2>3. QED
      BY <2>1, <2>2, InsideSteps DEF AttachIsLast
  <1>3. QED
    BY <1>1, <1>2

LEMMA DetachIsLastStep ==
  ASSUME Typed, AttachGens, Commands, Alone, DetachIsLast, ~MultiThread, [Next]_vars
  PROVE  DetachIsLast'
  <1> SUFFICES ASSUME NEW k \in Task, Detaching(k)'
               PROVE  /\ transport_gen' = detach'[k].gen + 1
                      /\ \A t \in Transport : attach'[t].gen < transport_gen'
                      /\ \E t \in Transport : attach'[t].gen = detach'[k].gen
                      /\ detach'[k].pc # "store" => ~transport_attached'
    BY DEF DetachIsLast
  <1>1. transport_gen \in Nat /\ \A t \in Transport : attach[t].gen \in Nat
    BY DEF Typed, Call
  <1>2. CASE /\ Detaching(k) /\ detach'[k].gen = detach[k].gen
             /\ detach[k].pc = "store" => detach'[k].pc = "store" \/ ~transport_attached'
    <2>1. ~Quiet
      BY <1>2 DEF Quiet
    <2>2. /\ transport_gen' = transport_gen
          /\ \A t \in Transport : attach'[t].gen = attach[t].gen
      BY <2>1, InsideSteps
    <2>3. transport_attached' => transport_attached
      <3>1. \A t \in Transport : ~AttachStore(t)
        BY <1>2 DEF Alone, AttachStore, Attaching
      <3>2. QED
        BY <3>1, FlagSet
    <2>4. /\ transport_gen = detach[k].gen + 1
          /\ \A t \in Transport : attach[t].gen < transport_gen
          /\ \E t \in Transport : attach[t].gen = detach[k].gen
          /\ detach[k].pc # "store" => ~transport_attached
      BY <1>2 DEF DetachIsLast
    <2>5. QED
      BY <1>2, <2>2, <2>3, <2>4
  <1>3. CASE /\ ReaderFail(k) \/ (k = Writer /\ WriterFail)
             /\ detach'[k].pc = "store" /\ detach'[k].gen = transport_gen
             /\ transport_gen' = transport_gen + 1
             /\ \E t \in Transport : attach[t].gen = transport_gen
    <2>1. attach' = attach
      BY <1>3 DEF ReaderFail, WriterFail
    <2>2. \A t \in Transport : attach[t].gen <= transport_gen
      BY <1>1 DEF AttachGens
    <2>3. QED
      BY <1>1, <1>3, <2>1, <2>2
  <1>4. QED
    BY <1>2, <1>3, DetachFrom

LEMMA TimelyStep ==
  ASSUME Typed, Typed', AttachGens, Alone, AttachIsLast, DetachIsLast, Timely,
         ~MultiThread, [Next]_vars
  PROVE  Timely'
  <1>1. GenGrows /\ transport_gen \in Nat /\ transport_gen' \in Nat
    BY GenerationsGrow DEF Typed
  <1>2. ASSUME NEW g \in timers, g \in Nat
        PROVE  /\ g <= transport_gen'
               /\ g = transport_gen' =>
                    ~transport_attached' /\ \A t \in Transport : ~Attaching(t)'
    <2>1. g <= transport_gen /\ transport_gen <= transport_gen'
      BY <1>1 DEF GenGrows, Timely
    <2>2. ASSUME g = transport_gen' PROVE ~transport_attached' /\ \A t \in Transport : ~Attaching(t)'
      <3>1. g = transport_gen /\ transport_gen' = transport_gen
        BY <1>1, <1>2, <2>1, <2>2
      <3>2. ~transport_attached /\ \A t \in Transport : ~Attaching(t)
        BY <3>1 DEF Timely
      <3>3. ~transport_attached'
        BY <3>2, FlagSet DEF AttachStore, Attaching
      <3>4. ~\E t \in Transport \ {1} : AttachBegin(t)
        BY <1>1, <3>1 DEF AttachBegin
      <3>5. UNCHANGED attach \/ \E t \in Transport : Attach(t)
        BY <3>4 DEF Next, Step, vars, calls, ReaderFail, Fail, Detach, DetachStore, DetachSend,
           DetachReact, DetachAbort, WriterFail, WriterApply, LoopClear, LoopCheck, TimerFires,
           Expire
      <3>6. UNCHANGED attach
        BY <3>2, <3>5, AttachMoves
      <3>7. QED
        BY <3>2, <3>3, <3>6 DEF Attaching
    <2>3. QED
      BY <1>1, <1>2, <2>1, <2>2
  <1>3. ASSUME NEW k \in Task, DetachReact(k)
        PROVE  LET g == detach[k].gen + 1
               IN  /\ g <= transport_gen'
                   /\ ~transport_attached' /\ \A t \in Transport : ~Attaching(t)'
    <2>1. Detaching(k) /\ detach[k].pc # "store"
      BY <1>3 DEF DetachReact, Detaching
    <2>2. /\ transport_gen = detach[k].gen + 1 /\ ~transport_attached
          /\ \A t \in Transport : ~Attaching(t)
      BY <2>1 DEF DetachIsLast, Alone
    <2>3. UNCHANGED << transport_gen, transport_attached, attach >>
      BY <1>3 DEF DetachReact, shared
    <2>4. QED
      BY <1>1, <2>2, <2>3 DEF Attaching
  <1>4. timers' \subseteq timers \/ \E k \in Task : /\ DetachReact(k)
                                                   /\ timers' \subseteq timers \cup {detach[k].gen + 1}
    <2>1. ASSUME NEW k \in Task, DetachReact(k)
          PROVE  timers' \subseteq timers \cup {detach[k].gen + 1}
      BY <2>1 DEF DetachReact
    <2>2. QED
      BY <2>1 DEF Next, Step, vars, endVars, AttachBegin, Attach, AttachAbort, AttachSend,
         AttachStore, AttachSpawn, AttachSlot, ReaderFail, Fail, Detach, DetachStore, DetachSend,
         DetachAbort, WriterFail, WriterApply, LoopClear, LoopCheck, TimerFires, Expire
  <1>5. timers \subseteq Nat
    BY DEF Typed
  <1>6. \A g \in timers' :
          /\ g <= transport_gen'
          /\ g = transport_gen' =>
               ~transport_attached' /\ \A t \in Transport : ~Attaching(t)'
    BY <1>2, <1>3, <1>4, <1>5
  <1>7. expiring' => ~transport_attached'
    <2>1. CASE \E g \in timers : TimerFires(g)
      <3> PICK g \in timers : TimerFires(g)
        BY <2>1
      <3>1. expiring' = (transport_gen = g) /\ transport_attached' = transport_attached
        BY DEF TimerFires, shared
      <3>2. QED
        BY <3>1 DEF Timely
    <2>2. CASE ~\E g \in timers : TimerFires(g)
      <3>1. expiring' = expiring
        BY <2>2 DEF Next, Step, vars, endVars, AttachBegin, Attach, AttachAbort, AttachSend,
           AttachStore, AttachSpawn, AttachSlot, ReaderFail, Fail, Detach, DetachStore,
           DetachSend, DetachReact, DetachAbort, WriterFail, WriterApply, LoopClear, LoopCheck,
           Expire
      <3>2. expiring => \A t \in Transport : ~AttachStore(t)
        BY DEF Alone, AttachStore, Attaching
      <3>3. QED
        BY <3>1, <3>2, FlagSet DEF Timely
    <2>3. QED
      BY <2>1, <2>2
  <1>8. QED
    BY <1>6, <1>7 DEF Timely


-----------------------------------------------------------------------------
(* The writer's channel on one thread.                                     *)

Queued == 1 .. Len(writer_cmd)
Attaches(i) == writer_cmd[i].type = "attach"

\* Transports reach the writer in the order of their generations.
Sorted ==
  /\ \A i, j \in Queued :
       i < j /\ Attaches(i) /\ Attaches(j) => writer_cmd[i].gen < writer_cmd[j].gen
  /\ \A i \in Queued : Attaches(i) => writer.gen < writer_cmd[i].gen
  /\ \A t \in Transport : attach[t].pc \in {"abort", "send"} =>
       /\ writer.gen < attach[t].gen
       /\ \A i \in Queued : Attaches(i) => writer_cmd[i].gen < attach[t].gen

\* The transport of the current generation is on its way to the writer.
Coming == \E i \in Queued : Attaches(i) /\ writer_cmd[i].gen = transport_gen

\* The flag is set for a transport that the writer has or is about to have.
Backed ==
  /\ /\ transport_attached
     /\ \A k \in Task : ~Detaching(k)
     /\ \A t \in Transport : attach[t].pc \notin {"abort", "send"}
     => Coming \/ (writer.t # None /\ writer.gen = transport_gen)
  /\ \A t \in Transport : attach[t].pc \in {"store", "spawn", "slot"} => Coming

\* A client without a transport has a reconnect loop, or is about to start one.
Replaced ==
  Role = "client" /\ ~closed /\ ~transport_attached =>
    reconnect_active \/ loops.check > 0 \/ \E k \in Task : Detaching(k)

\* A queued attach is of a generation up to the current one; a detach, before it.
LEMMA QueuedGens ==
  ASSUME Typed, AttachGens, Commands
  PROVE  /\ \A i \in Queued : /\ writer_cmd[i] \in Cmds
                              /\ writer_cmd[i].gen \in Nat
                              /\ writer_cmd[i].gen <= transport_gen
         /\ \A i \in Queued : ~Attaches(i) => writer_cmd[i].gen < transport_gen
         /\ writer.gen \in Nat /\ writer.gen <= transport_gen
         /\ transport_gen \in Nat
         /\ Len(writer_cmd) \in Nat
  <1>1. /\ writer_cmd \in Seq(Cmds) /\ transport_gen \in Nat /\ writer.gen \in Nat
        /\ writer.gen <= transport_gen
    BY DEF Typed, Commands
  <1>2. ASSUME NEW i \in Queued
        PROVE  /\ writer_cmd[i] \in Cmds /\ writer_cmd[i].gen \in Nat
               /\ writer_cmd[i].gen <= transport_gen
               /\ ~Attaches(i) => writer_cmd[i].gen < transport_gen
    <2>1. writer_cmd[i] \in Cmds /\ CommandOK(writer_cmd[i])
      BY <1>1, <1>2 DEF Queued, Commands
    <2>2. writer_cmd[i].gen \in Nat /\ writer_cmd[i].type \in {"attach", "detach"}
      BY <2>1 DEF Cmds
    <2>3. CASE Attaches(i)
      <3>1. /\ writer_cmd[i].writer \in Transport
            /\ attach[writer_cmd[i].writer].pc # "idle"
            /\ attach[writer_cmd[i].writer].gen = writer_cmd[i].gen
        BY <2>1, <2>3 DEF CommandOK, Attaches
      <3>2. writer_cmd[i].gen \in 1 .. transport_gen
        BY <3>1 DEF AttachGens
      <3>3. QED
        BY <1>1, <2>1, <2>2, <2>3, <3>2
    <2>4. CASE ~Attaches(i)
      <3>1. writer_cmd[i].gen \in 1 .. transport_gen - 1
        BY <2>1, <2>2, <2>4 DEF CommandOK, Attaches
      <3>2. QED
        BY <1>1, <2>1, <2>2, <3>1
    <2>5. QED
      BY <2>3, <2>4
  <1>3. QED
    BY <1>1, <1>2

\* The commands after one is sent, and after one is taken.
LEMMA SendQueue ==
  ASSUME Typed, NEW cmd \in Cmds, writer_cmd' = Append(writer_cmd, cmd)
  PROVE  LET n == Len(writer_cmd) + 1
         IN  /\ n \in Nat /\ Queued' = 1 .. n /\ Queued = 1 .. n - 1
             /\ \A i \in Queued : writer_cmd'[i] = writer_cmd[i]
             /\ writer_cmd'[n] = cmd
  <1>1. writer_cmd \in Seq(Cmds)
    BY DEF Typed
  <1>2. QED
    BY <1>1 DEF Queued

LEMMA TakeQueue ==
  ASSUME Typed, WriterApply
  PROVE  LET n == Len(writer_cmd)
         IN  /\ n \in Nat \ {0} /\ Queued = 1 .. n /\ Queued' = 1 .. n - 1
             /\ \A i \in 1 .. n - 1 : writer_cmd'[i] = writer_cmd[i + 1]
             /\ writer_cmd[1] \in Cmds
             /\ writer' = Applied(writer_cmd[1])
  <1>1. /\ writer_cmd # << >> /\ writer_cmd' = Tail(writer_cmd)
        /\ writer' = Applied(Head(writer_cmd))
    BY DEF WriterApply
  <1>2. QED
    BY <1>1, TakeTyped DEF Queued

\* What the writer has after the first command.
LEMMA TakeEffect ==
  ASSUME Typed, WriterApply
  PROVE  /\ Attaches(1) => writer'.t = writer_cmd[1].writer /\ writer'.gen = writer_cmd[1].gen
         /\ ~Attaches(1) =>
              /\ writer'.gen = writer.gen
              /\ writer_cmd[1].gen = writer.gen => writer'.t = None
              /\ writer_cmd[1].gen # writer.gen => writer'.t = writer.t
  <1>1. writer' = Applied(writer_cmd[1])
    BY TakeQueue
  <1>2. writer \in [t : Task, gen : Nat]
    BY DEF Typed
  <1>3. QED
    BY <1>1, <1>2 DEF Applied, Attaches

\* Which steps touch the writer's channel.
LEMMA ChannelSteps ==
  ASSUME [Next]_vars
  PROVE  \/ UNCHANGED << writer, writer_cmd >>
         \/ WriterFail \/ WriterApply
         \/ \E t \in Transport : AttachSend(t)
         \/ \E k \in Task : DetachSend(k)
  BY DEF Next, Step, vars, tasks, AttachBegin, Attach, AttachAbort, AttachStore, AttachSpawn,
         AttachSlot, ReaderFail, Fail, Detach, DetachStore, DetachReact, DetachAbort,
         LoopClear, LoopCheck, TimerFires, Expire

\* A call before its send: it was so, or it has just begun.
LEMMA BeforeSend ==
  ASSUME Typed, [Next]_vars, NEW t \in Transport, attach'[t].pc \in {"abort", "send"}
  PROVE  \/ attach[t].pc \in {"abort", "send"} /\ attach'[t].gen = attach[t].gen
            /\ ~AttachSend(t)
         \/ t # 1 /\ AttachBegin(t) /\ attach'[t].gen = transport_gen + 1
  <1>1. CASE \E u \in Transport \ {1} : AttachBegin(u)
    <2> PICK u \in Transport \ {1} : AttachBegin(u)
      BY <1>1
    <2>1. attach'[u] = [pc |-> "abort", gen |-> transport_gen + 1]
          /\ \A v \in Transport : v # u => attach'[v] = attach[v]
      BY AttachBegins
    <2>2. ~AttachSend(t)
      BY DEF AttachBegin, AttachSend, shared, Typed
    <2>3. QED
      BY <2>1, <2>2
  <1>2. CASE \E u \in Transport : Attach(u)
    <2> PICK u \in Transport : Attach(u)
      BY <1>2
    <2>1. CASE u # t
      <3>1. attach'[t] = attach[t]
        BY <2>1, AttachMoves
      <3>2. ~AttachSend(t)
        BY <3>1 DEF AttachSend, Typed, Call
      <3>3. QED
        BY <3>1, <3>2
    <2>2. CASE u = t
      <3>1. attach[t] \in Call /\ attach \in [Transport -> Call]
        BY DEF Typed
      <3>2. AttachAbort(t)
        BY <2>2, <3>1 DEF Attach, AttachSend, AttachStore, AttachSpawn, AttachSlot, Call
      <3>3. QED
        BY <2>2, <3>1, <3>2, AttachMoves DEF AttachAbort, AttachSend
    <2>3. QED
      BY <2>1, <2>2
  <1>3. CASE UNCHANGED attach
    <2>1. ~AttachSend(t)
      BY <1>3 DEF AttachSend, Typed, Call
    <2>2. QED
      BY <1>3, <2>1
  <1>4. QED
    BY <1>1, <1>2, <1>3 DEF Next, Step, vars, calls, ReaderFail, Fail, Detach, DetachStore,
       DetachSend, DetachReact, DetachAbort, WriterFail, WriterApply, LoopClear, LoopCheck,
       TimerFires, Expire

LEMMA QueueInit == Init => Sorted /\ Backed /\ Replaced
  <1> SUFFICES ASSUME Init PROVE Sorted /\ Backed /\ Replaced
    OBVIOUS
  <1>1. Queued = {1} /\ writer_cmd[1] = Cmd("attach", 1, 1)
    BY DEF Init, Queued
  <1>2. \A t \in Transport : attach[t].pc \in {"idle", "done"}
    BY DEF Init, Idle
  <1>3. QED
    BY <1>1, <1>2 DEF Init, Sorted, Backed, Replaced, Coming, Attaches, Cmd

LEMMA SortedStep ==
  ASSUME Typed, Typed', AttachGens, Commands, Alone, AttachIsLast, Sorted, ~MultiThread,
         [Next]_vars
  PROVE  Sorted'
  <1> USE ConstantTypes
  <1> DEFINE InOrder ==
               /\ \A i, j \in Queued : i < j /\ Attaches(i) /\ Attaches(j)
                    => writer_cmd[i].gen < writer_cmd[j].gen
               /\ \A i \in Queued : Attaches(i) => writer.gen < writer_cmd[i].gen
  <1>1. /\ \A i \in Queued : writer_cmd[i].gen \in Nat /\ writer_cmd[i].gen <= transport_gen
        /\ writer.gen \in Nat /\ writer.gen <= transport_gen /\ transport_gen \in Nat
    BY QueuedGens
  <1>2. InOrder
    BY DEF Sorted
  <1>3. InOrder'
    <2>1. CASE UNCHANGED writer_cmd /\ writer'.gen = writer.gen
      BY <1>2, <2>1 DEF Queued, Attaches
    <2>2. CASE WriterFail
      <3>1. UNCHANGED writer_cmd /\ writer'.gen = writer.gen
        BY <2>2 DEF WriterFail, Typed
      <3>2. QED
        BY <2>1, <3>1
    <2>3. CASE WriterApply
      <3> DEFINE n == Len(writer_cmd)
      <3>1. /\ n \in Nat \ {0} /\ Queued = 1 .. n /\ Queued' = 1 .. n - 1
            /\ \A i \in 1 .. n - 1 : writer_cmd'[i] = writer_cmd[i + 1]
        BY <2>3, TakeQueue
      <3> HIDE DEF n
      <3>2. \A i \in 1 .. n - 1 : Attaches(i)' <=> Attaches(i + 1)
        BY <3>1 DEF Attaches
      <3>3. \A i, j \in Queued' : i < j /\ Attaches(i)' /\ Attaches(j)'
              => writer_cmd'[i].gen < writer_cmd'[j].gen
        BY SMTT(30), <1>2, <3>1, <3>2
      <3>4. ASSUME NEW i \in Queued', Attaches(i)' PROVE writer'.gen < writer_cmd'[i].gen
        <4>1. /\ i + 1 \in Queued /\ 1 \in Queued /\ 1 < i + 1 /\ Attaches(i + 1)
              /\ writer_cmd'[i] = writer_cmd[i + 1]
          BY <3>1, <3>2, <3>4
        <4>2. CASE Attaches(1)
          BY <1>2, <2>3, <4>1, <4>2, TakeEffect
        <4>3. CASE ~Attaches(1)
          BY <1>2, <2>3, <4>1, <4>3, TakeEffect
        <4>4. QED
          BY <4>2, <4>3
      <3>5. QED
        BY <3>3, <3>4
    <2>4. ASSUME NEW cmd \in Cmds, writer_cmd' = Append(writer_cmd, cmd), writer' = writer,
                 cmd.type = "attach" =>
                   /\ writer.gen < cmd.gen
                   /\ \A i \in Queued : Attaches(i) => writer_cmd[i].gen < cmd.gen
          PROVE  InOrder'
      <3>0. Len(writer_cmd) + 1 \in Nat
        BY DEF Typed
      <3> PICK n \in Nat : n = Len(writer_cmd) + 1
        BY <3>0
      <3>1. /\ n \in Nat /\ Queued' = 1 .. n /\ Queued = 1 .. n - 1
            /\ \A i \in Queued : writer_cmd'[i] = writer_cmd[i]
            /\ writer_cmd'[n] = cmd
        BY <2>4, SendQueue
      <3>2. /\ \A i \in Queued : Attaches(i)' <=> Attaches(i)
            /\ Attaches(n)' <=> cmd.type = "attach"
            /\ \A i \in Queued' : i \in Queued \/ i = n
        BY <3>1 DEF Attaches
      <3>3. ASSUME NEW i \in Queued', NEW j \in Queued', i < j, Attaches(i)', Attaches(j)'
            PROVE  writer_cmd'[i].gen < writer_cmd'[j].gen
        <4>1. i \in Queued
          BY <3>1, <3>3
        <4>2. QED
          BY <1>2, <2>4, <3>1, <3>2, <3>3, <4>1
      <3>4. \A i \in Queued' : Attaches(i)' => writer'.gen < writer_cmd'[i].gen
        BY <1>2, <2>4, <3>1, <3>2
      <3>5. QED
        BY <3>3, <3>4
    <2>5. ASSUME NEW t \in Transport, AttachSend(t) PROVE InOrder'
      <3>1. Cmd("attach", attach[t].gen, t) \in Cmds
        BY SendTyped DEF Typed, Call
      <3>2. /\ writer.gen < attach[t].gen
            /\ \A i \in Queued : Attaches(i) => writer_cmd[i].gen < attach[t].gen
        BY <2>5 DEF AttachSend, Sorted
      <3>3. Cmd("attach", attach[t].gen, t).gen = attach[t].gen
        BY DEF Cmd
      <3>4. writer' = writer /\ writer_cmd' = Append(writer_cmd, Cmd("attach", attach[t].gen, t))
        BY <2>5 DEF AttachSend
      <3>5. QED
        BY <2>4, <3>1, <3>2, <3>3, <3>4
    <2>6. ASSUME NEW k \in Task, DetachSend(k) PROVE InOrder'
      <3>1. Cmd("detach", detach[k].gen, None) \in Cmds
        BY SendTyped DEF Typed, Call
      <3>2. Cmd("detach", detach[k].gen, None).type # "attach"
        BY DEF Cmd
      <3>3. writer' = writer /\ writer_cmd' = Append(writer_cmd, Cmd("detach", detach[k].gen, None))
        BY <2>6 DEF DetachSend
      <3>4. QED
        BY <2>4, <3>1, <3>2, <3>3
    <2>7. QED
      BY <2>1, <2>2, <2>3, <2>5, <2>6, ChannelSteps
  <1>4. ASSUME NEW t \in Transport, attach'[t].pc \in {"abort", "send"}
        PROVE  /\ writer'.gen < attach'[t].gen
               /\ \A i \in Queued' : Attaches(i)' => writer_cmd'[i].gen < attach'[t].gen
    <2>1. CASE /\ attach[t].pc \in {"abort", "send"} /\ attach'[t].gen = attach[t].gen
               /\ ~AttachSend(t)
      <3>1. Attaching(t) /\ ~Quiet
        BY <2>1 DEF Attaching, Quiet
      <3>2. \A k \in Task : ~DetachSend(k)
        BY <3>1 DEF Alone, DetachSend, Detaching
      <3>3. \A u \in Transport : ~AttachSend(u)
        BY <2>1, <3>1 DEF Alone, AttachSend, Attaching
      <3>4. writer' = writer /\ writer_cmd' = writer_cmd
        BY <3>1, <3>2, <3>3, InsideSteps
      <3>5. QED
        BY <2>1, <3>4 DEF Sorted, Queued, Attaches
    <2>2. CASE t # 1 /\ AttachBegin(t) /\ attach'[t].gen = transport_gen + 1
      <3>1. UNCHANGED << writer, writer_cmd >>
        BY <2>2 DEF AttachBegin, tasks
      <3>2. QED
        BY <1>1, <2>2, <3>1 DEF Queued, Attaches
    <2>3. QED
      BY <1>4, <2>1, <2>2, BeforeSend
  <1>5. QED
    BY <1>3, <1>4 DEF Sorted


\* A transport on its way stays so until the writer takes it.
LEMMA ComingStays ==
  ASSUME Typed, Coming, [Next]_vars, transport_gen' = transport_gen,
         WriterApply => writer_cmd' = writer_cmd
  PROVE  Coming'
  <1>1. PICK i \in Queued : Attaches(i) /\ writer_cmd[i].gen = transport_gen
    BY DEF Coming
  <1>2. CASE writer_cmd' = writer_cmd
    BY <1>1, <1>2 DEF Coming, Queued, Attaches
  <1>3. ASSUME NEW cmd \in Cmds, writer_cmd' = Append(writer_cmd, cmd)
        PROVE  Coming'
    <2>1. i \in Queued' /\ writer_cmd'[i] = writer_cmd[i]
      BY <1>3, SendQueue
    <2>2. QED
      BY <1>1, <2>1 DEF Coming, Attaches
  <1>4. ASSUME NEW t \in Transport, AttachSend(t) PROVE Coming'
    <2>1. Cmd("attach", attach[t].gen, t) \in Cmds
      BY SendTyped, ConstantTypes DEF Typed, Call
    <2>2. QED
      BY <1>3, <1>4, <2>1 DEF AttachSend
  <1>5. ASSUME NEW k \in Task, DetachSend(k) PROVE Coming'
    <2>1. Cmd("detach", detach[k].gen, None) \in Cmds
      BY SendTyped, ConstantTypes DEF Typed, Call
    <2>2. QED
      BY <1>3, <1>5, <2>1 DEF DetachSend
  <1>6. QED
    BY <1>2, <1>4, <1>5, ChannelSteps DEF WriterFail

\* The transport that is attached, once its attach call has sent it.
LEMMA ComingStep ==
  ASSUME Typed, Typed', Alone, AttachIsLast, Backed, ~MultiThread, [Next]_vars,
         NEW t \in Transport, attach'[t].pc \in {"store", "spawn", "slot"}
  PROVE  Coming'
  <1> USE ConstantTypes
  <1>1. attach[t] \in Call /\ attach \in [Transport -> Call]
    BY DEF Typed
  <1>2. CASE AttachSend(t)
    <2> DEFINE cmd == Cmd("attach", attach[t].gen, t)
    <2>1. cmd \in Cmds
      BY SendTyped DEF Typed, Call
    <2>2. cmd.type = "attach" /\ cmd.gen = transport_gen
      BY <1>2 DEF Cmd, AttachIsLast, Attaching, AttachSend
    <2>3. writer_cmd' = Append(writer_cmd, cmd) /\ transport_gen' = transport_gen
      BY <1>2 DEF AttachSend, shared
    <2> HIDE DEF cmd
    <2>4. PICK n \in Nat : n \in Queued' /\ writer_cmd'[n] = cmd
      <3>1. Len(writer_cmd) + 1 \in Queued' /\ Len(writer_cmd) + 1 \in Nat
            /\ writer_cmd'[Len(writer_cmd) + 1] = cmd
        BY <2>1, <2>3, SendQueue
      <3>2. QED
        BY <3>1
    <2>5. QED
      BY <2>2, <2>3, <2>4 DEF Coming, Attaches
  <1>3. CASE ~AttachSend(t)
    <2>1. attach[t].pc \in {"store", "spawn", "slot"}
      <3>1. CASE \E u \in Transport : Attach(u)
        <4> PICK u \in Transport : Attach(u)
          BY <3>1
        <4>1. CASE u # t
          BY <4>1, AttachMoves
        <4>2. CASE u = t
          BY <1>1, <1>3, <4>2 DEF Attach, AttachAbort, AttachStore, AttachSpawn, AttachSlot, Call
        <4>3. QED
          BY <4>1, <4>2
      <3>2. CASE \E u \in Transport \ {1} : AttachBegin(u)
        <4> PICK u \in Transport \ {1} : AttachBegin(u)
          BY <3>2
        <4>1. attach'[u] = [pc |-> "abort", gen |-> transport_gen + 1]
              /\ \A v \in Transport : v # u => attach'[v] = attach[v]
          BY AttachBegins
        <4>2. QED
          BY <4>1
      <3>3. CASE UNCHANGED attach
        BY <3>3
      <3>4. QED
        BY <3>1, <3>2, <3>3 DEF Next, Step, vars, calls, ReaderFail, Fail, Detach, DetachStore,
           DetachSend, DetachReact, DetachAbort, WriterFail, WriterApply, LoopClear, LoopCheck,
           TimerFires, Expire
    <2>2. Coming /\ ~Quiet
      BY <2>1 DEF Backed, Quiet, Attaching
    <2>3. transport_gen' = transport_gen /\ ~WriterApply
      BY <2>2, InsideSteps, StartsQuiet DEF WriterApply
    <2>4. QED
      BY <2>2, <2>3, ComingStays
  <1>4. QED
    BY <1>2, <1>3

LEMMA BackedStep ==
  ASSUME Typed, Typed', AttachGens, Commands, Alone, AttachIsLast, DetachIsLast, Sorted, Backed,
         ~MultiThread, [Next]_vars
  PROVE  Backed'
  <1> USE ConstantTypes
  <1>1. \A t \in Transport : attach'[t].pc \in {"store", "spawn", "slot"} => Coming'
    BY ComingStep
  <1> SUFFICES ASSUME transport_attached', \A k \in Task : ~Detaching(k)',
                      \A t \in Transport : attach'[t].pc \notin {"abort", "send"},
                      ~\E t \in Transport : attach'[t].pc \in {"store", "spawn", "slot"}
               PROVE  Coming' \/ (writer'.t # None /\ writer'.gen = transport_gen')
    BY <1>1 DEF Backed
  <1>2. /\ \A t \in Transport : attach[t] \in Call /\ attach'[t] \in Call
        /\ \A k \in Task : detach[k] \in Call
        /\ transport_gen \in Nat /\ transport_gen' \in Nat /\ writer.gen \in Nat
    BY DEF Typed
  \* No detach ended in this step: it would have cleared the flag.
  <1>3. \A k \in Task : ~Detaching(k)
    <2> SUFFICES ASSUME NEW k \in Task, Detaching(k) PROVE FALSE
      OBVIOUS
    <2>1. DetachReact(k)
      <3>1. CASE detach' = detach
        BY <3>1 DEF Detaching
      <3>2. CASE \E j \in Task : Detach(j) \/ (j = Writer /\ DetachAbort)
        <4> PICK j \in Task : Detach(j) \/ (j = Writer /\ DetachAbort)
          BY <3>2
        <4>1. j = k
          BY DetachMoves DEF Detaching
        <4>2. QED
          BY <4>1, DetachMoves
      <3>3. CASE WriterFail \/ \E t \in Transport : ReaderFail(t)
        BY <3>3, StartsQuiet DEF WriterFail, ReaderFail, Quiet
      <3>4. CASE \E t \in Transport : (t # 1 /\ AttachBegin(t)) \/ Attach(t)
        BY <3>1, <3>4, AttachBegins, AttachMoves
      <3>5. QED
        BY <3>1, <3>2, <3>3, <3>4 DEF Next, Step, vars, calls, Fail, WriterApply, LoopClear,
           LoopCheck, TimerFires, Expire
    <2>2. ~transport_attached /\ transport_attached' = transport_attached
      BY <2>1 DEF DetachReact, DetachIsLast, Detaching, shared
    <2>3. QED
      BY <2>2
  <1>4. CASE \E t \in Transport : Attach(t)
    <2> PICK t \in Transport : Attach(t)
      BY <1>4
    <2>1. AttachSlot(t)
      <3> SUFFICES ASSUME ~AttachSlot(t) PROVE FALSE
        OBVIOUS
      <3>1. PICK p \in {"send", "store", "spawn", "slot"} : attach' = [attach EXCEPT ![t].pc = p]
        BY DEF Attach, AttachAbort, AttachSend, AttachStore, AttachSpawn
      <3>2. attach'[t].pc = p
        BY <3>1 DEF Typed, Call
      <3>3. QED
        BY <3>2
    <2>2. Coming /\ transport_gen' = transport_gen /\ ~WriterApply
      <3>1. ~Quiet
        BY AttachMoves DEF Quiet
      <3>2. QED
        BY <2>1, <3>1, AttachMoves, StartsQuiet DEF Backed, AttachSlot, WriterApply
    <2>3. QED
      BY <2>2, ComingStays
  <1>5. CASE ~\E t \in Transport : Attach(t)
    <2>1. transport_attached
      BY <1>5, FlagSet DEF Attach
    <2>2. ~\E t \in Transport \ {1} : AttachBegin(t)
      <3> SUFFICES ASSUME NEW t \in Transport \ {1}, AttachBegin(t) PROVE FALSE
        OBVIOUS
      <3>1. attach'[t] = [pc |-> "abort", gen |-> transport_gen + 1]
        BY AttachBegins
      <3>2. QED
        BY <3>1
    <2>3. UNCHANGED attach
      BY <1>5, <2>2 DEF Next, Step, vars, calls, ReaderFail, Fail, Detach, DetachStore,
         DetachSend, DetachReact, DetachAbort, WriterFail, WriterApply, LoopClear, LoopCheck,
         TimerFires, Expire
    <2>4. Coming \/ (writer.t # None /\ writer.gen = transport_gen)
      BY <1>3, <2>1, <2>3 DEF Backed
    <2>5. ASSUME NEW k \in Task, NEW gen \in Nat, DetachBegin(k, gen)
          PROVE  transport_gen # gen /\ transport_gen' = transport_gen
      <3>1. \/ UNCHANGED << transport_gen, detach >>
            \/ detach'[k] = [pc |-> "store", gen |-> gen]
        BY <2>5, DetachBegins
      <3>2. ~Detaching(k)'
        OBVIOUS
      <3>3. UNCHANGED transport_gen
        BY <3>1, <3>2 DEF Detaching
      <3>4. QED
        BY <1>2, <2>5, <3>3 DEF DetachBegin
    <2>6. ASSUME NEW t \in Transport, ReaderFail(t)
          PROVE  transport_gen' = transport_gen /\ UNCHANGED << writer, writer_cmd >>
      <3>1. attach[t].gen \in Nat
        BY <1>2 DEF Call
      <3>2. QED
        BY <2>5, <2>6, <3>1 DEF ReaderFail
    <2>7. CASE WriterFail
      <3>1. transport_gen # writer.gen /\ transport_gen' = transport_gen
        BY <1>2, <2>5, <2>7 DEF WriterFail
      <3>2. Coming /\ writer_cmd' = writer_cmd
        BY <2>4, <2>7, <3>1 DEF WriterFail
      <3>3. QED
        BY <3>1, <3>2, ComingStays
    <2>8. CASE WriterApply
      <3> DEFINE n == Len(writer_cmd)
      <3>1. /\ n \in Nat \ {0} /\ Queued = 1 .. n /\ Queued' = 1 .. n - 1
            /\ \A i \in 1 .. n - 1 : writer_cmd'[i] = writer_cmd[i + 1]
        BY <2>8, TakeQueue
      <3> HIDE DEF n
      <3>2. transport_gen' = transport_gen
        BY <2>8 DEF WriterApply, shared
      <3>3. CASE Coming
        <4>1. PICK i \in Queued : Attaches(i) /\ writer_cmd[i].gen = transport_gen
          BY <3>3 DEF Coming
        <4>2. CASE i = 1
          <5>1. writer_cmd[1].writer \in Transport
            BY <3>1, <4>1, <4>2 DEF Commands, CommandOK, Queued, Attaches
          <5>2. QED
            BY <2>8, <3>2, <4>1, <4>2, <5>1, TakeEffect
        <4>3. CASE i # 1
          <5>1. i - 1 \in Queued' /\ i - 1 \in 1 .. n - 1 /\ (i - 1) + 1 = i
            BY <3>1, <4>3
          <5>2. writer_cmd'[i - 1] = writer_cmd[i]
            BY <3>1, <5>1
          <5>3. PICK j \in Queued' : writer_cmd'[j] = writer_cmd[i]
            BY <5>1, <5>2
          <5>4. QED
            BY <3>2, <4>1, <5>3 DEF Coming, Attaches
        <4>4. QED
          BY <4>2, <4>3
      <3>4. CASE writer.t # None /\ writer.gen = transport_gen
        <4>1. 1 \in Queued
          BY <3>1
        <4>2. writer_cmd[1].gen \in Nat /\ writer_cmd[1].gen <= transport_gen
          BY <4>1, QueuedGens
        <4>3. ~Attaches(1)
          BY <1>2, <3>4, <4>1, <4>2 DEF Sorted
        <4>4. writer_cmd[1].gen < transport_gen
          BY <4>1, <4>3, QueuedGens
        <4>5. writer'.gen = writer.gen /\ writer'.t = writer.t
          BY <1>2, <2>8, <3>4, <4>2, <4>3, <4>4, TakeEffect
        <4>6. QED
          BY <3>2, <3>4, <4>5
      <3>5. QED
        BY <2>4, <3>3, <3>4
    <2>9. CASE UNCHANGED << transport_gen, writer, writer_cmd >>
      BY <2>4, <2>9 DEF Coming, Queued, Attaches
    <2>10. \A k \in Task : ~Detach(k)
      BY <1>3, DetachMoves
    <2>11. ~DetachAbort
      BY <1>3, DetachMoves
    <2>12. QED
      BY <1>5, <2>2, <2>6, <2>7, <2>8, <2>9, <2>10, <2>11
         DEF Next, Step, vars, shared, tasks, Fail, LoopClear, LoopCheck, TimerFires, Expire
  <1>6. QED
    BY <1>4, <1>5

LEMMA ReplacedStep ==
  ASSUME Typed, Typed', Replaced, [Next]_vars
  PROVE  Replaced'
  <1> USE ConstantTypes
  <1>1. mode' = mode /\ loops \in LoopCounts
        /\ loops.check \in Nat /\ loops'.check \in Nat
    BY DEF Next, vars, Typed, LoopCounts
  <1> SUFFICES ASSUME Role = "client", ~closed', ~transport_attached'
               PROVE  reconnect_active' \/ loops'.check > 0 \/ \E k \in Task : Detaching(k)'
    BY <1>1 DEF Replaced, Role
  <1>2. ~closed
    BY DEF Next, Step, vars, endVars, AttachBegin, Attach, AttachAbort, AttachSend,
       AttachStore, AttachSpawn, AttachSlot, ReaderFail, Fail, Detach, DetachStore, DetachSend,
       DetachReact, DetachAbort, WriterFail, WriterApply, LoopClear, LoopCheck, TimerFires,
       Expire, MayStart
  <1>3. CASE \E k \in Task : Detach(k) \/ (k = Writer /\ DetachAbort)
    <2> PICK k \in Task : Detach(k) \/ (k = Writer /\ DetachAbort)
      BY <1>3
    <2>1. CASE ~DetachReact(k)
      BY <2>1, DetachMoves
    <2>2. CASE DetachReact(k)
      BY <2>2 DEF DetachReact, StartLoop, loopVars, Typed
    <2>3. QED
      BY <2>1, <2>2
  <1>4. CASE LoopClear
    <2>1. loops'.check = loops.check + 1
      BY <1>4, LoopEnds
    <2>2. QED
      BY <1>1, <2>1
  <1>5. CASE LoopCheck
    BY <1>5 DEF LoopCheck, shared, Typed
  <1>6. CASE /\ ~LoopClear /\ ~LoopCheck
             /\ ~\E k \in Task : Detach(k) \/ (k = Writer /\ DetachAbort)
    <2>1. /\ UNCHANGED reconnect_active
          /\ transport_attached => transport_attached'
      BY <1>2, <1>6 DEF Next, Step, vars, shared, loopVars, AttachBegin, Attach, AttachAbort,
         AttachSend, AttachStore, AttachSpawn, AttachSlot, ReaderFail, Fail, WriterFail,
         WriterApply, TimerFires, Expire
    <2>2. loops'.check = loops.check
      <3>1. CASE loops' = loops
        BY <3>1
      <3>2. \/ loops' = loops \/ (\E t \in Transport \ {1} : AttachBegin(t))
            \/ (\E t \in Transport : AttachSlot(t))
        BY <1>6 DEF Next, Step, vars, loopVars, Attach, AttachAbort,
           AttachSend, AttachStore, AttachSpawn, ReaderFail, Fail, WriterFail,
           WriterApply, TimerFires, Expire
      <3>3. QED
        BY <3>1, <3>2, LoopEnds
    <2>3. ASSUME NEW k \in Task, Detaching(k) PROVE Detaching(k)'
      <3>1. CASE detach' = detach
        BY <2>3, <3>1 DEF Detaching
      <3>2. ASSUME NEW j \in Task, NEW gen \in Nat, DetachBegin(j, gen) PROVE Detaching(k)'
        <4>1. \/ UNCHANGED detach
              \/ /\ detach'[j] = [pc |-> "store", gen |-> gen]
                 /\ \A i \in Task : i # j => detach'[i] = detach[i]
          BY <3>2, DetachBegins
        <4>2. QED
          BY <2>3, <4>1 DEF Detaching
      <3>3. ASSUME NEW t \in Transport, ReaderFail(t) PROVE Detaching(k)'
        <4>1. attach[t].gen \in Nat
          BY DEF Typed, Call
        <4>2. QED
          BY <3>2, <3>3, <4>1 DEF ReaderFail
      <3>4. CASE WriterFail
        BY <3>2, <3>4 DEF WriterFail, Typed
      <3>5. QED
        BY <1>6, <3>1, <3>3, <3>4, AttachMoves, AttachBegins
           DEF Next, Step, vars, calls, Fail, WriterApply, TimerFires, Expire
    <2>4. QED
      BY <1>1, <1>2, <2>1, <2>2, <2>3 DEF Replaced
  <1>7. QED
    BY <1>3, <1>4, <1>5, <1>6


\* A running reader is the last that was spawned, and its handle is in the slot
\* once its attach call has put it there.
Readers ==
  \A t \in Transport : reader[t] = "run" =>
    /\ attach[t].pc \in {"slot", "done"}
    /\ attach[t].gen = slot \/ attach[t].pc = "slot"
    /\ \A u \in Transport : attach[u].gen > attach[t].gen => attach[u].pc = "abort"

LEMMA ReadersInit == Init => Readers
  <1> SUFFICES ASSUME Init, NEW t \in Transport, reader[t] = "run"
               PROVE  /\ attach[t].pc \in {"slot", "done"}
                      /\ attach[t].gen = slot \/ attach[t].pc = "slot"
                      /\ \A u \in Transport :
                           attach[u].gen > attach[t].gen => attach[u].pc = "abort"
    BY DEF Readers
  <1>1. t = 1
    BY DEF Init
  <1>2. attach[t].pc = "done" /\ attach[t].gen = 1 /\ slot = 1
    BY <1>1, ConstantTypes DEF Init
  <1>3. \A u \in Transport : attach[u].gen \in {0, 1}
    BY DEF Init, Idle
  <1>4. QED
    BY <1>2, <1>3

\* Past the abort of an attach call, no reader but its own runs.
LEMMA ReadersGone ==
  ASSUME Typed, AttachGens, AttachIsLast, Readers, NEW u \in Transport,
         attach[u].pc \in {"send", "store", "spawn", "slot"},
         NEW t \in Transport, reader[t] = "run"
  PROVE  t = u
  <1>1. Attaching(u) /\ attach[u].gen = transport_gen
    BY DEF Attaching, AttachIsLast
  <1>2. attach[t].pc # "idle" /\ attach[t].gen \in Nat /\ attach[t].gen <= transport_gen
        /\ transport_gen \in Nat
    BY DEF Readers, AttachGens, Typed, Call
  <1>3. CASE attach[t].gen = attach[u].gen
    BY <1>2, <1>3 DEF AttachGens
  <1>4. CASE attach[t].gen # attach[u].gen
    <2>1. attach[u].gen > attach[t].gen
      BY <1>1, <1>2, <1>4
    <2>2. QED
      BY <2>1 DEF Readers
  <1>5. QED
    BY <1>3, <1>4

LEMMA ReadersStep ==
  ASSUME Typed, AttachGens, Alone, AttachIsLast, DetachIsLast, Readers, ~MultiThread,
         [Next]_vars
  PROVE  Readers'
  <1> USE ConstantTypes
  <1>1. /\ transport_gen \in Nat /\ slot \in Nat /\ reader \in [Transport -> {"none", "run"}]
        /\ attach \in [Transport -> Call]
        /\ \A t \in Transport : attach[t].gen \in Nat /\ attach[t].gen <= transport_gen
    BY DEF Typed, Call, AttachGens
  <1>2. ASSUME UNCHANGED << attach, slot >>,
               \A t \in Transport : reader'[t] = "run" => reader[t] = "run"
        PROVE  Readers'
    BY <1>2 DEF Readers
  <1>3. ASSUME \A t \in Transport : reader'[t] # "run" PROVE Readers'
    BY <1>3 DEF Readers
  \* An abort of the reader whose handle is in the slot.
  <1>4. ASSUME NEW t \in Transport, reader[t] = "run", attach[t].gen = slot
        PROVE  Aborted(slot)[t] # "run"
    BY <1>4 DEF Aborted
  <1>5. ASSUME NEW g, NEW t \in Transport, Aborted(g)[t] = "run" PROVE reader[t] = "run"
    BY <1>5 DEF Aborted
  <1>6. ASSUME NEW u \in Transport \ {1}, AttachBegin(u) PROVE Readers'
    <2>1. /\ attach[u].pc = "idle" /\ attach'[u].pc = "abort"
          /\ \A v \in Transport : v # u => attach'[v] = attach[v]
          /\ UNCHANGED << reader, slot >>
      <3>1. /\ attach[u].pc = "idle"
            /\ attach'[u] = [pc |-> "abort", gen |-> transport_gen + 1]
            /\ \A v \in Transport : v # u => attach'[v] = attach[v]
        BY <1>6, AttachBegins
      <3>2. UNCHANGED << reader, slot >>
        BY <1>6 DEF AttachBegin, tasks
      <3>3. attach'[u].pc = "abort"
        BY <3>1
      <3>4. QED
        BY Zenon, <3>1, <3>2, <3>3
    <2> SUFFICES ASSUME NEW t \in Transport, reader'[t] = "run"
                 PROVE  /\ attach'[t].pc \in {"slot", "done"}
                        /\ attach'[t].gen = slot' \/ attach'[t].pc = "slot"
                        /\ \A v \in Transport :
                             attach'[v].gen > attach'[t].gen => attach'[v].pc = "abort"
      BY DEF Readers
    <2>2. t # u /\ attach'[t] = attach[t]
      BY <2>1 DEF Readers
    <2>3. QED
      BY <2>1, <2>2 DEF Readers
  <1>7. ASSUME NEW u \in Transport, AttachAbort(u) PROVE Readers'
    <2>1. /\ attach[u].pc = "abort" /\ Attaching(u)
          /\ reader' = IF slot = None THEN reader ELSE Aborted(slot)
      BY <1>7 DEF AttachAbort, Attaching
    <2>2. ASSUME NEW t \in Transport, reader[t] = "run"
          PROVE  attach[t].gen = slot /\ slot # None
      <3>1. attach[t].pc \in {"slot", "done"} /\ t # u
        BY <2>1, <2>2 DEF Readers
      <3>2. ~Attaching(t)
        BY <2>1, <3>1 DEF Alone
      <3>3. attach[t].pc = "done"
        BY <3>1, <3>2 DEF Attaching
      <3>4. attach[t].gen \in 1 .. transport_gen
        BY <3>3 DEF AttachGens
      <3>5. QED
        BY <1>1, <2>2, <3>3, <3>4 DEF Readers, None
    <2>3. \A t \in Transport : reader'[t] # "run"
      BY <1>4, <1>5, <2>1, <2>2
    <2>4. QED
      BY <1>3, <2>3
  <1>8. ASSUME NEW u \in Transport, AttachSend(u) \/ AttachStore(u) PROVE Readers'
    <2>1. attach[u].pc \in {"send", "store"} /\ reader' = reader
      BY <1>8 DEF AttachSend, AttachStore, tasks
    <2>2. ASSUME NEW t \in Transport, reader[t] = "run" PROVE FALSE
      <3>1. t = u
        BY <2>1, <2>2, ReadersGone
      <3>2. QED
        BY <2>1, <2>2, <3>1 DEF Readers
    <2>3. QED
      BY <1>3, <2>1, <2>2
  <1>9. ASSUME NEW u \in Transport, AttachSpawn(u) \/ AttachSlot(u) PROVE Readers'
    <2>1. /\ attach[u].pc \in {"spawn", "slot"} /\ attach[u] \in Call
          /\ \A t \in Transport : t # u => reader'[t] = reader[t]
      BY <1>1, <1>9 DEF AttachSpawn, AttachSlot, tasks
    <2>2. /\ attach'[u].gen = attach[u].gen /\ attach'[u].pc \in {"slot", "done"}
          /\ attach'[u].gen = slot' \/ attach'[u].pc = "slot"
          /\ \A v \in Transport : v # u => attach'[v] = attach[v]
      BY <1>1, <1>9, <2>1 DEF AttachSpawn, AttachSlot, Call, shared
    <2>3. attach[u].gen = transport_gen
      BY <2>1 DEF AttachIsLast, Attaching
    <2>4. ASSUME NEW t \in Transport, reader'[t] = "run" PROVE t = u
      BY <2>1, <2>4, ReadersGone
    <2>5. ASSUME NEW v \in Transport PROVE ~(attach'[v].gen > attach'[u].gen)
      <3>1. attach'[v].gen = attach[v].gen
        BY <2>2
      <3>2. /\ attach[v].gen \in Nat /\ attach[v].gen <= transport_gen
            /\ transport_gen \in Nat
        BY <1>1
      <3>3. attach'[u].gen = transport_gen
        BY <2>2, <2>3
      <3>4. QED
        BY <3>1, <3>2, <3>3
    <2>6. QED
      BY <2>2, <2>4, <2>5 DEF Readers
  <1>10. CASE DetachAbort
    <2>1. /\ Detaching(Writer)
          /\ reader' = IF slot = detach[Writer].gen THEN Aborted(slot) ELSE reader
      BY <1>10 DEF DetachAbort, Detaching
    <2>2. ASSUME NEW t \in Transport, reader[t] = "run"
          PROVE  attach[t].gen = slot /\ slot = detach[Writer].gen
      <3>1. \A v \in Transport : ~Attaching(v)
        BY <2>1 DEF Alone
      <3>2. attach[t].gen = slot
        BY <2>2, <3>1 DEF Readers, Attaching
      <3>3. /\ transport_gen = detach[Writer].gen + 1 /\ attach[t].gen < transport_gen
            /\ \E v \in Transport : attach[v].gen = detach[Writer].gen
        BY <2>1 DEF DetachIsLast
      <3>4. PICK v \in Transport : attach[v].gen = detach[Writer].gen
        BY <3>3
      <3>5. attach[v].pc # "abort"
        BY <3>1 DEF Attaching
      <3>6. ~(attach[v].gen > attach[t].gen)
        BY <2>2, <3>5 DEF Readers
      <3>7. attach[t].gen \in Nat /\ attach[v].gen \in Nat
        BY <1>1
      <3>8. QED
        BY <3>2, <3>3, <3>4, <3>6, <3>7
    <2>3. \A t \in Transport : reader'[t] # "run"
      BY <1>4, <1>5, <2>1, <2>2
    <2>4. QED
      BY <1>3, <2>3
  <1>11. ASSUME NEW t \in Transport, ReaderFail(t) PROVE Readers'
    BY <1>1, <1>2, <1>11 DEF ReaderFail
  <1>12. QED
    BY <1>2, <1>6, <1>7, <1>8, <1>9, <1>10, <1>11
       DEF Next, Step, vars, shared, tasks, calls, Attach, Fail, Detach, DetachStore, DetachSend,
           DetachReact, WriterFail, WriterApply, LoopClear, LoopCheck, TimerFires, Expire

-----------------------------------------------------------------------------
\* A transport the writer was given, by the command at i, is current, or something
\* that takes it away is on its way: a later command, a detach call that has its
\* command to send, or an attach call that has.
Superseded(i, g) ==
  \/ g = transport_gen /\ (transport_attached \/ \E t \in Transport : attach[t].pc = "store")
  \/ \E j \in Queued : j > i /\ (Attaches(j) \/ writer_cmd[j].gen = g)
  \/ \E k \in Task : detach[k].pc \in {"store", "abort", "send"} /\ detach[k].gen = g
  \/ \E t \in Transport : attach[t].pc \in {"abort", "send"}

Dropped ==
  ~closed =>
    /\ writer.t # None => Superseded(0, writer.gen)
    /\ \A i \in Queued : Attaches(i) => Superseded(i, writer_cmd[i].gen)

LEMMA DroppedInit == Init => Dropped
  <1> SUFFICES ASSUME Init PROVE Dropped
    OBVIOUS
  <1>1. Queued = {1} /\ writer_cmd[1] = Cmd("attach", 1, 1)
    BY DEF Init, Queued
  <1>2. QED
    BY <1>1 DEF Init, Dropped, Superseded, Cmd

\* The transport stays superseded in every step that does not take a command.
LEMMA SupersededStays ==
  ASSUME Typed, Typed', AttachGens, Commands, Alone, AttachIsLast, DetachIsLast, ~MultiThread,
         [Next]_vars, ~closed', ~WriterApply, NEW i \in Nat, i <= Len(writer_cmd),
         NEW g \in Nat, g <= transport_gen, Superseded(i, g),
         \E t \in Transport : attach[t].gen = g
  PROVE  Superseded(i, g)'
  <1> USE ConstantTypes
  <1>1. /\ transport_gen \in Nat /\ Len(writer_cmd) \in Nat
        /\ attach \in [Transport -> Call] /\ detach \in [Task -> Call]
    BY DEF Typed
  \* A command is sent.
  <1>2. ASSUME NEW cmd \in Cmds, writer_cmd' = Append(writer_cmd, cmd)
        PROVE  /\ Queued \subseteq Queued'
               /\ \A j \in Queued : writer_cmd'[j] = writer_cmd[j]
               /\ \E j \in Queued' : j > i /\ writer_cmd'[j] = cmd
    <2>1. /\ Queued = 1 .. Len(writer_cmd) /\ Queued' = 1 .. Len(writer_cmd) + 1
          /\ \A j \in Queued : writer_cmd'[j] = writer_cmd[j]
          /\ writer_cmd'[Len(writer_cmd) + 1] = cmd
      BY <1>1, <1>2, SendQueue DEF Queued
    <2>2. Len(writer_cmd) + 1 > i /\ Len(writer_cmd) + 1 \in 1 .. Len(writer_cmd) + 1
      BY <1>1
    <2>3. QED
      BY <1>1, <2>1, <2>2
  <1>3. ASSUME NEW t \in Transport, AttachSend(t)
        PROVE  \E j \in Queued' : j > i /\ Attaches(j)'
    <2>1. Cmd("attach", attach[t].gen, t) \in Cmds
      BY SendTyped DEF Typed, Call
    <2>2. Cmd("attach", attach[t].gen, t).type = "attach"
      BY DEF Cmd
    <2>3. \E j \in Queued' : j > i /\ writer_cmd'[j] = Cmd("attach", attach[t].gen, t)
      BY <1>2, <1>3, <2>1 DEF AttachSend
    <2>4. QED
      BY <2>2, <2>3 DEF Attaches
  <1>4. ASSUME NEW k \in Task, DetachSend(k), detach[k].gen = g
        PROVE  \E j \in Queued' : j > i /\ writer_cmd'[j].gen = g
    <2>1. Cmd("detach", detach[k].gen, None) \in Cmds
      BY SendTyped DEF Typed, Call
    <2>2. Cmd("detach", detach[k].gen, None).gen = g
      BY <1>4 DEF Cmd
    <2>3. \E j \in Queued' : j > i /\ writer_cmd'[j] = Cmd("detach", detach[k].gen, None)
      BY <1>2, <1>4, <2>1 DEF DetachSend
    <2>4. QED
      BY <2>2, <2>3
  \* Once a command is on its way it stays.
  <1>5. ASSUME NEW j \in Queued, j > i, Attaches(j) \/ writer_cmd[j].gen = g
        PROVE  Superseded(i, g)'
    <2>1. j \in Queued' /\ writer_cmd'[j] = writer_cmd[j]
      <3>1. CASE writer_cmd' = writer_cmd
        BY <3>1 DEF Queued
      <3>2. ASSUME NEW t \in Transport, AttachSend(t)
            PROVE  j \in Queued' /\ writer_cmd'[j] = writer_cmd[j]
        <4>1. Cmd("attach", attach[t].gen, t) \in Cmds
          BY SendTyped DEF Typed, Call
        <4>2. QED
          BY <1>2, <3>2, <4>1 DEF AttachSend
      <3>3. ASSUME NEW k \in Task, DetachSend(k)
            PROVE  j \in Queued' /\ writer_cmd'[j] = writer_cmd[j]
        <4>1. Cmd("detach", detach[k].gen, None) \in Cmds
          BY SendTyped DEF Typed, Call
        <4>2. QED
          BY <1>2, <3>3, <4>1 DEF DetachSend
      <3>4. QED
        BY <3>1, <3>2, <3>3, ChannelSteps DEF WriterFail
    <2>2. QED
      BY <1>5, <2>1 DEF Superseded, Attaches
  \* A detach call goes on to its command.
  <1>6. ASSUME NEW k \in Task, detach[k].pc \in {"store", "abort", "send"}, detach[k].gen = g
        PROVE  Superseded(i, g)'
    <2>1. Detaching(k) /\ ~Quiet /\ ~MayStart
      BY <1>6, StartsQuiet DEF Detaching, Quiet
    <2>2. CASE DetachSend(k)
      BY <1>4, <1>6, <2>2 DEF Superseded
    <2>3. CASE DetachStore(k) \/ (k = Writer /\ DetachAbort)
      <3>1. detach'[k].pc \in {"abort", "send"} /\ detach'[k].gen = detach[k].gen
        BY SMTT(30), <1>1, <2>3 DEF DetachStore, DetachAbort, Call
      <3>2. QED
        BY <1>6, <3>1 DEF Superseded
    <2>4. CASE detach'[k] = detach[k]
      BY <1>6, <2>4 DEF Superseded
    <2>5. ASSUME NEW l \in Task, Detach(l), l # k PROVE detach'[k] = detach[k]
      BY <2>5, DetachMoves
    <2>6. CASE DetachAbort /\ k # Writer
      BY <2>4, <2>6, DetachMoves
    <2>7. ~DetachReact(k)
      BY <1>6 DEF DetachReact
    <2>8. ASSUME NEW t \in Transport, Attach(t) PROVE detach'[k] = detach[k]
      BY <2>8, AttachMoves
    <2>9. QED
      BY <2>1, <2>2, <2>3, <2>4, <2>5, <2>6, <2>7, <2>8
         DEF Next, Step, vars, calls, Detach, AttachBegin, ReaderFail, Fail, WriterFail,
             WriterApply, LoopClear, LoopCheck, TimerFires, Expire
  \* So does an attach call.
  <1>7. ASSUME NEW t \in Transport, attach[t].pc \in {"abort", "send"}
        PROVE  Superseded(i, g)'
    <2>1. Attaching(t) /\ ~Quiet /\ ~MayStart
      BY <1>7, StartsQuiet DEF Attaching, Quiet
    <2>2. CASE AttachSend(t)
      BY <1>3, <2>2 DEF Superseded
    <2>3. CASE AttachAbort(t)
      <3>1. attach'[t].pc = "send"
        BY <1>1, <2>3 DEF AttachAbort, Call
      <3>2. QED
        BY <3>1 DEF Superseded
    <2>4. CASE attach'[t] = attach[t]
      BY <1>7, <2>4 DEF Superseded
    <2>5. ASSUME NEW u \in Transport, Attach(u), u # t PROVE attach'[t] = attach[t]
      BY <2>5, AttachMoves
    <2>6. ~AttachStore(t) /\ ~AttachSpawn(t) /\ ~AttachSlot(t)
      BY <1>7 DEF AttachStore, AttachSpawn, AttachSlot
    <2>7. ASSUME NEW k \in Task, Detach(k) \/ (k = Writer /\ DetachAbort)
          PROVE  attach'[t] = attach[t]
      BY <2>7, DetachMoves
    <2>8. QED
      BY <2>1, <2>2, <2>3, <2>4, <2>5, <2>6, <2>7
         DEF Next, Step, vars, calls, Attach, AttachBegin, ReaderFail, Fail, WriterFail,
             WriterApply, LoopClear, LoopCheck, TimerFires, Expire
  \* The current one: attached, or about to be.
  <1>8. CASE g = transport_gen /\ (transport_attached \/ \E t \in Transport : attach[t].pc = "store")
    <2>1. CASE \E u \in Transport \ {1} : AttachBegin(u)
      <3> PICK u \in Transport \ {1} : AttachBegin(u)
        BY <2>1
      <3>1. attach'[u] = [pc |-> "abort", gen |-> transport_gen + 1]
        BY AttachBegins
      <3>2. QED
        BY <3>1 DEF Superseded
    <2>2. ASSUME NEW k \in Task, NEW gen \in Nat, DetachBegin(k, gen),
                 UNCHANGED << transport_attached, attach >>
          PROVE  Superseded(i, g)'
      <3>1. CASE transport_gen = gen
        <4>1. detach'[k].pc = "store" /\ detach'[k].gen = gen
          BY <1>1, <2>2, <3>1 DEF DetachBegin
        <4>2. QED
          BY <1>8, <3>1, <4>1 DEF Superseded
      <3>2. CASE transport_gen # gen
        <4>1. UNCHANGED << transport_gen, transport_attached, attach >>
          BY <2>2, <3>2 DEF DetachBegin
        <4>2. QED
          BY <1>8, <4>1 DEF Superseded
      <3>3. QED
        BY <3>1, <3>2
    <2>3. ASSUME NEW t \in Transport, ReaderFail(t) PROVE Superseded(i, g)'
      <3>1. attach[t].gen \in Nat /\ t \in Task
        BY <1>1 DEF Call
      <3>2. QED
        BY <2>2, <2>3, <3>1 DEF ReaderFail
    <2>4. CASE WriterFail
      <3>1. writer.gen \in Nat
        BY DEF Typed
      <3>2. QED
        BY <2>2, <2>4, <3>1 DEF WriterFail
    \* A detach call under way is of an earlier generation: then g is not current.
    <2>5. \A k \in Task : ~Detaching(k)
      <3>1. PICK t \in Transport : attach[t].gen = g
        OBVIOUS
      <3>2. ~(attach[t].gen < transport_gen)
        BY <1>1, <1>8, <3>1
      <3>3. QED
        BY <3>2 DEF DetachIsLast
    <2>6. ASSUME NEW t \in Transport, Attach(t) PROVE Superseded(i, g)'
      <3>1. transport_gen' = transport_gen
        BY <2>6, AttachMoves
      <3>2. CASE AttachStore(t)
        BY <1>8, <3>1, <3>2 DEF AttachStore, Superseded
      <3>3. CASE ~AttachStore(t)
        <4>1. transport_attached' = transport_attached
          BY <2>6, <3>3 DEF Attach, AttachAbort, AttachSend, AttachSpawn, AttachSlot, shared
        <4>2. ASSUME NEW u \in Transport, attach[u].pc = "store" PROVE attach'[u].pc = "store"
          <5>1. u # t
            BY <2>6, <3>3, <4>2 DEF Attach, AttachAbort, AttachSend, AttachSpawn, AttachSlot
          <5>2. QED
            BY <2>6, <4>2, <5>1, AttachMoves
        <4>3. QED
          BY <1>8, <3>1, <4>1, <4>2 DEF Superseded
      <3>4. QED
        BY <3>2, <3>3
    <2>7. CASE UNCHANGED << transport_gen, transport_attached, attach >>
      BY <1>8, <2>7 DEF Superseded
    <2>8. ASSUME NEW k \in Task, Detach(k) \/ (k = Writer /\ DetachAbort) PROVE FALSE
      BY <2>5, <2>8, DetachMoves
    <2>9. ~Expire
      BY DEF Expire
    <2>10. QED
      BY <2>1, <2>3, <2>4, <2>6, <2>7, <2>8, <2>9
         DEF Next, Step, vars, shared, calls, Fail, WriterApply, LoopClear, LoopCheck,
             TimerFires
  <1>9. QED
    BY <1>5, <1>6, <1>7, <1>8 DEF Superseded

LEMMA DroppedStep ==
  ASSUME Typed, Typed', AttachGens, Commands, Alone, AttachIsLast, DetachIsLast, Sorted, Dropped,
         ~MultiThread, [Next]_vars
  PROVE  Dropped'
  <1> USE ConstantTypes
  <1> SUFFICES ASSUME ~closed' PROVE
        /\ writer'.t # None => Superseded(0, writer.gen)'
        /\ \A i \in Queued' : Attaches(i)' => Superseded(i, writer_cmd[i].gen)'
    BY DEF Dropped
  <1>1. ~closed
    BY DEF Next, Step, vars, endVars, AttachBegin, Attach, AttachAbort, AttachSend,
       AttachStore, AttachSpawn, AttachSlot, ReaderFail, Fail, Detach, DetachStore, DetachSend,
       DetachReact, DetachAbort, WriterFail, WriterApply, LoopClear, LoopCheck, TimerFires,
       Expire, MayStart
  <1>2. /\ transport_gen \in Nat /\ Len(writer_cmd) \in Nat /\ writer.gen \in Nat
        /\ writer.gen <= transport_gen
        /\ \A i \in Queued : writer_cmd[i].gen \in Nat /\ writer_cmd[i].gen <= transport_gen
    BY QueuedGens
  <1>3. writer.t # None => \E t \in Transport : attach[t].gen = writer.gen
    BY DEF Commands, Typed, Task, Writer, None
  <1>4. ASSUME NEW i \in Queued, Attaches(i)
        PROVE  \E t \in Transport : attach[t].gen = writer_cmd[i].gen
    BY <1>4 DEF Commands, CommandOK, Queued, Attaches
  <1>5. CASE WriterApply
    <2>1. /\ Len(writer_cmd) \in Nat \ {0} /\ Queued = 1 .. Len(writer_cmd)
          /\ Queued' = 1 .. Len(writer_cmd) - 1
          /\ \A i \in 1 .. Len(writer_cmd) - 1 : writer_cmd'[i] = writer_cmd[i + 1]
      BY <1>5, TakeQueue
    <2>2. UNCHANGED << transport_gen, transport_attached, attach, detach >>
      BY <1>5 DEF WriterApply, shared, calls
    \* The commands move up by one.
    <2>3. ASSUME NEW i \in Nat, NEW g \in Nat, Superseded(i + 1, g) PROVE Superseded(i, g)'
      <3>1. ASSUME NEW j \in Queued, j > i + 1, Attaches(j) \/ writer_cmd[j].gen = g
            PROVE  Superseded(i, g)'
        <4>1. j \in Nat /\ j - 1 \in 1 .. Len(writer_cmd) - 1 /\ (j - 1) + 1 = j /\ j - 1 > i
          BY <1>2, <2>1, <3>1
        <4>2. j - 1 \in Queued' /\ writer_cmd'[j - 1] = writer_cmd[j]
          BY <2>1, <4>1
        <4>3. PICK n \in Nat : n = j - 1
          BY <4>1
        <4>4. QED
          BY <3>1, <4>1, <4>2, <4>3 DEF Superseded, Attaches
      <3>2. CASE ~\E j \in Queued : j > i + 1 /\ (Attaches(j) \/ writer_cmd[j].gen = g)
        BY <2>2, <2>3, <3>2 DEF Superseded
      <3>3. QED
        BY <3>1, <3>2
    <2>4. ASSUME NEW i \in Queued', Attaches(i)' PROVE Superseded(i, writer_cmd[i].gen)'
      <3>1. i \in Nat /\ i + 1 \in Queued /\ writer_cmd'[i] = writer_cmd[i + 1]
        BY <1>2, <2>1
      <3>2. PICK g \in Nat : g = writer_cmd[i + 1].gen
        BY <1>2, <3>1
      <3>3. Superseded(i + 1, g)
        BY <1>1, <2>4, <3>1, <3>2 DEF Dropped, Attaches
      <3>4. Superseded(i, g)'
        BY <2>3, <3>1, <3>3
      <3>5. writer_cmd'[i].gen = g
        BY <3>1, <3>2
      <3>6. QED
        BY <3>4, <3>5 DEF Superseded
    <2>5. ASSUME writer'.t # None PROVE Superseded(0, writer.gen)'
      <3>1. 1 \in Queued /\ 0 + 1 = 1 /\ 0 \in Nat
        BY <2>1
      <3>2. CASE Attaches(1)
        <4>1. PICK g \in Nat : g = writer_cmd[1].gen
          BY <1>2, <3>1
        <4>2. Superseded(0 + 1, g)
          BY <1>1, <3>1, <3>2, <4>1 DEF Dropped
        <4>3. Superseded(0, g)' /\ writer'.gen = g
          BY <1>5, <2>3, <3>1, <3>2, <4>1, <4>2, TakeEffect
        <4>4. QED
          BY <4>3 DEF Superseded
      <3>3. CASE ~Attaches(1)
        <4>1. /\ writer'.gen = writer.gen /\ writer_cmd[1].gen # writer.gen
              /\ writer'.t = writer.t
          BY <1>5, <2>5, <3>3, TakeEffect
        <4>2. PICK g \in Nat : g = writer.gen
          BY <1>2
        <4>3. Superseded(0, g)
          BY <1>1, <2>5, <4>1, <4>2 DEF Dropped
        <4>4. \A j \in Queued : j > 0 /\ (Attaches(j) \/ writer_cmd[j].gen = g) => j > 0 + 1
          BY <2>1, <3>3, <4>1, <4>2
        <4>5. Superseded(0 + 1, g)
          BY <4>3, <4>4 DEF Superseded
        <4>6. Superseded(0, g)'
          BY <2>3, <3>1, <4>5
        <4>7. QED
          BY <4>1, <4>2, <4>6 DEF Superseded
      <3>4. QED
        BY <3>2, <3>3
    <2>6. QED
      BY <2>4, <2>5
  <1>6. CASE ~WriterApply
    <2>1. ASSUME writer'.t # None PROVE Superseded(0, writer.gen)'
      <3>1. writer' = writer
        BY <1>6, <2>1, ChannelSteps DEF AttachSend, DetachSend, WriterFail, Typed
      <3>2. PICK g \in Nat : g = writer.gen
        BY <1>2
      <3>3. Superseded(0, g)
        BY <1>1, <2>1, <3>1, <3>2 DEF Dropped
      <3>4. Superseded(0, g)'
        BY <1>2, <1>3, <1>6, <2>1, <3>1, <3>2, <3>3, SupersededStays
      <3>5. QED
        BY <3>1, <3>2, <3>4 DEF Superseded
    <2>2. ASSUME NEW i \in Queued, Attaches(i), writer_cmd'[i] = writer_cmd[i]
          PROVE  Superseded(i, writer_cmd[i].gen)'
      <3>1. PICK g \in Nat : g = writer_cmd[i].gen
        BY <1>2
      <3>2. Superseded(i, g)
        BY <1>1, <2>2, <3>1 DEF Dropped
      <3>3. i \in Nat /\ i <= Len(writer_cmd)
        BY <1>2 DEF Queued
      <3>4. g <= transport_gen /\ \E t \in Transport : attach[t].gen = g
        BY <1>2, <1>4, <2>2, <3>1
      <3>5. Superseded(i, g)'
        BY <1>6, <3>2, <3>3, <3>4, SupersededStays
      <3>6. QED
        BY <2>2, <3>1, <3>5 DEF Superseded
    <2>3. CASE writer_cmd' = writer_cmd
      BY <2>1, <2>2, <2>3 DEF Queued, Attaches
    <2>4. ASSUME NEW cmd \in Cmds, writer_cmd' = Append(writer_cmd, cmd), NEW i \in Queued',
                 Attaches(i)'
          PROVE  \/ i \in Queued /\ Attaches(i) /\ writer_cmd'[i] = writer_cmd[i]
                 \/ writer_cmd'[i] = cmd
      <3>1. /\ Len(writer_cmd) + 1 \in Nat /\ Queued' = 1 .. Len(writer_cmd) + 1
            /\ Queued = 1 .. Len(writer_cmd)
            /\ \A j \in Queued : writer_cmd'[j] = writer_cmd[j]
            /\ writer_cmd'[Len(writer_cmd) + 1] = cmd
        BY <1>2, <2>4, SendQueue DEF Queued
      <3>2. i \in Queued \/ i = Len(writer_cmd) + 1
        BY <1>2, <3>1
      <3>3. QED
        BY <2>4, <3>1, <3>2 DEF Attaches
    <2>5. ASSUME NEW t \in Transport, AttachSend(t), NEW i \in Queued', Attaches(i)'
          PROVE  Superseded(i, writer_cmd[i].gen)'
      <3> DEFINE cmd == Cmd("attach", attach[t].gen, t)
      <3>1. cmd \in Cmds /\ writer_cmd' = Append(writer_cmd, cmd) /\ cmd.gen = attach[t].gen
        BY <2>5, SendTyped DEF Typed, Call, AttachSend, Cmd
      <3>2. attach'[t].pc = "store" /\ transport_gen' = transport_gen
        BY <2>5 DEF AttachSend, shared, Typed, Call
      <3>3. attach[t].gen = transport_gen
        BY <2>5 DEF AttachIsLast, Attaching, AttachSend
      <3> HIDE DEF cmd
      <3>4. \/ i \in Queued /\ Attaches(i) /\ writer_cmd'[i] = writer_cmd[i]
            \/ writer_cmd'[i] = cmd
        BY <2>4, <2>5, <3>1
      <3>5. CASE writer_cmd'[i] = cmd
        BY <3>1, <3>2, <3>3, <3>5 DEF Superseded
      <3>6. QED
        BY <2>2, <3>4, <3>5
    <2>6. ASSUME NEW k \in Task, DetachSend(k), NEW i \in Queued', Attaches(i)'
          PROVE  Superseded(i, writer_cmd[i].gen)'
      <3> DEFINE cmd == Cmd("detach", detach[k].gen, None)
      <3>1. cmd \in Cmds /\ writer_cmd' = Append(writer_cmd, cmd) /\ cmd.type = "detach"
        BY <2>6, SendTyped DEF Typed, Call, DetachSend, Cmd
      <3> HIDE DEF cmd
      <3>2. \/ i \in Queued /\ Attaches(i) /\ writer_cmd'[i] = writer_cmd[i]
            \/ writer_cmd'[i] = cmd
        BY <2>4, <2>6, <3>1
      <3>3. QED
        BY <2>2, <2>6, <3>1, <3>2 DEF Attaches
    <2>7. QED
      BY <1>6, <2>1, <2>3, <2>5, <2>6, ChannelSteps DEF WriterFail
  <1>7. QED
    BY <1>5, <1>6

-----------------------------------------------------------------------------
\* What holds on one thread.
OneThread ==
  ~MultiThread =>
    /\ Alone /\ AttachIsLast /\ DetachIsLast /\ Timely
    /\ Sorted /\ Backed /\ Replaced /\ Readers /\ Dropped

LEMMA OneThreadInit == Init => OneThread
  BY AloneInit, LastInit, QueueInit, ReadersInit, DroppedInit DEF OneThread

LEMMA OneThreadStep == Inv /\ Inv' /\ OneThread /\ [Next]_vars => OneThread'
  <1> SUFFICES ASSUME Inv, Inv', OneThread, [Next]_vars, ~MultiThread'
               PROVE  (Alone /\ AttachIsLast /\ DetachIsLast /\ Timely /\ Sorted /\ Backed
                         /\ Replaced /\ Readers /\ Dropped)'
    BY DEF OneThread
  <1>1. mode' = mode
    BY DEF Next, vars
  <1>2. ~MultiThread
    BY <1>1 DEF MultiThread
  <1>3. /\ Alone /\ AttachIsLast /\ DetachIsLast /\ Timely
        /\ Sorted /\ Backed /\ Replaced /\ Readers /\ Dropped
    BY <1>2 DEF OneThread
  <1>4. Typed /\ Dialing /\ AttachGens /\ DetachGens /\ Commands /\ Typed'
    BY DEF Inv
  <1>5. Alone' /\ AttachIsLast'
    BY <1>2, <1>3, <1>4, AloneStep, AttachIsLastStep
  <1>6. DetachIsLast'
    BY <1>2, <1>3, <1>4, DetachIsLastStep
  <1>7. Timely'
    BY <1>2, <1>3, <1>4, TimelyStep
  <1>8. Sorted'
    BY <1>2, <1>3, <1>4, SortedStep
  <1>9. Backed'
    BY <1>2, <1>3, <1>4, BackedStep
  <1>10. Replaced'
    BY <1>3, <1>4, ReplacedStep
  <1>11. Readers'
    BY <1>2, <1>3, <1>4, ReadersStep
  <1>12. Dropped'
    BY <1>2, <1>3, <1>4, DroppedStep
  <1>13. QED
    BY <1>5, <1>6, <1>7, <1>8, <1>9, <1>10, <1>11, <1>12

LEMMA OneThreadAlways == Spec => [](Inv /\ OneThread)
  <1>1. Init => OneThread
    BY OneThreadInit
  <1>2. Inv /\ Inv' /\ OneThread /\ [Next]_vars => OneThread'
    BY OneThreadStep
  <1>3. QED
    BY <1>1, <1>2, InvAlways, PTL DEF Spec

\* On one thread a client at rest has a transport, or a reconnect loop dials: a
\* detach that found the loop running is made up for when the loop looks at the
\* flag again after it has cleared its own (spawn_reconnect_loop).
THEOREM ClientNotStranded == Spec => []NotStrandedOnOneThread
  <1>1. ASSUME Inv, OneThread, ~MultiThread, Role = "client", AtRest
        PROVE  writer.t # None \/ loops.resume > 0
    <2>1. Typed /\ Dialing /\ Backed /\ Replaced
      BY <1>1 DEF Inv, OneThread
    <2>2. /\ loops.resume \in Nat /\ loops.attach \in Nat
          /\ loops.clear \in Nat /\ loops.check \in Nat
      BY <2>1 DEF Typed, LoopCounts
    <2>3. /\ \A t \in Transport : ~Attaching(t)
          /\ \A k \in Task : ~Detaching(k)
          /\ ~(loops.clear + loops.check > 0)
          /\ writer_cmd = << >> /\ ~closed
      BY <1>1 DEF AtRest, Busy
    <2>4. loops.clear = 0 /\ loops.check = 0
      BY <2>2, <2>3
    <2>5. CASE transport_attached
      <3>1. \A t \in Transport : attach[t].pc \notin {"abort", "send"}
        BY <2>3 DEF Attaching
      <3>2. ~Coming
        <4>1. Len(writer_cmd) = 0
          BY <2>3
        <4>2. QED
          BY <4>1 DEF Coming, Queued
      <3>3. QED
        BY <2>1, <2>3, <2>5, <3>1, <3>2 DEF Backed
    <2>6. CASE ~transport_attached
      <3>1. reconnect_active
        BY <1>1, <2>1, <2>3, <2>4, <2>6 DEF Replaced
      <3>2. loops.attach = 0
        BY <1>1, <2>1, <2>2, <2>3 DEF Dialing
      <3>3. loops.resume + loops.attach + loops.clear = 1
        BY <2>1, <3>1 DEF Dialing
      <3>4. QED
        BY <2>2, <2>4, <3>2, <3>3
    <2>7. QED
      BY <2>5, <2>6
  <1>2. Inv /\ OneThread => NotStrandedOnOneThread
    BY <1>1 DEF NotStrandedOnOneThread, NotStranded
  <1>3. QED
    BY <1>2, OneThreadAlways, PTL

\* On one thread the flag tells the truth: at rest the endpoint is attached exactly
\* when the writer has a transport, and that is the one of the current generation
\* (attach_transport_parts, detach_transport).
THEOREM FlagTellsTheTruth == Spec => []AttachedIsCurrent
  <1>1. ASSUME Inv, OneThread, ~MultiThread, AtRest
        PROVE  /\ transport_attached <=> writer.t # None
               /\ writer.t # None => writer.gen = transport_gen
    <2>1. Typed /\ Backed /\ Dropped
      BY <1>1 DEF Inv, OneThread
    <2>2. /\ \A t \in Transport : ~Attaching(t)
          /\ \A k \in Task : ~Detaching(k)
          /\ writer_cmd = << >> /\ ~closed
      BY <1>1 DEF AtRest, Busy
    <2>3. \A t \in Transport : attach[t].pc \notin {"abort", "send", "store"}
      BY <2>2 DEF Attaching
    <2>4. \A k \in Task : detach[k].pc \notin {"store", "abort", "send"}
      BY <2>2 DEF Detaching
    <2>5. Queued = {} /\ ~Coming
      <3>1. Len(writer_cmd) = 0
        BY <2>2
      <3>2. QED
        BY <3>1 DEF Coming, Queued
    <2>6. ASSUME transport_attached PROVE writer.t # None
      BY <2>1, <2>2, <2>3, <2>5, <2>6 DEF Backed
    <2>7. ASSUME writer.t # None PROVE writer.gen = transport_gen /\ transport_attached
      <3>1. Superseded(0, writer.gen)
        BY <2>1, <2>2, <2>7 DEF Dropped
      <3>2. QED
        BY <2>3, <2>4, <2>5, <3>1 DEF Superseded
    <2>8. QED
      BY <2>1, <2>6, <2>7 DEF Typed
  <1>2. Inv /\ OneThread => AttachedIsCurrent
    BY <1>1 DEF AttachedIsCurrent
  <1>3. QED
    BY <1>2, OneThreadAlways, PTL

\* On one thread no reader escapes: at rest the handle in the slot is that of every
\* reader that runs, so that the next attach aborts it (current_reader_abort).
THEOREM NoReaderEscapes == Spec => []ReaderCanBeAborted
  <1>1. ASSUME Inv, OneThread, ~MultiThread, AtRest, NEW t \in Transport, reader[t] = "run"
        PROVE  attach[t].gen = slot
    <2>1. ~Attaching(t) /\ Readers
      BY <1>1 DEF AtRest, Busy, OneThread
    <2>2. QED
      BY <1>1, <2>1 DEF Attaching, Readers
  <1>2. Inv /\ OneThread => ReaderCanBeAborted
    BY <1>1 DEF ReaderCanBeAborted
  <1>3. QED
    BY <1>2, OneThreadAlways, PTL

\* On one thread detached_ttl closes the connection only while it is detached: an
\* attach that came first has moved the generation on, and none is under way when
\* the timer looks (spawn_server_expiry).
THEOREM ExpiryOnlyDetached == Spec => ExpiresOnlyDetached
  <1>1. ASSUME Inv, OneThread, [Next]_vars, ~MultiThread, closed', ~closed
        PROVE  ~transport_attached /\ \A t \in Transport : ~Attaching(t)
    <2>1. Alone /\ Timely
      BY <1>1 DEF OneThread
    <2>2. Expire
      BY <1>1 DEF Next, Step, vars, endVars, AttachBegin, Attach, AttachAbort, AttachSend,
         AttachStore, AttachSpawn, AttachSlot, ReaderFail, Fail, Detach, DetachStore, DetachSend,
         DetachReact, DetachAbort, WriterFail, WriterApply, LoopClear, LoopCheck, TimerFires
    <2>3. expiring
      BY <2>2 DEF Expire
    <2>4. QED
      BY <2>1, <2>3 DEF Alone, Timely
  <1>2. Inv /\ OneThread /\ [Next]_vars
          => [~MultiThread /\ closed' /\ ~closed =>
                ~transport_attached /\ \A t \in Transport : ~Attaching(t)]_vars
    BY <1>1
  <1>3. QED
    BY <1>2, OneThreadAlways, PTL DEF Spec, ExpiresOnlyDetached

=============================================================================
