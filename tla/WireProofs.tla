------------------------------ MODULE WireProofs -----------------------------
(***************************************************************************)
(* For any durations and any resolution of the clock: the client accepts   *)
(* whatever options a server announces, if the heartbeat interval is at    *)
(* least a millisecond; an ACK goes out with the next heartbeat at the     *)
(* latest; and a transport that works is kept, if the timeouts leave room. *)
(* For any configurations: client and server agree on version, codec and   *)
(* frame limit, with recovery if both want it.  For any frames, any number *)
(* of values of a byte and any pieces: the reader reads what the writer    *)
(* wrote, and fails only where a transport was cut.                        *)
(***************************************************************************)
EXTENDS Heartbeat, Framing, SequenceTheorems, WellFoundedInduction, TLAPS

-----------------------------------------------------------------------------
(* Whole milliseconds.                                                     *)

\* The quotient of duration_to_millis: the whole part.
LEMMA Quotient ==
  ASSUME NEW a \in Nat, NEW p \in Nat \ {0}
  PROVE  a \div p \in Nat /\ p * (a \div p) <= a /\ a < p * ((a \div p) + 1)
OBVIOUS

\* It is the largest number of milliseconds that fits in the duration.
LEMMA QuotientIsLargest ==
  ASSUME NEW a \in Nat, NEW p \in Nat \ {0}, NEW q \in Nat, p * q <= a
  PROVE  q <= a \div p
<1> DEFINE d == a \div p
<1>1. d \in Nat /\ a < p * (d + 1)
  BY Quotient
<1> HIDE DEF d
<1>2. p * q < p * (d + 1)
  BY <1>1
<1>3. q < d + 1
  BY <1>1, <1>2
<1> QED BY <1>1, <1>3 DEF d

\* Rounding to milliseconds keeps a timeout of two intervals, because two
\* intervals of a millisecond or more lose at most what the timeout keeps.
LEMMA RoundingKeepsRatio ==
  ASSUME NEW interval \in Nat, NEW timeout \in Nat,
         interval >= PerMilli, timeout >= 2 * interval
  PROVE  /\ Millis(interval) \in Nat \ {0} /\ Millis(timeout) \in Nat \ {0}
         /\ PerMilli * Millis(timeout) >= 2 * (PerMilli * Millis(interval))
<1> DEFINE i == interval \div PerMilli
           t == timeout \div PerMilli
<1>1. PerMilli \in Nat \ {0}
  BY RecoveryOptionsAssumption
<1>2. i \in Nat /\ PerMilli * i <= interval
  BY <1>1, Quotient
<1>3. 1 <= i
  BY <1>1, QuotientIsLargest
<1>4. t \in Nat
  BY <1>1, Quotient
<1> HIDE DEF i
<1>5. 2 * i \in Nat /\ PerMilli * (2 * i) <= timeout
  BY <1>1, <1>2
<1>6. 2 * i <= t
  BY <1>1, <1>5, QuotientIsLargest
<1> HIDE DEF t
<1>7. Millis(interval) = i /\ Millis(timeout) = t
  BY <1>2, <1>3, <1>4, <1>6 DEF Millis, Larger, i, t
<1>8. PerMilli * t >= PerMilli * (2 * i)
  BY <1>1, <1>2, <1>4, <1>6
<1> QED BY <1>1, <1>2, <1>3, <1>4, <1>6, <1>7, <1>8

\* A duration that is not zero is not zero in milliseconds.
LEMMA MillisPositive ==
  ASSUME NEW d \in Nat
  PROVE  PerMilli * Millis(d) \in Nat \ {0}
<1>1. PerMilli \in Nat \ {0}
  BY RecoveryOptionsAssumption
<1>2. d \div PerMilli \in Nat
  BY <1>1, Quotient
<1>3. Millis(d) \in Nat \ {0}
  BY <1>2 DEF Millis, Larger
<1> QED BY <1>1, <1>3

-----------------------------------------------------------------------------
(* What the client decodes.                                                *)

\* normalized, field by field.
LEMMA NormalizedFields ==
  ASSUME NEW c \in Options
  PROVE  /\ Normalized(c) \in Options
         /\ Normalized(c).ack_every > 0 /\ Normalized(c).heartbeat_interval > 0
         /\ Normalized(c).heartbeat_timeout >= 2 * Normalized(c).heartbeat_interval
<1> DEFINE set == [field \in DOMAIN c |-> IF c[field] = 0 THEN Defaults[field] ELSE c[field]]
<1>1. DOMAIN c = {"ack_every", "ack_delay", "heartbeat_interval", "heartbeat_timeout"}
  BY DEF Options
<1>2. DOMAIN Defaults = {"ack_every", "ack_delay", "heartbeat_interval", "heartbeat_timeout"}
  BY RecoveryOptionsAssumption DEF Options
<1>3. /\ Defaults.ack_every \in Nat /\ Defaults.ack_every > 0
      /\ Defaults.ack_delay \in Nat
      /\ Defaults.heartbeat_interval \in Nat /\ Defaults.heartbeat_interval > 0
      /\ Defaults.heartbeat_timeout \in Nat
  BY <1>2, RecoveryOptionsAssumption DEF Options, Duration
<1>4. /\ set.ack_every \in Nat /\ set.ack_every > 0
      /\ set.ack_delay \in Nat
      /\ set.heartbeat_interval \in Nat /\ set.heartbeat_interval > 0
      /\ set.heartbeat_timeout \in Nat
  BY <1>1, <1>3 DEF Options, Duration
<1>5. set \in Options
  BY <1>1, <1>4 DEF Options, Duration
<1>6. Normalized(c) = [set EXCEPT !.heartbeat_timeout =
                         Larger(set.heartbeat_timeout, 2 * set.heartbeat_interval)]
  BY DEF Normalized
<1>7. /\ Larger(set.heartbeat_timeout, 2 * set.heartbeat_interval) \in Nat
      /\ Larger(set.heartbeat_timeout, 2 * set.heartbeat_interval) >= 2 * set.heartbeat_interval
  BY <1>4 DEF Larger
<1> HIDE DEF set
<1> QED BY <1>4, <1>5, <1>6, <1>7 DEF Options, Duration

\* decode_negotiated_recovery_options accepts normalised options with an
\* interval of a millisecond or more.
LEMMA DecodedIsAcceptable ==
  ASSUME NEW c \in Options, Normalized(c).heartbeat_interval >= PerMilli
  PROVE  Acceptable(Decoded(Normalized(c)))
<1> DEFINE n == Normalized(c)
<1>1. /\ n \in Options /\ n.ack_every > 0
      /\ n.heartbeat_timeout >= 2 * n.heartbeat_interval
  BY NormalizedFields
<1> HIDE DEF n
<1>2. /\ n.ack_delay \in Nat /\ n.heartbeat_interval \in Nat /\ n.heartbeat_timeout \in Nat
  BY <1>1 DEF Options, Duration
<1>3. /\ Decoded(n).ack_every = n.ack_every
      /\ Decoded(n).ack_delay = PerMilli * Millis(n.ack_delay)
      /\ Decoded(n).heartbeat_interval = PerMilli * Millis(n.heartbeat_interval)
      /\ Decoded(n).heartbeat_timeout = PerMilli * Millis(n.heartbeat_timeout)
  BY <1>1 DEF Decoded, Options
<1>4. PerMilli * Millis(n.ack_delay) > 0 /\ PerMilli * Millis(n.heartbeat_interval) > 0
  BY <1>2, MillisPositive
<1>5. PerMilli * Millis(n.heartbeat_timeout) >= 2 * (PerMilli * Millis(n.heartbeat_interval))
  BY <1>1, <1>2, RoundingKeepsRatio DEF n
<1> QED BY <1>1, <1>3, <1>4, <1>5 DEF Acceptable, n

-----------------------------------------------------------------------------
(* The attach.                                                             *)

\* Until the attach response is checked the server has the options that it
\* was configured with, normalised.
Announced ==
  /\ mode # "refused"
  /\ mode = "attach" => \E c \in Configured : opts["server"] = Normalized(c)

\* If every configured interval is at least a millisecond once normalised, and
\* no duration exceeds the u32 of its field, no client refuses what its server
\* announces (decode_negotiated_recovery_options after
\* encode_negotiated_recovery_options and normalized).
THEOREM OptionsAreAccepted ==
  ASSUME \A c \in Configured : /\ Normalized(c).heartbeat_interval >= PerMilli
                               /\ Encodable(Normalized(c))
  PROVE  Spec => []OptionsAccepted
<1>1. Init => Announced
  BY DEF Init, Announced, Endpoint
<1>2. Announced /\ [Next]_vars => Announced'
  <2> SUFFICES ASSUME Announced, [Next]_vars PROVE Announced'
    OBVIOUS
  <2>1. CASE Attach
    <3>1. PICK c \in Configured : opts["server"] = Normalized(c)
      BY <2>1 DEF Attach, Announced
    <3>2. Encodable(opts["server"]) /\ Acceptable(Decoded(opts["server"]))
      BY <3>1, DecodedIsAcceptable, HeartbeatAssumption
    <3>3. mode' = "up"
      BY <2>1, <3>2 DEF Attach
    <3> QED BY <3>3 DEF Announced
  <2>2. CASE Silenced \/ Tick
    BY <2>2 DEF Silenced, Tick, Announced
  <2>3. ASSUME NEW e \in Endpoint, Step(e) PROVE Announced'
    <3>1. mode = "up" /\ mode' \in {"up", "timed_out"}
      BY <2>3 DEF Step, AppSend, WriteAck, WriteQueued, WriteNothing, Flushed, Signalled,
           TakeFrame, SleepEnds, ReadData, ReadControl, ReadTimeout
    <3> QED BY <3>1 DEF Announced
  <2>4. CASE UNCHANGED vars
    BY <2>4 DEF vars, Announced
  <2> QED BY <2>1, <2>2, <2>3, <2>4 DEF Next
<1>3. Announced => OptionsAccepted
  BY DEF Announced, OptionsAccepted
<1> QED BY <1>1, <1>2, <1>3, PTL DEF Spec

-----------------------------------------------------------------------------
(* How late an ACK may be.                                                 *)

Writers == [pc : {"write", "flush", "wait"}, dirty : BOOLEAN, left : Nat, beat : BOOLEAN]
Acks == [pending : Nat, due : BOOLEAN, timer : BOOLEAN, left : Nat]

TimedTypes ==
  /\ opts \in [Endpoint -> Options]
  /\ writer \in [Endpoint -> Writers]
  /\ ack \in [Endpoint -> Acks]
  /\ age \in [Endpoint -> Nat]

\* The longest wait of the writer's next step.
Patience(e) ==
  /\ writer[e].pc = "flush" => writer[e].left <= FlushTicks
  /\ writer[e].pc = "wait" => writer[e].left <= opts[e].heartbeat_interval

\* Until its time comes the timer counts the delay down.  Then the writer sends
\* the ACK once it has flushed and has waited an interval.
Late(e) ==
  LET delay == opts[e].ack_delay
      interval == opts[e].heartbeat_interval
  IN IF ack[e].pending = 0 THEN ack[e] = NoAck /\ age[e] = 0
     ELSE IF ~AckDue(e) THEN ack[e].timer /\ age[e] + ack[e].left = delay
     ELSE /\ writer[e].pc = "write" => age[e] <= delay + FlushTicks + interval
          /\ writer[e].pc = "flush" => age[e] + writer[e].left <= delay + FlushTicks
          /\ writer[e].pc = "wait" => age[e] + writer[e].left <= delay + FlushTicks + interval

TimedInv ==
  /\ TimedTypes
  /\ \A e \in Endpoint : opts[e].ack_every > 0 /\ Patience(e) /\ Late(e)
  /\ mode = "attach" =>
       \A e \in Endpoint : writer[e] = Resume(FALSE) /\ ack[e] = NoAck /\ age[e] = 0

LEMMA OptionNats ==
  ASSUME NEW o \in Options
  PROVE  /\ o.ack_every \in Nat /\ o.ack_delay \in Nat
         /\ o.heartbeat_interval \in Nat /\ o.heartbeat_timeout \in Nat
  BY DEF Options, Duration

\* Decoded options are options.
LEMMA DecodedTyped ==
  ASSUME NEW o \in Options
  PROVE  Decoded(o) \in Options
  <1> DEFINE d == PerMilli * Millis(o.ack_delay)
             i == PerMilli * Millis(o.heartbeat_interval)
             t == PerMilli * Millis(o.heartbeat_timeout)
  <1>1. d \in Nat /\ i \in Nat /\ t \in Nat
    BY OptionNats, MillisPositive
  <1>2. Decoded(o) = [o EXCEPT !.ack_delay = d, !.heartbeat_interval = i,
                               !.heartbeat_timeout = t]
    BY DEF Decoded, Options
  <1> HIDE DEF d, i, t
  <1>3. QED
    BY <1>1, <1>2 DEF Options, Duration

LEMMA ResumeTyped ==
  /\ FlushTicks \in Nat
  /\ \A dirty \in BOOLEAN : Resume(dirty) \in Writers /\ Resume(dirty).pc = "write"
  /\ NoAck \in Acks /\ NoAck.pending = 0 /\ ~NoAck.timer /\ ~NoAck.due
  BY HeartbeatAssumption DEF Resume, NoAck, Writers, Acks

LEMMA TimedInit == Init => TimedInv
  <1> SUFFICES ASSUME Init PROVE TimedInv
    OBVIOUS
  <1> USE ResumeTyped
  <1>1. PICK c \in Configured : opts = [e \in Endpoint |-> Normalized(c)]
    BY DEF Init
  <1>2. Normalized(c) \in Options /\ Normalized(c).ack_every > 0
    BY NormalizedFields, HeartbeatAssumption
  <1>3. \A e \in Endpoint : writer[e] = Resume(FALSE) /\ ack[e] = NoAck /\ age[e] = 0
    BY DEF Init
  <1>4. TimedTypes
    BY <1>1, <1>2 DEF Init, TimedTypes
  <1>5. \A e \in Endpoint : opts[e].ack_every > 0 /\ Patience(e) /\ Late(e)
    BY <1>1, <1>2, <1>3 DEF Patience, Late
  <1>6. QED
    BY <1>3, <1>4, <1>5 DEF TimedInv

\* What is known of an endpoint, and what its steps leave alone.
LEMMA EndpointTypes ==
  ASSUME TimedTypes, NEW e \in Endpoint
  PROVE  /\ writer[e] \in Writers /\ ack[e] \in Acks /\ age[e] \in Nat /\ opts[e] \in Options
         /\ opts[e].ack_every \in Nat /\ opts[e].ack_delay \in Nat
         /\ opts[e].heartbeat_interval \in Nat
         /\ writer[e].left \in Nat /\ writer[e].pc \in {"write", "flush", "wait"}
         /\ ack[e].pending \in Nat /\ ack[e].left \in Nat
         /\ ack[e].due \in BOOLEAN /\ ack[e].timer \in BOOLEAN
  <1>1. writer[e] \in Writers /\ ack[e] \in Acks /\ age[e] \in Nat /\ opts[e] \in Options
    BY DEF TimedTypes
  <1>2. QED
    BY <1>1, OptionNats DEF Writers, Acks

\* An endpoint that does nothing.
LEMMA LateStays ==
  ASSUME NEW e \in Endpoint, Patience(e), Late(e),
         writer'[e] = writer[e], ack'[e] = ack[e], age'[e] = age[e], opts'[e] = opts[e]
  PROVE  Patience(e)' /\ Late(e)'
  BY DEF Patience, Late, AckDue

\* The writer goes on with write_next, and leaves the ACK for it.
LEMMA LateResumes ==
  ASSUME TimedTypes, NEW e \in Endpoint, Late(e), NEW dirty \in BOOLEAN,
         writer' = [writer EXCEPT ![e] = Resume(dirty)],
         writer[e].pc # "write" \/ ~AckDue(e),
         ack'[e] = ack[e], age'[e] = age[e], opts'[e] = opts[e]
  PROVE  Patience(e)' /\ Late(e)'
  <1> USE ResumeTyped
  <1>1. writer'[e].pc = "write"
    BY DEF TimedTypes
  <1>2. Patience(e)'
    BY <1>1 DEF Patience
  <1>3. AckDue(e)' = AckDue(e)
    BY DEF AckDue
  <1>4. age[e] \in Nat /\ writer[e].left \in Nat /\ writer[e].pc \in {"write", "flush", "wait"}
        /\ opts[e].ack_delay \in Nat /\ opts[e].heartbeat_interval \in Nat
    BY EndpointTypes
  <1>5. CASE ack[e].pending = 0 \/ ~AckDue(e)
    BY <1>2, <1>3, <1>5 DEF Late
  <1>6. CASE ack[e].pending # 0 /\ AckDue(e)
    <2>1. age[e] <= opts[e].ack_delay + FlushTicks + opts[e].heartbeat_interval
      <3>1. CASE writer[e].pc = "flush"
        <4>1. age[e] + writer[e].left <= opts[e].ack_delay + FlushTicks
          BY <1>6, <3>1 DEF Late
        <4>2. QED
          BY <1>4, <4>1
      <3>2. CASE writer[e].pc = "wait"
        <4>1. age[e] + writer[e].left
                <= opts[e].ack_delay + FlushTicks + opts[e].heartbeat_interval
          BY <1>6, <3>2 DEF Late
        <4>2. QED
          BY <1>4, <4>1
      <3>3. QED
        BY <1>4, <1>6, <3>1, <3>2
    <2>2. QED
      BY <1>1, <1>2, <1>3, <1>6, <2>1 DEF Late
  <1>7. QED
    BY <1>2, <1>5, <1>6

\* flush_and_wait: the flush starts, ...
LEMMA LateFlushes ==
  ASSUME TimedTypes, NEW e \in Endpoint, Late(e), WriteNothing(e)
  PROVE  writer'[e] \in Writers /\ Patience(e)' /\ Late(e)'
  <1>1. FlushTicks \in Nat /\ writer[e] \in Writers
    BY ResumeTyped, EndpointTypes
  <1>2. /\ writer'[e] = [writer[e] EXCEPT !.pc = "flush",
                                          !.left = IF writer[e].dirty THEN FlushTicks ELSE 0]
        /\ ~AckDue(e) /\ UNCHANGED << ack, age, opts >>
    BY DEF WriteNothing, TimedTypes, Writers
  <1>3. /\ writer'[e] \in Writers /\ writer'[e].pc = "flush"
        /\ writer'[e].left <= FlushTicks
    <2>1. PICK n \in Nat : n = (IF writer[e].dirty THEN FlushTicks ELSE 0) /\ n <= FlushTicks
      BY <1>1
    <2>2. writer'[e] = [writer[e] EXCEPT !.pc = "flush", !.left = n]
      BY <1>2, <2>1
    <2>3. QED
      BY <1>1, <2>1, <2>2 DEF Writers
  <1>4. Patience(e)'
    BY <1>3 DEF Patience
  <1>5. Late(e)'
    BY <1>2 DEF Late, AckDue
  <1>6. QED
    BY <1>3, <1>4, <1>5

\* ... and ends, and the wait starts.  An ACK that is due is not waited for.
LEMMA LateWaits ==
  ASSUME TimedTypes, NEW e \in Endpoint, Late(e), Flushed(e)
  PROVE  writer'[e] \in Writers /\ Patience(e)' /\ Late(e)'
  <1> DEFINE interval == opts[e].heartbeat_interval
             delay == opts[e].ack_delay
             wait == MinWait(NextAckWait(e), interval)
  <1>1. /\ FlushTicks \in Nat /\ interval \in Nat /\ delay \in Nat /\ ack[e].left \in Nat
        /\ ack[e].due \in BOOLEAN /\ ack[e].timer \in BOOLEAN /\ age[e] \in Nat
        /\ writer[e].left \in Nat
    BY ResumeTyped, EndpointTypes
  <1>2. /\ wait.left \in Nat /\ wait.beat \in BOOLEAN /\ wait.left <= interval
        /\ AckDue(e) => wait.left = interval
    BY <1>1 DEF MinWait, NextAckWait, AckDue
  <1>3. /\ writer'[e] = [pc |-> "wait", dirty |-> FALSE, left |-> wait.left, beat |-> wait.beat]
        /\ writer[e].pc = "flush" /\ UNCHANGED << ack, age, opts >>
    BY DEF Flushed, TimedTypes
  <1> HIDE DEF wait
  <1>4. /\ writer'[e] \in Writers /\ writer'[e].pc = "wait" /\ writer'[e].left = wait.left
    BY <1>2, <1>3 DEF Writers
  <1>5. Patience(e)'
    BY <1>2, <1>3, <1>4 DEF Patience
  <1>6. AckDue(e)' = AckDue(e)
    BY <1>3 DEF AckDue
  <1>7. CASE ack[e].pending = 0 \/ ~AckDue(e)
    BY <1>3, <1>4, <1>5, <1>6, <1>7 DEF Late
  <1>8. CASE ack[e].pending # 0 /\ AckDue(e)
    <2>1. age[e] + writer[e].left <= delay + FlushTicks
      BY <1>3, <1>8 DEF Late
    <2>2. age[e] + wait.left <= delay + FlushTicks + interval
      BY <1>1, <1>2, <1>8, <2>1
    <2>3. Late(e)'
      BY <1>3, <1>4, <1>6, <1>8, <2>2 DEF Late
    <2>4. QED
      BY <1>4, <1>5, <2>3
  <1>9. QED
    BY <1>7, <1>8

\* note_received.
LEMMA LateReceives ==
  ASSUME TimedTypes, NEW e \in Endpoint, opts[e].ack_every > 0, Patience(e), Late(e), ReadData(e)
  PROVE  ack'[e] \in Acks /\ Patience(e)' /\ Late(e)'
  <1> DEFINE delay == opts[e].ack_delay
             pending == ack[e].pending + 1
             due == ack[e].due \/ pending >= opts[e].ack_every
  <1>1. /\ FlushTicks \in Nat /\ opts[e].heartbeat_interval \in Nat /\ delay \in Nat
        /\ opts[e].ack_every \in Nat /\ ack[e].left \in Nat /\ ack[e].pending \in Nat
        /\ ack[e].due \in BOOLEAN /\ ack[e].timer \in BOOLEAN /\ age[e] \in Nat
        /\ writer[e].left \in Nat /\ writer[e].pc \in {"write", "flush", "wait"}
    BY ResumeTyped, EndpointTypes
  <1>2. /\ ack'[e] = [pending |-> IF due THEN opts[e].ack_every ELSE pending, due |-> due,
                      timer |-> ~due,
                      left |-> IF due THEN 0 ELSE IF ack[e].timer THEN ack[e].left ELSE delay]
        /\ UNCHANGED << writer, age, opts >>
    BY DEF ReadData, NoteReceived, TimedTypes
  <1>3. due \in BOOLEAN /\ pending \in Nat /\ pending > 0
    BY <1>1
  <1> HIDE DEF due, pending
  <1>4. /\ ack'[e] \in Acks /\ ack'[e].pending # 0 /\ ack'[e].due = due /\ ack'[e].timer = ~due
        /\ ~due => ack'[e].left = IF ack[e].timer THEN ack[e].left ELSE delay
    BY <1>1, <1>2, <1>3 DEF Acks
  <1>5. Patience(e)'
    BY <1>2 DEF Patience
  <1>6. Patience(e) /\ age[e] <= delay =>
          /\ writer[e].pc = "write" =>
               age[e] <= delay + FlushTicks + opts[e].heartbeat_interval
          /\ writer[e].pc = "flush" => age[e] + writer[e].left <= delay + FlushTicks
          /\ writer[e].pc = "wait" =>
               age[e] + writer[e].left <= delay + FlushTicks + opts[e].heartbeat_interval
    BY <1>1 DEF Patience
  <1>7. CASE ack[e].pending # 0 /\ AckDue(e)
    <2>1. AckDue(e)'
      BY <1>4, <1>7 DEF AckDue, due
    <2>2. QED
      BY <1>2, <1>4, <1>5, <1>7, <2>1 DEF Late
  <1>8. CASE ack[e].pending = 0 \/ ~AckDue(e)
    <2>1. age[e] <= delay /\ (~due => age[e] + ack'[e].left = delay)
      <3>1. CASE ack[e].pending = 0
        <4>1. age[e] = 0 /\ ~ack[e].timer
          BY <3>1, ResumeTyped DEF Late
        <4>2. QED
          BY <1>1, <1>4, <4>1
      <3>2. CASE ack[e].pending # 0
        <4>1. ack[e].timer /\ age[e] + ack[e].left = delay
          BY <1>8, <3>2 DEF Late
        <4>2. QED
          BY <1>1, <1>4, <4>1
      <3>3. QED
        BY <3>1, <3>2
    <2>2. CASE AckDue(e)'
      BY <1>2, <1>4, <1>5, <1>6, <2>1, <2>2 DEF Late
    <2>3. CASE ~AckDue(e)'
      <3>1. ~due
        BY <1>4, <2>3 DEF AckDue
      <3>2. QED
        BY <1>2, <1>4, <1>5, <2>1, <2>3, <3>1 DEF Late
    <2>4. QED
      BY <2>2, <2>3
  <1>9. QED
    BY <1>7, <1>8

\* A tick, which nobody takes inside write_next.
LEMMA LateTicks ==
  ASSUME TimedTypes, NEW e \in Endpoint, Patience(e), Late(e), Tick
  PROVE  /\ writer'[e] \in Writers /\ ack'[e] \in Acks /\ age'[e] \in Nat
         /\ Patience(e)' /\ Late(e)'
  <1> DEFINE delay == opts[e].ack_delay
             interval == opts[e].heartbeat_interval
  <1>1. /\ FlushTicks \in Nat /\ interval \in Nat /\ delay \in Nat
        /\ ack[e] \in Acks /\ writer[e] \in Writers
        /\ ack[e].left \in Nat /\ ack[e].pending \in Nat
        /\ ack[e].due \in BOOLEAN /\ ack[e].timer \in BOOLEAN /\ age[e] \in Nat
        /\ writer[e].left \in Nat
    BY ResumeTyped, EndpointTypes
  <1>2. /\ writer[e].pc \in {"flush", "wait"} /\ writer[e].left > 0
        /\ opts' = opts
    BY DEF Tick, MayTick, Waiting, Flushing
  <1>3. /\ writer'[e] = [writer[e] EXCEPT !.left = @ - 1]
        /\ ack'[e] = [ack[e] EXCEPT !.left = IF @ = 0 THEN 0 ELSE @ - 1]
        /\ age'[e] = IF ack[e].pending = 0 \/ age[e] = AgeLimit(e) THEN age[e] ELSE age[e] + 1
    BY DEF Tick
  <1>4. /\ writer'[e] \in Writers /\ writer'[e].pc = writer[e].pc
        /\ writer'[e].left = writer[e].left - 1
    BY <1>1, <1>2, <1>3 DEF Writers
  <1>5. /\ ack'[e] \in Acks /\ ack'[e].pending = ack[e].pending /\ ack'[e].due = ack[e].due
        /\ ack'[e].timer = ack[e].timer
        /\ ack'[e].left = IF ack[e].left = 0 THEN 0 ELSE ack[e].left - 1
    BY <1>1, <1>3 DEF Acks
  <1>6. age'[e] \in Nat /\ age'[e] <= age[e] + 1
    BY <1>1, <1>3
  <1>7. Patience(e)'
    BY <1>1, <1>2, <1>4 DEF Patience
  <1>8. CASE ack[e].pending = 0
    <2>1. ack[e] = NoAck /\ age[e] = 0
      BY <1>8 DEF Late
    <2>2. ack'[e] = NoAck /\ age'[e] = 0
      BY <1>3, <1>8, <2>1 DEF NoAck
    <2>3. Late(e)'
      BY <2>2, ResumeTyped DEF Late
    <2>4. QED
      BY <1>4, <1>5, <1>6, <1>7, <2>3
  <1>9. CASE ack[e].pending # 0 /\ ~AckDue(e)
    <2>1. /\ ack[e].timer /\ age[e] + ack[e].left = delay /\ ack[e].left # 0 /\ ~ack[e].due
      BY <1>9 DEF Late, AckDue
    <2>2. age[e] # AgeLimit(e)
      BY <1>1, <2>1 DEF AgeLimit
    <2>3. age'[e] = age[e] + 1 /\ ack'[e].left = ack[e].left - 1
      BY <1>3, <1>5, <1>9, <2>1, <2>2
    <2>4. age'[e] + ack'[e].left = delay /\ age'[e] <= delay
      BY <1>1, <1>5, <2>1, <2>3
    <2>5. CASE ~AckDue(e)'
      <3>1. Late(e)'
        BY <1>2, <1>5, <1>9, <2>1, <2>4, <2>5 DEF Late
      <3>2. QED
        BY <1>4, <1>5, <1>6, <1>7, <3>1
    <2>6. CASE AckDue(e)'
      <3>1. writer'[e].left \in Nat
        BY <1>1, <1>2, <1>4
      <3>2. /\ writer'[e].pc = "flush" => age'[e] + writer'[e].left <= delay + FlushTicks
            /\ writer'[e].pc = "wait" =>
                 age'[e] + writer'[e].left <= delay + FlushTicks + interval
        BY <1>1, <1>2, <1>6, <1>7, <2>4, <3>1 DEF Patience
      <3>3. Late(e)'
        BY <1>2, <1>4, <1>5, <1>9, <2>6, <3>2 DEF Late
      <3>4. QED
        BY <1>4, <1>5, <1>6, <1>7, <3>3
    <2>7. QED
      BY <2>5, <2>6
  <1>10. CASE ack[e].pending # 0 /\ AckDue(e)
    <2>1. AckDue(e)'
      BY <1>5, <1>10 DEF AckDue
    <2>2. /\ writer[e].pc = "flush" => age[e] + writer[e].left <= delay + FlushTicks
          /\ writer[e].pc = "wait" => age[e] + writer[e].left <= delay + FlushTicks + interval
      BY <1>10 DEF Late
    <2>3. age'[e] + writer'[e].left <= age[e] + writer[e].left
      BY <1>1, <1>2, <1>4, <1>6
    <2>4. writer'[e].left \in Nat
      BY <1>1, <1>2, <1>4
    <2>5. /\ writer'[e].pc = "flush" => age'[e] + writer'[e].left <= delay + FlushTicks
          /\ writer'[e].pc = "wait" =>
               age'[e] + writer'[e].left <= delay + FlushTicks + interval
      BY <1>1, <1>4, <1>6, <2>2, <2>3, <2>4
    <2>6. Late(e)'
      BY <1>2, <1>4, <1>5, <1>10, <2>1, <2>5 DEF Late
    <2>7. QED
      BY <1>4, <1>5, <1>6, <1>7, <2>6
  <1>11. QED
    BY <1>8, <1>9, <1>10


\* Steps that leave the ACKs and the writers alone, or those of an endpoint.
LEMMA TimedStep ==
  ASSUME TimedInv, [Next]_vars
  PROVE  TimedInv'
  <1> USE ResumeTyped
  <1>1. /\ TimedTypes
        /\ writer \in [Endpoint -> Writers] /\ ack \in [Endpoint -> Acks]
        /\ age \in [Endpoint -> Nat] /\ opts \in [Endpoint -> Options]
        /\ \A e \in Endpoint : opts[e].ack_every > 0 /\ Patience(e) /\ Late(e)
    BY DEF TimedInv, TimedTypes
  <1>2. CASE UNCHANGED << mode, opts, writer, ack, age >>
    BY <1>2 DEF TimedInv, TimedTypes, Patience, Late, AckDue
  <1>3. CASE Attach
    <2>1. UNCHANGED << writer, ack, age >> /\ mode = "attach"
      BY <1>3 DEF Attach, running
    <2>2. \A e \in Endpoint : writer[e] = Resume(FALSE) /\ ack[e] = NoAck /\ age[e] = 0
      BY <2>1 DEF TimedInv
    <2>3. /\ opts' \in [Endpoint -> Options]
          /\ \A e \in Endpoint : opts'[e].ack_every > 0
      <3> DEFINE received == Decoded(opts["server"])
      <3>1. received \in Options
        BY <1>1, DecodedTyped DEF Endpoint
      <3> HIDE DEF received
      <3>2. Normalized(received) \in Options /\ Normalized(received).ack_every > 0
        BY <3>1, NormalizedFields
      <3>3. opts' = opts \/ opts' = [opts EXCEPT !["client"] = Normalized(received)]
        BY <1>3 DEF Attach, received
      <3>4. QED
        BY <1>1, <3>2, <3>3
    <2>4. \A e \in Endpoint : Patience(e)' /\ Late(e)'
      BY <2>1, <2>2 DEF Patience, Late
    <2>5. mode' # "attach"
      BY <1>3 DEF Attach
    <2>6. QED
      BY <1>1, <2>1, <2>3, <2>4, <2>5 DEF TimedInv, TimedTypes
  \* A step of e on the endpoint's own writer, ACK and age.
  <1>4. ASSUME NEW e \in Endpoint, mode' # "attach", opts' = opts,
               NEW w \in Writers, writer' = [writer EXCEPT ![e] = w],
               NEW a \in Acks, ack' = [ack EXCEPT ![e] = a],
               NEW n \in Nat, age' = [age EXCEPT ![e] = n],
               Patience(e)', Late(e)'
        PROVE  TimedInv'
    <2>1. TimedTypes'
      BY <1>1, <1>4 DEF TimedTypes
    <2>2. ASSUME NEW f \in Endpoint PROVE Patience(f)' /\ Late(f)'
      <3>1. CASE f = e
        BY <1>4, <3>1
      <3>2. CASE f # e
        <4>1. writer'[f] = writer[f] /\ ack'[f] = ack[f] /\ age'[f] = age[f]
          BY <1>1, <1>4, <3>2
        <4>2. QED
          BY <1>1, <1>4, <4>1, LateStays
      <3>3. QED
        BY <3>1, <3>2
    <2>3. QED
      BY <1>1, <1>4, <2>1, <2>2 DEF TimedInv
  <1>5. ASSUME NEW e \in Endpoint
        PROVE  /\ writer = [writer EXCEPT ![e] = writer[e]] /\ writer[e] \in Writers
               /\ ack = [ack EXCEPT ![e] = ack[e]] /\ ack[e] \in Acks
               /\ age = [age EXCEPT ![e] = age[e]] /\ age[e] \in Nat
    BY <1>1
  <1>6. CASE Tick
    <2>1. /\ writer' = [e \in Endpoint |-> writer'[e]] /\ ack' = [e \in Endpoint |-> ack'[e]]
          /\ age' = [e \in Endpoint |-> age'[e]] /\ opts' = opts /\ mode' # "attach"
      BY <1>6 DEF Tick
    <2>2. \A e \in Endpoint : /\ writer'[e] \in Writers /\ ack'[e] \in Acks /\ age'[e] \in Nat
                              /\ Patience(e)' /\ Late(e)'
      BY <1>1, <1>6, LateTicks
    <2>3. TimedTypes'
      BY <1>1, <2>1, <2>2 DEF TimedTypes
    <2>4. QED
      BY <1>1, <2>1, <2>2, <2>3 DEF TimedInv
  <1>7. ASSUME NEW e \in Endpoint, Step(e) PROVE TimedInv'
    <2>1. mode' # "attach" /\ opts' = opts
      BY <1>7 DEF Step, AppSend, WriteAck, WriteQueued, WriteNothing, Flushed, Signalled,
         TakeFrame, SleepEnds, ReadData, ReadControl, ReadTimeout
    \* The writer goes on, with the ACK as it was.
    <2>2. ASSUME NEW dirty \in BOOLEAN, writer' = [writer EXCEPT ![e] = Resume(dirty)],
                 writer[e].pc # "write" \/ ~AckDue(e), UNCHANGED << ack, age >>
          PROVE  TimedInv'
      <3>1. Patience(e)' /\ Late(e)'
        BY <1>1, <2>1, <2>2, LateResumes
      <3>2. QED
        BY <1>4, <1>5, <2>1, <2>2, <3>1
    <2>3. CASE AppSend(e) \/ ReadControl(e) \/ ReadTimeout(e)
      <3>1. UNCHANGED << opts, writer, ack, age >>
        BY <2>3 DEF AppSend, ReadControl, ReadTimeout, running
      <3>2. \A f \in Endpoint : Patience(f)' /\ Late(f)'
        BY <1>1, <3>1, LateStays
      <3>3. QED
        BY <1>1, <2>1, <3>1, <3>2 DEF TimedInv, TimedTypes
    <2>4. CASE WriteAck(e)
      <3>1. /\ writer' = [writer EXCEPT ![e] = Resume(TRUE)]
            /\ ack' = [ack EXCEPT ![e] = NoAck] /\ age' = [age EXCEPT ![e] = 0]
        BY <2>4 DEF WriteAck, Write
      <3>2. writer'[e].pc = "write" /\ ack'[e] = NoAck /\ age'[e] = 0
        BY <1>1, <3>1
      <3>3. Patience(e)' /\ Late(e)'
        BY <3>2 DEF Patience, Late
      <3>4. Resume(TRUE) \in Writers /\ NoAck \in Acks /\ 0 \in Nat
        OBVIOUS
      <3>5. QED
        BY <1>4, <2>1, <3>1, <3>3, <3>4
    <2>5. CASE WriteQueued(e) \/ TakeFrame(e) \/ Signalled(e) \/ SleepEnds(e)
      <3>1. /\ \E dirty \in BOOLEAN : writer' = [writer EXCEPT ![e] = Resume(dirty)]
            /\ writer[e].pc # "write" \/ ~AckDue(e)
            /\ UNCHANGED << ack, age >>
        BY <2>5 DEF WriteQueued, TakeFrame, Signalled, SleepEnds, Write
      <3>2. QED
        BY <2>2, <3>1
    <2>6. CASE WriteNothing(e) \/ Flushed(e)
      <3>1. writer'[e] \in Writers /\ Patience(e)' /\ Late(e)'
        BY <1>1, <2>6, LateFlushes, LateWaits
      <3>2. UNCHANGED << ack, age >> /\ writer' = [writer EXCEPT ![e] = writer'[e]]
        <4>1. CASE WriteNothing(e)
          BY <1>1, <4>1 DEF WriteNothing
        <4>2. CASE Flushed(e)
          BY <1>1, <4>2 DEF Flushed
        <4>3. QED
          BY <2>6, <4>1, <4>2
      <3>3. PICK w \in Writers : writer' = [writer EXCEPT ![e] = w]
        BY <3>1, <3>2
      <3>4. QED
        BY <1>4, <1>5, <2>1, <3>1, <3>2, <3>3
    <2>7. CASE ReadData(e)
      <3>1. ack'[e] \in Acks /\ Patience(e)' /\ Late(e)'
        BY <1>1, <2>7, LateReceives
      <3>2. UNCHANGED << writer, age >> /\ ack' = [ack EXCEPT ![e] = NoteReceived(e)]
        BY <2>7 DEF ReadData
      <3>3. NoteReceived(e) \in Acks
        BY <1>1, <3>1, <3>2
      <3>4. QED
        BY <1>4, <1>5, <2>1, <3>1, <3>2, <3>3
    <2>8. QED
      BY <1>7, <2>3, <2>4, <2>5, <2>6, <2>7 DEF Step
  <1>8. CASE Silenced
    BY <1>2, <1>8 DEF Silenced
  <1>9. QED
    BY <1>2, <1>3, <1>6, <1>7, <1>8 DEF Next, vars

\* An ACK goes out with the heartbeat at the latest, also where its time passed
\* while the writer was in a flush and the wait that follows does not count it
\* (next_ack_wait, min_wait): for any durations, and whoever sends.
THEOREM AckNeverLater == Spec => []AckWithinInterval
  <1>1. TimedInv => AckWithinInterval
    <2> SUFFICES ASSUME TimedInv, NEW e \in Endpoint PROVE age[e] < AgeLimit(e)
      BY DEF AckWithinInterval
    <2>1. TimedTypes /\ Late(e)
      BY DEF TimedInv
    <2>2. /\ FlushTicks \in Nat /\ opts[e].heartbeat_interval \in Nat
          /\ opts[e].ack_delay \in Nat /\ ack[e].left \in Nat /\ age[e] \in Nat
          /\ writer[e].left \in Nat /\ writer[e].pc \in {"write", "flush", "wait"}
      BY <2>1, ResumeTyped, EndpointTypes
    <2>3. CASE ack[e].pending = 0
      BY <2>1, <2>2, <2>3 DEF Late, AgeLimit
    <2>4. CASE ack[e].pending # 0 /\ ~AckDue(e)
      <3>1. age[e] + ack[e].left = opts[e].ack_delay
        BY <2>1, <2>4 DEF Late
      <3>2. QED
        BY <2>2, <3>1 DEF AgeLimit
    <2>5. CASE ack[e].pending # 0 /\ AckDue(e)
      <3>1. \/ age[e] <= opts[e].ack_delay + FlushTicks + opts[e].heartbeat_interval
            \/ age[e] + writer[e].left <= opts[e].ack_delay + FlushTicks
            \/ age[e] + writer[e].left
                 <= opts[e].ack_delay + FlushTicks + opts[e].heartbeat_interval
        BY <2>1, <2>2, <2>5 DEF Late
      <3>2. QED
        BY <2>2, <3>1 DEF AgeLimit
    <2>6. QED
      BY <2>3, <2>4, <2>5
  <1>2. TimedInv /\ [Next]_vars => TimedInv'
    BY TimedStep
  <1>3. QED
    BY <1>1, <1>2, TimedInit, PTL DEF Spec

-----------------------------------------------------------------------------
(* A working transport: what is on the wire.                               *)

\* A frame of this type is on the wire.
On(w, type) == \E i \in 1 .. Len(w) : w[i] = type

\* The reader gets an ACK before it gets data.
AckAhead(w) == \E i \in 1 .. Len(w) : w[i] = "ack" /\ \A j \in 1 .. i - 1 : w[j] # "data"

LEMMA NothingOn == ~AckAhead(<< >>) /\ \A type : ~On(<< >>, type)
  BY DEF On, AckAhead

\* A frame more on the wire.
LEMMA Arrives ==
  ASSUME NEW S, NEW w \in Seq(S), NEW f \in S
  PROVE  /\ Append(w, f) \in Seq(S) /\ Append(w, f) # << >>
         /\ \A type : On(Append(w, f), type) <=> On(w, type) \/ f = type
         /\ AckAhead(Append(w, f)) <=> AckAhead(w) \/ (f = "ack" /\ ~On(w, "data"))
  <1> DEFINE v == Append(w, f)
  <1>1. /\ v \in Seq(S) /\ Len(w) \in Nat /\ Len(v) = Len(w) + 1
        /\ v[Len(w) + 1] = f /\ \A i \in 1 .. Len(w) : v[i] = w[i]
    OBVIOUS
  <1> HIDE DEF v
  <1>2. v # << >>
    BY <1>1
  <1>3. \A type : On(v, type) <=> On(w, type) \/ f = type
    BY <1>1 DEF On
  <1>4. AckAhead(v) => AckAhead(w) \/ (f = "ack" /\ ~On(w, "data"))
    <2> SUFFICES ASSUME NEW i \in 1 .. Len(v), v[i] = "ack",
                        \A j \in 1 .. i - 1 : v[j] # "data"
                 PROVE  AckAhead(w) \/ (f = "ack" /\ ~On(w, "data"))
      BY DEF AckAhead
    <2>1. CASE i \in 1 .. Len(w)
      BY <1>1, <2>1 DEF AckAhead
    <2>2. CASE i = Len(w) + 1
      BY <1>1, <2>2 DEF On
    <2>3. QED
      BY <1>1, <2>1, <2>2
  <1>5. AckAhead(w) => AckAhead(v)
    BY <1>1 DEF AckAhead
  <1>6. f = "ack" /\ ~On(w, "data") => AckAhead(v)
    <2> SUFFICES ASSUME f = "ack", ~On(w, "data") PROVE AckAhead(v)
      OBVIOUS
    <2>1. \A j \in 1 .. Len(w) : v[j] # "data"
      BY <1>1 DEF On
    <2>2. Len(w) + 1 \in 1 .. Len(v) /\ (Len(w) + 1) - 1 = Len(w) /\ v[Len(w) + 1] = "ack"
      BY <1>1
    <2>3. QED
      BY <2>1, <2>2 DEF AckAhead
  <1>7. QED
    BY <1>1, <1>2, <1>3, <1>4, <1>5, <1>6 DEF v

\* A frame less on the wire.
LEMMA Leaves ==
  ASSUME NEW S, NEW w \in Seq(S), w # << >>
  PROVE  /\ Tail(w) \in Seq(S) /\ Head(w) \in S
         /\ \A type : On(w, type) <=> Head(w) = type \/ On(Tail(w), type)
         /\ AckAhead(w) <=> Head(w) = "ack" \/ (Head(w) # "data" /\ AckAhead(Tail(w)))
  <1> DEFINE v == Tail(w)
  <1>1. /\ v \in Seq(S) /\ Len(v) \in Nat /\ Len(w) = Len(v) + 1
        /\ Head(w) = w[1] /\ w[1] \in S /\ \A i \in 1 .. Len(v) : v[i] = w[i + 1]
    OBVIOUS
  <1> HIDE DEF v
  <1>2. \A i \in 1 .. Len(w) : i = 1 \/ (i - 1 \in 1 .. Len(v) /\ w[i] = v[i - 1])
    BY <1>1
  <1>3. 1 \in 1 .. Len(w) /\ \A i \in 1 .. Len(v) : i + 1 \in 1 .. Len(w)
    BY <1>1
  <1>4. \A type : On(w, type) <=> Head(w) = type \/ On(v, type)
    BY <1>1, <1>2, <1>3 DEF On
  <1>5. Head(w) = "ack" => AckAhead(w)
    <2>1. \A j \in 1 .. 1 - 1 : w[j] # "data"
      OBVIOUS
    <2>2. QED
      BY <1>1, <1>3, <2>1 DEF AckAhead
  <1>6. ASSUME Head(w) # "data", AckAhead(v) PROVE AckAhead(w)
    <2>1. PICK i \in 1 .. Len(v) : v[i] = "ack" /\ \A j \in 1 .. i - 1 : v[j] # "data"
      BY <1>6 DEF AckAhead
    <2>2. i + 1 \in 1 .. Len(w) /\ w[i + 1] = "ack"
      BY <1>1, <1>3, <2>1
    <2>3. \A j \in 1 .. (i + 1) - 1 : w[j] # "data"
      <3> SUFFICES ASSUME NEW j \in 1 .. (i + 1) - 1 PROVE w[j] # "data"
        OBVIOUS
      <3>1. j = 1 \/ (j - 1 \in 1 .. i - 1 /\ w[j] = v[j - 1])
        BY <1>1, <1>2, <2>1
      <3>2. QED
        BY <1>1, <1>6, <2>1, <3>1
    <2>4. QED
      BY <2>2, <2>3 DEF AckAhead
  <1>7. ASSUME AckAhead(w), Head(w) # "ack" PROVE Head(w) # "data" /\ AckAhead(v)
    <2>1. PICK i \in 1 .. Len(w) : w[i] = "ack" /\ \A j \in 1 .. i - 1 : w[j] # "data"
      BY <1>7 DEF AckAhead
    <2>2. i # 1 /\ i - 1 \in 1 .. Len(v) /\ v[i - 1] = "ack"
      BY <1>1, <1>2, <1>7, <2>1
    <2>3. 1 \in 1 .. i - 1
      BY <1>1, <2>1, <2>2
    <2>4. \A j \in 1 .. (i - 1) - 1 : v[j] # "data"
      <3> SUFFICES ASSUME NEW j \in 1 .. (i - 1) - 1 PROVE v[j] # "data"
        OBVIOUS
      <3>1. j \in 1 .. Len(v) /\ j + 1 \in 1 .. i - 1
        BY <1>1, <2>1, <2>2
      <3>2. QED
        BY <1>1, <2>1, <3>1
    <2>5. QED
      BY <1>1, <2>1, <2>2, <2>3, <2>4 DEF AckAhead
  <1>8. QED
    BY <1>1, <1>4, <1>5, <1>6, <1>7 DEF v

-----------------------------------------------------------------------------
(* A working transport: the invariant.                                     *)

\* The frames of this model.
Frames == {"data", "ack", "ping"}

\* The longer of ack_delay and a flush: an ACK goes out within it.
Turn(e) == Larger(opts[e].ack_delay, FlushTicks)

\* Room in the timeout of the one end for the other's interval and what may come
\* before it.
Roomy(own, peer) ==
  /\ own.ack_delay <= own.heartbeat_interval
  /\ Larger(own.ack_delay, FlushTicks) + FlushTicks
       + peer.heartbeat_interval + peer.ack_delay < own.heartbeat_timeout

\* An ACK is owed: it is due, or its timer runs.
Owes(e) == ack[e].due \/ ack[e].timer

\* What is left of the flush after a write.
Ahead(e) == IF ~writer[e].dirty THEN 0
            ELSE IF writer[e].pc = "write" THEN FlushTicks ELSE writer[e].left

\* The writer waits, and nothing has signalled it.
Asleep(e) == writer[e].pc = "wait" /\ ~wake[e]

\* The peer has data to acknowledge, or is about to, or its ACK is on its way.
Answered(e, p) == Owes(p) \/ On(wire[p], "data") \/ On(wire[e], "ack")

\* A writer that waits has flushed what it wrote, and one that wrote while there
\* is more in its queue goes on.
Tidy(e, p) ==
  /\ writer[e].pc = "wait" => ~writer[e].dirty
  /\ wire[p] # << >> /\ queued[e] => writer[e].pc = "write" /\ writer[e].dirty
  /\ writer[e].pc = "wait" /\ writer[e].left = 0 => wire[p] = << >>

\* An ACK that is owed is not forgotten: a writer waits for its time, or is about
\* to be signalled, because the peer acknowledges what was written.
Remembered(e, p) ==
  /\ Owes(e) /\ writer[e].dirty => wake[e] \/ Answered(e, p)
  /\ Owes(e) /\ Asleep(e) =>
       \/ ~AckDue(e) /\ writer[e].left = ack[e].left /\ ~writer[e].beat
       \/ AckDue(e) /\ writer[e].left = 0 /\ ~writer[e].beat
       \/ AckDue(e) /\ Answered(e, p)
  /\ writer[e].pc = "flush" /\ ~writer[e].dirty /\ AckDue(e) => wake[e]
  /\ writer[e].pc = "wait" /\ ~writer[e].beat =>
       Owes(e) /\ (AckDue(e) \/ writer[e].left = ack[e].left)

\* The ACK of one end, against the silence that end sees: what it still waits for
\* its delay and its flush is within a turn, unless the peer owes an ACK as well.
InTime(e, p) ==
  wire[e] = << >> =>
    /\ Owes(e) /\ ~AckDue(e) => silent[e] + ack[e].left <= opts[e].ack_delay
    /\ ~Owes(p) /\ ~On(wire[p], "data") =>
         /\ AckDue(e) => silent[e] <= Turn(e)
         /\ Owes(e) /\ writer[e].dirty => silent[e] + Ahead(e) <= FlushTicks
    /\ writer[e].pc = "wait" /\ writer[e].left = 0 /\ wake[e] => silent[e] = 0
    /\ On(wire[p], "ack") /\ Owes(e) => silent[e] + Ahead(e) <= FlushTicks
    /\ ~Owes(p) /\ AckAhead(wire[p]) => silent[e] + Ahead(e) <= Turn(e) + FlushTicks

\* How long the one end may hear nothing, but for an ACK delay of the other.
Limit(e, p) == Turn(e) + FlushTicks + opts[p].heartbeat_interval

\* The silence that one end sees, and what the other end still waits, are within
\* the limit, or within an ACK delay of it when that end owes an ACK.
Heard(e, p) ==
  wire[e] = << >> =>
    /\ writer[p].dirty => silent[e] + Ahead(p) <= FlushTicks
    /\ ~Owes(p) /\ Asleep(p) => silent[e] + writer[p].left <= Limit(e, p)
    /\ ~Owes(p) /\ ~Asleep(p) => silent[e] <= Turn(e) + FlushTicks
    /\ AckDue(p) /\ Asleep(p) =>
         silent[e] + writer[p].left <= Limit(e, p) + opts[p].ack_delay
    /\ AckDue(p) /\ ~Asleep(p) => silent[e] <= Limit(e, p) + opts[p].ack_delay
    /\ Owes(p) /\ ~AckDue(p) => silent[e] + ack[p].left <= Limit(e, p) + opts[p].ack_delay

\* All of it for one end.
Kept(e, p) == Tidy(e, p) /\ Remembered(e, p) /\ InTime(e, p) /\ Heard(e, p)

\* Types of what TimedTypes leaves out.
HealthTypes ==
  /\ queued \in [Endpoint -> BOOLEAN] /\ wake \in [Endpoint -> BOOLEAN]
  /\ wire \in [Endpoint -> Seq(Frames)] /\ silent \in [Endpoint -> Nat]
  /\ works \in BOOLEAN

\* An endpoint before the attach.
Fresh(e) ==
  /\ writer[e] = Resume(FALSE) /\ ack[e] = NoAck
  /\ ~queued[e] /\ ~wake[e] /\ wire[e] = << >> /\ silent[e] = 0

\* The inductive invariant, on top of TimedInv.
HealthyInv ==
  /\ HealthTypes
  /\ mode = "attach" =>
       /\ \E c \in Configured : opts["server"] = Normalized(c)
       /\ \A e \in Endpoint : Fresh(e)
  /\ mode \in {"up", "timed_out"} =>
       \A e \in Endpoint : Roomy(opts[e], opts[Peer(e)]) /\ opts[e].heartbeat_interval > 0
  /\ mode = "up" /\ works => \A e \in Endpoint : Kept(e, Peer(e))
  /\ mode = "timed_out" => ~works

\* What is known of an endpoint: its numbers, ...
Numbers(e) ==
  /\ FlushTicks \in Nat /\ silent[e] \in Nat /\ writer[e].left \in Nat /\ ack[e].left \in Nat
  /\ opts[e].ack_delay \in Nat /\ opts[e].heartbeat_interval \in Nat
  /\ opts[e].heartbeat_timeout \in Nat /\ Turn(e) \in Nat /\ Ahead(e) \in Nat
  /\ opts[e].heartbeat_interval > 0 /\ opts[e].ack_delay <= opts[e].heartbeat_interval
  /\ opts[e].ack_delay <= Turn(e) /\ FlushTicks <= Turn(e)

\* ... how far they go, ...
Bounds(e) ==
  /\ writer[e].pc = "flush" => writer[e].left <= FlushTicks
  /\ writer[e].pc = "wait" => writer[e].left <= opts[e].heartbeat_interval
  /\ Owes(e) /\ ~AckDue(e) => ack[e].left <= opts[e].ack_delay

\* ... and where it stands.
Places(e) ==
  /\ writer[e].pc \in {"write", "flush", "wait"} /\ writer[e].dirty \in BOOLEAN
  /\ writer[e].beat \in BOOLEAN /\ queued[e] \in BOOLEAN /\ wake[e] \in BOOLEAN
  /\ ack[e].due \in BOOLEAN /\ ack[e].timer \in BOOLEAN
  /\ wire[e] \in Seq(Frames)

Known(e) == Numbers(e) /\ Bounds(e) /\ Places(e)

LEMMA Knows ==
  ASSUME TimedInv, HealthyInv, mode \in {"up", "timed_out"}, NEW e \in Endpoint
  PROVE  Known(e)
  <1>1. /\ TimedTypes /\ Patience(e) /\ Late(e) /\ FlushTicks \in Nat
        /\ opts[e].ack_delay <= opts[e].heartbeat_interval /\ opts[e].heartbeat_interval > 0
    BY ResumeTyped DEF TimedInv, HealthyInv, Roomy
  <1>2. /\ writer[e] \in Writers /\ ack[e] \in Acks /\ age[e] \in Nat /\ opts[e] \in Options
    BY <1>1, EndpointTypes
  <1>3. /\ opts[e].ack_delay \in Nat /\ opts[e].heartbeat_interval \in Nat
        /\ opts[e].heartbeat_timeout \in Nat
    BY <1>2, OptionNats
  <1>4. /\ writer[e].pc \in {"write", "flush", "wait"} /\ writer[e].dirty \in BOOLEAN
        /\ writer[e].left \in Nat /\ writer[e].beat \in BOOLEAN
        /\ ack[e].due \in BOOLEAN /\ ack[e].timer \in BOOLEAN /\ ack[e].left \in Nat
    BY <1>2 DEF Writers, Acks
  <1>5. /\ queued[e] \in BOOLEAN /\ wake[e] \in BOOLEAN /\ wire[e] \in Seq(Frames)
        /\ silent[e] \in Nat
    BY DEF HealthyInv, HealthTypes
  <1>6. Owes(e) /\ ~AckDue(e) => ack[e].left <= opts[e].ack_delay
    <2> SUFFICES ASSUME Owes(e), ~AckDue(e) PROVE ack[e].left <= opts[e].ack_delay
      OBVIOUS
    <2>1. ack[e].pending # 0
      BY <1>1, ResumeTyped DEF Late, Owes
    <2>2. age[e] + ack[e].left = opts[e].ack_delay
      BY <1>1, <2>1 DEF Late
    <2>3. QED
      BY <1>2, <1>3, <1>4, <2>2
  <1>7. Turn(e) \in Nat /\ opts[e].ack_delay <= Turn(e) /\ FlushTicks <= Turn(e)
    BY <1>1, <1>3 DEF Turn, Larger
  <1>8. Ahead(e) \in Nat
    BY <1>1, <1>4 DEF Ahead
  <1>9. QED
    BY <1>1, <1>3, <1>4, <1>5, <1>6, <1>7, <1>8 DEF Known, Numbers, Bounds, Places, Patience

\* min_wait of next_ack_wait: what is left of an ACK's delay, or the interval.
LEMMA Waits ==
  ASSUME NEW e \in Endpoint, Known(e)
  PROVE  LET wait == MinWait(NextAckWait(e), opts[e].heartbeat_interval) IN
         /\ Owes(e) /\ ~AckDue(e) =>
              wait.left = ack[e].left /\ ack[e].left > 0 /\ wait.beat = FALSE
         /\ ~Owes(e) \/ AckDue(e) =>
              wait.left = opts[e].heartbeat_interval /\ wait.beat = TRUE
  <1>1. CASE Owes(e) /\ ~AckDue(e)
    <2>1. ack[e].timer /\ ~ack[e].due /\ ack[e].left # 0
      BY <1>1 DEF Owes, AckDue
    <2>2. NextAckWait(e) = ack[e].left
      BY <2>1 DEF NextAckWait
    <2>3. /\ ack[e].left <= opts[e].heartbeat_interval
          /\ ack[e].left \in Nat /\ opts[e].heartbeat_interval \in Nat
      BY <1>1 DEF Known, Numbers, Bounds
    <2>4. MinWait(ack[e].left, opts[e].heartbeat_interval)
            = [left |-> ack[e].left, beat |-> FALSE]
      BY <2>1, <2>3 DEF MinWait
    <2>5. QED
      BY <1>1, <2>1, <2>2, <2>3, <2>4
  <1>2. CASE ~(Owes(e) /\ ~AckDue(e))
    <2>1. NextAckWait(e) = 0
      BY <1>2 DEF NextAckWait, Owes, AckDue
    <2>2. MinWait(0, opts[e].heartbeat_interval)
            = [left |-> opts[e].heartbeat_interval, beat |-> TRUE]
      BY DEF MinWait
    <2>3. QED
      BY <1>2, <2>1, <2>2
  <1>3. QED
    BY <1>1, <1>2

-----------------------------------------------------------------------------
(* A working transport: the steps of a writer.                             *)

\* The flush ends: the writer waits for what is left of the ACK's delay, or for
\* the interval.
LEMMA FlushedKeeps ==
  ASSUME NEW x \in Endpoint, NEW p \in Endpoint, x # p, Known(x), Known(p),
         HealthTypes, TimedTypes, Kept(x, p), Kept(p, x), Flushed(x)
  PROVE  Kept(x, p)' /\ Kept(p, x)'
  <1> DEFINE wait == MinWait(NextAckWait(x), opts[x].heartbeat_interval)
  <1>1. /\ writer[x].pc = "flush"
        /\ writer'[x].pc = "wait" /\ writer'[x].dirty = FALSE
        /\ writer'[x].left = wait.left /\ writer'[x].beat = wait.beat
        /\ writer'[p] = writer[p]
        /\ UNCHANGED << opts, queued, wake, wire, silent, ack >>
    <2>1. /\ writer' = [writer EXCEPT ![x] = [pc |-> "wait", dirty |-> FALSE,
                                             left |-> wait.left, beat |-> wait.beat]]
          /\ writer[x].pc = "flush" /\ UNCHANGED << opts, queued, wake, wire, silent, ack >>
      BY DEF Flushed
    <2> HIDE DEF wait
    <2>2. writer'[x] = [pc |-> "wait", dirty |-> FALSE, left |-> wait.left, beat |-> wait.beat]
          /\ writer'[p] = writer[p]
      BY <2>1 DEF TimedTypes
    <2>3. QED
      BY <2>1, <2>2
  <1>2. /\ (Owes(x)' <=> Owes(x)) /\ (Owes(p)' <=> Owes(p))
        /\ (AckDue(x)' <=> AckDue(x)) /\ (AckDue(p)' <=> AckDue(p))
        /\ Turn(x)' = Turn(x) /\ Turn(p)' = Turn(p)
    BY <1>1 DEF Owes, AckDue, Turn
  <1>3. /\ Ahead(x)' = 0 /\ Ahead(p)' = Ahead(p)
        /\ (Asleep(x)' <=> ~wake[x]) /\ (Asleep(p)' <=> Asleep(p))
    <2> HIDE DEF wait
    <2>1. Ahead(x)' = 0
      BY <1>1 DEF Ahead
    <2>2. Ahead(p)' = Ahead(p)
      BY <1>1 DEF Ahead
    <2>3. Asleep(p)' <=> Asleep(p)
      BY <1>1 DEF Asleep
    <2>4. Asleep(x)' <=> ~wake[x]
      BY <1>1 DEF Asleep
    <2> QED BY <2>1, <2>2, <2>3, <2>4
  <1>4. /\ Owes(x) /\ ~AckDue(x) =>
             wait.left = ack[x].left /\ ack[x].left > 0 /\ wait.beat = FALSE
        /\ ~Owes(x) \/ AckDue(x) =>
             wait.left = opts[x].heartbeat_interval /\ wait.beat = TRUE
    BY Waits
  <1> HIDE DEF wait
  <1> USE <1>1, <1>2, <1>3, <1>4
  <1> USE DEF Known, Kept
  <1>5. Tidy(x, p)' /\ Tidy(p, x)'
    <2>1. wait.left # 0
      BY DEF Numbers
    <2>2. QED
      BY <2>1 DEF Tidy
  <1>6. Remembered(x, p)' /\ Remembered(p, x)'
    <2>1. (Answered(x, p)' <=> Answered(x, p)) /\ (Answered(p, x)' <=> Answered(p, x))
      BY DEF Answered
    <2>2. Remembered(x, p)'
      BY <2>1 DEF Remembered, Asleep
    <2>3. Remembered(p, x)'
      BY <2>1 DEF Remembered
    <2>4. QED
      BY <2>2, <2>3
  <1>7. InTime(x, p)'
    <2>1. wait.left # 0
      BY DEF Numbers
    <2>2. \A n \in Nat : silent[x] + Ahead(x) <= n => silent[x] + 0 <= n
      BY DEF Numbers
    <2>3. Turn(x) + FlushTicks \in Nat
      BY DEF Numbers
    <2>4. QED
      BY <2>1, <2>2, <2>3 DEF InTime, Numbers
  <1>8. InTime(p, x)'
    BY DEF InTime
  <1>9. Heard(x, p)' /\ Heard(p, x)'
    <2>1. Limit(x, p)' = Limit(x, p) /\ Limit(p, x)' = Limit(p, x)
      BY DEF Limit
    <2>2. Heard(x, p)'
      BY <2>1 DEF Heard
    <2>3. Limit(p, x) = Turn(p) + FlushTicks + opts[x].heartbeat_interval
      BY DEF Limit
    <2>4. ASSUME wire[p] = << >>, ~Owes(x) PROVE silent[p] <= Turn(p) + FlushTicks
      BY <2>4 DEF Heard, Asleep
    <2>5. ASSUME wire[p] = << >>, AckDue(x)
          PROVE  silent[p] <= Limit(p, x) + opts[x].ack_delay
      BY <2>5 DEF Heard, Asleep
    <2>6. ASSUME wire[p] = << >>, AckDue(x), ~wake[x]
          PROVE  silent[p] <= FlushTicks
      <3>1. writer[x].dirty
        BY <2>6 DEF Remembered
      <3>2. silent[p] + Ahead(x) <= FlushTicks
        BY <2>6, <3>1 DEF Heard
      <3>3. QED
        BY <3>2 DEF Numbers
    <2>7. ASSUME wire[p] = << >>, ~Owes(x), ~wake[x]
          PROVE  silent[p] + wait.left <= Limit(p, x)
      <3>1. wait.left = opts[x].heartbeat_interval
        BY <2>7
      <3>2. QED
        BY <2>3, <2>4, <2>7, <3>1, SMTT(20) DEF Numbers
    <2>8. ASSUME wire[p] = << >>, AckDue(x), ~wake[x]
          PROVE  silent[p] + wait.left <= Limit(p, x) + opts[x].ack_delay
      <3>1. wait.left = opts[x].heartbeat_interval
        BY <2>8
      <3>2. silent[p] <= FlushTicks
        BY <2>6, <2>8
      <3>3. QED
        BY <2>3, <3>1, <3>2 DEF Numbers
    <2>9. ASSUME wire[p] = << >>, Owes(x), ~AckDue(x)
          PROVE  silent[p] + ack[x].left <= Limit(p, x) + opts[x].ack_delay
      BY <2>9 DEF Heard
    <2>10. Heard(p, x)'
      BY <2>1, <2>4, <2>5, <2>7, <2>8, <2>9 DEF Heard
    <2>11. QED
      BY <2>2, <2>10
  <1>10. QED
    BY <1>5, <1>6, <1>7, <1>8, <1>9

\* The writer goes on after a wait, without a frame.
LEMMA ResumesKeeps ==
  ASSUME NEW x \in Endpoint, NEW p \in Endpoint, x # p, Known(x), Known(p),
         TimedTypes, Kept(x, p), Kept(p, x),
         writer[x].pc = "wait", wake[x] \/ (writer[x].left = 0 /\ ~writer[x].beat),
         writer'[x] = Resume(FALSE), writer'[p] = writer[p], wake'[p] = wake[p],
         UNCHANGED << opts, queued, wire, silent, ack >>
  PROVE  Kept(x, p)' /\ Kept(p, x)'
  <1>1. writer'[x].pc = "write" /\ writer'[x].dirty = FALSE /\ writer'[p] = writer[p]
    BY DEF Resume
  <1>2. /\ (Owes(x)' <=> Owes(x)) /\ (Owes(p)' <=> Owes(p))
        /\ (AckDue(x)' <=> AckDue(x)) /\ (AckDue(p)' <=> AckDue(p))
        /\ Turn(x)' = Turn(x) /\ Turn(p)' = Turn(p)
        /\ Limit(x, p)' = Limit(x, p) /\ Limit(p, x)' = Limit(p, x)
    BY DEF Owes, AckDue, Turn, Limit
  <1>3. /\ Ahead(x)' = 0 /\ Ahead(x) = 0 /\ Ahead(p)' = Ahead(p)
        /\ ~Asleep(x)' /\ (Asleep(p)' <=> Asleep(p))
    <2>1. ~writer[x].dirty
      BY DEF Kept, Tidy
    <2>2. Ahead(x)' = 0 /\ Ahead(x) = 0
      BY <1>1, <2>1 DEF Ahead
    <2>3. Ahead(p)' = Ahead(p)
      BY <1>1 DEF Ahead
    <2>4. ~Asleep(x)' /\ (Asleep(p)' <=> Asleep(p))
      BY <1>1 DEF Asleep
    <2>5. QED
      BY <2>2, <2>3, <2>4
  <1> USE <1>1, <1>2, <1>3 DEF Known, Kept
  <1>5. Tidy(x, p)' /\ Tidy(p, x)'
    BY DEF Tidy
  <1>6. Remembered(x, p)' /\ Remembered(p, x)'
    BY DEF Remembered, Answered
  <1>7. InTime(x, p)' /\ InTime(p, x)'
    BY DEF InTime
  <1>8. Heard(x, p)'
    BY DEF Heard
  <1>9. Heard(p, x)'
    <2>1. wake[x] \/ Owes(x)
      BY DEF Remembered
    <2>2. ASSUME wire[p] = << >>, ~Owes(x) PROVE silent[p] <= Turn(p) + FlushTicks
      BY <2>1, <2>2 DEF Heard, Asleep
    <2>3. ASSUME wire[p] = << >>, AckDue(x)
          PROVE  silent[p] <= Limit(p, x) + opts[x].ack_delay
      <3>1. CASE Asleep(x)
        <4>1. silent[p] + writer[x].left <= Limit(p, x) + opts[x].ack_delay
          BY <2>3, <3>1 DEF Heard
        <4>2. Limit(p, x) \in Nat
          BY DEF Limit, Numbers
        <4>3. QED
          BY <4>1, <4>2 DEF Numbers
      <3>2. CASE ~Asleep(x)
        BY <2>3, <3>2 DEF Heard
      <3>3. QED
        BY <3>1, <3>2
    <2>4. QED
      BY <2>2, <2>3 DEF Heard
  <1>10. QED
    BY <1>5, <1>6, <1>7, <1>8, <1>9

\* There is nothing to write: the flush begins.
LEMMA FlushKeeps ==
  ASSUME NEW x \in Endpoint, NEW p \in Endpoint, x # p, Known(x), Known(p),
         TimedTypes, Kept(x, p), Kept(p, x), WriteNothing(x)
  PROVE  Kept(x, p)' /\ Kept(p, x)'
  <1>1. /\ writer[x].pc = "write" /\ ~AckDue(x) /\ ~queued[x]
        /\ UNCHANGED << opts, queued, wake, wire, silent, ack >>
        /\ writer'[x].pc = "flush" /\ writer'[x].dirty = writer[x].dirty
        /\ writer'[x].left = IF writer[x].dirty THEN FlushTicks ELSE 0
        /\ writer'[p] = writer[p]
    BY DEF WriteNothing, TimedTypes, Writers
  <1>2. /\ (Owes(x)' <=> Owes(x)) /\ (Owes(p)' <=> Owes(p))
        /\ (AckDue(x)' <=> AckDue(x)) /\ (AckDue(p)' <=> AckDue(p))
        /\ Turn(x)' = Turn(x) /\ Turn(p)' = Turn(p)
        /\ Limit(x, p)' = Limit(x, p) /\ Limit(p, x)' = Limit(p, x)
    BY <1>1 DEF Owes, AckDue, Turn, Limit
  <1>3. /\ Ahead(x)' = Ahead(x) /\ Ahead(p)' = Ahead(p)
        /\ ~Asleep(x)' /\ ~Asleep(x) /\ (Asleep(p)' <=> Asleep(p))
    BY <1>1 DEF Ahead, Asleep
  <1> USE <1>1, <1>2, <1>3 DEF Known, Kept
  <1>5. Tidy(x, p)' /\ Tidy(p, x)'
    BY DEF Tidy
  <1>6. Remembered(x, p)' /\ Remembered(p, x)'
    BY DEF Remembered, Answered
  <1>7. InTime(x, p)' /\ InTime(p, x)'
    BY DEF InTime
  <1>8. Heard(x, p)' /\ Heard(p, x)'
    BY DEF Heard
  <1>9. QED
    BY <1>5, <1>6, <1>7, <1>8

\* An application sends.
LEMMA SendKeeps ==
  ASSUME NEW x \in Endpoint, NEW p \in Endpoint, x # p, Known(x), Known(p),
         TimedTypes, HealthTypes, Kept(x, p), Kept(p, x), AppSend(x)
  PROVE  Kept(x, p)' /\ Kept(p, x)'
  <1>1. /\ wire[x] = << >> /\ wire[p] = << >> /\ queued'[p] = queued[p]
        /\ UNCHANGED << opts, writer, wake, wire, silent, ack >>
    BY DEF AppSend, HealthTypes
  <1>2. Remembered(x, p)' /\ Remembered(p, x)'
    BY <1>1 DEF Kept, Remembered, Answered, Owes, AckDue, Asleep
  <1>3. Tidy(x, p)' /\ Tidy(p, x)'
    BY <1>1 DEF Kept, Tidy
  <1>4. InTime(x, p)' /\ InTime(p, x)'
    BY <1>1 DEF Kept, InTime, Owes, AckDue, Turn, Ahead
  <1>5. Heard(x, p)' /\ Heard(p, x)'
    BY <1>1 DEF Kept, Heard, Limit, Owes, AckDue, Turn, Ahead, Asleep
  <1>6. QED
    BY <1>2, <1>3, <1>4, <1>5 DEF Kept

\* A frame is written: an ACK that is due, a frame from the queue, or a PING.
LEMMA WritesKeeps ==
  ASSUME NEW x \in Endpoint, NEW p \in Endpoint, x # p, Known(x), Known(p),
         TimedTypes, Kept(x, p), Kept(p, x),
         NEW type \in Frames,
         wire[p] \in Seq(Frames), wire'[p] = Append(wire[p], type), wire'[x] = wire[x],
         writer'[x] = Resume(TRUE), writer'[p] = writer[p],
         queued'[p] = queued[p], UNCHANGED << opts, wake, silent >>, ack'[p] = ack[p],
         \/ type = "ack" /\ writer[x].pc = "write" /\ AckDue(x) /\ ack'[x] = NoAck
         \/ type = "data" /\ queued[x] /\ ack'[x] = ack[x]
         \/ /\ type = "ping" /\ ack'[x] = ack[x]
            /\ writer[x].pc = "wait" /\ writer[x].left = 0 /\ writer[x].beat
  PROVE  Kept(x, p)' /\ Kept(p, x)'
  <1>1. writer'[x].pc = "write" /\ writer'[x].dirty = TRUE /\ writer'[p] = writer[p]
    BY DEF Resume
  <1>2. /\ (Owes(p)' <=> Owes(p)) /\ (AckDue(p)' <=> AckDue(p))
        /\ Turn(x)' = Turn(x) /\ Turn(p)' = Turn(p)
        /\ Limit(x, p)' = Limit(x, p) /\ Limit(p, x)' = Limit(p, x)
    BY DEF Owes, AckDue, Turn, Limit
  <1>3. /\ type = "ack" => ~Owes(x)' /\ ~AckDue(x)'
        /\ type # "ack" => (Owes(x)' <=> Owes(x)) /\ (AckDue(x)' <=> AckDue(x))
    BY DEF Owes, AckDue, NoAck
  <1>4. Ahead(x)' = FlushTicks /\ Ahead(p)' = Ahead(p) /\ (Asleep(p)' <=> Asleep(p))
    <2>1. Ahead(x)' = FlushTicks
      BY <1>1 DEF Ahead
    <2>2. Ahead(p)' = Ahead(p)
      BY <1>1 DEF Ahead
    <2>3. Asleep(p)' <=> Asleep(p)
      BY <1>1 DEF Asleep
    <2>4. QED
      BY <2>1, <2>2, <2>3
  <1>5. /\ wire'[p] # << >>
        /\ \A t : On(wire'[p], t) <=> On(wire[p], t) \/ type = t
        /\ AckAhead(wire'[p]) <=> AckAhead(wire[p]) \/ (type = "ack" /\ ~On(wire[p], "data"))
    BY Arrives
  <1>6. On(wire'[p], type)
    BY <1>5
  <1>7. \A t : On(wire'[p], t) => On(wire[p], t) \/ t = type
    BY <1>5
  <1>8. AckAhead(wire'[p]) => AckAhead(wire[p]) \/ (type = "ack" /\ ~On(wire[p], "data"))
    BY <1>5
  <1> USE <1>1, <1>2, <1>3, <1>4 DEF Known, Kept
  <1>9. Tidy(x, p)' /\ Tidy(p, x)'
    BY DEF Tidy
  <1>10. Remembered(x, p)'
    <2>1. ASSUME Owes(x)' PROVE wake[x] \/ Answered(x, p)'
      <3>1. CASE type = "data"
        BY <1>6, <3>1 DEF Answered
      <3>2. CASE type = "ping"
        <4>1. wake[x] \/ Answered(x, p)
          BY <2>1, <3>2 DEF Remembered, Asleep
        <4>2. QED
          BY <1>5, <4>1 DEF Answered
      <3>3. QED
        BY <2>1, <3>1, <3>2
    <2>2. QED
      BY <2>1 DEF Remembered, Asleep
  <1>11. Remembered(p, x)'
    <2>1. Answered(p, x) => Answered(p, x)'
      BY <1>5, <1>6 DEF Answered
    <2>2. QED
      BY <2>1 DEF Remembered
  \* What is on the wire when a frame is written outside a run of writes.
  <1>12. wire[p] # << >> => (writer[x].dirty /\ writer[x].pc = "write") \/ type = "ack"
    BY DEF Tidy
  <1>13. writer[x].dirty /\ writer[x].pc = "write" => Ahead(x) = FlushTicks
    BY DEF Ahead
  <1>14. \A t : wire[p] = << >> => ~On(wire[p], t) /\ ~AckAhead(wire[p])
    BY NothingOn
  <1>15. ASSUME wire[x] = << >> PROVE InTime(x, p)'
    <2>1. ASSUME ~Owes(p), ~On(wire'[p], "data"), type = "ping"
          PROVE  /\ AckDue(x) => silent[x] <= Turn(x)
                 /\ Owes(x) => silent[x] = 0
      <3>1. ~On(wire[p], "data") /\ ~On(wire[x], "ack")
        BY <1>5, <1>15, <2>1, NothingOn
      <3>2. ~Answered(x, p)
        BY <2>1, <3>1 DEF Answered
      <3>3. Owes(x) => wake[x]
        BY <2>1, <3>2 DEF Remembered, Asleep
      <3>4. QED
        BY <1>15, <2>1, <3>1, <3>3 DEF InTime
    <2>2. ASSUME ~Owes(p), ~On(wire'[p], "data"), Owes(x)'
          PROVE  /\ AckDue(x)' => silent[x] <= Turn(x)
                 /\ silent[x] + FlushTicks <= FlushTicks
      <3>1. type = "ping"
        BY <1>6, <2>2
      <3>2. (AckDue(x) => silent[x] <= Turn(x)) /\ silent[x] = 0
        BY <2>1, <2>2, <3>1
      <3>3. QED
        BY <3>1, <3>2 DEF Numbers
    <2>3. ASSUME On(wire'[p], "ack"), Owes(x)' PROVE silent[x] + FlushTicks <= FlushTicks
      <3>1. type # "ack" /\ On(wire[p], "ack")
        BY <1>7, <2>3
      <3>2. writer[x].dirty /\ writer[x].pc = "write"
        BY <1>12, <1>14, <3>1
      <3>3. QED
        BY <1>13, <1>15, <2>3, <3>1, <3>2 DEF InTime
    <2>4. ASSUME ~Owes(p), AckAhead(wire'[p])
          PROVE  silent[x] + FlushTicks <= Turn(x) + FlushTicks
      <3>1. CASE type # "ack"
        <4>1. AckAhead(wire[p])
          BY <1>8, <2>4, <3>1
        <4>2. writer[x].dirty /\ writer[x].pc = "write"
          BY <1>12, <1>14, <3>1, <4>1
        <4>3. QED
          BY <1>13, <1>15, <2>4, <4>1, <4>2 DEF InTime
      <3>2. CASE type = "ack" /\ AckAhead(wire[p])
        <4>1. On(wire[p], "ack") /\ Owes(x)
          BY <3>2 DEF AckAhead, On, Owes, AckDue
        <4>2. silent[x] + Ahead(x) <= FlushTicks
          BY <1>15, <4>1 DEF InTime
        <4>3. QED
          BY <4>2 DEF Numbers
      <3>3. CASE type = "ack" /\ ~AckAhead(wire[p])
        <4>1. ~On(wire[p], "data") /\ AckDue(x)
          BY <1>8, <2>4, <3>3
        <4>2. silent[x] <= Turn(x)
          BY <1>15, <2>4, <4>1 DEF InTime
        <4>3. QED
          BY <4>2 DEF Numbers
      <3>4. QED
        BY <3>1, <3>2, <3>3
    <2>5. ASSUME Owes(x)', ~AckDue(x)' PROVE silent[x] + ack'[x].left <= opts[x].ack_delay
      <3>1. type # "ack" /\ ack'[x] = ack[x]
        BY <2>5
      <3>2. QED
        BY <1>15, <2>5, <3>1 DEF InTime
    <2>6. AckDue(x)' => Owes(x)'
      BY DEF Owes, AckDue
    <2>7. QED
      BY <2>2, <2>3, <2>4, <2>5, <2>6 DEF InTime
  <1>16. InTime(x, p)'
    <2>1. CASE wire[x] = << >>
      BY <1>15, <2>1
    <2>2. CASE wire[x] # << >>
      BY <2>2 DEF InTime
    <2>3. QED
      BY <2>1, <2>2
  <1>17. InTime(p, x)' /\ Heard(p, x)'
    BY <1>5 DEF InTime, Heard
  <1>18. Heard(x, p)'
    BY DEF Heard
  <1>19. QED
    BY <1>9, <1>10, <1>11, <1>16, <1>17, <1>18

-----------------------------------------------------------------------------
(* A working transport: the steps of a reader.                             *)

\* However the writer stands, the silence is within the limit and a delay.
LEMMA HeardWithin ==
  ASSUME NEW e \in Endpoint, NEW p \in Endpoint, Known(e), Known(p),
         Heard(e, p), Remembered(p, e), wire[e] = << >>
  PROVE  /\ Limit(e, p) \in Nat
         /\ ~Owes(p) => silent[e] <= Limit(e, p)
         /\ silent[e] <= Limit(e, p) + opts[p].ack_delay
  <1>1. Limit(e, p) \in Nat /\ Turn(e) + FlushTicks <= Limit(e, p)
    <2>1. Turn(e) \in Nat /\ FlushTicks \in Nat /\ opts[p].heartbeat_interval \in Nat
      BY DEF Known, Numbers
    <2>2. QED
      BY <2>1 DEF Limit
  <1> DEFINE most == Limit(e, p) + opts[p].ack_delay
  <1>5. most \in Nat /\ silent[e] \in Nat /\ writer[p].left \in Nat /\ ack[p].left \in Nat
        /\ Limit(e, p) <= most
    <2>1. /\ silent[e] \in Nat /\ writer[p].left \in Nat /\ ack[p].left \in Nat
          /\ opts[p].ack_delay \in Nat
      BY DEF Known, Numbers
    <2>2. QED
      BY <1>1, <2>1
  <1>6. \A n \in Nat : silent[e] + n <= most => silent[e] <= most
    BY <1>5
  <1> HIDE DEF most
  <1>2. ASSUME ~Owes(p) PROVE silent[e] <= Limit(e, p)
    <2>1. CASE Asleep(p)
      <3>1. silent[e] + writer[p].left <= Limit(e, p)
        BY <1>2, <2>1 DEF Heard
      <3>2. QED
        BY <1>1, <3>1, SMTT(20) DEF Known, Numbers
    <2>2. CASE ~Asleep(p)
      <3>1. silent[e] <= Turn(e) + FlushTicks
        BY <1>2, <2>2 DEF Heard
      <3>2. QED
        BY <1>1, <3>1 DEF Known, Numbers
    <2>3. QED
      BY <2>1, <2>2
  <1>3. silent[e] <= most
    <2>1. CASE ~Owes(p)
      BY <1>1, <1>2, <1>5, <2>1
    <2>2. CASE Owes(p) /\ ~AckDue(p)
      <3>1. silent[e] + ack[p].left <= most
        BY <2>2 DEF Heard, most
      <3>2. QED
        BY <1>5, <1>6, <3>1
    <2>3. CASE AckDue(p) /\ Asleep(p)
      <3>1. silent[e] + writer[p].left <= most
        BY <2>3 DEF Heard, most
      <3>2. QED
        BY <1>5, <1>6, <3>1
    <2>4. CASE AckDue(p) /\ ~Asleep(p)
      BY <2>4 DEF Heard, most
    <2>5. QED
      BY <2>1, <2>2, <2>3, <2>4
  <1>4. QED
    BY <1>1, <1>2, <1>3 DEF most

\* What note_received makes of an ACK that is owed, and when it wakes the writer.
LEMMA Notes ==
  ASSUME NEW x \in Endpoint, TimedTypes, HealthTypes, ReadData(x)
  PROVE  /\ Owes(x)'
         /\ wake[x] \/ ~ack[x].timer => wake'[x]
         /\ \/ wake'[x] /\ AckDue(x)'
            \/ ~Owes(x) /\ ack'[x].left = opts[x].ack_delay
            \/ /\ Owes(x) /\ ack[x].timer /\ ack'[x].left = ack[x].left
               /\ AckDue(x)' <=> AckDue(x)
  <1> DEFINE pending == ack[x].pending + 1
             due == ack[x].due \/ pending >= opts[x].ack_every
  <1>1. ack[x].due \in BOOLEAN /\ ack[x].timer \in BOOLEAN /\ due \in BOOLEAN
    BY EndpointTypes
  <1>2. /\ ack'[x] = [pending |-> IF due THEN opts[x].ack_every ELSE pending, due |-> due,
                      timer |-> ~due,
                      left |-> IF due THEN 0 ELSE IF ack[x].timer THEN ack[x].left
                                                  ELSE opts[x].ack_delay]
        /\ wake'[x] = (wake[x] \/ NoteReceived(x).due \/ ~ack[x].timer)
    BY DEF ReadData, NoteReceived, TimedTypes, HealthTypes
  <1>3. NoteReceived(x).due = due
    BY DEF NoteReceived
  <1> HIDE DEF due, pending
  <1>4. /\ ack'[x].due = due /\ ack'[x].timer = ~due
        /\ ~due => ack'[x].left = IF ack[x].timer THEN ack[x].left ELSE opts[x].ack_delay
    BY <1>2
  <1>5. ack[x].due => due
    BY DEF due
  <1>6. Owes(x)'
    BY <1>1, <1>4 DEF Owes
  <1>7. wake[x] \/ ~ack[x].timer \/ due => wake'[x]
    BY <1>2, <1>3
  <1>8. CASE due
    BY <1>4, <1>6, <1>7, <1>8 DEF AckDue
  <1>9. CASE ~due /\ ~ack[x].timer
    BY <1>4, <1>5, <1>6, <1>7, <1>9 DEF Owes
  <1>10. CASE ~due /\ ack[x].timer
    <2>1. ~ack[x].due /\ ~ack'[x].due /\ ack'[x].timer /\ ack'[x].left = ack[x].left
      BY <1>4, <1>5, <1>10
    <2>2. Owes(x) /\ (AckDue(x)' <=> AckDue(x))
      BY <1>10, <2>1 DEF Owes, AckDue
    <2>3. QED
      BY <1>6, <1>7, <1>10, <2>1, <2>2
  <1>11. QED
    BY <1>1, <1>8, <1>9, <1>10

\* A frame is read.
LEMMA ReadsKeeps ==
  ASSUME NEW x \in Endpoint, NEW p \in Endpoint, x # p, Known(x), Known(p),
         Bounds(x)', ack'[x].left \in Nat,
         TimedTypes, HealthTypes, Kept(x, p), Kept(p, x), ReadData(x) \/ ReadControl(x)
  PROVE  Kept(x, p)' /\ Kept(p, x)'
  <1> DEFINE h == Head(wire[x])
  <1>1. /\ wire[x] # << >> /\ wire'[x] = Tail(wire[x]) /\ wire'[p] = wire[p]
        /\ silent'[x] = 0 /\ silent'[p] = silent[p] /\ wake'[p] = wake[p] /\ ack'[p] = ack[p]
        /\ UNCHANGED << opts, writer, queued >>
    BY DEF ReadData, ReadControl, HealthTypes, TimedTypes
  <1>2. /\ \A t : On(wire[x], t) <=> h = t \/ On(wire'[x], t)
        /\ AckAhead(wire[x]) <=> h = "ack" \/ (h # "data" /\ AckAhead(wire'[x]))
    BY <1>1, Leaves DEF Known, Places
  \* The three ways in which a frame changes what is owed.
  <1>3. /\ wake[x] => wake'[x]
        /\ Owes(x) => Owes(x)'
        /\ h = "data" => Owes(x)'
        /\ h = "ack" => wake'[x]
        /\ \/ h # "data" /\ ack'[x] = ack[x] /\ (wake'[x] => wake[x] \/ h = "ack")
           \/ wake'[x] /\ AckDue(x)'
           \/ h = "data" /\ wake'[x] /\ ~Owes(x) /\ ack'[x].left = opts[x].ack_delay
           \/ /\ h = "data" /\ Owes(x) /\ ack[x].timer /\ ack'[x].left = ack[x].left
              /\ (AckDue(x)' <=> AckDue(x))
    <2>1. CASE ReadControl(x)
      <3>1. /\ h # "data" /\ ack' = ack /\ wake' = [wake EXCEPT ![x] = @ \/ h = "ack"]
        BY <2>1 DEF ReadControl
      <3>2. ack'[x] = ack[x] /\ (wake'[x] <=> wake[x] \/ h = "ack")
        BY <3>1 DEF HealthTypes
      <3>3. Owes(x)' <=> Owes(x)
        BY <3>2 DEF Owes
      <3>4. QED
        BY <3>1, <3>2, <3>3
    <2>2. CASE ReadData(x)
      <3>1. h = "data"
        BY <2>2 DEF ReadData
      <3>2. (~ack[x].timer /\ ~Owes(x)) \/ Owes(x)
        BY DEF Owes, Known, Places
      <3>3. QED
        BY <2>2, <3>1, <3>2, Notes
    <2>3. QED
      BY <2>1, <2>2
  <1> HIDE DEF h
  <1>4. /\ (Owes(p)' <=> Owes(p)) /\ (AckDue(p)' <=> AckDue(p))
        /\ Turn(x)' = Turn(x) /\ Turn(p)' = Turn(p)
        /\ Limit(x, p)' = Limit(x, p) /\ Limit(p, x)' = Limit(p, x)
        /\ Ahead(x)' = Ahead(x) /\ Ahead(p)' = Ahead(p)
        /\ (Asleep(p)' <=> Asleep(p))
    BY <1>1 DEF Owes, AckDue, Turn, Limit, Ahead, Asleep
  <1>5. h # "data" /\ ack'[x] = ack[x] => (Owes(x)' <=> Owes(x)) /\ (AckDue(x)' <=> AckDue(x))
    BY DEF Owes, AckDue
  <1>6. /\ Asleep(x)' => Asleep(x)
        /\ Asleep(x) => Asleep(x)' \/ wake'[x]
    BY <1>1, <1>3 DEF Asleep
  <1>7. AckDue(x)' => Owes(x)'
    BY DEF Owes, AckDue
  <1> USE <1>1, <1>4 DEF Known, Kept
  <1>8. Tidy(x, p)' /\ Tidy(p, x)'
    BY DEF Tidy
  <1>9. Answered(x, p) => wake'[x] \/ Answered(x, p)'
    BY <1>2, <1>3 DEF Answered
  <1>10. Remembered(x, p)'
    BY <1>3, <1>5, <1>6, <1>9 DEF Remembered, Asleep
  <1>11. Remembered(p, x)'
    <2>1. Answered(p, x) => Answered(p, x)'
      BY <1>2, <1>3 DEF Answered
    <2>2. QED
      BY <2>1 DEF Remembered
  <1>12. ASSUME wire'[x] = << >> PROVE InTime(x, p)'
    <2>1. silent'[x] + ack'[x].left <= opts[x].ack_delay \/ AckDue(x)' \/ ~Owes(x)'
      <3>1. ack'[x].left <= opts[x].ack_delay \/ AckDue(x)' \/ ~Owes(x)'
        BY DEF Bounds
      <3>2. 0 + ack'[x].left = ack'[x].left
        OBVIOUS
      <3>3. QED
        BY <3>1, <3>2
    <2>2. silent'[x] + Ahead(x) <= FlushTicks
      <3>1. Ahead(x) <= FlushTicks
        BY DEF Ahead, Numbers, Bounds, Places, Tidy
      <3>2. QED
        BY <3>1 DEF Numbers
    <2>3. silent'[x] <= Turn(x) /\ silent'[x] + Ahead(x) <= Turn(x) + FlushTicks
      BY <2>2 DEF Numbers
    <2>4. QED
      BY <2>1, <2>2, <2>3 DEF InTime
  <1>13. InTime(x, p)'
    BY <1>12 DEF InTime
  <1>14. InTime(p, x)'
    <2>1. ~Owes(x)' => ~Owes(x) /\ h # "data"
      BY <1>3
    <2>2. /\ On(wire'[x], "ack") => On(wire[x], "ack")
          /\ h # "data" /\ ~On(wire'[x], "data") => ~On(wire[x], "data")
          /\ h # "data" /\ AckAhead(wire'[x]) => AckAhead(wire[x])
      BY <1>2
    <2>3. QED
      BY <2>1, <2>2 DEF InTime
  <1>15. ASSUME wire'[x] = << >> PROVE Heard(x, p)'
    <2>1. Limit(x, p) \in Nat /\ opts[p].heartbeat_interval <= Limit(x, p)
      <3>1. Turn(x) \in Nat /\ FlushTicks \in Nat /\ opts[p].heartbeat_interval \in Nat
        BY DEF Numbers
      <3>2. QED
        BY <3>1 DEF Limit
    <2>2. writer[p].dirty => Ahead(p) <= FlushTicks
      BY DEF Ahead, Numbers, Bounds, Places, Tidy
    <2>3. Asleep(p) => writer[p].left <= Limit(x, p)
      <3>1. Asleep(p) => writer[p].left <= opts[p].heartbeat_interval
        BY DEF Asleep, Bounds
      <3>2. QED
        BY <2>1, <3>1, SMTT(20) DEF Numbers
    <2>4. /\ Ahead(p) \in Nat /\ writer[p].left \in Nat /\ ack[p].left \in Nat
          /\ FlushTicks \in Nat /\ Turn(x) \in Nat /\ opts[p].ack_delay \in Nat
          /\ Owes(p) /\ ~AckDue(p) => ack[p].left <= opts[p].ack_delay
      BY DEF Numbers, Bounds
    <2>5. /\ writer[p].dirty => 0 + Ahead(p) <= FlushTicks
          /\ Asleep(p) => 0 + writer[p].left <= Limit(x, p)
          /\ 0 <= Turn(x) + FlushTicks
          /\ Asleep(p) => 0 + writer[p].left <= Limit(x, p) + opts[p].ack_delay
          /\ 0 <= Limit(x, p) + opts[p].ack_delay
          /\ Owes(p) /\ ~AckDue(p) => 0 + ack[p].left <= Limit(x, p) + opts[p].ack_delay
      <3>1. Limit(x, p) <= Limit(x, p) + opts[p].ack_delay
            /\ opts[p].ack_delay <= Limit(x, p) + opts[p].ack_delay
            /\ Limit(x, p) + opts[p].ack_delay \in Nat
        BY <2>1, <2>4
      <3>2. \A n \in Nat : 0 + n = n
        OBVIOUS
      <3>3. Turn(x) + FlushTicks \in Nat
        BY <2>4
      <3> DEFINE most == Limit(x, p) + opts[p].ack_delay
      <3> HIDE DEF most
      <3>4. /\ Limit(x, p) <= most /\ opts[p].ack_delay <= most /\ most \in Nat
        BY <3>1 DEF most
      <3>5. /\ Asleep(p) => writer[p].left <= most
            /\ Owes(p) /\ ~AckDue(p) => ack[p].left <= most
            /\ 0 <= most /\ 0 <= Turn(x) + FlushTicks
        BY <2>1, <2>3, <2>4, <3>3, <3>4
      <3>6. QED
        BY <2>2, <2>3, <2>4, <3>2, <3>5 DEF most
    <2>6. QED
      BY <2>5 DEF Heard
  <1>16. Heard(x, p)'
    BY <1>15 DEF Heard
  <1>17. ASSUME wire[p] = << >> PROVE Heard(p, x)'
    <2>1. /\ ~Owes(x) => silent[p] <= Limit(p, x)
          /\ silent[p] <= Limit(p, x) + opts[x].ack_delay
      BY <1>17, HeardWithin
    <2>2. ASSUME ~Owes(x)', ~Asleep(x)' PROVE silent[p] <= Turn(p) + FlushTicks
      <3>1. ~Owes(x) /\ h # "data"
        BY <1>3, <2>2
      <3>2. CASE ~Asleep(x)
        BY <1>17, <3>1, <3>2 DEF Heard
      <3>3. CASE Asleep(x)
        <4>1. h = "ack"
          BY <1>3, <1>6, <1>7, <2>2, <3>1, <3>3 DEF Asleep
        <4>2. silent[p] + Ahead(p) <= Turn(p) + FlushTicks
          BY <1>2, <1>17, <3>1, <4>1 DEF InTime
        <4>3. QED
          BY <4>2 DEF Numbers
      <3>4. QED
        BY <3>2, <3>3
    <2>3. ASSUME ~Owes(x)', Asleep(x)' PROVE silent[p] + writer[x].left <= Limit(p, x)
      BY <1>3, <1>6, <1>17, <2>3 DEF Heard
    <2>4. ASSUME AckDue(x)', Asleep(x)'
          PROVE  silent[p] + writer[x].left <= Limit(p, x) + opts[x].ack_delay
      <3>1. AckDue(x) /\ Asleep(x)
        BY <1>3, <1>5, <1>6, <2>4 DEF Asleep
      <3>2. QED
        BY <1>17, <3>1 DEF Heard
    <2>5. ASSUME Owes(x)', ~AckDue(x)'
          PROVE  silent[p] + ack'[x].left <= Limit(p, x) + opts[x].ack_delay
      <3>1. CASE ~Owes(x)
        <4>1. ack'[x].left = opts[x].ack_delay
          BY <1>3, <1>5, <2>5, <3>1
        <4>2. Limit(p, x) \in Nat
          BY <1>17, HeardWithin
        <4>3. QED
          BY <2>1, <3>1, <4>1, <4>2, SMTT(20) DEF Numbers
      <3>2. CASE Owes(x)
        <4>1. ack'[x].left = ack[x].left /\ ~AckDue(x)
          BY <1>3, <1>5, <2>5, <3>2
        <4>2. QED
          BY <1>17, <3>2, <4>1 DEF Heard
      <3>3. QED
        BY <3>1, <3>2
    <2>6. writer[x].dirty => silent[p] + Ahead(x) <= FlushTicks
      BY <1>17 DEF Heard
    <2>7. QED
      BY <2>1, <2>2, <2>3, <2>4, <2>5, <2>6 DEF Heard
  <1>18. Heard(p, x)'
    BY <1>17 DEF Heard
  <1>19. QED
    BY <1>8, <1>10, <1>11, <1>13, <1>14, <1>16, <1>18

-----------------------------------------------------------------------------
(* A working transport: time.                                              *)

\* Either kind of pause.
LEMMA Pauses ==
  ASSUME NEW e \in Endpoint, NEW p \in Endpoint, Tidy(e, p),
         Waiting(e) \/ Flushing(e)
  PROVE  /\ (Asleep(e) /\ ~writer[e].dirty) \/ (~Asleep(e) /\ writer[e].dirty)
         /\ Flushing(e) <=> writer[e].dirty
         /\ Asleep(e) => writer[e].pc = "wait" /\ ~wake[e]
         /\ ~Asleep(e) => writer[e].pc = "flush"
  <1>1. CASE Waiting(e)
    <2>1. writer[e].pc = "wait" /\ ~wake[e] /\ ~writer[e].dirty
      BY <1>1 DEF Waiting, Tidy
    <2>2. Asleep(e) /\ ~Flushing(e)
      BY <2>1 DEF Flushing, Asleep
    <2>3. QED
      BY <2>1, <2>2
  <1>2. CASE Flushing(e)
    <2>1. writer[e].pc = "flush" /\ writer[e].dirty
      BY <1>2 DEF Flushing
    <2>2. QED
      BY <2>1 DEF Flushing, Asleep
  <1>3. QED
    BY <1>1, <1>2

\* How an ACK comes due by a tick, and how it does not.
LEMMA AckTicks ==
  ASSUME NEW e \in Endpoint, ack[e].left \in Nat,
         ack'[e].due <=> ack[e].due, ack'[e].timer <=> ack[e].timer,
         ack[e].left = 0 => ack'[e].left = 0,
         ack[e].left > 0 => ack'[e].left = ack[e].left - 1
  PROVE  /\ AckDue(e) => AckDue(e)'
         /\ ~AckDue(e) /\ AckDue(e)' => Owes(e) /\ ack[e].left = 1 /\ ack'[e].left = 0
         /\ Owes(e) /\ ~AckDue(e)' =>
              ~AckDue(e) /\ ack[e].left > 1 /\ ack'[e].left = ack[e].left - 1
  <1>1. CASE ack[e].left = 0
    BY <1>1 DEF AckDue, Owes
  <1>2. CASE ack[e].left = 1
    <2>1. ack'[e].left = 0
      BY <1>2
    <2>2. QED
      BY <1>2, <2>1 DEF AckDue, Owes
  <1>3. CASE ack[e].left > 1
    <2>1. ack'[e].left = ack[e].left - 1 /\ ack'[e].left # 0 /\ ack[e].left # 0
      BY <1>3
    <2>2. QED
      BY <1>3, <2>1 DEF AckDue, Owes
  <1>4. QED
    BY <1>1, <1>2, <1>3

\* A tick, for an endpoint.
LEMMA Ticks ==
  ASSUME NEW e \in Endpoint, TimedTypes, HealthTypes, Known(e), Tick
  PROVE  /\ Waiting(e) \/ (Flushing(e) /\ writer[e].left > 0)
         /\ wire[e] = << >> \/ Flushing(Peer(e))
         /\ writer[e].left > 0 /\ writer'[e].left = writer[e].left - 1
         /\ writer'[e].pc = writer[e].pc /\ writer'[e].dirty = writer[e].dirty
         /\ writer'[e].beat = writer[e].beat
         /\ silent'[e] = silent[e] + 1
         /\ (ack'[e].due <=> ack[e].due) /\ (ack'[e].timer <=> ack[e].timer)
         /\ ack[e].left = 0 => ack'[e].left = 0
         /\ ack[e].left > 0 => ack'[e].left = ack[e].left - 1
         /\ UNCHANGED << opts, queued, wake, wire >>
  <1>1. /\ Waiting(e) \/ (Flushing(e) /\ writer[e].left > 0)
        /\ wire[e] = << >> \/ Flushing(Peer(e))
        /\ writer'[e] = [writer[e] EXCEPT !.left = @ - 1]
        /\ silent'[e] = silent[e] + 1
        /\ ack'[e] = [ack[e] EXCEPT !.left = IF @ = 0 THEN 0 ELSE @ - 1]
        /\ UNCHANGED << opts, queued, wake, wire >>
    BY DEF Tick, MayTick
  <1>2. writer[e] \in Writers /\ ack[e] \in Acks
    BY DEF TimedTypes
  <1>3. /\ writer'[e].left = writer[e].left - 1
        /\ writer'[e].pc = writer[e].pc /\ writer'[e].dirty = writer[e].dirty
        /\ writer'[e].beat = writer[e].beat
    BY <1>1, <1>2 DEF Writers
  <1>4. /\ (ack'[e].due <=> ack[e].due) /\ (ack'[e].timer <=> ack[e].timer)
        /\ ack'[e].left = IF ack[e].left = 0 THEN 0 ELSE ack[e].left - 1
    BY <1>1, <1>2 DEF Acks
  <1>5. writer[e].left > 0
    BY <1>1 DEF Waiting
  <1>6. /\ ack[e].left = 0 => ack'[e].left = 0
        /\ ack[e].left > 0 => ack'[e].left = ack[e].left - 1
    <2>1. ack[e].left \in Nat
      BY DEF Known, Numbers
    <2>2. QED
      BY <1>4, <2>1
  <1>7. QED
    BY <1>1, <1>3, <1>4, <1>5, <1>6

\* A tick costs the silence what it takes from the waits.
LEMMA TickKeeps ==
  ASSUME NEW e \in Endpoint, NEW p \in Endpoint, e # p, p = Peer(e), e = Peer(p),
         Known(e), Known(p), TimedTypes, HealthTypes, Kept(e, p), Kept(p, e), Tick
  PROVE  Kept(e, p)'
  <1>1. /\ Waiting(e) \/ (Flushing(e) /\ writer[e].left > 0)
        /\ wire[e] = << >> \/ Flushing(p)
        /\ writer[e].left > 0 /\ writer'[e].left = writer[e].left - 1
        /\ writer'[e].pc = writer[e].pc /\ writer'[e].dirty = writer[e].dirty
        /\ writer'[e].beat = writer[e].beat
        /\ silent'[e] = silent[e] + 1
        /\ (ack'[e].due <=> ack[e].due) /\ (ack'[e].timer <=> ack[e].timer)
        /\ ack[e].left = 0 => ack'[e].left = 0
        /\ ack[e].left > 0 => ack'[e].left = ack[e].left - 1
        /\ UNCHANGED << opts, queued, wake, wire >>
    BY Ticks
  <1>2. /\ Waiting(p) \/ (Flushing(p) /\ writer[p].left > 0)
        /\ wire[p] = << >> \/ Flushing(e)
        /\ writer[p].left > 0 /\ writer'[p].left = writer[p].left - 1
        /\ writer'[p].pc = writer[p].pc /\ writer'[p].dirty = writer[p].dirty
        /\ (ack'[p].due <=> ack[p].due) /\ (ack'[p].timer <=> ack[p].timer)
        /\ ack[p].left = 0 => ack'[p].left = 0
        /\ ack[p].left > 0 => ack'[p].left = ack[p].left - 1
    BY Ticks
  <1>3. /\ (Owes(e)' <=> Owes(e)) /\ (Owes(p)' <=> Owes(p))
        /\ Turn(e)' = Turn(e) /\ Limit(e, p)' = Limit(e, p)
        /\ (Asleep(e)' <=> Asleep(e)) /\ (Asleep(p)' <=> Asleep(p))
    BY <1>1, <1>2 DEF Owes, Turn, Limit, Asleep
  <1> HIDE DEF Peer
  <1> USE DEF Known, Kept
  <1>4. /\ (Asleep(e) /\ ~writer[e].dirty) \/ (~Asleep(e) /\ writer[e].dirty)
        /\ Flushing(e) <=> writer[e].dirty
        /\ Asleep(e) => writer[e].pc = "wait" /\ ~wake[e]
        /\ ~Asleep(e) => writer[e].pc = "flush"
    BY <1>1, Pauses
  <1>5. /\ (Asleep(p) /\ ~writer[p].dirty) \/ (~Asleep(p) /\ writer[p].dirty)
        /\ Flushing(p) <=> writer[p].dirty
        /\ ~Asleep(p) => writer[p].pc = "flush"
    BY <1>2, Pauses
  <1>6. writer[e].dirty => Ahead(e) = writer[e].left /\ Ahead(e)' = Ahead(e) - 1
    BY <1>1, <1>4 DEF Ahead
  <1>7. writer[p].dirty => Ahead(p) = writer[p].left /\ Ahead(p)' = Ahead(p) - 1
    BY <1>2, <1>5 DEF Ahead
  <1>8. /\ AckDue(e) => AckDue(e)'
        /\ ~AckDue(e) /\ AckDue(e)' => Owes(e) /\ ack[e].left = 1 /\ ack'[e].left = 0
        /\ Owes(e) /\ ~AckDue(e)' =>
             ~AckDue(e) /\ ack[e].left > 1 /\ ack'[e].left = ack[e].left - 1
    <2>1. ack[e].left \in Nat
      BY DEF Numbers
    <2>2. QED
      BY <1>1, <2>1, AckTicks
  <1>9. /\ AckDue(p) => AckDue(p)'
        /\ ~AckDue(p) /\ AckDue(p)' => Owes(p) /\ ack[p].left = 1 /\ ack'[p].left = 0
        /\ Owes(p) /\ ~AckDue(p)' =>
             ~AckDue(p) /\ ack[p].left > 1 /\ ack'[p].left = ack[p].left - 1
    <2>1. ack[p].left \in Nat
      BY DEF Numbers
    <2>2. QED
      BY <1>2, <2>1, AckTicks
  \* What the moments of a tick say of sums.
  <1>14. /\ \A n, m, k \in Nat : m > 0 /\ n + m <= k => (n + 1) + (m - 1) <= k /\ n + 1 <= k
    OBVIOUS
  <1>15. Tidy(e, p)'
    <2>1. Asleep(e) => wire[p] = << >>
      BY <1>2, <1>4
    <2>2. QED
      BY <1>1, <1>4, <2>1 DEF Tidy
  <1>16. (Answered(e, p)' <=> Answered(e, p))
    BY <1>1, <1>3 DEF Answered
  <1>17. Remembered(e, p)'
    <2>1. Owes(e) /\ writer[e].dirty => wake[e] \/ Answered(e, p)
      BY DEF Remembered
    <2>2. ASSUME Owes(e), Asleep(e)
          PROVE  \/ ~AckDue(e)' /\ writer'[e].left = ack'[e].left /\ ~writer[e].beat
                 \/ AckDue(e)' /\ writer'[e].left = 0 /\ ~writer[e].beat
                 \/ AckDue(e)' /\ Answered(e, p)
      <3>1. CASE ~AckDue(e) /\ writer[e].left = ack[e].left /\ ~writer[e].beat
        <4>1. writer'[e].left = ack'[e].left
          BY <1>1, <3>1
        <4>2. AckDue(e)' => ack'[e].left = 0
          BY <1>8, <3>1
        <4>3. QED
          BY <3>1, <4>1, <4>2
      <3>2. CASE AckDue(e) /\ Answered(e, p)
        BY <1>8, <3>2
      <3>3. QED
        BY <1>1, <2>2, <3>1, <3>2 DEF Remembered
    <2>3. ASSUME writer[e].pc = "wait", ~writer[e].beat
          PROVE  Owes(e) /\ (AckDue(e)' \/ writer'[e].left = ack'[e].left)
      <3>1. Owes(e) /\ (AckDue(e) \/ writer[e].left = ack[e].left)
        BY <2>3 DEF Remembered
      <3>2. QED
        BY <1>1, <1>8, <3>1
    <2>4. ~(writer[e].pc = "flush" /\ ~writer[e].dirty)
      BY <1>4
    <2>5. QED
      BY <1>1, <1>3, <1>16, <2>1, <2>2, <2>3, <2>4 DEF Remembered
  <1>18. ASSUME wire[e] = << >> PROVE InTime(e, p)'
    <2>1. ASSUME Owes(e), ~AckDue(e)'
          PROVE  (silent[e] + 1) + ack'[e].left <= opts[e].ack_delay
      <3>1. ~AckDue(e) /\ ack[e].left > 1 /\ ack'[e].left = ack[e].left - 1
        BY <1>8, <2>1
      <3>2. silent[e] + ack[e].left <= opts[e].ack_delay
        BY <1>18, <2>1, <3>1 DEF InTime
      <3>3. QED
        BY <3>1, <3>2 DEF Numbers
    <2>2. ASSUME writer[e].dirty, NEW n \in Nat, silent[e] + Ahead(e) <= n
          PROVE  (silent[e] + 1) + Ahead(e)' <= n /\ silent[e] + 1 <= n
      <3>1. Ahead(e) \in Nat /\ Ahead(e) > 0 /\ Ahead(e)' = Ahead(e) - 1 /\ silent[e] \in Nat
        BY <1>1, <1>6, <2>2 DEF Numbers
      <3>2. QED
        BY <1>14, <2>2, <3>1
    <2>3. ASSUME ~Owes(p), ~On(wire[p], "data"), Owes(e), writer[e].dirty
          PROVE  (silent[e] + 1) + Ahead(e)' <= FlushTicks /\ silent[e] + 1 <= FlushTicks
      <3>1. silent[e] + Ahead(e) <= FlushTicks
        BY <1>18, <2>3 DEF InTime
      <3>2. QED
        BY <2>2, <2>3, <3>1 DEF Numbers
    <2>4. ASSUME ~Owes(p), ~On(wire[p], "data"), AckDue(e)'
          PROVE  silent[e] + 1 <= Turn(e)
      <3>1. Owes(e)
        BY <1>3, <2>4 DEF Owes, AckDue
      <3>2. CASE writer[e].dirty
        <4>1. silent[e] + 1 <= FlushTicks
          BY <2>3, <2>4, <3>1, <3>2
        <4>2. QED
          BY <4>1 DEF Numbers
      <3>3. CASE Asleep(e)
        <4>1. ~Answered(e, p)
          BY <1>18, <2>4, NothingOn DEF Answered
        <4>2. ~AckDue(e) /\ writer[e].left = ack[e].left
          BY <1>1, <3>1, <3>3, <4>1 DEF Remembered
        <4>3. ack[e].left = 1
          BY <1>8, <2>4, <4>2
        <4>4. silent[e] + ack[e].left <= opts[e].ack_delay
          BY <1>18, <3>1, <4>2 DEF InTime
        <4>5. QED
          BY <4>3, <4>4 DEF Numbers
      <3>4. QED
        BY <1>4, <3>2, <3>3
    <2>5. wire[p] # << >> => writer[e].dirty
      BY <1>2, <1>4
    <2>6. ASSUME On(wire[p], "ack"), Owes(e)
          PROVE  (silent[e] + 1) + Ahead(e)' <= FlushTicks
      <3>1. writer[e].dirty
        BY <2>5, <2>6, NothingOn
      <3>2. silent[e] + Ahead(e) <= FlushTicks
        BY <1>18, <2>6 DEF InTime
      <3>3. QED
        BY <2>2, <3>1, <3>2 DEF Numbers
    <2>7. ASSUME ~Owes(p), AckAhead(wire[p])
          PROVE  (silent[e] + 1) + Ahead(e)' <= Turn(e) + FlushTicks
      <3>1. writer[e].dirty
        BY <2>5, <2>7, NothingOn
      <3>2. silent[e] + Ahead(e) <= Turn(e) + FlushTicks
        BY <1>18, <2>7 DEF InTime
      <3>3. Turn(e) + FlushTicks \in Nat
        BY DEF Numbers
      <3>4. QED
        BY <2>2, <3>1, <3>2, <3>3
    <2>8. ~(writer[e].pc = "wait" /\ wake[e])
      BY <1>4 DEF Asleep
    <2>9. QED
      BY <1>1, <1>3, <2>1, <2>3, <2>4, <2>6, <2>7, <2>8 DEF InTime
  <1>19. InTime(e, p)'
    BY <1>1, <1>18 DEF InTime
  <1>20. ASSUME wire[e] = << >> PROVE Heard(e, p)'
    <2>1. Limit(e, p) \in Nat /\ Limit(e, p) + opts[p].ack_delay \in Nat
      <3>1. Limit(e, p) \in Nat
        BY <1>20, HeardWithin
      <3>2. QED
        BY <3>1 DEF Numbers
    <2>2. ASSUME NEW n \in Nat, silent[e] + writer[p].left <= n
          PROVE  (silent[e] + 1) + writer'[p].left <= n /\ silent[e] + 1 <= n
      BY <1>2, <1>14, <2>2 DEF Numbers
    <2>3. ASSUME writer[p].dirty
          PROVE  (silent[e] + 1) + Ahead(p)' <= FlushTicks /\ silent[e] + 1 <= FlushTicks
      <3>1. silent[e] + Ahead(p) <= FlushTicks
        BY <1>20, <2>3 DEF Heard
      <3>2. silent[e] + writer[p].left <= FlushTicks /\ Ahead(p)' = writer'[p].left
        BY <1>2, <1>7, <2>3, <3>1
      <3>3. QED
        BY <2>2, <3>2 DEF Numbers
    <2>4. ASSUME ~Asleep(p)
          PROVE  silent[e] + 1 <= Turn(e) + FlushTicks
                 /\ silent[e] + 1 <= Limit(e, p) + opts[p].ack_delay
      <3>1. silent[e] + 1 <= FlushTicks
        BY <1>5, <2>3, <2>4
      <3>2. FlushTicks <= Turn(e) + FlushTicks /\ FlushTicks <= Limit(e, p) + opts[p].ack_delay
        BY DEF Limit, Numbers
      <3>3. Turn(e) + FlushTicks \in Nat
        BY DEF Numbers
      <3>4. QED
        BY <2>1, <3>1, <3>2, <3>3 DEF Numbers
    <2>5. ASSUME ~Owes(p), Asleep(p) PROVE (silent[e] + 1) + writer'[p].left <= Limit(e, p)
      <3>1. silent[e] + writer[p].left <= Limit(e, p)
        BY <1>20, <2>5 DEF Heard
      <3>2. QED
        BY <2>1, <2>2, <3>1
    <2>6. ASSUME AckDue(p)', Asleep(p)
          PROVE  (silent[e] + 1) + writer'[p].left <= Limit(e, p) + opts[p].ack_delay
      <3>1. silent[e] + writer[p].left <= Limit(e, p) + opts[p].ack_delay
        <4>1. CASE AckDue(p)
          BY <1>20, <2>6, <4>1 DEF Heard
        <4>2. CASE ~AckDue(p)
          <5>1. Owes(p)
            BY <1>9, <2>6, <4>2
          <5>2. writer[p].left = ack[p].left
            BY <2>6, <4>2, <5>1 DEF Remembered
          <5>3. QED
            BY <1>20, <4>2, <5>1, <5>2 DEF Heard
        <4>3. QED
          BY <4>1, <4>2
      <3>2. QED
        BY <2>1, <2>2, <3>1
    <2>7. ASSUME Owes(p), ~AckDue(p)'
          PROVE  (silent[e] + 1) + ack'[p].left <= Limit(e, p) + opts[p].ack_delay
      <3>1. ~AckDue(p) /\ ack[p].left > 1 /\ ack'[p].left = ack[p].left - 1
        BY <1>9, <2>7
      <3>2. silent[e] + ack[p].left <= Limit(e, p) + opts[p].ack_delay
        BY <1>20, <2>7, <3>1 DEF Heard
      <3>3. QED
        BY <1>14, <2>1, <3>1, <3>2 DEF Numbers
    <2>8. QED
      BY <1>1, <1>2, <1>3, <2>3, <2>4, <2>5, <2>6, <2>7 DEF Heard
  <1>21. Heard(e, p)'
    BY <1>1, <1>20 DEF Heard
  <1>22. QED
    BY <1>15, <1>17, <1>19, <1>21

-----------------------------------------------------------------------------
(* A working transport is kept.                                            *)

\* What is configured leaves room at either end.
AllRoomy ==
  \A c \in Configured :
    LET announced == Normalized(c)
        accepted == Normalized(Decoded(announced))
    IN Roomy(announced, accepted) /\ Roomy(accepted, announced)

\* There are two endpoints.
LEMMA Pair ==
  ASSUME NEW e \in Endpoint
  PROVE  /\ Peer(e) \in Endpoint /\ Peer(e) # e /\ Peer(Peer(e)) = e
         /\ \A f \in Endpoint : f = e \/ f = Peer(e)
  BY DEF Endpoint, Peer

\* The invariant holds before the attach ...
LEMMA HealthyInit == Init => HealthyInv
  <1> SUFFICES ASSUME Init PROVE HealthyInv
    OBVIOUS
  <1>1. HealthTypes
    BY DEF Init, HealthTypes
  <1>2. \A e \in Endpoint : Fresh(e)
    BY DEF Init, Fresh
  <1>3. \E c \in Configured : opts["server"] = Normalized(c)
    BY DEF Init, Endpoint
  <1>4. mode = "attach"
    BY DEF Init
  <1>5. QED
    BY <1>1, <1>2, <1>3, <1>4 DEF HealthyInv

\* The attach: what the client takes over, and a fresh transport.
LEMMA AttachHealthy ==
  ASSUME AllRoomy, TimedInv, TimedInv', HealthyInv, Attach
  PROVE  HealthyInv'
  <1>1. /\ mode = "attach" /\ UNCHANGED << writer, queued, wake, wire, silent, ack, works >>
        /\ HealthTypes /\ \A e \in Endpoint : Fresh(e)
    BY DEF Attach, running, HealthyInv
  <1>2. HealthTypes' /\ \A e \in Endpoint : Fresh(e)'
    BY <1>1 DEF HealthTypes, Fresh
  <1>3. PICK c \in Configured : opts["server"] = Normalized(c)
    BY <1>1 DEF HealthyInv
  <1> DEFINE announced == Normalized(c)
             accepted == Normalized(Decoded(announced))
  <1>4. mode' = "refused" \/ (mode' = "up" /\ opts' = [opts EXCEPT !["client"] = accepted])
    BY <1>3 DEF Attach
  <1>5. CASE mode' = "refused"
    BY <1>2, <1>5 DEF HealthyInv
  <1>6. CASE mode' = "up" /\ opts' = [opts EXCEPT !["client"] = accepted]
    <2>1. /\ opts'["server"] = announced /\ opts'["client"] = accepted
      BY <1>3, <1>6 DEF TimedInv, TimedTypes, Endpoint
    <2>2. announced.heartbeat_interval > 0 /\ accepted.heartbeat_interval > 0
      <3>1. announced \in Options /\ announced.heartbeat_interval > 0
        BY NormalizedFields, HeartbeatAssumption
      <3> HIDE DEF announced
      <3>2. QED
        BY <3>1, DecodedTyped, NormalizedFields
    <2>3. Roomy(announced, accepted) /\ Roomy(accepted, announced)
      BY DEF AllRoomy
    <2> HIDE DEF announced, accepted
    <2>4. \A e \in Endpoint : Roomy(opts'[e], opts'[Peer(e)]) /\ opts'[e].heartbeat_interval > 0
      BY <2>1, <2>2, <2>3 DEF Endpoint, Peer
    <2>5. ASSUME NEW e \in Endpoint, NEW p \in Endpoint PROVE Kept(e, p)'
      <3>1. /\ writer'[e].pc = "write" /\ ~writer'[e].dirty /\ ~ack'[e].due /\ ~ack'[e].timer
            /\ writer'[p].pc = "write" /\ ~writer'[p].dirty /\ ~ack'[p].due /\ ~ack'[p].timer
            /\ wire'[p] = << >> /\ silent'[e] = 0
        BY <1>2 DEF Fresh, Resume, NoAck
      <3>2. ~Owes(e)' /\ ~AckDue(e)' /\ ~Owes(p)' /\ ~AckDue(p)' /\ ~AckAhead(wire'[p])
            /\ ~On(wire'[p], "ack")
        BY <3>1, NothingOn DEF Owes, AckDue
      <3>3. Turn(e)' \in Nat /\ FlushTicks \in Nat
        <4>1. opts'[e] \in Options /\ FlushTicks \in Nat
          BY ResumeTyped DEF TimedInv, TimedTypes
        <4>2. opts'[e].ack_delay \in Nat
          BY <4>1, OptionNats
        <4>3. QED
          BY <4>1, <4>2 DEF Turn, Larger
      <3>4. Tidy(e, p)' /\ Remembered(e, p)'
        BY <3>1, <3>2 DEF Tidy, Remembered, Asleep
      <3>5. InTime(e, p)' /\ Heard(e, p)'
        BY <3>1, <3>2, <3>3 DEF InTime, Heard, Asleep
      <3>6. QED
        BY <3>4, <3>5 DEF Kept
    <2>6. \A e \in Endpoint : Kept(e, Peer(e))'
      BY <2>5, Pair
    <2>7. QED
      BY <1>2, <1>6, <2>4, <2>6 DEF HealthyInv
  <1>7. QED
    BY <1>4, <1>5, <1>6

\* A step leaves the types as they are.
LEMMA HealthTypesStep ==
  ASSUME HealthTypes, Next
  PROVE  HealthTypes'
  <1>1. CASE Attach
    BY <1>1 DEF Attach, running, HealthTypes
  <1>2. CASE Silenced
    <2>1. wire' \in [Endpoint -> Seq(Frames)]
      BY <1>2 DEF Silenced
    <2>2. QED
      BY <1>2, <2>1 DEF Silenced, HealthTypes
  <1>3. CASE Tick
    <2>1. silent' \in [Endpoint -> Nat]
      BY <1>3 DEF Tick, HealthTypes
    <2>2. QED
      BY <1>3, <2>1 DEF Tick, HealthTypes
  <1>4. ASSUME NEW e \in Endpoint, Step(e) PROVE HealthTypes'
    <2>1. ASSUME NEW type \in Frames, Write(e, type) PROVE wire' \in [Endpoint -> Seq(Frames)]
      <3>1. Peer(e) \in Endpoint
        BY Pair
      <3>2. wire \in [Endpoint -> Seq(Frames)] /\ Append(wire[Peer(e)], type) \in Seq(Frames)
        BY <2>1, <3>1 DEF HealthTypes
      <3>3. wire' = wire \/ wire' = [wire EXCEPT ![Peer(e)] = Append(wire[Peer(e)], type)]
        BY <2>1 DEF Write
      <3>4. QED
        BY <3>2, <3>3
    <2>2. CASE AppSend(e) \/ WriteNothing(e) \/ Flushed(e) \/ Signalled(e)
      BY <2>2 DEF AppSend, WriteNothing, Flushed, Signalled, HealthTypes
    <2>3. CASE WriteAck(e)
      BY <2>1, <2>3 DEF WriteAck, HealthTypes, Frames
    <2>4. CASE WriteQueued(e) \/ TakeFrame(e)
      BY <2>1, <2>4 DEF WriteQueued, TakeFrame, HealthTypes, Frames
    <2>5. CASE SleepEnds(e)
      BY <2>1, <2>5 DEF SleepEnds, HealthTypes, Frames
    <2>6. CASE ReadData(e) \/ ReadControl(e)
      <3>1. /\ wire[e] \in Seq(Frames) /\ wire[e] # << >>
            /\ wire' = [wire EXCEPT ![e] = Tail(wire[e])]
        BY <2>6 DEF ReadData, ReadControl, HealthTypes
      <3>2. Tail(wire[e]) \in Seq(Frames)
        BY <3>1
      <3>3. wire' \in [Endpoint -> Seq(Frames)]
        BY <3>1, <3>2 DEF HealthTypes
      <3>4. silent' = [silent EXCEPT ![e] = 0] /\ UNCHANGED << queued, works >>
        BY <2>6 DEF ReadData, ReadControl
      <3>5. wake' \in [Endpoint -> BOOLEAN]
        <4>1. ASSUME NEW b, wake' = [wake EXCEPT ![e] = wake[e] \/ b]
              PROVE  wake' \in [Endpoint -> BOOLEAN]
          <5>1. (wake[e] \/ b) \in BOOLEAN
            BY Zenon
          <5>2. wake \in [Endpoint -> BOOLEAN]
            BY DEF HealthTypes
          <5>3. QED
            BY <4>1, <5>1, <5>2
        <4>2. CASE ReadData(e)
          BY <4>1, <4>2 DEF ReadData
        <4>3. CASE ReadControl(e)
          BY <4>1, <4>3 DEF ReadControl
        <4>4. QED
          BY <2>6, <4>2, <4>3
      <3>6. silent' \in [Endpoint -> Nat]
        BY <3>4 DEF HealthTypes
      <3>7. QED
        BY <3>3, <3>4, <3>5, <3>6 DEF HealthTypes
    <2>7. CASE ReadTimeout(e)
      BY <2>7 DEF ReadTimeout, running, HealthTypes
    <2>8. QED
      BY <1>4, <2>2, <2>3, <2>4, <2>5, <2>6, <2>7 DEF Step
  <1>5. QED
    BY <1>1, <1>2, <1>3, <1>4 DEF Next

\* Within the limit nobody gives up.
LEMMA NoTimeout ==
  ASSUME NEW e \in Endpoint, NEW p \in Endpoint, Known(e), Known(p), Kept(e, p), Kept(p, e),
         Roomy(opts[e], opts[p]), wire[e] = << >>
  PROVE  silent[e] < opts[e].heartbeat_timeout
  <1>1. silent[e] <= Limit(e, p) + opts[p].ack_delay
    BY HeardWithin DEF Kept
  <1>2. Turn(e) + FlushTicks + opts[p].heartbeat_interval + opts[p].ack_delay
          < opts[e].heartbeat_timeout
    BY DEF Roomy, Turn
  <1>3. Turn(e) \in Nat /\ FlushTicks \in Nat /\ opts[p].heartbeat_interval \in Nat
        /\ opts[p].ack_delay \in Nat /\ opts[e].heartbeat_timeout \in Nat /\ silent[e] \in Nat
    BY DEF Known, Numbers
  <1>4. QED
    BY <1>1, <1>2, <1>3 DEF Limit

\* A step of an endpoint keeps both.
LEMMA StepKeeps ==
  ASSUME TimedInv, TimedInv', HealthyInv, mode = "up", works,
         NEW x \in Endpoint, NEW p \in Endpoint, x # p, p = Peer(x), x = Peer(p), Step(x),
         ~ReadTimeout(x)
  PROVE  Kept(x, p)' /\ Kept(p, x)'
  <1>1. TimedTypes /\ HealthTypes /\ Known(x) /\ Known(p) /\ Kept(x, p) /\ Kept(p, x)
    BY Knows DEF TimedInv, HealthyInv
  <1> DEFINE Carries(type) ==
               /\ wire'[p] = Append(wire[p], type) /\ wire'[x] = wire[x]
               /\ writer'[x] = Resume(TRUE) /\ writer'[p] = writer[p]
  <1>2. ASSUME NEW type, Write(x, type) PROVE Carries(type)
    BY <1>1, <1>2 DEF Write, TimedTypes, HealthTypes
  <1>3. wire[p] \in Seq(Frames)
    BY <1>1 DEF HealthTypes
  <1>4. CASE AppSend(x)
    BY <1>1, <1>4, SendKeeps
  <1>5. CASE WriteAck(x)
    <2>1. /\ Carries("ack") /\ writer[x].pc = "write" /\ AckDue(x)
          /\ ack'[x] = NoAck /\ ack'[p] = ack[p]
          /\ UNCHANGED << opts, queued, wake, silent >>
      BY <1>1, <1>2, <1>5 DEF WriteAck, TimedTypes
    <2>2. "ack" \in Frames
      BY DEF Frames
    <2>3. QED
      BY <1>1, <1>3, <2>1, <2>2, WritesKeeps
  <1>6. CASE WriteQueued(x) \/ TakeFrame(x)
    <2>1. /\ Carries("data") /\ queued[x] /\ queued'[p] = queued[p]
          /\ UNCHANGED << opts, ack, wake, silent >>
      BY <1>1, <1>2, <1>6 DEF WriteQueued, TakeFrame, HealthTypes
    <2>2. "data" \in Frames
      BY DEF Frames
    <2>3. QED
      BY <1>1, <1>3, <2>1, <2>2, WritesKeeps
  <1>7. CASE WriteNothing(x)
    BY <1>1, <1>7, FlushKeeps
  <1>8. CASE Flushed(x)
    BY <1>1, <1>8, FlushedKeeps
  <1>9. CASE Signalled(x)
    <2>1. /\ writer[x].pc = "wait" /\ wake[x] /\ wake'[p] = wake[p]
          /\ writer'[x] = Resume(FALSE) /\ writer'[p] = writer[p]
          /\ UNCHANGED << opts, queued, wire, silent, ack >>
      BY <1>1, <1>9 DEF Signalled, TimedTypes, HealthTypes
    <2>2. QED
      BY <1>1, <2>1, ResumesKeeps
  <1>10. CASE SleepEnds(x) /\ writer[x].beat
    <2>1. /\ Carries("ping") /\ writer[x].pc = "wait" /\ writer[x].left = 0
          /\ UNCHANGED << opts, queued, ack, wake, silent >>
      BY <1>2, <1>10 DEF SleepEnds
    <2>2. "ping" \in Frames
      BY DEF Frames
    <2>3. QED
      BY <1>1, <1>3, <1>10, <2>1, <2>2, WritesKeeps
  <1>11. CASE SleepEnds(x) /\ ~writer[x].beat
    <2>1. /\ writer[x].pc = "wait" /\ writer[x].left = 0
          /\ writer'[x] = Resume(FALSE) /\ writer'[p] = writer[p]
          /\ UNCHANGED << opts, queued, wake, wire, silent, ack >>
      BY <1>1, <1>11 DEF SleepEnds, TimedTypes
    <2>2. QED
      BY <1>1, <1>11, <2>1, ResumesKeeps
  <1>12. CASE ReadData(x) \/ ReadControl(x)
    <2>1. mode' = "up" /\ ack'[x] \in Acks
      BY <1>12 DEF ReadData, ReadControl, TimedInv, TimedTypes
    <2>2. ack'[x].left \in Nat
      BY <2>1 DEF Acks
    <2>3. Bounds(x)'
      <3>1. Patience(x)' /\ Late(x)' /\ TimedTypes'
        BY DEF TimedInv
      <3>2. ASSUME Owes(x)', ~AckDue(x)' PROVE ack'[x].left <= opts'[x].ack_delay
        <4>1. ack'[x].pending # 0
          BY <3>1, <3>2, ResumeTyped DEF Late, Owes
        <4>2. age'[x] + ack'[x].left = opts'[x].ack_delay
          BY <3>1, <3>2, <4>1 DEF Late
        <4>3. age'[x] \in Nat /\ opts'[x] \in Options
          BY <3>1 DEF TimedTypes
        <4>4. opts'[x].ack_delay \in Nat
          BY <4>3, OptionNats
        <4>5. QED
          BY <2>2, <4>2, <4>3, <4>4
      <3>3. QED
        BY <3>1, <3>2 DEF Bounds, Patience
    <2>4. QED
      BY <1>1, <1>12, <2>2, <2>3, ReadsKeeps
  <1>13. QED
    BY <1>4, <1>5, <1>6, <1>7, <1>8, <1>9, <1>10, <1>11, <1>12 DEF Step

\* ... and every step keeps it.
LEMMA HealthyStep ==
  ASSUME AllRoomy, TimedInv, TimedInv', HealthyInv, [Next]_vars
  PROVE  HealthyInv'
  <1>1. CASE UNCHANGED vars
    <2>1. HealthTypes' /\ \A e \in Endpoint : Fresh(e)' <=> Fresh(e)
      BY <1>1 DEF vars, HealthyInv, HealthTypes, Fresh
    <2>2. ASSUME NEW e \in Endpoint, NEW p \in Endpoint, Kept(e, p) PROVE Kept(e, p)'
      <3>1. Tidy(e, p)' <=> Tidy(e, p)
        BY <1>1 DEF vars, Tidy
      <3>2. Remembered(e, p)' <=> Remembered(e, p)
        BY <1>1 DEF vars, Remembered, Answered, Owes, AckDue, Asleep
      <3>3. InTime(e, p)' <=> InTime(e, p)
        BY <1>1 DEF vars, InTime, Owes, AckDue, Ahead, Turn
      <3>4. Heard(e, p)' <=> Heard(e, p)
        BY <1>1 DEF vars, Heard, Owes, AckDue, Asleep, Ahead, Turn, Limit
      <3>5. QED
        BY <2>2, <3>1, <3>2, <3>3, <3>4 DEF Kept
    <2>3. \A e \in Endpoint : Peer(e) \in Endpoint
      BY Pair
    <2>4. QED
      BY <1>1, <2>1, <2>2, <2>3 DEF vars, HealthyInv
  <1>2. CASE Attach
    BY <1>2, AttachHealthy
  <1> SUFFICES ASSUME Next, ~Attach PROVE HealthyInv'
    BY <1>1, <1>2
  <1>3. mode = "up" /\ opts' = opts /\ mode' \in {"up", "timed_out"} /\ HealthTypes'
    <2>1. HealthTypes'
      BY HealthTypesStep DEF HealthyInv
    <2>2. CASE Silenced \/ Tick
      BY <2>1, <2>2 DEF Silenced, Tick
    <2>3. ASSUME NEW e \in Endpoint, Step(e)
          PROVE  mode = "up" /\ opts' = opts /\ mode' \in {"up", "timed_out"}
      BY <2>3 DEF Step, AppSend, WriteAck, WriteQueued, WriteNothing, Flushed, Signalled,
           TakeFrame, SleepEnds, ReadData, ReadControl, ReadTimeout
    <2>4. QED
      BY <2>1, <2>2, <2>3 DEF Next
  <1>4. \A e \in Endpoint : Roomy(opts[e], opts[Peer(e)]) /\ opts[e].heartbeat_interval > 0
    BY <1>3 DEF HealthyInv
  \* What is left to show of a step that gives nothing up.
  <1>5. ASSUME mode' = "up", works' => \A e \in Endpoint : Kept(e, Peer(e))' PROVE HealthyInv'
    BY <1>3, <1>4, <1>5 DEF HealthyInv
  <1>6. CASE Silenced
    BY <1>3, <1>5, <1>6 DEF Silenced
  <1>7. works => \A e \in Endpoint : /\ Known(e) /\ Kept(e, Peer(e))
                                     /\ Known(Peer(e)) /\ Kept(Peer(e), e)
    BY <1>3, Knows, Pair DEF HealthyInv
  <1>8. CASE Tick
    <2>1. mode' = "up" /\ works' = works
      BY <1>3, <1>8 DEF Tick
    <2>2. ASSUME works, NEW e \in Endpoint PROVE Kept(e, Peer(e))'
      <3>1. /\ Peer(e) \in Endpoint /\ Peer(e) # e /\ Peer(Peer(e)) = e
            /\ Known(e) /\ Known(Peer(e)) /\ Kept(e, Peer(e)) /\ Kept(Peer(e), e)
        BY <1>7, <2>2, Pair
      <3>2. TimedTypes /\ HealthTypes
        BY DEF TimedInv, HealthyInv
      <3>3. QED
        BY <1>8, <3>1, <3>2, TickKeeps
    <2>3. QED
      BY <1>5, <2>1, <2>2
  <1>9. ASSUME NEW x \in Endpoint, Step(x) PROVE HealthyInv'
    <2>1. Peer(x) \in Endpoint /\ Peer(x) # x /\ Peer(Peer(x)) = x
          /\ \A f \in Endpoint : f = x \/ f = Peer(x)
      BY Pair
    <2>2. CASE ReadTimeout(x)
      <3>1. mode' = "timed_out" /\ works' = works
        BY <2>2 DEF ReadTimeout, running
      <3>2. ASSUME works PROVE FALSE
        <4>1. wire[x] = << >> /\ silent[x] >= opts[x].heartbeat_timeout
          BY <2>2 DEF ReadTimeout
        <4>2. /\ Known(x) /\ Known(Peer(x)) /\ Kept(x, Peer(x)) /\ Kept(Peer(x), x)
              /\ Roomy(opts[x], opts[Peer(x)])
          BY <1>4, <1>7, <3>2
        <4>3. silent[x] < opts[x].heartbeat_timeout
          BY <2>1, <4>1, <4>2, NoTimeout
        <4>4. silent[x] \in Nat /\ opts[x].heartbeat_timeout \in Nat
          BY <4>2 DEF Known, Numbers
        <4>5. QED
          BY <4>1, <4>3, <4>4
      <3>3. QED
        BY <1>3, <1>4, <3>1, <3>2 DEF HealthyInv
    <2>3. CASE ~ReadTimeout(x)
      <3>1. mode' = "up" /\ works' = works
        BY <1>3, <1>9, <2>3 DEF Step, AppSend, WriteAck, WriteQueued, WriteNothing, Flushed,
           Signalled, TakeFrame, SleepEnds, ReadData, ReadControl
      <3>2. ASSUME works PROVE Kept(x, Peer(x))' /\ Kept(Peer(x), x)'
        BY <1>3, <1>9, <2>1, <2>3, <3>2, StepKeeps
      <3>3. works' => \A e \in Endpoint : Kept(e, Peer(e))'
        BY <2>1, <3>1, <3>2
      <3>4. QED
        BY <1>5, <3>1, <3>3
    <2>4. QED
      BY <2>2, <2>3
  <1>10. QED
    BY <1>6, <1>8, <1>9 DEF Next

\* A transport that works is never given up, however applications send and
\* however signals start the wait of flush_and_wait anew (read_frame_within,
\* next_ack_wait, min_wait), if no ack_delay exceeds its heartbeat_interval and each
\* heartbeat_timeout leaves room for the other's heartbeat_interval and ack_delay,
\* the longer of the own ack_delay and a flush, and a flush.  The source asks for
\* two intervals only.
THEOREM WorkingIsKept ==
  ASSUME AllRoomy
  PROVE  Spec => []HealthyIsKept
  <1>1. TimedInv /\ [Next]_vars => TimedInv'
    BY TimedStep
  <1>2. TimedInv /\ TimedInv' /\ HealthyInv /\ [Next]_vars => HealthyInv'
    BY HealthyStep
  <1>3. HealthyInv => HealthyIsKept
    BY DEF HealthyInv, HealthyIsKept
  <1>4. QED
    BY <1>1, <1>2, <1>3, TimedInit, HealthyInit, PTL DEF Spec

-----------------------------------------------------------------------------
(* Connecting: the invariant.                                              *)

\* What handshake_client writes.
Hello == [type |-> "hello", version |-> version, codecs |-> client.codecs,
          max_frame |-> client.max_frame]

\* What the two sides settle on.
Settled(c) ==
  /\ Elements(client.codecs) \cap Elements(server.codecs) # {}
  /\ version = 3 => server.recovery
  /\ c = Config(version, SelectCodec(client.codecs, server.codecs),
                NegotiateMaxFrame(client.max_frame, server.max_frame))

SettingsInv ==
  /\ client \in [codecs : CodecLists, max_frame : MaxFrames, recovery : BOOLEAN,
                 deadline : BOOLEAN]
  /\ server \in [codecs : CodecLists, max_frame : MaxFrames, recovery : BOOLEAN]
  /\ pc \in {"dial", "hello", "attach", "connected", "failed"}
  /\ dials \in 0 .. MaxDials

\* v2 after an offer of v3 is the answer of a server without recovery.
VersionInv ==
  /\ version \in {2, 3}
  /\ version = 3 => client.recovery
  /\ version = 2 => ~client.recovery \/ ~server.recovery

\* One message at a time is on its way, and answers what the other side wrote.
MessageInv ==
  /\ up \in BOOLEAN /\ (~up => toServer = Nothing /\ toClient = Nothing)
  /\ toServer = Nothing \/ toClient = Nothing
  /\ toServer \in {Nothing, Hello, [type |-> "attach"]}
  /\ toServer.type = "hello" => pc = "hello"
  /\ toServer.type = "attach" => pc = "attach"
  /\ toClient \in {Nothing, HandshakeReply(Hello), [type |-> "attached"]}
  /\ toClient.type = "reply" =>
       /\ pc = "hello"
       /\ toClient.accept => Settled(served)
                             /\ served = Config(version, toClient.codec_id, toClient.max_frame)
  /\ toClient.type = "attached" => pc = "attach"

\* Once the client has read the reply, both sides are settled.
ConfigInv ==
  /\ {config.max_frame, served.max_frame} \subseteq MaxFrames \cup {0}
  /\ pc = "attach" => version = 3
  /\ pc \in {"attach", "connected"} => config = served /\ Settled(config)

ConnectInv == SettingsInv /\ VersionInv /\ MessageInv /\ ConfigInv

-----------------------------------------------------------------------------
(* The codec.                                                              *)

\* A set of natural numbers has a least one.
LEMMA LeastIndex ==
  ASSUME NEW T, T \subseteq Nat, T # {}
  PROVE  \E i \in T : \A j \in T : ~(j < i)
<1>1. PICK i \in T : \A j \in T : << j, i >> \notin OpToRel(<, Nat)
  BY WFMin, NatLessThanWellFounded, Zenon
<1>2. \A j \in T : ~(j < i)
  BY <1>1, Zenon DEF OpToRel
<1> QED BY <1>2

\* FirstOf chooses the first element of the list that is in S.
LEMMA FirstOfIsFirst ==
  ASSUME NEW list \in Seq(Nat), NEW S, Elements(list) \cap S # {}
  PROVE  \E i \in 1 .. Len(list) :
           /\ FirstOf(list, S) = list[i] /\ list[i] \in S
           /\ \A j \in 1 .. i - 1 : list[j] \notin S
<1> DEFINE T == {i \in 1 .. Len(list) : list[i] \in S}
           P(i) == list[i] \in S /\ \A j \in 1 .. i - 1 : list[j] \notin S
<1>1. Len(list) \in Nat
  OBVIOUS
<1>2. T \subseteq Nat /\ T # {}
  BY <1>1 DEF Elements
<1>3. PICK i \in T : \A j \in T : ~(j < i)
  BY <1>2, LeastIndex, Zenon
<1>4. \A j \in 1 .. i - 1 : j \in 1 .. Len(list) /\ j < i
  BY <1>1, <1>3
<1>5. \E k \in 1 .. Len(list) : P(k)
  BY <1>3, <1>4, Zenon
<1> DEFINE c == CHOOSE k \in 1 .. Len(list) : P(k)
<1>6. c \in 1 .. Len(list) /\ P(c)
  BY <1>5, Zenon
<1>7. FirstOf(list, S) = list[c]
  BY DEF FirstOf
<1> HIDE DEF c
<1> QED BY <1>6, <1>7

-----------------------------------------------------------------------------
(* The handshake.                                                          *)

\* What a server answers to the offer of its client.
LEMMA ReplyIsSettled ==
  ASSUME SettingsInv, VersionInv
  PROVE  LET reply == HandshakeReply(Hello) IN
         /\ reply.type = "reply"
         /\ reply.accept => /\ reply.version = version
                            /\ Settled(Config(version, reply.codec_id, reply.max_frame))
         /\ reply.version = 2 /\ version = 3 => ~server.recovery
BY DEF SettingsInv, VersionInv, HandshakeReply, Hello, Reply, ReplyVersion, Settled, Config

\* The negotiated limit is one of the two, or none.
LEMMA NegotiatedIsFrame ==
  ASSUME SettingsInv
  PROVE  NegotiateMaxFrame(client.max_frame, server.max_frame) \in MaxFrames \cup {0}
BY DEF SettingsInv, NegotiateMaxFrame

\* Before the first dial nothing is on its way.
LEMMA ConnectInvInit == ConnectInit => ConnectInv
<1> SUFFICES ASSUME ConnectInit PROVE ConnectInv
  OBVIOUS
<1>1. SettingsInv
  BY ConnectAssumption DEF ConnectInit, SettingsInv
<1>2. VersionInv
  BY DEF ConnectInit, VersionInv, FirstVersion
<1>3. MessageInv
  BY DEF ConnectInit, MessageInv, Nothing
<1>4. ConfigInv
  BY DEF ConnectInit, ConfigInv, NoConfig
<1> QED BY <1>1, <1>2, <1>3, <1>4 DEF ConnectInv

\* A dial starts an attempt afresh.
LEMMA DialInv == ASSUME ConnectInv, Dial PROVE ConnectInv'
<1>1. SettingsInv'
  BY ConnectAssumption DEF ConnectInv, SettingsInv, Dial, settings
<1>2. VersionInv'
  BY DEF ConnectInv, VersionInv, Dial, settings
<1>3. MessageInv'
  BY DEF MessageInv, Dial, settings, Nothing, Hello
<1>4. ConfigInv'
  BY DEF ConnectInv, ConfigInv, Dial, settings, NoConfig
<1> QED BY <1>1, <1>2, <1>3, <1>4 DEF ConnectInv

\* A dial that fails starts over with the first version.
LEMMA DialFailsInv == ASSUME ConnectInv, DialFails PROVE ConnectInv'
<1>1. SettingsInv'
  BY ConnectAssumption DEF ConnectInv, SettingsInv, DialFails, settings
<1>2. VersionInv'
  BY DEF ConnectInv, VersionInv, DialFails, settings, FirstVersion
<1>3. MessageInv'
  BY DEF ConnectInv, MessageInv, DialFails, settings, Nothing, Hello, HandshakeReply, Reply
<1>4. ConfigInv'
  BY DEF ConnectInv, ConfigInv, DialFails, settings
<1> QED BY <1>1, <1>2, <1>3, <1>4 DEF ConnectInv

\* The transport is dropped, and the client fails or goes on.
LEMMA DropInv ==
  ASSUME ConnectInv, Drop, UNCHANGED << settings, dials, config, served >>,
         pc' \in {"dial", "failed", pc}, VersionInv', pc' = pc => version' = version
  PROVE  ConnectInv'
<1>1. SettingsInv'
  BY DEF ConnectInv, SettingsInv, settings
<1>2. MessageInv'
  BY DEF MessageInv, Drop, Nothing
<1>3. ConfigInv'
  BY DEF ConnectInv, ConfigInv, Settled, settings
<1> QED BY <1>1, <1>2, <1>3 DEF ConnectInv

\* An attempt that fails falls back to v2 only from a server without recovery.
LEMMA FailsInv ==
  ASSUME ConnectInv, NEW reply, Fails(reply), pc \in {"hello", "attach"},
         FallsBack(reply) => ~server.recovery
  PROVE  ConnectInv'
<1>1. VersionInv' /\ pc' \in {"dial", "failed"} /\ (pc' = pc => version' = version)
  BY DEF ConnectInv, VersionInv, Fails, FallsBack, settings
<1> QED BY <1>1, DropInv DEF Fails

\* The deadline ends the attempt with its transport.
LEMMA TimeoutInv == ASSUME ConnectInv, Timeout PROVE ConnectInv'
<1>1. VersionInv'
  BY DEF ConnectInv, VersionInv, Timeout, settings
<1> QED BY <1>1, DropInv DEF Timeout

\* A transport is lost with what is on its way.
LEMMA LostInv == ASSUME ConnectInv, Lost PROVE ConnectInv'
<1>1. VersionInv'
  BY DEF ConnectInv, VersionInv, Lost, settings
<1> QED BY <1>1, DropInv DEF Lost

\* The reply that the client rejects is the answer to its offer.
LEMMA ReadRejectedInv == ASSUME ConnectInv, ReadRejected PROVE ConnectInv'
<1>1. toClient = HandshakeReply(Hello)
  BY DEF ConnectInv, MessageInv, ReadRejected, Nothing
<1>2. FallsBack(toClient) => ~server.recovery
  BY <1>1, ReplyIsSettled DEF ConnectInv, FallsBack
<1> QED BY <1>2, FailsInv DEF ReadRejected

\* Without a reply there is no fallback.
LEMMA ReadFailsInv == ASSUME ConnectInv, ReadFails PROVE ConnectInv'
<1>1. ~FallsBack(Nothing)
  BY DEF FallsBack, Nothing
<1> QED BY <1>1, FailsInv DEF ReadFails

\* The client takes from the reply what the server has settled on.
LEMMA ReadReplyInv == ASSUME ConnectInv, ReadReply PROVE ConnectInv'
<1>1. /\ toClient = HandshakeReply(Hello) /\ toClient.accept /\ toServer = Nothing
      /\ served = config' /\ Settled(config')
  BY DEF ConnectInv, MessageInv, ReadReply, Rejects, Nothing
<1>2. SettingsInv'
  BY DEF ConnectInv, SettingsInv, ReadReply, settings
<1>3. VersionInv'
  BY DEF ConnectInv, VersionInv, ReadReply, settings
<1>4. MessageInv'
  BY <1>1 DEF ConnectInv, MessageInv, VersionInv, ReadReply, settings, Nothing
<1>5. ConfigInv'
  BY <1>1 DEF ConnectInv, ConfigInv, VersionInv, ReadReply, settings, Settled
<1> QED BY <1>2, <1>3, <1>4, <1>5 DEF ConnectInv

\* The attach response changes nothing that was settled.
LEMMA ReadAttachedInv == ASSUME ConnectInv, ReadAttached PROVE ConnectInv'
<1>1. SettingsInv'
  BY DEF ConnectInv, SettingsInv, ReadAttached, settings
<1>2. VersionInv'
  BY DEF ConnectInv, VersionInv, ReadAttached, settings
<1>3. MessageInv'
  BY DEF ConnectInv, MessageInv, ReadAttached, settings, Nothing
<1>4. ConfigInv'
  BY DEF ConnectInv, ConfigInv, ReadAttached, settings, Settled
<1> QED BY <1>1, <1>2, <1>3, <1>4 DEF ConnectInv

\* The server settles on what it answers.
LEMMA ServerHelloInv == ASSUME ConnectInv, ServerHello PROVE ConnectInv'
<1> DEFINE reply == HandshakeReply(Hello)
<1>1. toServer = Hello /\ pc = "hello" /\ Hello.type = "hello"
  BY DEF ConnectInv, MessageInv, ServerHello, Nothing, Hello
<1>2. /\ reply.type = "reply"
      /\ reply.accept => /\ reply.version = version
                         /\ Settled(Config(version, reply.codec_id, reply.max_frame))
  BY ReplyIsSettled DEF ConnectInv
<1>3. UNCHANGED << client, server, version, pc, dials, config, up >> /\ toServer' = Nothing
      /\ toClient' = reply /\ reply' = reply /\ up
      /\ served' = IF reply.accept THEN Config(reply.version, reply.codec_id, reply.max_frame)
                   ELSE NoConfig
  BY <1>1 DEF ServerHello, settings, Hello, HandshakeReply, ReplyVersion
<1> HIDE DEF reply
<1>4. SettingsInv'
  BY <1>3 DEF ConnectInv, SettingsInv
<1>5. VersionInv'
  BY <1>3 DEF ConnectInv, VersionInv
<1>6. MessageInv'
  BY <1>1, <1>2, <1>3 DEF MessageInv, Nothing, Settled, reply
<1>7. ConfigInv'
  <2>1. served'.max_frame \in MaxFrames \cup {0}
    BY <1>2, <1>3, NegotiatedIsFrame DEF ConnectInv, Settled, Config, NoConfig
  <2> QED BY <2>1, <1>1, <1>3 DEF ConnectInv, ConfigInv
<1> QED BY <1>4, <1>5, <1>6, <1>7 DEF ConnectInv

\* Nor does the attach request.
LEMMA ServerAttachInv == ASSUME ConnectInv, ServerAttach PROVE ConnectInv'
<1>1. SettingsInv'
  BY DEF ConnectInv, SettingsInv, ServerAttach, settings
<1>2. VersionInv'
  BY DEF ConnectInv, VersionInv, ServerAttach, settings
<1>3. MessageInv'
  BY DEF ConnectInv, MessageInv, ServerAttach, settings, Nothing
<1>4. ConfigInv'
  BY DEF ConnectInv, ConfigInv, ServerAttach, settings, Settled
<1> QED BY <1>1, <1>2, <1>3, <1>4 DEF ConnectInv

\* Every step of connecting keeps the invariant.
LEMMA ConnectInvStep == ConnectInv /\ [ConnectNext]_connectVars => ConnectInv'
<1> SUFFICES ASSUME ConnectInv, [ConnectNext]_connectVars PROVE ConnectInv'
  OBVIOUS
<1>1. CASE UNCHANGED connectVars
  BY <1>1 DEF connectVars, settings, ConnectInv, SettingsInv, VersionInv, MessageInv,
     ConfigInv, Settled, Hello,
     HandshakeReply, ReplyVersion
<1>2. CASE ConnectNext
  BY <1>2, DialInv, DialFailsInv, TimeoutInv, ReadReplyInv, ReadRejectedInv,
     ReadAttachedInv,
     ReadFailsInv, ServerHelloInv, ServerAttachInv, LostInv DEF ConnectNext
<1> QED BY <1>1, <1>2

\* The invariant holds.
LEMMA ConnectInvHolds == ConnectSpec => []ConnectInv
<1> QED BY ConnectInvInit, ConnectInvStep, PTL DEF ConnectSpec

-----------------------------------------------------------------------------
(* What it says of a connection.                                           *)

\* What was settled is what Agreed asks for.
LEMMA SettledAgrees == ConnectInv => Agreed
<1> SUFFICES ASSUME ConnectInv, pc = "connected" PROVE Agreed
  BY DEF Agreed
<1> DEFINE offered == client.codecs
           supported == Elements(server.codecs)
<1>1. /\ config = served /\ Elements(offered) \cap supported # {}
      /\ config = Config(version, FirstOf(offered, supported),
                         NegotiateMaxFrame(client.max_frame, server.max_frame))
  BY DEF ConnectInv, ConfigInv, Settled, SelectCodec
<1>2. offered \in Seq(Nat) /\ client.max_frame \in Nat /\ server.max_frame \in Nat
  BY ConnectAssumption DEF ConnectInv, SettingsInv
<1> HIDE DEF offered, supported
<1>3. PICK i \in 1 .. Len(offered) :
        /\ FirstOf(offered, supported) = offered[i] /\ offered[i] \in supported
        /\ \A j \in 1 .. i - 1 : offered[j] \notin supported
  BY <1>1, <1>2, FirstOfIsFirst
<1>4. config.codec_id = offered[i]
  BY <1>1, <1>3 DEF Config
<1>5. ASSUME NEW k \in 1 .. Len(offered), offered[k] \in supported
      PROVE  \E j \in 1 .. k : offered[j] = config.codec_id
  <2>1. i \in 1 .. k
    BY <1>2, <1>3, <1>5
  <2> QED BY <2>1, <1>4
<1>6. config.max_frame <= client.max_frame /\ config.max_frame <= server.max_frame
  BY <1>1, <1>2 DEF Config, NegotiateMaxFrame
<1> QED BY <1>1, <1>3, <1>4, <1>5, <1>6 DEF Agreed, offered, supported

\* A connection has recovery if both sides want it, and only then.
LEMMA SettledRecovers == ConnectInv => RecoveryIfBothWant
BY DEF ConnectInv, SettingsInv, VersionInv, ConfigInv, Settled, Config, RecoveryIfBothWant

\* The types follow from the invariant.
LEMMA ConnectTypes == ConnectInv => ConnectTypeOK
<1> SUFFICES ASSUME ConnectInv PROVE ConnectTypeOK
  OBVIOUS
<1>1. toServer.type = "attach" => served.version = 3
  BY DEF ConnectInv, MessageInv, ConfigInv, Settled, Config
<1>2. pc \in {"dial", "hello", "attach", "connected", "failed"} /\ dials \in 0 .. MaxDials
  BY DEF ConnectInv, SettingsInv
<1> QED
  BY <1>1, <1>2 DEF ConnectInv, VersionInv, MessageInv, ConfigInv, ConnectTypeOK

\* Writing and reading frames leaves the connection as it is.
LEMMA FramesNeedNoConnect == FramingSpec => ConnectSpec
<1>1. FramingInit => ConnectInit
  BY DEF FramingInit
<1>2. [FramingNext]_<< connectVars, link >> => [ConnectNext]_connectVars
  BY DEF FramingNext, WriteFrame, Shut, Cut, ReadBytes, ReadEnd
<1> QED BY <1>1, <1>2, PTL DEF FramingSpec, ConnectSpec

\* Once connected, both sides use one version, codec and max frame: the
\* first codec of the client that the server supports, and the smaller limit
\* (handshake_client, handshake_server).
THEOREM ConnectedAgree == FramingSpec => []Agreed
BY ConnectInvHolds, FramesNeedNoConnect, SettledAgrees, PTL

\* A client that wants recovery gets it from every server that offers it,
\* whatever dials fail and whatever transports are lost (connect_attempt).
THEOREM RecoveryWhenBothWant == FramingSpec => []RecoveryIfBothWant
BY ConnectInvHolds, FramesNeedNoConnect, SettledRecovers, PTL

\* Types; only a v3 connection attaches.
THEOREM ConnectTypesHold == FramingSpec => []ConnectTypeOK
BY ConnectInvHolds, FramesNeedNoConnect, ConnectTypes, PTL

-----------------------------------------------------------------------------
(* Integers as bytes.                                                      *)

\* The values of a byte.
Byte == 0 .. Base - 1

\* Quotient and remainder.
LEMMA DivMod ==
  ASSUME NEW a \in Nat, NEW p \in Nat \ {0}
  PROVE  /\ a \div p \in Nat /\ a % p \in 0 .. p - 1
         /\ p * (a \div p) + (a % p) = a
<1>1. a \div p \in Nat
  OBVIOUS
<1>2. a % p \in 0 .. p - 1
  OBVIOUS
<1>3. p * (a \div p) + (a % p) = a
  OBVIOUS
<1> QED BY <1>1, <1>2, <1>3

\* The upper half of a number of twice the width is a number of that width.
LEMMA UpperHalf ==
  ASSUME NEW p \in Nat \ {0}, NEW a \in 0 .. p * p - 1
  PROVE  a \div p \in 0 .. p - 1 /\ a % p \in 0 .. p - 1
<1> DEFINE d == a \div p
           m == a % p
<1>1. p * p \in Nat /\ a \in Nat
  OBVIOUS
<1>2. d \in Nat /\ m \in 0 .. p - 1 /\ p * d + m = a
  BY <1>1, DivMod
<1> HIDE DEF d, m
<1>3. p * d <= a
  BY <1>1, <1>2
<1>4. ASSUME d >= p PROVE FALSE
  <2>1. p * d >= p * p
    BY <1>2, <1>4
  <2> QED BY <2>1, <1>1, <1>2, <1>3
<1>5. d \in 0 .. p - 1
  BY <1>2, <1>4
<1> QED BY <1>2, <1>5 DEF d, m

\* There are at least four values of a byte, as there are flags and versions.
LEMMA Widths ==
  /\ Base \in Nat \ {0} /\ U16 \in Nat \ {0} /\ U32 \in Nat \ {0} /\ U64 \in Nat \ {0}
  /\ U16 >= 16 /\ U32 >= 256
<1>1. Base \in Nat /\ Base > 3
  BY FramingAssumption
<1>2. Base * Base \in Nat /\ 4 * Base <= Base * Base
  BY <1>1
<1>3. U16 \in Nat /\ U16 >= 16
  BY <1>1, <1>2 DEF U16
<1>4. U16 * U16 \in Nat /\ 16 * U16 <= U16 * U16
  BY <1>3
<1>5. U32 \in Nat /\ U32 >= 256
  BY <1>3, <1>4 DEF U32
<1>6. U32 * U32 \in Nat /\ 256 * U32 <= U32 * U32
  BY <1>5
<1>7. U64 \in Nat \ {0}
  BY <1>5, <1>6 DEF U64
<1> QED BY <1>1, <1>3, <1>5, <1>7

\* What to_be_bytes writes is bytes, and from_be_bytes reads it back.
LEMMA RoundTrip16 ==
  ASSUME NEW n \in 0 .. U16 - 1
  PROVE  /\ U16Bytes(n) \in Seq(Byte) /\ Len(U16Bytes(n)) = 2
         /\ FromU16(U16Bytes(n)) = n
<1> DEFINE h == n \div Base
           l == n % Base
<1>1. h \in Byte /\ l \in Byte
  BY Widths, UpperHalf DEF U16, Byte
<1>2. Base * h + l = n
  BY Widths, DivMod
<1>3. U16Bytes(n) = << h, l >>
  BY DEF U16Bytes
<1> HIDE DEF h, l
<1>4. U16Bytes(n) \in Seq(Byte) /\ Len(U16Bytes(n)) = 2
  BY <1>1, <1>3
<1>5. FromU16(U16Bytes(n)) = h * Base + l
  BY <1>3 DEF FromU16
<1>6. h * Base + l = n
  BY <1>1, <1>2, Widths DEF Byte
<1> QED BY <1>4, <1>5, <1>6

\* The bytes of the two halves.
LEMMA Halves ==
  ASSUME NEW S, NEW s \in Seq(S), NEW t \in Seq(S)
  PROVE  /\ s \o t \in Seq(S) /\ Len(s \o t) = Len(s) + Len(t)
         /\ SubSeq(s \o t, 1, Len(s)) = s
         /\ SubSeq(s \o t, Len(s) + 1, Len(s) + Len(t)) = t
OBVIOUS

\* A u32.
LEMMA RoundTrip32 ==
  ASSUME NEW n \in 0 .. U32 - 1
  PROVE  /\ U32Bytes(n) \in Seq(Byte) /\ Len(U32Bytes(n)) = 4
         /\ FromU32(U32Bytes(n)) = n
<1> DEFINE h == n \div U16
           l == n % U16
<1>1. h \in 0 .. U16 - 1 /\ l \in 0 .. U16 - 1
  BY Widths, UpperHalf DEF U32
<1>2. U16 * h + l = n
  BY Widths, DivMod
<1> HIDE DEF h, l
<1> DEFINE W == U32Bytes(n)
           H == U16Bytes(h)
           L == U16Bytes(l)
<1>3. /\ H \in Seq(Byte) /\ Len(H) = 2 /\ FromU16(H) = h
      /\ L \in Seq(Byte) /\ Len(L) = 2 /\ FromU16(L) = l
  BY <1>1, RoundTrip16
<1>4. W = H \o L
  BY DEF W, U32Bytes, h, l, H, L
<1> HIDE DEF W, H, L
<1>5. /\ W \in Seq(Byte) /\ Len(W) = Len(H) + Len(L)
      /\ SubSeq(W, 1, Len(H)) = H /\ SubSeq(W, Len(H) + 1, Len(H) + Len(L)) = L
  <2>1. H \in Seq(Byte) /\ L \in Seq(Byte)
    BY <1>3
  <2> QED BY <2>1, <1>4, Halves
<1>6. Len(W) = 4 /\ SubSeq(W, 1, 2) = H /\ SubSeq(W, 3, 4) = L
  BY <1>3, <1>5
<1>7. FromU32(W) = h * U16 + l
  BY <1>3, <1>6 DEF FromU32
<1>8. h * U16 + l = n
  BY <1>1, <1>2, Widths
<1> QED BY <1>5, <1>6, <1>7, <1>8 DEF W

\* A u64, a sequence number.
LEMMA RoundTrip64 ==
  ASSUME NEW n \in 0 .. U64 - 1
  PROVE  /\ U64Bytes(n) \in Seq(Byte) /\ Len(U64Bytes(n)) = 8
         /\ FromU64(U64Bytes(n)) = n
<1> DEFINE h == n \div U32
           l == n % U32
<1>1. h \in 0 .. U32 - 1 /\ l \in 0 .. U32 - 1
  BY Widths, UpperHalf DEF U64
<1>2. U32 * h + l = n
  BY Widths, DivMod
<1> HIDE DEF h, l
<1> DEFINE W == U64Bytes(n)
           H == U32Bytes(h)
           L == U32Bytes(l)
<1>3. /\ H \in Seq(Byte) /\ Len(H) = 4 /\ FromU32(H) = h
      /\ L \in Seq(Byte) /\ Len(L) = 4 /\ FromU32(L) = l
  BY <1>1, RoundTrip32
<1>4. W = H \o L
  BY DEF W, U64Bytes, h, l, H, L
<1> HIDE DEF W, H, L
<1>5. /\ W \in Seq(Byte) /\ Len(W) = Len(H) + Len(L)
      /\ SubSeq(W, 1, Len(H)) = H /\ SubSeq(W, Len(H) + 1, Len(H) + Len(L)) = L
  <2>1. H \in Seq(Byte) /\ L \in Seq(Byte)
    BY <1>3
  <2> QED BY <2>1, <1>4, Halves
<1>6. Len(W) = 8 /\ SubSeq(W, 1, 4) = H /\ SubSeq(W, 5, 8) = L
  BY <1>3, <1>5
<1>7. FromU64(W) = h * U32 + l
  BY <1>3, <1>6 DEF FromU64
<1>8. h * U32 + l = n
  BY <1>1, <1>2, Widths
<1> QED BY <1>5, <1>6, <1>7, <1>8 DEF W

-----------------------------------------------------------------------------
(* Frames as bytes.                                                        *)

\* What a configuration is, as the frames need it.
Terms(c) == c.version \in {2, 3} /\ c.max_frame \in 0 .. U32 - 1

\* The frames that a connection with this configuration carries.
FramesOf(c) ==
  [stream_id : 0 .. U32 - 1, seq : IF c.version = 3 THEN 0 .. U64 - 1 ELSE {0},
   flags : SUPPORTED_FRAME_FLAGS, size : 0 .. c.max_frame]

Encoding(c, f) == BuildHeader(c, f) \o [i \in 1 .. f.size |-> 1]

\* s holds t after its first k elements.
Holds(s, t, k) == \A i \in 1 .. Len(t) : s[i + k] = t[i]

\* Four fields, one after the other.
LEMMA FourFields ==
  ASSUME NEW S, NEW a \in Seq(S), NEW b \in Seq(S), NEW d \in Seq(S), NEW e \in Seq(S)
  PROVE  LET s == a \o b \o d \o e IN
         /\ s \in Seq(S) /\ Len(s) = Len(a) + Len(b) + Len(d) + Len(e)
         /\ Holds(s, a, 0) /\ Holds(s, b, Len(a)) /\ Holds(s, d, Len(a) + Len(b))
         /\ Holds(s, e, Len(a) + Len(b) + Len(d))
BY DEF Holds

\* The bytes of a header.
LEMMA HeaderBytes ==
  ASSUME NEW c, Terms(c), NEW f \in FramesOf(c)
  PROVE  LET h == BuildHeader(c, f) IN
         /\ h \in Seq(Byte) /\ Len(h) = FrameHeaderLen(c.version)
         /\ h[1] = c.version /\ h[2] = f.flags
         /\ \A i \in 1 .. 4 : h[i + 2] = U32Bytes(f.stream_id)[i] /\ h[i + 6] = U32Bytes(f.size)[i]
         /\ c.version = 3 => \A i \in 1 .. 8 : h[i + 10] = U64Bytes(f.seq)[i]
<1> DEFINE a == << c.version, f.flags >>
           b == U32Bytes(f.stream_id)
           d == U32Bytes(f.size)
           e == U64Bytes(IF c.version = 3 THEN f.seq ELSE 0)
           s == a \o b \o d \o e
           n == FrameHeaderLen(c.version)
           h == SubSeq(s, 1, n)
<1>1. a \in Seq(Byte) /\ Len(a) = 2 /\ a[1] = c.version /\ a[2] = f.flags
  BY FramingAssumption DEF Terms, FramesOf, SUPPORTED_FRAME_FLAGS, Byte
<1>2. f.stream_id \in 0 .. U32 - 1 /\ f.size \in 0 .. U32 - 1
  BY Widths DEF Terms, FramesOf
<1>3. b \in Seq(Byte) /\ Len(b) = 4 /\ d \in Seq(Byte) /\ Len(d) = 4
  BY <1>2, RoundTrip32
<1>4. (IF c.version = 3 THEN f.seq ELSE 0) \in 0 .. U64 - 1
  BY Widths DEF FramesOf
<1>5. e \in Seq(Byte) /\ Len(e) = 8
  BY <1>4, RoundTrip64
<1>6. c.version = 3 => e = U64Bytes(f.seq)
  OBVIOUS
<1> HIDE DEF a, b, d, e
<1>7. /\ s \in Seq(Byte) /\ Len(s) = 18
      /\ \A i \in 1 .. 2 : s[i] = a[i]
      /\ \A i \in 1 .. 4 : s[i + 2] = b[i] /\ s[i + 6] = d[i]
      /\ \A i \in 1 .. 8 : s[i + 10] = e[i]
  <2> DEFINE p == Len(a)
             q == Len(b)
             r == Len(d)
             u == Len(e)
  <2>1. p = 2 /\ q = 4 /\ r = 4 /\ u = 8
    BY <1>1, <1>3, <1>5
  <2>2. a \in Seq(Byte) /\ b \in Seq(Byte) /\ d \in Seq(Byte) /\ e \in Seq(Byte)
    BY <1>1, <1>3, <1>5
  <2>3. p \in Nat /\ q \in Nat /\ r \in Nat /\ u \in Nat
    BY <2>2
  <2>4. /\ s \in Seq(Byte) /\ Len(s) = p + q + r + u
        /\ Holds(s, a, 0) /\ Holds(s, b, p) /\ Holds(s, d, p + q) /\ Holds(s, e, p + q + r)
    BY <2>2, FourFields, Zenon
  <2>5. /\ \A i \in 1 .. p : s[i + 0] = a[i]
        /\ \A i \in 1 .. q : s[i + p] = b[i]
        /\ \A i \in 1 .. r : s[i + (p + q)] = d[i]
        /\ \A i \in 1 .. u : s[i + (p + q + r)] = e[i]
    BY <2>4, Zenon DEF Holds
  <2> HIDE DEF p, q, r, u, s
  <2>6. (\A i \in 1 .. 2 : s[i] = a[i]) /\ Len(s) = 18
    BY <2>1, <2>4, <2>5
  <2>7. /\ \A i \in 1 .. 4 : s[i + 2] = b[i]
        /\ \A i \in 1 .. 4 : s[i + 6] = d[i]
        /\ \A i \in 1 .. 8 : s[i + 10] = e[i]
    BY <2>1, <2>5
  <2> QED BY <2>4, <2>6, <2>7
<1> HIDE DEF s
<1>8. n \in {10, 18} /\ (c.version = 3 <=> n = 18)
  BY DEF Terms, FrameHeaderLen
<1> HIDE DEF n
<1>9. h \in Seq(Byte) /\ Len(h) = n /\ \A i \in 1 .. n : h[i] = s[i]
  <2>1. s \in Seq(Byte) /\ n \in 0 .. Len(s)
    BY <1>7, <1>8
  <2> QED BY <2>1
<1> HIDE DEF h
<1>10. h[1] = c.version /\ h[2] = f.flags
  BY <1>1, <1>7, <1>8, <1>9
<1>11. \A i \in 1 .. 4 : h[i + 2] = b[i] /\ h[i + 6] = d[i]
  <2>1. ASSUME NEW i \in 1 .. 4 PROVE h[i + 2] = b[i] /\ h[i + 6] = d[i]
    <3>1. i + 2 \in 1 .. n /\ i + 6 \in 1 .. n
      BY <1>8
    <3> QED BY <3>1, <1>7, <1>9
  <2> QED BY <2>1
<1>12. c.version = 3 => \A i \in 1 .. 8 : h[i + 10] = e[i]
  <2>1. ASSUME c.version = 3, NEW i \in 1 .. 8 PROVE h[i + 10] = e[i]
    <3>1. i + 10 \in 1 .. n
      BY <1>8, <2>1
    <3> QED BY <3>1, <1>7, <1>9
  <2> QED BY <2>1
<1>13. BuildHeader(c, f) = h
  BY DEF BuildHeader, h, s, n, a, b, d, e
<1> QED BY <1>6, <1>9, <1>10, <1>11, <1>12, <1>13 DEF n, b, d

\* parse_header of a buffer that starts with a header that build_header built.
THEOREM HeaderReadBack ==
  ASSUME NEW c, Terms(c), NEW f \in FramesOf(c), NEW bytes_read \in Seq(Byte),
         Len(bytes_read) >= FrameHeaderLen(c.version),
         \A i \in 1 .. FrameHeaderLen(c.version) : bytes_read[i] = BuildHeader(c, f)[i]
  PROVE  HeaderOK(c, bytes_read) /\ ParseHeader(c, bytes_read) = f
<1> DEFINE h == BuildHeader(c, f)
           n == FrameHeaderLen(c.version)
           w == bytes_read
<1>1. /\ h[1] = c.version /\ h[2] = f.flags
      /\ \A i \in 1 .. 4 : h[i + 2] = U32Bytes(f.stream_id)[i] /\ h[i + 6] = U32Bytes(f.size)[i]
      /\ c.version = 3 => \A i \in 1 .. 8 : h[i + 10] = U64Bytes(f.seq)[i]
  BY HeaderBytes
<1>2. n \in {10, 18} /\ (c.version = 3 => n = 18)
  BY DEF Terms, FrameHeaderLen
<1>3. w \in Seq(Byte) /\ Len(w) \in Nat /\ Len(w) >= n /\ \A i \in 1 .. n : w[i] = h[i]
  OBVIOUS
<1>4. /\ f.stream_id \in 0 .. U32 - 1 /\ f.size \in 0 .. U32 - 1
      /\ f.flags \in SUPPORTED_FRAME_FLAGS
      /\ IF c.version = 3 THEN f.seq \in 0 .. U64 - 1 ELSE f.seq = 0
  BY Widths DEF Terms, FramesOf
<1> HIDE DEF h, n, w
<1>5. ASSUME NEW lo \in {2, 6}, NEW x \in 0 .. U32 - 1,
             \A i \in 1 .. 4 : h[i + lo] = U32Bytes(x)[i]
      PROVE  FromU32(SubSeq(w, lo + 1, lo + 4)) = x
  <2> DEFINE v == SubSeq(w, lo + 1, lo + 4)
             u == U32Bytes(x)
  <2>1. u \in Seq(Byte) /\ Len(u) = 4 /\ FromU32(u) = x
    BY RoundTrip32
  <2>2. v \in Seq(Byte) /\ Len(v) = 4 /\ \A i \in 1 .. 4 : v[i] = w[i + lo]
    BY <1>2, <1>3
  <2>3. \A i \in 1 .. 4 : i + lo \in 1 .. n
    BY <1>2
  <2> HIDE DEF u, v
  <2>4. \A i \in 1 .. 4 : v[i] = u[i]
    BY <1>3, <1>5, <2>2, <2>3 DEF u
  <2>5. v = u
    BY <2>1, <2>2, <2>4, SeqEqual
  <2> QED BY <2>1, <2>5 DEF v
<1>6. FromU32(SubSeq(w, 3, 6)) = f.stream_id /\ FromU32(SubSeq(w, 7, 10)) = f.size
  <2>1. FromU32(SubSeq(w, 2 + 1, 2 + 4)) = f.stream_id
    BY <1>1, <1>4, <1>5
  <2>2. FromU32(SubSeq(w, 6 + 1, 6 + 4)) = f.size
    BY <1>1, <1>4, <1>5
  <2> QED BY <2>1, <2>2
<1>7. ASSUME c.version = 3 PROVE FromU64(SubSeq(w, 11, 18)) = f.seq
  <2> DEFINE v == SubSeq(w, 11, 18)
             u == U64Bytes(f.seq)
  <2>1. u \in Seq(Byte) /\ Len(u) = 8 /\ FromU64(u) = f.seq
    BY <1>4, <1>7, RoundTrip64
  <2>2. v \in Seq(Byte) /\ Len(v) = 8 /\ \A i \in 1 .. 8 : v[i] = w[i + 10]
    BY <1>2, <1>3, <1>7
  <2>3. \A i \in 1 .. 8 : i + 10 \in 1 .. n
    BY <1>2, <1>7
  <2> HIDE DEF u, v
  <2>4. \A i \in 1 .. 8 : v[i] = u[i]
    <3>1. ASSUME NEW i \in 1 .. 8 PROVE v[i] = u[i]
      <4>1. v[i] = w[i + 10] /\ w[i + 10] = h[i + 10]
        BY <1>3, <2>2, <2>3
      <4>2. h[i + 10] = u[i]
        BY <1>1, <1>7 DEF u
      <4> QED BY <4>1, <4>2
    <3> QED BY <3>1
  <2>5. v = u
    BY <2>1, <2>2, <2>4, SeqEqual
  <2> QED BY <2>1, <2>5 DEF v
<1>8. w[1] = c.version /\ w[2] = f.flags
  BY <1>1, <1>2, <1>3
<1>9. HeaderOK(c, w)
  BY <1>3, <1>4, <1>8 DEF HeaderOK, n
<1>10. ParseHeader(c, w) = Frame(f.stream_id, f.seq, f.flags, f.size)
  BY <1>4, <1>6, <1>7, <1>8 DEF ParseHeader
<1>11. Frame(f.stream_id, f.seq, f.flags, f.size) = f
  BY DEF Frame, FramesOf
<1> QED BY <1>9, <1>10, <1>11 DEF w

-----------------------------------------------------------------------------
(* What the reader has yet to read.                                        *)

\* stream is the encodings of frames, one after the other; the i-th ends at off[i].
Layout(c, frames, stream, off) ==
  /\ stream \in Seq(Byte)
  /\ off \in [0 .. Len(frames) -> Nat]
  /\ off[0] = 0 /\ off[Len(frames)] = Len(stream)
  /\ \A i, j \in 0 .. Len(frames) : i < j => off[i] < off[j]
  /\ \A i \in 1 .. Len(frames) :
       /\ off[i] = off[i - 1] + Len(Encoding(c, frames[i]))
       /\ Holds(stream, Encoding(c, frames[i]), off[i - 1])

\* rest is the end of a stream with the encodings of frames, from the end of the
\* k-th on.
RestOf(c, frames, k, rest, stream, off) ==
  /\ Layout(c, frames, stream, off)
  /\ Len(rest) = Len(stream) - off[k]
  /\ Holds(stream, rest, off[k])

Pending(c, frames, k, rest) == \E stream, off : RestOf(c, frames, k, rest, stream, off)

\* A frame is encoded as its header and then its payload.
LEMMA EncodingIsBytes ==
  ASSUME NEW c, Terms(c), NEW f \in FramesOf(c)
  PROVE  /\ Encoding(c, f) \in Seq(Byte)
         /\ Len(Encoding(c, f)) = FrameHeaderLen(c.version) + f.size
         /\ Len(Encoding(c, f)) \in Nat \ {0}
         /\ Holds(Encoding(c, f), BuildHeader(c, f), 0)
<1> DEFINE h == BuildHeader(c, f)
           p == [i \in 1 .. f.size |-> 1]
<1>1. h \in Seq(Byte) /\ Len(h) = FrameHeaderLen(c.version)
  BY HeaderBytes
<1>2. f.size \in Nat /\ 1 \in Byte
  BY FramingAssumption, Widths DEF Terms, FramesOf, Byte
<1>3. p \in Seq(Byte) /\ Len(p) = f.size
  BY <1>2
<1>4. Encoding(c, f) = h \o p
  BY DEF Encoding
<1>5. FrameHeaderLen(c.version) \in Nat \ {0}
  BY DEF FrameHeaderLen
<1> HIDE DEF h, p
<1>6. h \o p \in Seq(Byte) /\ Len(h \o p) = Len(h) + Len(p) /\ Holds(h \o p, h, 0)
  <2>1. h \in Seq(Byte) /\ p \in Seq(Byte)
    BY <1>1, <1>3
  <2> QED BY <2>1 DEF Holds
<1>7. Len(Encoding(c, f)) = FrameHeaderLen(c.version) + f.size
  BY <1>1, <1>3, <1>4, <1>6
<1>8. Encoding(c, f) \in Seq(Byte) /\ Holds(Encoding(c, f), BuildHeader(c, f), 0)
  BY <1>4, <1>6 DEF h
<1> QED BY <1>2, <1>5, <1>7, <1>8

\* Nothing is written, and nothing is left.
LEMMA NothingPending ==
  ASSUME NEW c
  PROVE  Pending(c, << >>, 0, << >>)
<1>1. RestOf(c, << >>, 0, << >>, << >>, [i \in 0 .. 0 |-> 0])
  BY DEF RestOf, Layout, Holds
<1> QED BY <1>1 DEF Pending

\* The first of the frames that are left is at the front.
LEMMA FirstPending ==
  ASSUME NEW c, NEW frames \in Seq(FramesOf(c)), NEW k \in 0 .. Len(frames) - 1,
         NEW rest \in Seq(Byte), Terms(c), Pending(c, frames, k, rest)
  PROVE  LET e == Encoding(c, frames[k + 1]) IN
         /\ Len(e) <= Len(rest) /\ Holds(rest, e, 0)
         /\ Pending(c, frames, k + 1, SubSeq(rest, Len(e) + 1, Len(rest)))
<1>1. PICK stream, off : RestOf(c, frames, k, rest, stream, off)
  BY DEF Pending
<1> DEFINE e == Encoding(c, frames[k + 1])
           after == SubSeq(rest, Len(e) + 1, Len(rest))
<1>2. Len(frames) \in Nat /\ k + 1 \in 1 .. Len(frames) /\ frames[k + 1] \in FramesOf(c)
  OBVIOUS
<1>3. e \in Seq(Byte) /\ Len(e) \in Nat
  BY <1>2, EncodingIsBytes
<1>4. off[k + 1] = off[k] + Len(e) /\ Holds(stream, e, off[k])
  BY <1>1, <1>2 DEF RestOf, Layout
<1>5. /\ off[k] \in Nat /\ off[k + 1] \in Nat /\ off[k + 1] <= Len(stream)
      /\ Len(rest) = Len(stream) - off[k] /\ Holds(stream, rest, off[k])
      /\ Len(stream) \in Nat
  <2>1. Len(stream) \in Nat /\ Len(rest) = Len(stream) - off[k] /\ Holds(stream, rest, off[k])
    BY <1>1 DEF RestOf, Layout
  <2>2. /\ off \in [0 .. Len(frames) -> Nat] /\ off[Len(frames)] = Len(stream)
        /\ \A i, j \in 0 .. Len(frames) : i < j => off[i] < off[j]
    BY <1>1 DEF RestOf, Layout
  <2>3. off[k] \in Nat /\ off[k + 1] \in Nat
    <3>1. k \in 0 .. Len(frames) /\ k + 1 \in 0 .. Len(frames)
      BY <1>2
    <3> QED BY <3>1, <2>2
  <2>4. off[k + 1] <= Len(stream)
    BY <1>2, <2>1, <2>2, <2>3
  <2> QED BY <2>1, <2>3, <2>4
<1> HIDE DEF e
<1>6. Len(e) <= Len(rest)
  BY <1>3, <1>4, <1>5
<1>7. Holds(rest, e, 0)
  <2>1. ASSUME NEW i \in 1 .. Len(e) PROVE rest[i + 0] = e[i]
    <3>1. i \in 1 .. Len(rest) /\ i + 0 = i
      BY <1>3, <1>6
    <3>2. stream[i + off[k]] = e[i] /\ stream[i + off[k]] = rest[i]
      BY <1>4, <1>5, <3>1 DEF Holds
    <3> QED BY <3>1, <3>2
  <2> QED BY <2>1 DEF Holds
<1>8. /\ Len(after) = Len(rest) - Len(e)
      /\ \A i \in 1 .. Len(after) : after[i] = rest[i + Len(e)]
  BY <1>3, <1>6
<1> HIDE DEF after
<1>9. Holds(stream, after, off[k + 1])
  <2>1. ASSUME NEW i \in 1 .. Len(after) PROVE stream[i + off[k + 1]] = after[i]
    <3>1. i + Len(e) \in 1 .. Len(rest)
      BY <1>3, <1>6, <1>8
    <3>2. stream[(i + Len(e)) + off[k]] = rest[i + Len(e)]
      BY <1>5, <3>1 DEF Holds
    <3>3. (i + Len(e)) + off[k] = i + off[k + 1]
      BY <1>3, <1>4, <1>5
    <3> QED BY <1>8, <3>2, <3>3
  <2> QED BY <2>1 DEF Holds
<1>10. Len(after) = Len(stream) - off[k + 1]
  BY <1>3, <1>4, <1>5, <1>8
<1>11. RestOf(c, frames, k + 1, after, stream, off)
  BY <1>1, <1>9, <1>10 DEF RestOf
<1> QED BY <1>6, <1>7, <1>11 DEF Pending, after, e

\* If every frame was taken, nothing is left.
LEMMA AllTaken ==
  ASSUME NEW c, NEW frames \in Seq(FramesOf(c)), NEW rest \in Seq(Byte),
         Pending(c, frames, Len(frames), rest)
  PROVE  rest = << >>
<1>1. PICK stream, off : RestOf(c, frames, Len(frames), rest, stream, off)
  BY DEF Pending
<1>2. Len(stream) \in Nat /\ Len(rest) = Len(stream) - Len(stream)
  BY <1>1 DEF RestOf, Layout
<1>3. Len(rest) = 0
  BY <1>2
<1> QED BY <1>3, EmptySeq

\* A frame is written behind what is left.
LEMMA AppendPending ==
  ASSUME NEW c, NEW frames \in Seq(FramesOf(c)), NEW k \in 0 .. Len(frames),
         NEW rest \in Seq(Byte), NEW f \in FramesOf(c), Terms(c), Pending(c, frames, k, rest)
  PROVE  Pending(c, Append(frames, f), k, rest \o Encoding(c, f))
<1>1. PICK stream, off : RestOf(c, frames, k, rest, stream, off)
  BY DEF Pending
<1> DEFINE n == Len(frames)
           more == Append(frames, f)
           e == Encoding(c, f)
           stream2 == stream \o e
           rest2 == rest \o e
           off2 == [i \in 0 .. n + 1 |-> IF i = n + 1 THEN off[n] + Len(e) ELSE off[i]]
<1>2. /\ n \in Nat /\ Len(more) = n + 1 /\ more[n + 1] = f
      /\ \A i \in 1 .. n : more[i] = frames[i] /\ frames[i] \in FramesOf(c)
  OBVIOUS
<1>3. e \in Seq(Byte) /\ Len(e) \in Nat \ {0}
  BY EncodingIsBytes
<1>4. /\ stream \in Seq(Byte) /\ Len(stream) \in Nat
      /\ off \in [0 .. n -> Nat] /\ off[0] = 0 /\ off[n] = Len(stream)
      /\ \A i, j \in 0 .. n : i < j => off[i] < off[j]
      /\ \A i \in 1 .. n : /\ off[i] = off[i - 1] + Len(Encoding(c, frames[i]))
                           /\ Holds(stream, Encoding(c, frames[i]), off[i - 1])
      /\ Len(rest) = Len(stream) - off[k] /\ Holds(stream, rest, off[k])
  BY <1>1 DEF RestOf, Layout
<1> HIDE DEF e, n, more
<1>5. /\ stream2 \in Seq(Byte) /\ Len(stream2) = Len(stream) + Len(e)
      /\ \A i \in 1 .. Len(stream) : stream2[i] = stream[i]
      /\ \A i \in 1 .. Len(e) : stream2[i + Len(stream)] = e[i]
  <2>1. stream2 \in Seq(Byte) /\ Len(stream2) = Len(stream) + Len(e)
    BY <1>3, <1>4
  <2>2. \A i \in 1 .. Len(stream) : stream2[i] = stream[i]
    BY <1>3, <1>4
  <2>3. \A i \in 1 .. Len(e) : stream2[i + Len(stream)] = e[i]
    BY <1>3, <1>4
  <2> QED BY <2>1, <2>2, <2>3
<1>6. /\ rest2 \in Seq(Byte) /\ Len(rest2) = Len(rest) + Len(e)
      /\ \A i \in 1 .. Len(rest) : rest2[i] = rest[i]
      /\ \A i \in 1 .. Len(e) : rest2[i + Len(rest)] = e[i]
  <2>1. rest2 \in Seq(Byte) /\ Len(rest2) = Len(rest) + Len(e)
    BY <1>3
  <2>2. \A i \in 1 .. Len(rest) : rest2[i] = rest[i]
    BY <1>3
  <2>3. \A i \in 1 .. Len(e) : rest2[i + Len(rest)] = e[i]
    BY <1>3
  <2> QED BY <2>1, <2>2, <2>3
<1>7. /\ off2 \in [0 .. n + 1 -> Nat] /\ off2[n + 1] = Len(stream) + Len(e)
      /\ \A i \in 0 .. n : off2[i] = off[i] /\ off[i] \in Nat /\ off[i] <= Len(stream)
  <2>1. \A i \in 0 .. n : off[i] \in Nat /\ off[i] <= Len(stream)
    BY <1>2, <1>4
  <2> QED BY <1>2, <1>3, <1>4, <2>1
<1> HIDE DEF stream2, rest2, off2
<1>8. \A i, j \in 0 .. n + 1 : i < j => off2[i] < off2[j]
  <2>1. ASSUME NEW i \in 0 .. n + 1, NEW j \in 0 .. n + 1, i < j PROVE off2[i] < off2[j]
    <3>1. i \in 0 .. n
      BY <1>2, <2>1
    <3>2. CASE j = n + 1
      BY <3>1, <3>2, <1>3, <1>4, <1>7
    <3>3. CASE j \in 0 .. n
      BY <3>1, <3>3, <2>1, <1>4, <1>7
    <3> QED BY <1>2, <3>2, <3>3
  <2> QED BY <2>1
<1>9. ASSUME NEW i \in 1 .. n + 1
      PROVE  /\ off2[i] = off2[i - 1] + Len(Encoding(c, more[i]))
             /\ Holds(stream2, Encoding(c, more[i]), off2[i - 1])
  <2>1. CASE i = n + 1
    <3>1. i - 1 = n /\ off2[i - 1] = Len(stream) /\ Encoding(c, more[i]) = e
      BY <2>1, <1>2, <1>4, <1>7 DEF e
    <3>2. Holds(stream2, e, Len(stream))
      BY <1>5 DEF Holds
    <3> QED BY <2>1, <3>1, <3>2, <1>7
  <2>2. CASE i \in 1 .. n
    <3> DEFINE d == Encoding(c, frames[i])
    <3>1. i - 1 \in 0 .. n /\ i \in 0 .. n /\ more[i] = frames[i]
      BY <2>2, <1>2
    <3>2. d \in Seq(Byte) /\ Len(d) \in Nat
      BY <2>2, <1>2, EncodingIsBytes
    <3>3. off[i] = off[i - 1] + Len(d) /\ Holds(stream, d, off[i - 1])
      BY <2>2, <1>4
    <3>4. /\ off2[i] = off[i] /\ off2[i - 1] = off[i - 1]
          /\ off[i] <= Len(stream) /\ off[i - 1] \in Nat
      BY <3>1, <1>7
    <3> HIDE DEF d
    <3>5. ASSUME NEW j \in 1 .. Len(d) PROVE stream2[j + off[i - 1]] = d[j]
      <4>1. j + off[i - 1] \in 1 .. Len(stream)
        BY <3>2, <3>3, <3>4, <1>4
      <4>2. stream[j + off[i - 1]] = d[j]
        BY <3>3 DEF Holds
      <4> QED BY <4>1, <4>2, <1>5
    <3>6. Holds(stream2, d, off[i - 1])
      BY <3>5 DEF Holds
    <3> QED BY <3>1, <3>3, <3>4, <3>6 DEF d
  <2> QED BY <1>2, <2>1, <2>2
<1>10. Layout(c, more, stream2, off2)
  <2>1. off2[0] = 0 /\ off2[n + 1] = Len(stream2)
    BY <1>2, <1>4, <1>5, <1>7
  <2> QED BY <2>1, <1>2, <1>5, <1>7, <1>8, <1>9, Zenon DEF Layout
<1>11. k \in 0 .. n /\ off2[k] = off[k] /\ off[k] \in Nat /\ Len(rest) \in Nat
  BY <1>7 DEF n
<1>12. Len(rest2) = Len(stream2) - off2[k]
  BY <1>3, <1>4, <1>5, <1>6, <1>11
<1>13. Holds(stream2, rest2, off2[k])
  <2>1. ASSUME NEW i \in 1 .. Len(rest2) PROVE stream2[i + off[k]] = rest2[i]
    <3>1. CASE i \in 1 .. Len(rest)
      <4>1. stream[i + off[k]] = rest[i] /\ rest2[i] = rest[i]
        BY <3>1, <1>4, <1>6 DEF Holds
      <4>2. i + off[k] \in 1 .. Len(stream)
        BY <3>1, <1>4, <1>11
      <4> QED BY <4>1, <4>2, <1>5
    <3>2. CASE i \notin 1 .. Len(rest)
      <4> DEFINE j == i - Len(rest)
      <4>1. j \in 1 .. Len(e) /\ i = j + Len(rest) /\ i + off[k] = j + Len(stream)
        <5> DEFINE a == Len(rest)
                   b == Len(e)
                   d == Len(stream)
                   o == off[k]
        <5>1. a \in Nat /\ b \in Nat /\ d \in Nat /\ o \in Nat /\ a = d - o
          BY <1>3, <1>4, <1>11
        <5>2. i \in 1 .. a + b /\ i \notin 1 .. a
          BY <1>6, <3>2
        <5> HIDE DEF a, b, d, o
        <5>3. i - a \in 1 .. b /\ i = (i - a) + a /\ i + o = (i - a) + d
          BY <5>1, <5>2
        <5> QED BY <5>3 DEF a, b, d, o
      <4> HIDE DEF j
      <4>2. stream2[j + Len(stream)] = e[j]
        BY <4>1, <1>5
      <4>3. rest2[j + Len(rest)] = e[j]
        BY <4>1, <1>6
      <4>4. stream2[i + off[k]] = stream2[j + Len(stream)] /\ rest2[i] = rest2[j + Len(rest)]
        BY <4>1
      <4> QED BY <4>2, <4>3, <4>4
    <3> QED BY <3>1, <3>2
  <2> QED BY <2>1, <1>11 DEF Holds
<1>14. RestOf(c, more, k, rest2, stream2, off2)
  BY <1>10, <1>12, <1>13 DEF RestOf
<1> QED BY <1>14 DEF Pending, more, rest2, e

-----------------------------------------------------------------------------
(* The invariant of the frames.                                            *)

\* The state of the two ends, and when they are at work.
EndsInv ==
  /\ from \in {"none", "client", "server"} /\ failed \in BOOLEAN
  /\ transport \in {"up", "shut", "cut"}
  /\ reading \in {"header", "payload", "none", "error"}
  /\ bytes \in Seq(Byte) /\ buf \in Seq(Byte)
  /\ written \in Seq(FramesOf(config)) /\ Len(written) <= MaxWritten
  /\ from # "none" => pc = "connected"
  /\ from = "none" => /\ << written, got, bytes, buf >> = << << >>, << >>, << >>, << >> >>
                      /\ reading = "header" /\ transport = "up"

\* What was read is what was written first.
GotInv ==
  /\ got \in Seq(FramesOf(config)) /\ Len(got) <= Len(written)
  /\ \A i \in 1 .. Len(got) : got[i] = written[i]

\* While it reads, what the reader has of a frame and what is on its way are the
\* encodings of the frames that it has not read.
ReadingInv ==
  /\ reading \in {"header", "payload"} /\ transport # "cut" =>
       Pending(config, written, Len(got), buf \o bytes)
  /\ reading = "header" => Len(buf) < FrameHeaderLen(config.version)
  /\ reading = "payload" /\ transport # "cut" =>
       /\ Len(got) < Len(written)
       /\ FrameHeaderLen(config.version) <= Len(buf)
       /\ Len(buf) < Len(Encoding(config, written[Len(got) + 1]))

\* How the reader ends.
EndInv ==
  /\ transport = "cut" => bytes = << >>
  /\ reading = "error" => transport = "cut"
  /\ reading = "none" => /\ transport # "up" /\ buf = << >>
                         /\ transport = "shut" => Len(got) = Len(written)

FramingInv == ConnectInv /\ EndsInv /\ GotInv /\ ReadingInv /\ EndInv

-----------------------------------------------------------------------------
(* The configuration of a connection stays.                                *)

\* A connection is not established twice.
LEMMA ConnectedStays == ConnectInv /\ pc = "connected" => ~ConnectNext
BY DEF ConnectInv, MessageInv, ConnectNext, Dial, DialFails, Timeout, ReadReply,
   ReadRejected, ReadAttached,
   ReadFails, ServerHello, ServerAttach, Lost, Nothing

\* Both sides have the one that they settled on.
LEMMA ConnectedTerms ==
  ASSUME ConnectInv, pc = "connected"
  PROVE  Terms(config) /\ \A side \in {"client", "server"} : ConfigOf(side) = config
<1>1. config.version \in {2, 3} /\ config = served
  BY DEF ConnectInv, VersionInv, ConfigInv, Settled, Config
<1>2. config.max_frame \in 0 .. U32 - 1
  <2>1. config.max_frame \in MaxFrames \cup {0}
    BY DEF ConnectInv, ConfigInv
  <2>2. MaxFrames \subseteq 0 .. U32 - 1 /\ 0 \in 0 .. U32 - 1
    BY FramingAssumption, Widths
  <2> QED BY <2>1, <2>2
<1> QED BY <1>1, <1>2 DEF Terms, ConfigOf

\* Three sequences of bytes, one after the other.
LEMMA BytesAssociative ==
  \A s, t, u \in Seq(Byte) : (s \o t) \o u = s \o (t \o u)
BY ConcatAssociative

\* What the reader has read, with what it reads next.
LEMMA Piece ==
  ASSUME NEW taken \in Seq(Byte), NEW coming \in Seq(Byte), NEW n \in 1 .. Len(coming)
  PROVE  LET now == taken \o SubSeq(coming, 1, n)
             later == SubSeq(coming, n + 1, Len(coming))
             rest == taken \o coming IN
         /\ now \in Seq(Byte) /\ later \in Seq(Byte) /\ rest \in Seq(Byte)
         /\ Len(now) = Len(taken) + n
         /\ Len(now) <= Len(rest) /\ Len(rest) # 0
         /\ \A i \in 1 .. Len(now) : now[i] = rest[i]
         /\ now \o later = rest
         /\ later = SubSeq(rest, Len(now) + 1, Len(rest))
<1> DEFINE part == SubSeq(coming, 1, n)
           later == SubSeq(coming, n + 1, Len(coming))
           now == taken \o part
           rest == taken \o coming
<1>1. part \in Seq(Byte) /\ Len(part) = n /\ later \in Seq(Byte)
  OBVIOUS
<1>2. part \o later = coming
  OBVIOUS
<1>3. Len(coming) \in Nat /\ Len(taken) \in Nat
  OBVIOUS
<1>4. now \in Seq(Byte) /\ rest \in Seq(Byte)
  BY <1>1
<1>5. Len(now) = Len(taken) + n /\ Len(rest) = Len(taken) + Len(coming)
  <2> HIDE DEF part
  <2>1. part \in Seq(Byte)
    BY <1>1
  <2>2. Len(taken \o part) = Len(taken) + Len(part) /\ Len(rest) = Len(taken) + Len(coming)
    BY <2>1
  <2> QED BY <1>1, <2>2
<1>6. now \o later = rest
  <2> HIDE DEF part, later
  <2>1. (taken \o part) \o later = taken \o (part \o later)
    BY <1>1, BytesAssociative, Zenon
  <2> QED BY <2>1, <1>2
<1>7. /\ \A i \in 1 .. Len(now) : (now \o later)[i] = now[i]
      /\ SubSeq(now \o later, Len(now) + 1, Len(now) + Len(later)) = later
      /\ Len(now \o later) = Len(now) + Len(later)
  <2> HIDE DEF now, later
  <2>1. \A i \in 1 .. Len(now) : (now \o later)[i] = now[i]
    BY <1>1, <1>4
  <2>2. SubSeq(now \o later, Len(now) + 1, Len(now) + Len(later)) = later
    BY <1>1, <1>4, Halves
  <2>3. Len(now \o later) = Len(now) + Len(later)
    BY <1>1, <1>4
  <2> QED BY <2>1, <2>2, <2>3
<1> HIDE DEF now, later, rest
<1>8. Len(now) <= Len(rest) /\ Len(rest) # 0
  BY <1>3, <1>5
<1> QED BY <1>1, <1>4, <1>5, <1>6, <1>7, <1>8 DEF now, later, rest, part

-----------------------------------------------------------------------------
(* The steps.                                                              *)

\* Before the connection nothing is written.
LEMMA FramingInvInit == FramingInit => FramingInv
<1> SUFFICES ASSUME FramingInit PROVE FramingInv
  OBVIOUS
<1>1. ConnectInv
  BY ConnectInvInit DEF FramingInit
<1>2. EndsInv
  <2>1. << >> \in Seq(Byte) /\ << >> \in Seq(FramesOf(config)) /\ Len(<< >>) <= MaxWritten
    BY FramingAssumption, Widths
  <2> QED BY <2>1 DEF FramingInit, EndsInv
<1>3. GotInv
  BY DEF FramingInit, GotInv
<1>4. << >> \o << >> = << >>
  BY EmptySeq, ConcatEmptySeq
<1>5. ReadingInv
  BY <1>4, NothingPending DEF FramingInit, ReadingInv, FrameHeaderLen
<1>6. EndInv
  BY DEF FramingInit, EndInv
<1> QED BY <1>1, <1>2, <1>3, <1>5, <1>6 DEF FramingInv

\* While the client connects, nothing is written.
LEMMA ConnectStepFrames ==
  ASSUME FramingInv, ConnectNext, UNCHANGED link
  PROVE  FramingInv'
<1>1. ConnectInv'
  BY ConnectInvStep DEF FramingInv
<1>2. pc # "connected"
  BY ConnectedStays DEF FramingInv
<1>3. /\ from = "none" /\ written = << >> /\ got = << >> /\ bytes = << >> /\ buf = << >>
      /\ reading = "header" /\ transport = "up" /\ failed \in BOOLEAN
  BY <1>2 DEF FramingInv, EndsInv
<1>4. /\ from' = "none" /\ written' = << >> /\ got' = << >> /\ bytes' = << >> /\ buf' = << >>
      /\ reading' = "header" /\ transport' = "up" /\ failed' \in BOOLEAN
  BY <1>3 DEF link, reader
<1>5. EndsInv'
  BY <1>4, FramingAssumption, Widths DEF EndsInv
<1>6. GotInv'
  BY <1>4 DEF GotInv
<1>7. << >> \o << >> = << >>
  BY EmptySeq, ConcatEmptySeq
<1>8. ReadingInv'
  BY <1>4, <1>7, NothingPending DEF ReadingInv, FrameHeaderLen
<1>9. EndInv'
  BY <1>4 DEF EndInv
<1> QED BY <1>1, <1>5, <1>6, <1>8, <1>9 DEF FramingInv

\* A step that changes nothing.
LEMMA StutterFrames ==
  ASSUME FramingInv, UNCHANGED << connectVars, link >>
  PROVE  FramingInv'
<1>1. ConnectInv'
  BY ConnectInvStep DEF FramingInv
<1> QED BY <1>1 DEF FramingInv, EndsInv, GotInv, ReadingInv, EndInv, link, reader,
    connectVars

\* What is given to the writer is a frame, unless it is too large.
LEMMA GivenFrames ==
  ASSUME FramingInv, pc = "connected", Len(written) < MaxWritten,
         NEW f \in NextData(config) \cup NextControl(config), f.size <= config.max_frame
  PROVE  f \in FramesOf(config)
<1>1. Terms(config)
  BY ConnectedTerms DEF FramingInv
<1>2. Len(written) \in Nat /\ Len(written) + 1 \in 0 .. U64 - 1
  BY FramingAssumption, Widths DEF FramingInv, EndsInv
<1>3. CASE f \in NextData(config)
  <2>1. PICK m \in Messages :
          f = Frame(m.stream_id, IF config.version = 3 THEN Len(written) + 1 ELSE 0, m.flags, m.size)
    BY <1>3 DEF NextData
  <2>2. m.stream_id \in 0 .. U32 - 1 /\ m.flags \in SUPPORTED_FRAME_FLAGS /\ m.size \in Nat
    BY FramingAssumption
  <2> DEFINE seq == IF config.version = 3 THEN Len(written) + 1 ELSE 0
  <2>3. seq \in IF config.version = 3 THEN 0 .. U64 - 1 ELSE {0}
    BY <1>2
  <2> HIDE DEF seq
  <2>4. f = [stream_id |-> m.stream_id, seq |-> seq, flags |-> m.flags, size |-> m.size]
    BY <2>1 DEF Frame, seq
  <2>5. m.size \in 0 .. config.max_frame
    BY <1>1, <2>2, <2>4 DEF Terms
  <2> QED BY <2>2, <2>3, <2>4, <2>5 DEF FramesOf
<1>4. CASE f \in NextControl(config)
  <2>1. PICK size \in {9, 1} : f = Frame(CONTROL_STREAM_ID, 0, 0, size)
    BY <1>4 DEF NextControl
  <2>2. CONTROL_STREAM_ID \in 0 .. U32 - 1 /\ 0 \in 0 .. U64 - 1
    BY Widths DEF CONTROL_STREAM_ID
  <2> QED BY <1>1, <2>1, <2>2 DEF Frame, FramesOf, Terms, SUPPORTED_FRAME_FLAGS
<1> QED BY <1>3, <1>4

\* A frame is written behind what is left.
LEMMA WriteFrames ==
  ASSUME FramingInv, NEW side \in {"client", "server"},
         NEW f \in NextData(ConfigOf(side)) \cup NextControl(ConfigOf(side)), WriteFrame(side, f)
  PROVE  FramingInv'
<1> DEFINE e == Encoding(config, f)
           k == Len(got)
<1>1. pc = "connected" /\ ConnectInv
  BY DEF FramingInv, WriteFrame
<1>2. ConfigOf(side) = config /\ Terms(config)
  BY <1>1, ConnectedTerms
<1>3. /\ UNCHANGED << connectVars, reader, transport >> /\ transport = "up" /\ from' = side
      /\ Len(written) < MaxWritten
  BY DEF WriteFrame
<1>4. UNCHANGED << client, server, pc, version, dials, toServer, toClient, config, served, up >>
      /\ UNCHANGED << got, buf, reading >>
  BY <1>3 DEF connectVars, settings, reader
<1>5. ConnectInv'
  BY <1>1, <1>3, ConnectInvStep
<1>6. reading \in {"header", "payload"}
  BY <1>3 DEF FramingInv, EndsInv, EndInv
<1>7. CASE f.size > config.max_frame
  <2>1. failed' = TRUE /\ UNCHANGED << written, bytes >>
    BY <1>2, <1>7 DEF WriteFrame
  <2>2. EndsInv'
    BY <1>1, <1>3, <1>4, <2>1 DEF FramingInv, EndsInv
  <2>3. GotInv' /\ ReadingInv' /\ EndInv'
    BY <1>3, <1>4, <2>1 DEF FramingInv, GotInv, ReadingInv, EndInv
  <2> QED BY <1>5, <2>2, <2>3 DEF FramingInv
<1>8. CASE ~(f.size > config.max_frame)
  <2>1. f.size \in Nat
    <3>1. CASE f \in NextData(config)
      BY <3>1, FramingAssumption DEF NextData, Frame
    <3>2. CASE f \in NextControl(config)
      BY <3>2 DEF NextControl, Frame
    <3> QED BY <1>2, <3>1, <3>2
  <2>2. f \in FramesOf(config)
    <3>1. f.size <= config.max_frame
      BY <1>2, <1>8, <2>1 DEF Terms
    <3> QED BY <3>1, <1>1, <1>2, <1>3, GivenFrames
  <2>3. /\ written' = Append(written, f) /\ UNCHANGED failed
        /\ bytes' = bytes \o BuildHeader(config, f) \o [i \in 1 .. f.size |-> 1]
    BY <1>2, <1>8 DEF WriteFrame
  <2>4. /\ written \in Seq(FramesOf(config)) /\ got \in Seq(FramesOf(config))
        /\ bytes \in Seq(Byte) /\ buf \in Seq(Byte) /\ k \in 0 .. Len(written)
    BY DEF FramingInv, EndsInv, GotInv
  <2>5. e \in Seq(Byte)
    BY <1>2, <2>2, EncodingIsBytes
  <2>6. bytes' = bytes \o e
    <3>1. BuildHeader(config, f) \in Seq(Byte)
      BY <1>2, <2>2, HeaderBytes
    <3>2. [i \in 1 .. f.size |-> 1] \in Seq(Byte)
      BY <2>1, FramingAssumption DEF Byte
    <3> DEFINE h == BuildHeader(config, f)
               p == [i \in 1 .. f.size |-> 1]
    <3>3. bytes' = bytes \o h \o p /\ e = h \o p
      BY <2>3 DEF Encoding
    <3> HIDE DEF h, p, e
    <3>4. bytes \in Seq(Byte) /\ h \in Seq(Byte) /\ p \in Seq(Byte)
      BY <2>4, <3>1, <3>2 DEF h, p
    <3> QED BY <3>3, <3>4, BytesAssociative, Zenon
  <2> HIDE DEF e
  <2>7. buf \o bytes' = (buf \o bytes) \o e /\ bytes' \in Seq(Byte)
    <3>1. (buf \o bytes) \o e = buf \o (bytes \o e)
      BY <2>4, <2>5, BytesAssociative, Zenon
    <3>2. bytes \o e \in Seq(Byte)
      BY <2>4, <2>5
    <3> QED BY <2>6, <3>1, <3>2
  <2>8. /\ written' \in Seq(FramesOf(config)) /\ Len(written') = Len(written) + 1
        /\ \A i \in 1 .. Len(written) : written'[i] = written[i]
    BY <2>2, <2>3, <2>4, AppendProperties
  <2>9. Pending(config, written', k, buf \o bytes')
    <3>1. Pending(config, written, k, buf \o bytes) /\ buf \o bytes \in Seq(Byte)
      BY <1>3, <1>6, <2>4 DEF FramingInv, ReadingInv
    <3>2. Pending(config, Append(written, f), k, (buf \o bytes) \o e)
      BY <1>2, <2>2, <2>4, <3>1, AppendPending DEF e
    <3> QED BY <2>3, <2>7, <3>2
  <2>10. Len(written) \in Nat /\ Len(got) \in Nat
    BY <2>4
  <2>11. EndsInv'
    BY <1>1, <1>3, <1>4, <2>3, <2>7, <2>8, <2>10, FramingAssumption DEF FramingInv, EndsInv
  <2>12. GotInv'
    <3>1. got' \in Seq(FramesOf(config')) /\ Len(got') <= Len(written')
      BY <1>4, <2>4, <2>8, <2>10 DEF FramingInv, GotInv
    <3>2. \A i \in 1 .. Len(got') : got'[i] = written'[i]
      BY <1>4, <2>8, <2>10 DEF FramingInv, GotInv
    <3> QED BY <3>1, <3>2 DEF GotInv
  <2>13. ReadingInv'
    <3>1. reading = "payload" => /\ k < Len(written')
                                 /\ written'[k + 1] = written[k + 1]
      BY <1>3, <2>8, <2>10 DEF FramingInv, ReadingInv
    <3> HIDE DEF k
    <3>2. reading' = "header" => Len(buf') < FrameHeaderLen(config'.version)
      BY <1>4 DEF FramingInv, ReadingInv
    <3>3. reading' = "payload" =>
            /\ Len(got') < Len(written')
            /\ FrameHeaderLen(config'.version) <= Len(buf')
            /\ Len(buf') < Len(Encoding(config', written'[Len(got') + 1]))
      BY <1>3, <1>4, <3>1 DEF FramingInv, ReadingInv, k
    <3> QED BY <1>4, <2>9, <3>2, <3>3 DEF ReadingInv, k
  <2>14. EndInv'
    BY <1>3, <1>4, <1>6 DEF EndInv
  <2> QED BY <1>5, <2>11, <2>12, <2>13, <2>14 DEF FramingInv
<1> QED BY <1>7, <1>8

\* A writer that is done leaves what it wrote.
LEMMA ShutFrames == ASSUME FramingInv, Shut PROVE FramingInv'
<1>1. /\ UNCHANGED << client, server, pc, version, dials, toServer, toClient, config, served, up >>
      /\ UNCHANGED << from, written, failed, bytes, got, buf, reading >>
      /\ UNCHANGED connectVars
      /\ from # "none" /\ transport = "up" /\ transport' = "shut"
  BY DEF Shut, connectVars, settings, reader
<1>2. ConnectInv'
  BY <1>1, ConnectInvStep DEF FramingInv
<1>3. EndsInv' /\ GotInv'
  BY <1>1 DEF FramingInv, EndsInv, GotInv
<1>4. ReadingInv'
  BY <1>1 DEF FramingInv, ReadingInv
<1>5. EndInv'
  BY <1>1 DEF FramingInv, EndInv
<1> QED BY <1>2, <1>3, <1>4, <1>5 DEF FramingInv

\* A cut leaves nothing to read.
LEMMA CutFrames == ASSUME FramingInv, Cut PROVE FramingInv'
<1>1. /\ UNCHANGED << client, server, pc, version, dials, toServer, toClient, config, served, up >>
      /\ UNCHANGED << from, written, failed, got, buf, reading >> /\ bytes' = << >>
      /\ UNCHANGED connectVars
      /\ from # "none" /\ transport = "up" /\ transport' = "cut"
  BY DEF Cut, connectVars, settings, reader
<1>2. ConnectInv'
  BY <1>1, ConnectInvStep DEF FramingInv
<1>3. EndsInv' /\ GotInv'
  BY <1>1 DEF FramingInv, EndsInv, GotInv
<1>4. ReadingInv'
  BY <1>1 DEF FramingInv, ReadingInv
<1>5. EndInv'
  BY <1>1 DEF FramingInv, EndInv
<1> QED BY <1>2, <1>3, <1>4, <1>5 DEF FramingInv

\* A transport that was shut down ends at a frame boundary.
LEMMA EndFrames == ASSUME FramingInv, ReadEnd PROVE FramingInv'
<1>1. /\ UNCHANGED << client, server, pc, version, dials, toServer, toClient, config, served, up >>
      /\ UNCHANGED << from, written, failed, bytes, got, buf, transport >> /\ UNCHANGED connectVars
      /\ reading \in {"header", "payload"} /\ bytes = << >> /\ transport # "up"
      /\ reading' = IF AtBoundary THEN "none" ELSE "error"
  BY DEF ReadEnd, connectVars, settings
<1>2. ConnectInv'
  BY <1>1, ConnectInvStep DEF FramingInv
<1>3. from # "none" /\ pc = "connected"
  BY <1>1 DEF FramingInv, EndsInv
<1>4. EndsInv' /\ GotInv'
  BY <1>1, <1>3 DEF FramingInv, EndsInv, GotInv
<1>5. ReadingInv'
  BY <1>1 DEF FramingInv, ReadingInv
<1>6. ASSUME transport = "shut" PROVE AtBoundary /\ Len(got) = Len(written)
  <2>1. Terms(config)
    BY <1>3, ConnectedTerms DEF FramingInv
  <2>2. /\ buf \in Seq(Byte) /\ written \in Seq(FramesOf(config))
        /\ Len(got) \in Nat /\ Len(got) <= Len(written) /\ Len(written) \in Nat
    BY DEF FramingInv, EndsInv, GotInv
  <2>3. Pending(config, written, Len(got), buf)
    <3>1. buf \o << >> = buf
      BY <2>2, ConcatEmptySeq
    <3> QED BY <3>1, <1>1, <1>6 DEF FramingInv, ReadingInv
  <2>4. ASSUME Len(got) < Len(written) PROVE FALSE
    <3> DEFINE f == written[Len(got) + 1]
    <3>1. f \in FramesOf(config) /\ Len(got) \in 0 .. Len(written) - 1
      BY <2>2, <2>4
    <3>2. Len(Encoding(config, f)) <= Len(buf)
      BY <2>1, <2>2, <2>3, <3>1, FirstPending
    <3>3. Len(Encoding(config, f)) = FrameHeaderLen(config.version) + f.size
      BY <2>1, <3>1, EncodingIsBytes
    <3>4. f.size \in Nat /\ FrameHeaderLen(config.version) \in Nat /\ Len(buf) \in Nat
      <4>1. f.size \in Nat
        BY <2>1, <3>1 DEF FramesOf, Terms
      <4>2. FrameHeaderLen(config.version) \in Nat
        BY DEF FrameHeaderLen
      <4>3. Len(buf) \in Nat
        BY <2>2
      <4> QED BY <4>1, <4>2, <4>3
    <3>5. Len(buf) < FrameHeaderLen(config.version) \/ Len(buf) < Len(Encoding(config, f))
      BY <1>1, <1>6 DEF FramingInv, ReadingInv
    <3> QED BY <3>2, <3>3, <3>4, <3>5
  <2>5. Len(got) = Len(written)
    BY <2>2, <2>4
  <2>6. buf = << >>
    BY <2>2, <2>3, <2>5, AllTaken
  <2>7. reading = "header"
    BY <1>1, <1>6, <2>2, <2>5 DEF FramingInv, ReadingInv
  <2> QED BY <2>5, <2>6, <2>7 DEF AtBoundary
<1>7. EndInv'
  BY <1>1, <1>6 DEF FramingInv, EndsInv, EndInv, AtBoundary
<1> QED BY <1>2, <1>4, <1>5, <1>7 DEF FramingInv

\* What a buffer says that starts with a header.
LEMMA BufferParses ==
  ASSUME NEW c, Terms(c), NEW f \in FramesOf(c), NEW now \in Seq(Byte), NEW rest \in Seq(Byte),
         Holds(rest, Encoding(c, f), 0), \A i \in 1 .. Len(now) : now[i] = rest[i],
         FrameHeaderLen(c.version) <= Len(now)
  PROVE  HeaderOK(c, now) /\ ParseHeader(c, now) = f
<1> DEFINE h == BuildHeader(c, f)
           e == Encoding(c, f)
           n == FrameHeaderLen(c.version)
<1>1. Len(h) = n /\ Holds(e, h, 0) /\ Len(e) = n + f.size
  BY HeaderBytes, EncodingIsBytes
<1>2. n \in Nat /\ f.size \in Nat /\ Len(now) \in Nat
  BY DEF FrameHeaderLen, FramesOf, Terms
<1> HIDE DEF h, e, n
<1>3. ASSUME NEW i \in 1 .. n PROVE now[i] = h[i]
  <2>1. i \in 1 .. Len(h) /\ i \in 1 .. Len(e) /\ i \in 1 .. Len(now) /\ i + 0 = i
    BY <1>1, <1>2 DEF n
  <2>2. e[i] = h[i] /\ rest[i] = e[i] /\ now[i] = rest[i]
    BY <1>1, <2>1 DEF Holds, e
  <2> QED BY <2>2
<1> QED BY <1>3, HeaderReadBack DEF h, n

\* A read returns a piece of the frames that the reader has not read.
LEMMA ReadFrames ==
  ASSUME FramingInv, NEW n \in 1 .. 18, ReadBytes(n)
  PROVE  FramingInv'
<1> DEFINE now == buf \o SubSeq(bytes, 1, n)
           later == SubSeq(bytes, n + 1, Len(bytes))
           rest == buf \o bytes
           f == written[Len(got) + 1]
           e == Encoding(config, f)
           hl == FrameHeaderLen(config.version)
<1>1. /\ UNCHANGED << client, server, pc, version, dials, toServer, toClient, config, served, up >>
      /\ UNCHANGED << from, written, failed, transport >> /\ UNCHANGED connectVars
      /\ reading \in {"header", "payload"} /\ n <= Len(bytes) /\ n <= Wanted
      /\ bytes' = later
      /\ IF n < Wanted THEN buf' = now /\ UNCHANGED << got, reading >>
         ELSE IF reading = "header" THEN ParsesHeader(now)
         ELSE GotFrame(ParseHeader(Reader, now))
  BY DEF ReadBytes, connectVars, settings
<1>2. ConnectInv'
  BY <1>1, ConnectInvStep DEF FramingInv
<1>3. /\ bytes \in Seq(Byte) /\ buf \in Seq(Byte) /\ written \in Seq(FramesOf(config))
      /\ got \in Seq(FramesOf(config)) /\ Len(got) <= Len(written)
      /\ n \in 1 .. Len(bytes)
  BY <1>1 DEF FramingInv, EndsInv, GotInv
<1>4. Len(bytes) # 0 /\ bytes # << >>
  BY <1>3
<1>5. transport # "cut" /\ from # "none" /\ pc = "connected"
  BY <1>4 DEF FramingInv, EndsInv, EndInv
<1>6. Terms(config) /\ Reader = config
  BY <1>5, ConnectedTerms DEF FramingInv, Reader
<1>7. Pending(config, written, Len(got), rest)
  BY <1>1, <1>5 DEF FramingInv, ReadingInv
<1>8. /\ now \in Seq(Byte) /\ later \in Seq(Byte) /\ rest \in Seq(Byte)
      /\ Len(now) = Len(buf) + n /\ Len(now) <= Len(rest) /\ Len(rest) # 0
      /\ \A i \in 1 .. Len(now) : now[i] = rest[i]
      /\ now \o later = rest
      /\ later = SubSeq(rest, Len(now) + 1, Len(rest))
  BY <1>3, Piece
<1>9. \A i \in 1 .. Len(buf) : buf[i] = rest[i]
  BY <1>3
<1> HIDE DEF now, later, rest
<1>10. Len(got) \in 0 .. Len(written) - 1 /\ Len(got) \in Nat /\ Len(written) \in Nat
  <2>1. Len(got) \in Nat /\ Len(written) \in Nat
    BY <1>3
  <2>2. ASSUME Len(got) = Len(written) PROVE FALSE
    <3>1. rest = << >>
      BY <2>2, <1>3, <1>7, <1>8, AllTaken
    <3> QED BY <3>1, <1>8
  <2> QED BY <1>3, <2>1, <2>2
<1>11. f \in FramesOf(config)
  BY <1>3, <1>10
<1>12. /\ Len(e) <= Len(rest) /\ Holds(rest, e, 0)
       /\ Pending(config, written, Len(got) + 1, SubSeq(rest, Len(e) + 1, Len(rest)))
  BY <1>3, <1>6, <1>7, <1>8, <1>10, FirstPending
<1>13. Len(e) = hl + f.size /\ f.size \in Nat /\ hl \in Nat /\ f.size <= config.max_frame
       /\ Len(buf) \in Nat
  <2>1. Len(e) = hl + f.size
    BY <1>6, <1>11, EncodingIsBytes
  <2>2. f.size \in Nat /\ f.size <= config.max_frame
    <3> HIDE DEF f
    <3> QED BY <1>6, <1>11 DEF FramesOf, Terms
  <2>3. hl \in Nat /\ Len(buf) \in Nat
    BY <1>3 DEF FrameHeaderLen
  <2> QED BY <2>1, <2>2, <2>3
<1>14. hl <= Len(buf) => ParseHeader(config, buf) = f
  BY <1>3, <1>6, <1>8, <1>9, <1>11, <1>12, BufferParses
<1>15. hl <= Len(now) => HeaderOK(config, now) /\ ParseHeader(config, now) = f
  BY <1>6, <1>8, <1>11, <1>12, BufferParses
<1>16. /\ reading = "header" => Wanted = hl - Len(buf)
       /\ reading = "payload" => Wanted = Len(e) - Len(buf) /\ hl <= Len(buf)
  <2>1. reading = "payload" => hl <= Len(buf)
    BY <1>5 DEF FramingInv, ReadingInv
  <2> HIDE DEF e, f
  <2>2. reading = "header" => Wanted = hl - Len(buf)
    BY <1>6 DEF Wanted
  <2>3. reading = "payload" => Wanted = hl + f.size - Len(buf)
    BY <1>6, <1>14, <2>1 DEF Wanted
  <2> QED BY <1>13, <2>1, <2>2, <2>3
<1> HIDE DEF f, e, hl
<1>17. ASSUME got' = got, buf' = now, reading' \in {"header", "payload"},
              reading' = "header" => Len(now) < hl,
              reading' = "payload" => hl <= Len(now) /\ Len(now) < Len(e)
       PROVE  FramingInv'
  <2>1. EndsInv' /\ GotInv'
    BY <1>1, <1>5, <1>8, <1>17 DEF FramingInv, EndsInv, GotInv
  <2>2. ReadingInv'
    <3>1. Pending(config, written, Len(got), buf' \o bytes')
      BY <1>1, <1>7, <1>8, <1>17
    <3> QED BY <3>1, <1>1, <1>10, <1>17 DEF ReadingInv, f, e, hl
  <2>3. EndInv'
    BY <1>1, <1>5, <1>17 DEF EndInv
  <2> QED BY <1>2, <2>1, <2>2, <2>3 DEF FramingInv
<1>18. ASSUME Len(now) = Len(e), GotFrame(f)
       PROVE  FramingInv'
  <2>1. got' = Append(got, f) /\ buf' = << >> /\ reading' = "header"
    BY <1>18 DEF GotFrame
  <2>2. got' \in Seq(FramesOf(config)) /\ Len(got') = Len(got) + 1
    BY <1>3, <1>11, <2>1
  <2>3. \A i \in 1 .. Len(got') : got'[i] = written[i]
    <3>1. ASSUME NEW i \in 1 .. Len(got') PROVE got'[i] = written[i]
      <4>1. CASE i = Len(got) + 1
        BY <4>1, <1>3, <2>1 DEF f
      <4>2. CASE i \in 1 .. Len(got)
        BY <4>2, <1>3, <2>1 DEF FramingInv, GotInv
      <4> QED BY <1>10, <2>2, <3>1, <4>1, <4>2
    <3> QED BY <3>1
  <2>4. GotInv'
    BY <1>1, <1>10, <2>2, <2>3 DEF GotInv
  <2>5. EndsInv'
    BY <1>1, <1>5, <1>8, <2>1 DEF FramingInv, EndsInv
  <2>6. ReadingInv'
    <3>1. << >> \o later = later
      BY <1>8, ConcatEmptySeq
    <3>2. Pending(config, written, Len(got'), buf' \o bytes')
      BY <3>1, <1>1, <1>8, <1>12, <1>18, <2>1, <2>2
    <3>3. Len(<< >>) < FrameHeaderLen(config.version)
      BY DEF FrameHeaderLen
    <3> QED BY <3>2, <3>3, <1>1, <2>1 DEF ReadingInv
  <2>7. EndInv'
    BY <1>1, <1>5, <2>1 DEF EndInv
  <2> QED BY <1>2, <2>4, <2>5, <2>6, <2>7 DEF FramingInv
<1> DEFINE has == Len(buf)
           gets == Len(now)
           whole == Len(e)
           more == Wanted
           size == f.size
<1>19. /\ has \in Nat /\ hl \in Nat /\ n \in Nat /\ gets = has + n
       /\ whole = hl + size /\ size \in Nat
       /\ reading = "header" => more = hl - has /\ n <= more
       /\ reading = "payload" => more = whole - has /\ n <= more /\ hl <= has
  BY <1>1, <1>8, <1>13, <1>16
<1> HIDE DEF has, gets, whole, more, size
<1>20. CASE n < Wanted
  <2>1. got' = got /\ buf' = now /\ reading' = reading
    BY <1>1, <1>20
  <2>2. n < more
    BY <1>20 DEF more
  <2>3. reading = "header" => gets < hl
    BY <1>19, <2>2
  <2>4. reading = "payload" => hl <= gets /\ gets < whole
    BY <1>19, <2>2
  <2> QED BY <1>1, <1>17, <2>1, <2>3, <2>4 DEF gets, whole
<1>21. CASE ~(n < Wanted) /\ reading = "header"
  <2>1. gets = hl
    BY <1>19, <1>21 DEF more
  <2>2. Len(now) = hl /\ hl <= Len(now)
    BY <2>1, <1>19 DEF gets
  <2>3. HeaderOK(Reader, now) /\ ParseHeader(Reader, now) = f /\ ~(f.size > Reader.max_frame)
    BY <1>6, <1>13, <1>15, <2>2 DEF Terms
  <2>4. IF f.size = 0 THEN GotFrame(f) ELSE reading' = "payload" /\ buf' = now /\ UNCHANGED got
    BY <1>1, <1>21, <2>3 DEF ParsesHeader
  <2>5. CASE f.size = 0
    <3>1. gets = whole
      <4>1. size = 0
        BY <2>5 DEF size
      <4>2. whole = hl + 0 /\ hl \in Nat
        BY <4>1, <1>19
      <4> QED BY <2>1, <4>2
    <3>2. Len(now) = Len(e) /\ GotFrame(f)
      BY <2>4, <2>5, <3>1 DEF gets, whole
    <3> QED BY <3>2, <1>18
  <2>6. CASE f.size # 0
    <3>1. got' = got /\ buf' = now /\ reading' = "payload"
      BY <2>4, <2>6
    <3>2. hl <= gets /\ gets < whole
      <4>1. size # 0
        BY <2>6 DEF size
      <4>2. whole = hl + size /\ hl \in Nat /\ size \in Nat
        BY <1>19
      <4> QED BY <2>1, <4>1, <4>2
    <3> QED BY <3>1, <3>2, <1>17 DEF gets, whole
  <2> QED BY <2>5, <2>6
<1>22. CASE ~(n < Wanted) /\ reading = "payload"
  <2>1. gets = whole /\ hl <= gets
    BY <1>19, <1>22 DEF more
  <2>2. Len(now) = Len(e) /\ hl <= Len(now)
    BY <2>1 DEF gets, whole
  <2>3. GotFrame(f)
    BY <1>1, <1>6, <1>15, <1>22, <2>2
  <2> QED BY <1>18, <2>2, <2>3
<1> QED BY <1>1, <1>20, <1>21, <1>22

-----------------------------------------------------------------------------
(* What the frames show.                                                   *)

\* Every step keeps the invariant.
LEMMA FramingInvStep == FramingInv /\ [FramingNext]_<< connectVars, link >> => FramingInv'
<1> SUFFICES ASSUME FramingInv, [FramingNext]_<< connectVars, link >> PROVE FramingInv'
  OBVIOUS
<1>1. CASE UNCHANGED << connectVars, link >>
  BY <1>1, StutterFrames
<1>2. CASE ConnectNext /\ UNCHANGED link
  BY <1>2, ConnectStepFrames
<1>3. CASE \E side \in {"client", "server"} :
             \E f \in NextData(ConfigOf(side)) \cup NextControl(ConfigOf(side)) : WriteFrame(side, f)
  BY <1>3, WriteFrames
<1>4. CASE Shut
  BY <1>4, ShutFrames
<1>5. CASE Cut
  BY <1>5, CutFrames
<1>6. CASE ReadEnd
  BY <1>6, EndFrames
<1>7. CASE \E n \in 1 .. 18 : ReadBytes(n)
  BY <1>7, ReadFrames
<1> QED BY <1>1, <1>2, <1>3, <1>4, <1>5, <1>6, <1>7 DEF FramingNext

\* What the reader has is the beginning of what was written, and all of it at
\* the end of a transport that was shut down.
LEMMA InvGivesFrames == FramingInv => FramesArrive
<1> SUFFICES ASSUME FramingInv PROVE FramesArrive
  OBVIOUS
<1>1. /\ got \in Seq(FramesOf(config)) /\ written \in Seq(FramesOf(config))
      /\ Len(got) <= Len(written) /\ \A i \in 1 .. Len(got) : got[i] = written[i]
  BY DEF FramingInv, EndsInv, GotInv
<1> DEFINE front == SubSeq(written, 1, Len(got))
<1>2. Len(got) \in Nat /\ Len(written) \in Nat
  BY <1>1
<1>3. /\ front \in Seq(FramesOf(config)) /\ Len(front) = Len(got)
      /\ \A i \in 1 .. Len(got) : front[i] = written[i]
  BY <1>1, <1>2
<1> HIDE DEF front
<1>4. got = front
  BY <1>1, <1>3, SeqEqual
<1>5. Len(got) = Len(written) => got = written
  BY <1>1, SeqEqual
<1>6. /\ reading = "error" => transport = "cut"
      /\ reading = "none" => buf = << >>
      /\ reading = "none" /\ transport = "shut" => Len(got) = Len(written)
  BY DEF FramingInv, EndInv
<1> QED BY <1>1, <1>4, <1>5, <1>6 DEF FramesArrive, front

\* Whatever the sizes of the pieces that arrive, the frames read are the frames
\* written; the reader fails only where a transport was cut (read_frame).
THEOREM FramesAreReadBack == FramingSpec => []FramesArrive
BY FramingInvInit, FramingInvStep, InvGivesFrames, PTL DEF FramingSpec
=============================================================================
