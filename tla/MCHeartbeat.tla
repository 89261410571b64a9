------------------------------ MODULE MCHeartbeat ----------------------------
(* Heartbeat with small durations.                                          *)
EXTENDS Heartbeat

Opt(every, delay, interval, timeout) ==
  [ack_every |-> every, ack_delay |-> delay, heartbeat_interval |-> interval,
   heartbeat_timeout |-> timeout]

\* A timeout of three intervals, as in the source.
MCDefaults == Opt(2, 1, 4, 12)

\* An ACK delay well below the interval: the defaults, and an interval that is no
\* whole number of milliseconds with a timeout that normalisation makes longer.
MCShortDelay == {Opt(0, 0, 0, 0), Opt(3, 1, 5, 5)}
\* An ACK delay as long as the interval, and a timeout of two intervals.
MCLongDelay == {Opt(2, 4, 4, 0)}
\* An interval of half a millisecond.
MCFineInterval == {Opt(2, 1, 1, 2)}
=============================================================================
