--------------------------- MODULE RecoveryOptions --------------------------
(***************************************************************************)
(* The recovery options that a server announces in its attach response:    *)
(* their normalisation, their encoding in whole milliseconds, and the      *)
(* client's check of what it decodes.  A duration is a number of ticks,    *)
(* PerMilli of them in a millisecond.                                      *)
(***************************************************************************)
EXTENDS Naturals

CONSTANTS
  PerMilli,    \* ticks in a millisecond
  MaxMillis,   \* u32::MAX
  Defaults     \* ServerRecoveryOptions::default()

Duration == Nat
Options == [ack_every : Nat, ack_delay : Duration,
            heartbeat_interval : Duration, heartbeat_timeout : Duration]

ASSUME RecoveryOptionsAssumption ==
  /\ PerMilli \in Nat \ {0}
  /\ MaxMillis \in Nat \ {0}
  /\ Defaults \in Options
  /\ \A field \in DOMAIN Defaults : Defaults[field] > 0

Larger(a, b) == IF a < b THEN b ELSE a

\* Mutant: a timeout below two intervals is left as it is.
NormalizedTimeoutKept(opts) ==
  [field \in DOMAIN opts |-> IF opts[field] = 0 THEN Defaults[field] ELSE opts[field]]

\* normalized: zero stands for the default, and the timeout is at least two
\* intervals.
Normalized(opts) ==
  LET set == [field \in DOMAIN opts |-> IF opts[field] = 0 THEN Defaults[field] ELSE opts[field]]
  IN [set EXCEPT !.heartbeat_timeout = Larger(@, 2 * set.heartbeat_interval)]

\* duration_to_millis.
Millis(duration) == Larger(duration \div PerMilli, 1)

Durations(opts) == {opts.ack_delay, opts.heartbeat_interval, opts.heartbeat_timeout}

\* encode_negotiated_recovery_options fails on a duration that is too long.
Encodable(opts) == \A d \in Durations(opts) : Millis(d) <= MaxMillis

\* What is decoded from an encoding of the options.
Decoded(opts) ==
  [opts EXCEPT !.ack_delay = PerMilli * Millis(@),
               !.heartbeat_interval = PerMilli * Millis(@),
               !.heartbeat_timeout = PerMilli * Millis(@)]

\* decode_negotiated_recovery_options accepts them.
Acceptable(opts) ==
  /\ opts.ack_every > 0
  /\ opts.ack_delay > 0
  /\ opts.heartbeat_interval > 0
  /\ opts.heartbeat_timeout >= 2 * opts.heartbeat_interval
=============================================================================
