----------------------------- MODULE BrokerClock -----------------------------
(***************************************************************************)
(* The broker stamps ticks and positions with its own server's clock,      *)
(* Offset ahead of UTC.  The watchdog measures the offset from the ticks   *)
(* it polls (position_daemon.broker_utc_offset_sec) and publishes it       *)
(* (engines/broker_clock.py) for the runtime, which cannot measure.        *)
(*                                                                         *)
(* A polled tick is as old as the market is quiet, so a sample is the      *)
(* offset less an age nobody knows.  A sample counts only when the tick    *)
(* stream moved on with the wall clock since the poll before, and the      *)
(* estimate should then be the least wrong of the last few.                *)
(***************************************************************************)
EXTENDS Integers, Sequences, FiniteSetsExt, Functions

CONSTANTS
  Offset,    \* the broker's clock minus UTC
  Sanity,    \* BROKER_OFFSET_SANITY_SEC: a larger offset is no timezone
  MaxGap,    \* BROKER_OFFSET_MAX_GAP_SEC between two polls that prove a stream
  Window,    \* BROKER_OFFSET_WINDOW: samples kept
  Trusted,   \* DEFAULT_MAX_AGE_SEC of a published calibration
  Rewrite,   \* MIN_REWRITE_INTERVAL_SEC of a calibration that did not move
  Drift,     \* REWRITE_DRIFT_SEC: what counts as a move
  MaxTime    \* bound: the length of a behaviour

\* The broker's clock is ahead of UTC (measured: three hours) and steady.
ASSUME ClockAssumption ==
  /\ Offset \in Nat /\ Sanity \in Nat /\ Offset + MaxGap =< Sanity
  /\ MaxGap \in Nat /\ Window \in Nat \ {0}
  /\ Trusted \in Nat /\ Rewrite \in Nat /\ Drift \in Nat /\ MaxTime \in Nat

VARIABLES
  now,       \* UTC
  ticked,    \* when the market last moved, in UTC
  prev,      \* _guard_cache["prev_tick"]: the last poll
  samples,   \* _guard_cache["offsets"]
  published  \* broker_clock.json

clock == <<now, ticked, prev, samples, published>>

NoPoll  == [tick |-> 0, at |-> 0]
Unknown == [offset |-> 0, at |-> 0]   \* no calibration file

ClockType ==
  /\ now \in Nat \ {0} /\ ticked \in Nat
  /\ prev \in [tick : Int, at : Nat]
  /\ samples \in Seq(Int) /\ Len(samples) =< Window
  /\ published \in [offset : Int, at : Nat]

ClockInit ==
  /\ now = 1 /\ ticked = 1
  /\ prev = NoPoll /\ samples = <<>>
  /\ published = Unknown

\* _min_offset: zero when nothing was measured.
Estimate(s) == IF s = <<>> THEN 0 ELSE Min(Range(s))

TimePasses ==
  /\ now < MaxTime
  /\ now' = now + 1
  /\ UNCHANGED <<ticked, prev, samples, published>>

MarketMoves ==
  /\ ticked' = now
  /\ UNCHANGED <<now, prev, samples, published>>

\* The last tick, as the bridge reports it.
Tick == ticked + Offset

\* Deviation: two polls in a row are proof enough.
PollsAreClose ==
  prev # NoPoll /\ prev.at < now /\ now - prev.at =< MaxGap

\* The ticks kept pace with the wall clock (0.8 of it) since the last poll.
StreamIsLive ==
  /\ prev # NoPoll
  /\ prev.at < now /\ now - prev.at =< MaxGap
  /\ 5 * (Tick - prev.tick) >= 4 * (now - prev.at)

Plausible(d) == -Sanity =< d /\ d =< Sanity

\* Deviation: the window is never cut.
KeptForever(s) == s

Kept(s) == IF Len(s) > Window THEN Tail(s) ELSE s

\* broker_utc_offset_sec, the part that measures.
Measures ==
  /\ samples' = IF StreamIsLive /\ Plausible(Tick - now)
                  THEN Kept(Append(samples, Tick - now)) ELSE samples
  /\ prev' = [tick |-> Tick, at |-> now]

Moved(d) == d > Drift \/ d < -Drift

\* publish_calibration: only what was measured, and not every five seconds.
Publishes ==
  LET est == Estimate(samples')
      throttled == /\ published # Unknown
                   /\ ~Moved(published.offset - est)
                   /\ now - published.at < Rewrite
  IN published' = IF samples' = <<>> \/ ~Plausible(est) \/ throttled
                    THEN published ELSE [offset |-> est, at |-> now]

\* A dead watchdog forgets what it measured; the file stays.
Forgets == prev' = NoPoll /\ samples' = <<>>

\* load_offset: FALSE when the file is missing or stale.
HasCalibration == published # Unknown /\ now - published.at =< Trusted

=============================================================================
