---------------------------- MODULE LegacyGuards ----------------------------
(***************************************************************************)
(* The time exit (engines/legacy_guards.py) of one position, and the pages *)
(* the operator gets when the guards themselves fail.                      *)
(*                                                                         *)
(* The watchdog applies the guards at every poll (apply_legacy_guards).    *)
(* When it is down, the master's cycle does (evaluate_legacy_guards), with *)
(* the offset the watchdog published, and hands the outcome to             *)
(* alert_degraded_guards, which pages a failure that lasts once in         *)
(* Cooldown and remembers the page in guard_alert_state.json.              *)
(***************************************************************************)
EXTENDS BrokerClock

CONSTANTS
  ExitAge,    \* MAX_POSITION_AGE_HOURS
  Cooldown,   \* GUARD_ALERT_COOLDOWN_SEC
  Failures    \* alert keys, state|detail: "calendar_unavailable", or an error

ASSUME GuardsAssumption ==
  /\ ExitAge \in Nat \ {0} /\ Cooldown \in Nat
  /\ "calendar_unavailable" \in Failures
  /\ Failures \cap {"idle", "absent", "healthy", "none"} = {}

VARIABLES
  dog,       \* the watchdog is up
  opened,    \* when the position was opened, 0 before
  detected,  \* watchdog_state.json: when the watchdog first saw it, 0 before
  closed,    \* when a time exit closed it, 0 before
  report,    \* payload["guards"] of the cycle that runs, or "idle"
  paging,    \* the cycle has written the alert file and not yet sent the page
  record,    \* guard_alert_state.json
  \* Observations, read by no action:
  told,      \* when each failure was last paged, 0: not since the last clear
  dropped    \* failures whose last page was lost on the way

position == <<opened, detected, closed>>
alert    == <<report, paging, record, told, dropped>>
vars == <<now, ticked, prev, samples, published, dog, opened, detected, closed,
          report, paging, record, told, dropped>>

Silent   == [key |-> "none", at |-> 0]   \* no alert file
Reports  == Failures \cup {"idle", "absent", "healthy"}
IsOpen   == opened > 0 /\ closed = 0
Age      == now - opened

TypeOK ==
  /\ ClockType
  /\ dog \in BOOLEAN
  /\ opened \in Nat /\ detected \in Nat /\ closed \in Nat
  /\ report \in Reports /\ paging \in BOOLEAN
  /\ record \in [key : Failures \cup {"none"}, at : Nat]
  /\ told \in [Failures -> Nat] /\ dropped \subseteq Failures

Init ==
  /\ ClockInit
  /\ dog = FALSE
  /\ opened = 0 /\ detected = 0 /\ closed = 0
  /\ report = "idle" /\ paging = FALSE /\ record = Silent
  /\ told = [f \in Failures |-> 0] /\ dropped = {}

-----------------------------------------------------------------------------
(* The time exit.                                                          *)

\* The broker's stamp of the position.
Stamp == opened + Offset

\* evaluate_time_exit, for a position believed to be opened at b.
IsDue(b) == now - b >= ExitAge

\* Deviation: the age counts from when the watchdog first saw the position.
SinceDetection == IF detected' > 0 THEN detected' ELSE Stamp

\* position_daemon._position_opened_at: the stamp is always there.
DogBelieves == Stamp - Estimate(samples')

\* Deviation: the watchdog's own time is taken for a broker's stamp.
RotatesDetection ==
  IF HasCalibration THEN Stamp - published.offset
  ELSE IF detected > 0 THEN detected - published.offset ELSE Stamp

\* hermes_runtime._fallback_opened_at.
CycleBelieves ==
  IF HasCalibration THEN Stamp - published.offset
  ELSE IF detected > 0 THEN detected ELSE Stamp

\* The close is executed, unless the broker refuses.
Exits(accepted) == closed' = IF accepted THEN now ELSE closed

Opens ==
  /\ opened = 0 /\ opened' = now
  /\ UNCHANGED <<clock, dog, detected, closed, alert>>

\* One poll of the watchdog.  The guards are evaluated once a minute only, a
\* news lock goes before the time exit, and so does an error.
Polls(evaluates, accepted) ==
  /\ dog
  /\ Measures /\ Publishes
  /\ detected' = IF IsOpen /\ detected = 0 THEN now ELSE detected
  /\ IF IsOpen /\ evaluates /\ IsDue(DogBelieves) THEN Exits(accepted)
     ELSE closed' = closed
  /\ UNCHANGED <<now, ticked, dog, opened, alert>>

DogStarts ==
  /\ ~dog /\ dog' = TRUE
  /\ UNCHANGED <<clock, position, alert>>

\* The state file is written at the end of a poll: a watchdog that dies before
\* it has not seen the position it just saw.
DogDies(saved) ==
  /\ dog /\ dog' = FALSE
  /\ Forgets
  /\ detected' = IF ~saved /\ detected = now THEN 0 ELSE detected
  /\ UNCHANGED <<now, ticked, published, opened, closed, alert>>

-----------------------------------------------------------------------------
(* A cycle of the master.                                                  *)

\* The heartbeat stands for the watchdog here; the minute in which it outlives
\* the watchdog is PositionManagers' subject.
StandsBack ==
  /\ report = "idle" /\ (dog \/ ~IsOpen)
  /\ report' = "absent"
  /\ UNCHANGED <<clock, dog, position, paging, record, told, dropped>>

\* evaluate_legacy_guards with no error.  Without a calendar there is no news
\* lock, and an exit that is due overrides that status; a halted cycle in
\* which the guards are healthy and idle does not report them.
Guards(locked, blind, halted, accepted) ==
  LET due == ~locked /\ IsDue(CycleBelieves) IN
  /\ report = "idle" /\ ~dog /\ IsOpen /\ ~(locked /\ blind)
  /\ IF due THEN Exits(accepted) ELSE closed' = closed
  /\ report' = IF due \/ locked THEN "healthy"
               ELSE IF blind THEN "calendar_unavailable"
               ELSE IF halted THEN "absent" ELSE "healthy"
  /\ UNCHANGED <<clock, dog, opened, detected, paging, record, told, dropped>>

\* ... and with one: both guards are off in this cycle.
GuardsFail(f) ==
  /\ report = "idle" /\ ~dog /\ IsOpen /\ f # "calendar_unavailable"
  /\ report' = f
  /\ UNCHANGED <<clock, dog, position, paging, record, told, dropped>>

-----------------------------------------------------------------------------
(* hermes_master.alert_degraded_guards.                                    *)

\* Healthy guards end the memory of a page, unless the file cannot be removed;
\* guards that did not run do not.
EndsQuietly(removed) ==
  /\ report \in {"absent", "healthy"}
  /\ report' = "idle"
  /\ IF report = "healthy" /\ removed
       THEN /\ record' = Silent
            /\ told' = [f \in Failures |-> 0] /\ dropped' = {}
       ELSE UNCHANGED <<record, told, dropped>>
  /\ UNCHANGED <<clock, dog, position, paging>>

\* Deviation: any page within the cooldown counts, of whatever failure.
PagedAnything(f) == record # Silent /\ now - record.at < Cooldown

WasPaged(f) == record.key = f /\ now - record.at < Cooldown

Suppresses(f) ==
  /\ report = f /\ ~paging /\ WasPaged(f)
  /\ report' = "idle"
  /\ UNCHANGED <<clock, dog, position, paging, record, told, dropped>>

\* The file is written first; when that fails the page goes out all the same.
Notes(f, written) ==
  /\ report = f /\ ~paging /\ ~WasPaged(f)
  /\ paging' = TRUE
  /\ record' = IF written THEN [key |-> f, at |-> now] ELSE record
  /\ UNCHANGED <<clock, dog, position, report, told, dropped>>

\* send_ops; its failure is logged and not tried again.
Pages(f, sent) ==
  /\ report = f /\ paging
  /\ report' = "idle" /\ paging' = FALSE
  /\ IF sent THEN told' = [told EXCEPT ![f] = now] /\ dropped' = dropped \ {f}
     ELSE dropped' = dropped \cup {f} /\ UNCHANGED told
  /\ UNCHANGED <<clock, dog, position, record>>

\* The master's process dies anywhere in its cycle.
MasterDies ==
  /\ report # "idle"
  /\ report' = "idle" /\ paging' = FALSE
  /\ dropped' = IF paging THEN dropped \cup {report} ELSE dropped
  /\ UNCHANGED <<clock, dog, position, record, told>>

-----------------------------------------------------------------------------
Elapses == report = "idle" /\ TimePasses /\ UNCHANGED <<dog, position, alert>>
Trades  == MarketMoves /\ UNCHANGED <<dog, position, alert>>

Next ==
  \/ Elapses \/ Trades \/ Opens
  \/ \E evaluates, accepted \in BOOLEAN : Polls(evaluates, accepted)
  \/ DogStarts
  \/ \E saved \in BOOLEAN : DogDies(saved)
  \/ StandsBack
  \/ \E locked, blind, halted, accepted \in BOOLEAN :
       Guards(locked, blind, halted, accepted)
  \/ \E f \in Failures : GuardsFail(f)
  \/ \E removed \in BOOLEAN : EndsQuietly(removed)
  \/ \E f \in Failures : Suppresses(f)
  \/ \E f \in Failures, written \in BOOLEAN : Notes(f, written)
  \/ \E f \in Failures, sent \in BOOLEAN : Pages(f, sent)
  \/ MasterDies

Spec == Init /\ [][Next]_vars

-----------------------------------------------------------------------------
(* Properties.                                                             *)

Near(d) == Offset - MaxGap =< d /\ d =< Offset

\* Whatever the market does between the polls, and however often the watchdog
\* restarts on an old tick, no accepted sample and no published calibration
\* is further from the broker's clock than one gap, and none is ahead of it
\* (position_daemon.py:259-271: rejected is what cannot be bounded).
CalibrationIsTight ==
  /\ \A i \in DOMAIN samples : Near(samples[i])
  /\ published # Unknown => Near(published.offset)

\* No manager closes a position by its age before it has that age, with any
\* source of its opening time: measured, published, detected or raw.  The code
\* says so of the measured offset (position_daemon.py:248: "this can never fire
\* time_exit early"); of the other sources it says that an exit may be early.
ExitNeverEarly == closed > 0 => closed - opened >= ExitAge

\* A pass that evaluates the guards never leaves an older position without a
\* try to close it: with no error, no news lock, and by whichever manager.
LeftOpen(slack) == IsOpen => Age < ExitAge + slack

DogLeaves   == Polls(TRUE, TRUE) /\ closed' = closed
CycleLeaves ==
  \E blind, halted \in BOOLEAN : Guards(FALSE, blind, halted, TRUE) /\ closed' = closed

\* A manager that knows the clock, by its own samples or by the published file,
\* is late by no more than one gap (position_daemon.py:245-248: "residual error
\* can only make a position look younger than it is (a late exit)").
LatenessIsBounded ==
  [][/\ DogLeaves /\ samples' # <<>> => LeftOpen(MaxGap)
     /\ CycleLeaves /\ HasCalibration => LeftOpen(MaxGap)]_vars

\* "No calibration ... time_exit fires EARLY, never late": a watchdog without a
\* sample, and a cycle that takes the watchdog's detection for the opening, are
\* not late either (engines/broker_clock.py:11-14, position_daemon.py:217-219,
\* 369-371), not by more than the gap that is granted above.
ExitNeverLate ==
  [][/\ DogLeaves /\ samples' = <<>> => LeftOpen(MaxGap)
     /\ CycleLeaves /\ ~HasCalibration /\ detected > 0 => LeftOpen(MaxGap)]_vars

\* A failure of the guards goes without a page only if the same failure was
\* paged within the cooldown, and not forgotten since, or if that page was
\* lost: the process died between file and page, or Telegram failed
\* (hermes_master.py:144-147).
DegradationIsPaged ==
  [][\A f \in Failures : Suppresses(f) =>
       f \in dropped \/ (told[f] > 0 /\ now - told[f] < Cooldown)]_vars

=============================================================================
