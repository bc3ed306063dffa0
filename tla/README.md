# Verification of hermes-trading

TLA+ models, TLC runs and TLAPS proofs for hermes-trading, an autonomous
XAUUSD trader: a Python "brain" on Linux that trades through an HTTP bridge to
MetaTrader 5 on Windows. `PROJECT.json` maps every definition to source lines,
and lists the runs, their mutants, the findings, the hazards and the theorems.

## 1. The system

Four long-lived or periodic processes share state files under the plan
directory and one broker account:

| process | started by | state it keeps | what it does |
|---|---|---|---|
| master (`hermes_master.py` -> `hermes_runtime.cycle`) | cron, every 5 min, `flock -n`, `timeout 280` | `current_plan.json`, `runtime_state.json`, `performance_state.json`, kill-switch state | draws the plan, checks the kill switch, manages positions if the watchdog is stale, opens entries |
| watchdog (`position_daemon.py`) | systemd, `Restart=always`, 5 s poll | `watchdog_state.json`, heartbeat file | manages and reports every open position |
| signal daemon (`signal_daemon.py` -> `engines/signal_listener.py`) | systemd, 2 s poll | Telegram offset, pending orders | reads signals, orders or rests limits, watches pending orders |
| health monitor and scripts | cron | - | alerts, backup |

A fifth, `signal_monitor.py`, is the manual run of the signal lane: the operator
may start it beside the daemon. It parks limit orders too, but watches none.

The bridge (`scripts/mt5_http_server_v2.py`) is stateless; the broker's book is
the only record of positions, and it executes stops and targets by itself.

Components, their state, their operations, what is hard about them and what
makes them correct:

- **Trade-management ladder** (`engines/trade_management.py`): pure. From a
  position, the plan and the memory of what was taken it decides: close early,
  take a target (30, 50 or 100 %), move the stop to breakeven, trail, kill the
  runner, scale in, hold. Hard: the plan is redrawn under a live position, so
  rungs move; rounding and minimum lots. Correct: no dead-lock while a target
  is owed, no command the broker must refuse, stops only ratchet.
- **Position watchdog** (`position_daemon.py`): memory per ticket (filled
  targets, breakeven flag), saved at the end of a poll; the heartbeat follows
  the save. Hard: deaths between a broker's acceptance and the save, lost
  replies, bridge errors that look like an empty book. Correct: memory never
  ahead of the broker, nothing taken twice, no false "closed" report.
- **Runtime fallback** (`hermes_runtime._manage_positions_fallback`): the same
  decisions with another memory file, when the heartbeat is older than 60 s.
  Hard: one heartbeat reading per cycle; the positions are read even earlier.
  Correct: one manager at a time, protection never given back.
- **Legacy guards** (`engines/legacy_guards.py`): news lock and 36 h exit, which
  outrank the ladder. Hard: the lock shares the breakeven's action name; the
  age depends on a measured clock offset. Correct: only tighten, never claim
  the breakeven flag.
- **Entry path** (`engines/auto_executor.py`, `hermes_runtime`,
  `engines/signal_listener.py`): two processes count positions, then order.
  Both read the book and the broker's deals under the `performance_state` lock,
  pass the gates, and send the order after the lock is free. Hard: check and
  order are not atomic; orders whose answer is lost; midnight inside a pass; the
  deals are stamped on the broker's clock and read as UTC. Correct: at most one
  position, at most five entries a day; the shared risk ledger counts each deal
  once.
- **Pending orders** (`engines/signal_pending.py`): resting limits and their
  expiry. Hard: error replies of the order list, death between order and save,
  two processes that write the list without a lock. Correct: what rests is
  watched, what is dropped is gone, at most two rest, never two at a level.
- **Signal lane** (`engines/signal_listener.py`, `signal_daemon.py`, the manual
  `signal_monitor.py`): polls Telegram under a lock, executes the operator's
  commands, saves the offset, decides the signals of the batch, then orders.
  Hard: commands come before the save and signals after it; a pass may break
  off anywhere; two pollers. Correct: nothing acknowledged goes missing, no
  signal is handed out twice, an older command never has the last word.
- **Kill switch** (`engines/kill_switch.py`): checked, and rewritten, by the
  master and by the signal lane for every signal; rewritten by the operator's
  commands; no lock. Hard: each writer saves what it loaded. Correct: a halt
  ends only by its cooldown or the operator. (Not quite so: section 5.)
- **Broker clock** (`position_daemon.py`, `engines/broker_clock.py`): the
  watchdog measures the broker's clock from the ticks it polls and publishes
  it for the runtime. Hard: a tick is as old as the market is quiet; restarts;
  a file older than its reader's trust. Correct: never ahead, close when
  accepted.
- **Guard alerts** (`hermes_master.alert_degraded_guards`): pages a failure of
  the guards once in a cooldown, remembered in a file. Hard: file before page,
  deaths, failures that alternate. Correct: no lasting failure stays silent.
- **Cooldown, market hours** (`engines/cooldown.py`, `engines/market_hours.py`):
  gates computed from the clock that only refuse.
- **Risk, DEFCON, learning**: performance ledger, policy, tighten-only
  learning. Correct: an older snapshot never overwrites a newer one; learning
  only tightens.
- **Durable state** (`engines/paths.py`, `storage.py`, `store.py`,
  `process_lock.py`): atomic replace, quarantine, advisory lock, mirror.
- **Planning and analysis**, **reports**, **backtests**, **scripts**: see
  `components` in `PROJECT.json`.

## 2. Modules

```
TradeManagement            the ladder, pure operators
  TradeManagementProofs    what it decides, for every trade
  ManagedTrade             one position, one manager, no faults
    ManagedTradeProofs
    MCManagedTrade         Ladder.cfg
  PositionManagers         watchdog and fallback, bridge faults, crashes
    PositionManagersProofs (also EXTENDS TradeManagementProofs)
    MCPositionManagers     Managers.cfg, ManagersCustody.cfg, ManagersRace.cfg
  EntryGate                two lanes to an order: lock, ledger, gates, broker
    DayLedger              what the ledger promises (EntryGate refines it)
    EntryGateProofs        what does not depend on the ledger's sums
      EntryLedgerProofs    the sums, the refinement, the lanes together
    MCEntryGate            EntryGate.cfg, EntryCap.cfg, DailyCap.cfg
  SignalPending            limit orders: parked, watched, expired, withdrawn
    SignalPendingProofs
    MCSignalPending        SignalPending.cfg, PendingDropped.cfg
  KillSwitch               one file, its check, its commands, its cooldown
    SignalPolling          the signal lane composed with the kill switch
      Inbox                what the lane promises (SignalPolling refines it)
      SignalPollingProofs
      MCSignalPolling      SignalPolling.cfg
  BrokerClock              measuring and publishing the broker's offset
    LegacyGuards           the time exit of a position, pages about the guards
                           (LegacyGuards.cfg, LateExit.cfg)
      LegacyGuardsProofs
```

### TradeManagement

`EvaluateTradeManagement` is `evaluate_trade_management`, branch by branch in
its order; `BuildTpLadder` is `build_tp_ladder`, `LadderFields` is
`ladder_fields`, `PartialClosePercent` is `_partial_close_fraction`, and so on.
Prices are integers that count half dollars, volumes count 0.01 lot, momentum
counts hundredths. Rounding to 0.01 becomes rounding to the unit; the midpoint
of the way to the final target is rounded away from the entry, because in the
code it lies strictly beyond the entry whenever the target does. The ladder is
a set of rungs: it has at most two, and the order in which the code walks them
is their distance from the entry. `rr_remaining` is the constant 2.0 in every
live producer, so conditions on it are left out (the source says so itself).

### ManagedTrade

The price, the plan, a position and a memory of it. `PriceMoves` is the market
with the broker's own stop and target; `Reassess` redraws the plan; `Manage`
is one watchdog pass whose command succeeds. It asks what the decision does to
a whole trade, with the faults left out.

### PositionManagers

| state | code |
|---|---|
| `price`, `pos` | the market and the broker's book |
| `plan` | `current_plan.json` |
| `mem`, `disk` | `state` in `position_daemon.main`, `watchdog_state.json` |
| `rt` | `runtime_state.json["management"]` |
| `fresh` | the heartbeat is younger than 60 s |
| `dpc`, `todo` | where the watchdog is; tickets its pass still has to manage |
| `cpc` | where the cycle is |
| `view` | what each manager read at the start of its pass |
| `cuts`, `lost`, `stale` | observations, read by no action |

The watchdog: `DaemonPoll` (read, detect closed, track), `DaemonManage` (one
ticket: decision, guards, command, commit), `DaemonSave` (file, then
heartbeat), `DaemonAborts` (the loop's `except`), `DaemonDies`,
`DaemonRestarts`. The cycle: `CycleStarts` (plan, memory and book),
`CycleReadsHeartbeat`, `CycleRedrawsPlan` or `CycleKeepsPlan` (the latter also
the halted branch), `CycleManages` (first position with an action, then
return), `CycleHolds`, `CycleAborts`. `HeartbeatExpires` may happen at any
time, also while the watchdog lives: a poll with slow replies takes longer
than 60 s. Every command is `done`, `refused`, or executed and `unanswered`.

Abstractions. One price stands for bid and ask. Plan, tick and positions of one
pass are one snapshot. Which news is near and how old a position is are
nondeterministic, and so is the 60 s throttle of the guards: a guard may speak
whenever it is asked. Reports, MFE/MAE, event texts and dry run are left out.
A ticket is used once. The market's own moves take stops and targets at once.

### EntryGate

| state | code |
|---|---|
| `today`, `brokerToday` | the date in UTC and at the broker, whose clock is ahead |
| `book`, `late`, `deals` | the broker: positions, orders it may still execute, its deals |
| `listed` | the newest deal that the history has listed so far |
| `ledger` | `performance_state.json`: day, result, streak, trades, last ticket counted |
| `lock` | holders of the `performance_state` lock (a set: the mutant without it needs two) |
| `pc`, `at`, `count`, `perf` | each lane: its place, its `now`, the positions it counted, the state it computed |
| `base` | observation: the mark when the ledger's day began |
| `blind`, a deal's `utc`, `by`, `seeing` | observations: lanes whose reading missed an entry of their own of the day; the day in UTC of a deal, who sent its order and saw it executed, and whether that lane had missed nothing |

`Starts` takes `now`; `CountsPositions` gets the lock and counts (an unreadable
reply counts as the cap); `ReadsHistory` is `compute_performance_state` on the
file and the deals; `SavesLedger` writes and releases; `SendsOrder` is an
approved proposal whose order is executed and answered, or stays with the
broker (unanswered, or a limit of the signal lane); `LeavesRefused` is every
refusal, failure and death. `ComputePerformanceState` follows the source with a
deal's ticket as its index. Abstractions: gates that only refuse (spread,
macro, kill switch, grade, risk:reward, cooldown, market hours) are the freedom
to leave; the loss limit is a sum of money instead of a share of the balance;
the seven days of the history reach back far enough; one closing deal per position; the entry fee is
the same for every deal, so that allocating it by volume is a subtraction; the
one-time migration of gross ledgers and the audit fields are left out. A signal
process may send several orders one after the other, each through the whole
passage, as `signal_listener` does for each signal.

Two clocks. A deal carries MT5's time (`int(d.time)`, mt5_http_server_v2.py:221),
which is of the broker's clock, about UTC+3; `risk.py` (21-25, 44-58) reads it as
UTC and compares its date with the UTC day of `now`. So the broker's day begins
(`BrokerMidnight`) some hours before that of UTC (`Midnight`), a deal made in
between is stamped with the next day (`Makes`), and `EntriesOn` compares the
stamp with the day a lane took for its own, as the code does. The clock is taken
to be ahead of UTC, as for the guards. The history is asked for up to the
bridge's `utcnow()` (201-202); whether the terminal reads that on its own clock,
so that the newest deals are missing for hours, is not in the repository, so
`ReadsHistory` may stop short of the newest `MaxUnlisted` deals, for any time,
but never forgets one it has listed.

`DayLedger` is the abstract specification: a feed of deals, and a ledger that is
brought up to date in one step. It does not accumulate: whenever it changes,
result, run of losses and trades are what one reading of the feed says, from the
deal where the day began to the last one counted. The mapping takes the file for
the ledger and `base` for where its day began; the lanes' own states are
forgotten. That counting on from the file, in a lane of its own, under a lock,
and across midnights amounts to the same is the refinement (`ImplementsDayLedger`).
A new day may be an earlier one: see section 5.

### SignalPending

| state | code |
|---|---|
| `resting`, `sent` | the broker: our limit orders, and the newest ticket |
| `items` | `signal_pending.json` |
| `aged` | the clock: orders up to this ticket are past their time to live |
| `trading` | on, halted (`kill_switch_state.json`), or the market is closed |
| `pc`, `mine` | each poller: its place in the pass, and the list it has loaded |
| `live`, `todo`, `keep` | the daemon: the locals of `watch_pending` |
| `excused` | observation: orders a failure has taken out of the daemon's sight |
| `blind` | observation: orders whose sender did not know of another one |

The pollers are the daemon and any number of manual runs. Each parks orders:
`LoadsList`, `ParksOrder` (the check, the order and the answer, or `GivesUp`) and
`SavesParked` are `place_signal_limit` between its accesses of the file and of
the bridge. Nothing locks the file (the lock of `fetch_new_messages` is for the
Telegram offset), so every other poller's step, and a death, fits in between; a
save forgets what the others have put on the list since (`Unseen`). The daemon
alone watches: `Withdraws`, `Cancels`, `ReadsOrders`, `Judges` and
`SavesWatched` are `watch_pending`, the halted and the ordinary branch, one order
at a time in the order of the list, then a save of the same kind. The bridge's
replies are what the client makes of them: `"nothing"` is a timeout or a terminal
that is not connected, whose reply lists no orders; the body of an HTTP error is
not a list of records, so walking it raises and the pass ends without a step.

Abstractions: the deal history only words a message; the 15 s throttle and the
two second sleep are the daemon's freedom to wait; orders expire in the order of
their tickets (they have one time to live); `watch_pending`'s load of the list
and the bridge's answer are one step, and so are the load and the look at halt
and hours; orders are listed in ticket order, although two pollers may append
in another; what is `excused` or `blind` stays so until it leaves the broker; a
level stands for a side and an entry price closer than 0.01.

### KillSwitch, SignalPolling, Inbox

| state | code |
|---|---|
| `switch`, `seen` | `kill_switch_state.json`; what each check in progress has read of it |
| `feed` | the updates Telegram has for the bot, in the order of their ids |
| `offset` | `last_update_id` in the listener's state file |
| `lock` | holders of the `telegram_updates` lock (a set, for the mutant without it) |
| `next`, `upto` | each poller: the update it serves next, the last one of its batch |
| `todo`, `good` | its signals still to be decided, and those that may be ordered |
| `settled`, `lost`, `word`, `gap` | observations, read by no action |

`Fetches` takes the lock and the answer of `getUpdates`; `ServesCommand` is a
halt or resume (`Obeys` is `force_halt` and `force_resume`); `CollectsSignal`
keeps a signal; `SavesOffset` saves and releases. `ReadsSwitch`, `ClearsSwitch`
and the end of the check (`FindsAllClear`, `Trips`) are `check_kill_switch`
between its file accesses, for each signal; `Approves`, `Refuses` and
`RefusesAfterCheck` are the verdicts of `check_signals`; `Orders` is the loop
of `run_signal_check`, whose passage through the gates is `EntryGate`. The
master's check (`MasterChecks`) and the end of a cooldown (`HaltRunsOut`) happen
at any time. `BreaksOff` is a death or an exception anywhere in a pass.

`Inbox` is the abstract specification: updates are handed out in the order of
their arrival, in one step, to one poller that has its hands free; a signal is
resolved, or the poller lets go of all it has. The mapping is `place <- offset`,
and `hands` are the signals of pollers that do not hold the lock: what a holder
collected is handed out only by the save.

Abstractions: parser, score and gates give any verdict; the four limits are one
outcome, and a halt's cooldown ends at any time; a command is not refused by
its age, which the code does not ask of button presses (signal_listener.py:228);
saves are atomic replaces; Telegram's retention of 24 h and answers it counts
as delivered are left out: an update stays until the offset passes it.

### BrokerClock, LegacyGuards

| state | code |
|---|---|
| `now`, `ticked` | UTC, and when the market last moved |
| `prev`, `samples` | `_guard_cache["prev_tick"]` and `["offsets"]` of the watchdog |
| `published` | `broker_clock.json` |
| `dog` | the watchdog runs; its heartbeat is as fresh |
| `opened`, `closed` | one position at the broker: when it was opened, when a time exit closed it |
| `detected` | `watchdog_state.json`: when the watchdog first saw it |
| `report`, `paging` | `payload["guards"]` of the cycle that runs; file written, page not sent |
| `record` | `guard_alert_state.json` |
| `told`, `dropped` | observations: when each failure was last paged, and whose page was lost |

`Polls` is one poll of the watchdog: `Measures` (the stream's test, the sample,
the window), `Publishes` (the throttle), detection, and the exit when its age
is due by `DogBelieves`. `Guards` and `GuardsFail` are the cycle's
`evaluate_legacy_guards`, with `CycleBelieves` for `_fallback_opened_at`, and
the status it reports (a due exit overrides the missing calendar; a halted
cycle drops a healthy report). `Suppresses`, `Notes`, `Pages` and `EndsQuietly`
are `alert_degraded_guards` up to each of its effects.

Abstractions: the broker's clock is steady and ahead of UTC, so a change of its
summer time within a position's life is excluded; a tick's truncation to
seconds and the latency of a poll are left out, so the real bounds are those
stated plus both; the broker always stamps a position; a cycle ends before time
passes; a corrupt file reads as missing; there is one position (with several,
`payload["guards"]` is that of the last one evaluated, hermes_runtime.py:689).
Near news, whether a poll falls on the guards' minute, and failures of any part
are nondeterministic.

## 3. Properties and runs

| run | what it shows |
|---|---|
| `managers` | a 0.02-lot SELL under two plans of different ladder and quality, all faults, both guards, one death: five invariants and one action property |
| `managers_race` | expected violation of `StopsNeverLoosen` |
| `custody` | `TargetsAreTaken` under the fairness of both managers |
| `ladder` | openings of either side and of 0.01 to 0.04 lot, plans of every quality and with levels on both sides of the entry: no dead-lock, no refused command but the strong runner's share of the smallest lot, no chattering |
| `entry_gate` | two lanes, two orders, two days on two clocks, a history that lags: the per-lane guarantees, the ledger, and the refinement of `DayLedger` |
| `entry_cap` | expected violation of `OnePosition` |
| `daily_cap` | expected violation of `DailyCapPerLane` |
| `signal_pending` | the daemon and a manual poller, three limit orders at two levels under a cap of two: what rests is watched, the cap and the duplicate check, and `DueIsWithdrawn` |
| `pending_dropped` | expected violation of `DroppedIsGone` |
| `signal_lane` | daemon, manual poller and master over three updates: four invariants, `HaltsEndKnowingly`, the refinement of `Inbox`, `UpdatesAreServed` |
| `guards` | one position, a watchdog that comes and goes, a market that ticks or not, failing guards and lost pages: three invariants and two action properties |
| `late_exit` | expected violation of `ExitNeverLate` |

- `BreakevenFlagMeansProtected`: a breakeven flag in any memory means the stop
  is at the entry or better. It breaks if a refusal, a lost reply or a news
  lock sets the flag.
- `LedgersNeverAhead`, `CutsRemembered`: memory against the broker's
  executions, in both directions. The second is qualified by `lost`: a record
  whose reply was lost or whose process died unsaved is gone, and the code has
  no means to recover it; the run shows that these are the only ways. It also
  shows that a cut is remembered by *some* manager, not by both: the two files
  are never merged.
- `ReportedClosedIsClosed`: a bridge error is never read as an empty book.
- `LooseningNeedsStaleView`: the exact extent of the race in section 5.
- `TargetsAreTaken`: a target the market keeps offering is taken by one of the
  two managers, whatever becomes of the watchdog: it lives, dies and comes
  back, or dies for good. It breaks if a command counts as accepted without a look
  at the broker's answer.
- `HoldMeansNothingOwed`, `CommandsAreExecutable`, `CommandsMakeProgress`: the
  ladder never dead-locks, asks the impossible or chatters. Two exceptions are
  part of the statements because the code has them: a rung exactly on a SELL's
  entry earns nothing and is never taken, and the strong runner's share of the
  smallest lot is refused (section 5).
- `OnePositionPerLane`: what count-then-order still guarantees: a lane never
  stacks on itself. It breaks if an unreadable book counts as empty.
- `CapOnWhatIsSeen`: how far the daily cap holds (section 5: `DailyCapPerLane`
  does not): an entry beyond it was sent by a pass whose reading missed an
  entry of its own lane and UTC day. It breaks if the gate lets one too many by.
- `LedgerMatchesFeed`: result and streak are those of the deals since the
  ledger's day began, each counted once, by whichever lane. "Since the day
  began" is the ledger's own mark: the first pass of a day keeps the old mark
  (risk.py:113), so a deal closed late yesterday counts today.
- `LedgerKeepsItsDay`: within a day no save forgets trades or deals; it breaks
  without the lock.
- `ImplementsDayLedger`: the refinement above; it breaks if a new day begins
  behind the deals of the feed instead of behind the last deal counted.
- `RestingIsWatched`: between two stores that cannot be updated together (the
  broker's book and the file) an order is lost only through a lost answer, a
  death between order and save, an order list that did not come, a refused
  cancel, or a save over a list that another poller has changed since. It breaks
  if the walk over an error body is caught per entry instead of per pass.
- `AtMostPendingMax`, `NoStackedLimits`: the cap and the duplicate check, of the
  orders in sight, but for those sent on a list that another poller had outgrown
  (section 5). They break if the check counts the orders of a level, or does not
  look at the level.
- `DueIsWithdrawn`: an expired or unwanted order goes, across every fault.
- `AcknowledgedIsHandled`: an update the offset has passed was executed,
  settled, is in hand or was lost with a pass that broke off. It breaks if the
  newest update of the feed, not of the batch, is saved.
- `OperatorHasTheLastWord`: commands are repeated after a pass that broke off,
  but never so that one older than an acknowledged one decides. It needs the
  lock: a slow poller would otherwise replay an older batch.
- `HaltHoldsThePass`: a halt that lasts from the fetch on lets no signal of
  the batch through, although signals are checked one by one and the check
  itself rewrites the file.
- `HaltsEndKnowingly`: the exact extent of the lost update on the switch
  (section 5).
- `ImplementsInbox`: the refinement above. `UpdatesAreServed`: every update is
  settled, or lost with its pass, in the end.
- `CalibrationIsTight`: however quiet the market and however often the watchdog
  restarts on an old tick, no accepted sample and no published offset is ahead
  of the broker's clock or more than one gap behind it. It breaks if two close
  polls are taken for a live stream.
- `ExitNeverEarly`: with every source of an opening time (measured, published,
  detected, raw). It breaks if the runtime rotates a detection time, which is
  UTC already, by the broker's offset.
- `LatenessIsBounded`: a manager that knows the clock, by its own samples or by
  the published file, is at most one gap late. It breaks if the watchdog counts
  the age from its detection. Of a manager that does not, the code's comments
  promise that it is never late: `ExitNeverLate`, which it violates.
- `DegradationIsPaged`: a failure goes without a page only if the *same* one
  was paged within the cooldown and not cleared since, or that page was lost.

Bounds. One ticket suffices for the memory properties: tickets share no memory
and meet only in the order of the passes. The prices are chosen on both
sides of the rungs 120/140 and 130/160 so that half is taken, the stop moves to
breakeven, is locked or trailed, and is hit. One death (`MaxDeaths`) reaches
every program point of the watchdog; the second finds the same file. A larger instance (three prices, two million states) was explored once, without
error. `custody` uses `NewsDistance = 2`, at which no lock speaks, so that only
the time exit outranks the ladder. `CHECK_DEADLOCK FALSE` is set where a closed
position leaves nothing to do (`ladder`) and in `custody`, whose
subject is fairness.

`entry_gate` uses `MaxOrders = 2` (one per lane, or two of one), `LastDay = 2`
(one midnight of either clock at every program point), `MaxDailyTrades = 1`, so
that the cap is reached, `MaxUnlisted = 1`, so that a lane's own entry may be
missing, a fee of 1, and closes that lose: 2.3 million states. The loss limit of 5 is not reached while a second order is possible, so that
the cap alone decides on it. A winner ends the streak: `LedgerMatchesFeed` and the
refinement are proved for any results; with winners, a loss limit of 3 that one
loss reaches, and no lag, the run was explored once (4.2 million states), without
error. `daily_cap` and `entry_cap`
need no lag. Lanes are symmetric.

`signal_pending` uses one manual poller beside the daemon, two levels and three
orders under `PendingMax = 2`: two pollers can fill the last place together or
take one level together, and a third order exists that the cap must refuse or
that a forgotten one makes room for. 531,312 states; it is also the liveness run,
so symmetry of the levels is not used. `pending_dropped` needs one order.

`signal_lane` uses three updates of any kinds: a halt that a signal follows and
a resume that follows both, two batches for two pollers, a batch repeated with
a newer command in it. Four updates (542,534 states) were explored once,
without error.

`guards` uses an offset of 2 against a gap of 1, so that a tight sample, an old
tick and an unmeasured clock differ; a window of 2 against polls enough to cut
it; a published offset that goes stale after 1 and is rewritten after 1; an exit
age of 1, so that there is time to be late in; a cooldown of 2 and two failures
that can alternate; `MaxTime = 4`. Longer behaviours (`MaxTime = 5`, longer
trust and rewrite times, 5.9 million states) were explored once, without error.

`late_exit` has the constants of `guards`.

Every property has a mutant: a definition of the code changed as a plausible
bug would change it (several are bugs the repository fixed: b44, b167, b182a,
b202, b205), under which TLC finds the property violated.

## 4. Fairness

`WatchdogFairness`: the bridge answers
a poll now and then (strong on a good poll); polls are not aborted for ever
(strong on the save); a command is answered or times out after 12 s (weak on
the refusal); a broker that can execute a command does not refuse it for ever,
and the guards, evaluated at most once a minute against twelve polls, leave the
ladder the decision infinitely often (strong on `DaemonManage(t, "none",
"done")`). `FallbackFairness`: the same of the cycles cron starts, each ended
after 280 s, and of a heartbeat that expires when nobody writes it. That
systemd restarts the watchdog is *not* assumed: `custody` shows that the target
is taken without it. Nothing is assumed of the market or of the plan: the
property says that an offer that *stays* is taken.

`DaemonFairness`: systemd restarts the signal daemon, which does not die for ever;
a pass goes on, because every call in it returns or times out (weak on
`DaemonGoesOn`: a load that ends in an order or without one, a save, the next
order of the watch); its loop comes to the watch again and again although it parks
orders in between and the list may be empty or trading may change meanwhile
(strong on `Withdraws \/ ReadsOrders("listed")`: the bridge lists the orders now
and then); a manual run that has sent an order saves it or dies (weak on its
save). A cancel may be refused every time: the order is then out of sight, which
`DueIsWithdrawn` allows and `pending_dropped` shows.

`PollingFairness`: systemd restarts the daemon, which does not break off for
ever; it gets the `telegram_updates` lock again and again (strong: the manual
poller holds it in between); a pass goes on, because every call in it returns or
times out; a manual poller goes on or is ended. Of the switch, the account and
the operator nothing is assumed: a refusal settles a signal as well.

## 5. Findings

- **Two managers at once** (`managers_race`). The heartbeat is read once per
  cycle, after the positions, and the fallback acts later (a plan build lies in
  between). A watchdog that restarts meanwhile, or had only been slow, manages
  the same ticket; the later command replaces a tighter stop by one computed
  from the older stop. The comment at `hermes_runtime.py:795-798` excludes it.
  `LooseningNeedsStaleView`, proved for every instance, says that nothing else
  ever loosens a stop.
- **Minimum lot in the strong-runner lane** (`ladder`). The 30 % share is
  returned before the volume is looked at (trade_management.py:135), so 0.01 lot
  is sent a partial close that the bridge refuses on every poll.
  `CommandsAreExecutable` has to except it (`SmallestRunnerShare`);
  `MinimumLotClosesInFull`, which does not, is false of the same instance.
- **The cap on positions is per lane** (`entry_cap`). The lock ends before the
  gates and the order; two lanes that count one after the other both open.
- **The daily cap does not see the evening** (`daily_cap`). The stamps of deals
  are on the broker's clock and are read as UTC, so an entry between about 21:00
  and 24:00 UTC, while the market is open from Monday to Thursday, counts for
  tomorrow: no pass of today sees it, the lane goes on, and tomorrow begins with
  a count that is not its own. The repository corrects the same stamp for the
  time exit (`position_daemon.py:235-241`). `CapOnWhatIsSeen`, proved for every
  instance, says that what a pass did not see is the only way past the cap.
- **The ledger goes back over midnight** (`entry_gate`). `now` is read
  before the lock, so the pass that waited writes the old day over the new
  one, with sums of zero and the mark kept. `LedgerKeepsItsDay` is therefore
  about one day only; `LedgerNeverGoesBack` is false of the same instance, and
  `OnlyALatePassTurnsBack`, proved for every instance, says that only such a pass
  does it.
- **Orders dropped while they rest** (`pending_dropped`). The comment in
  `watch_pending` says that a bridge error means doing nothing, but the client
  returns a timeout as a reply, and that reply lists no orders: everything
  watched is dropped, and rests on with nobody to expire it. The same holds of
  an order whose cancel is refused, and of one that a manual poller put on
  the list while the daemon was watching.
- **Two pollers pass the cap on limit orders** (`signal_pending`).
  `place_signal_limit` loads the list, checks it, orders and saves, with no lock,
  in the daemon and in a manual run: both may find the last place free, or no
  order at the level, and the later save forgets the other's order. The
  docstring's "at most HERMES_PENDING_MAX" and "must not stack two limit orders"
  hold of one poller; `AtMostPendingMax` and `NoStackedLimits` have to except the
  orders sent on an outgrown list, and `LimitsHoldInTurn`, proved for every
  instance, says that with pollers that take turns nothing need be excepted.
- **An unknown clock makes the time exit late, not early** (`late_exit`). The
  comments at `engines/broker_clock.py:10-14` and `position_daemon.py:217-219`,
  `250-253` and `368-371` expect a missing calibration to let the exit fire
  early, or the detection time to stand in. In the code a watchdog that has not
  measured takes the raw stamp less zero, which is ahead of UTC, and a detection
  comes after the opening: the position looks younger. `LateByOffsetOrDetection`,
  proved for every instance, gives the extent: the whole offset, or the delay of
  the detection.

Two more things a reader should know of, which contradict no statement of the
repository but which the properties and theorems delimit:

- **A halt can be wiped by a check.** An all-clear saves the state it loaded
  (kill_switch.py:110-113), and a check that found an expired halt clears the file
  first. A halt that the operator or the other process wrote in between is gone.
  `HaltsEndKnowingly`, proved for every instance, says that this window, from
  a check's load to its save, is the only way a halt ends unknown.
- **A target can be taken twice across a handoff.** The two managers remember
  what they took in different files and neither reads the other's
  (hermes_runtime.py:664), so the fallback takes a rung that the watchdog took
  before it went down. `RetakenOnlyUnknown`, proved for every instance, says
  that this, a lost reply and a death before the save are the only ways;
  `LoneManagerTakesOnce` that without them it never happens. With 0.02 lot the
  second cut closes the position; 0.04 lot show it (explored once, 2.2 million
  states, with both managers and one death).

## 6. Proofs

All obligations are checked by tlapm, from the named assumptions on the
constants only (each named by an `ASSUME`): tickets are numbers, prices integers, plans well-typed,
`NewsDistance` positive, and an order carries its stop on the losing side of
its entry; for the entry passage, lanes are finitely many, limits positive and
deals integers; for the limit orders, a daemon among the pollers and a positive cap; for the signal lane, a
daemon among the pollers and a master that is none of them; for the guards, a
broker's clock ahead of UTC within the sanity limit, and failures that are no
names of other reports.

- `TradeManagementProofs`: types of the ladder and the decision; a breakeven or
  trailing stop is never on the losing side of the entry once it improves
  (`BreakevenStopProtects`, `TrailStopProtects`); `StopMovesRatchet`, the
  theorem about every stop the ladder sends; `TakesWhatIsOwed`.
  `NothingHitNothingOwed` is about the ladder as a whole: at most two rungs, both
  beyond the entry or on it (`LadderShape`), the nearest untaken one first, so
  that no rung the price has reached hides behind one it has not.
- `ManagedTradeProofs`: `TradeTypeCorrect`, `CommandsProgress`, `NothingIsOwed`,
  `CommandsExecutable`, `OrdinaryMinimumLotClosesInFull`.
- `PositionManagersProofs`: `Invariance` of `IInv`, and from it `TypeCorrect`,
  `BreakevenIsHeld`, `LedgersAreHonest`, `ReportsAreTrue`,
  `StopsLoosenOnlyFromStaleViews`; with a second invariant, `CInv`,
  `CutsAreRemembered`, `RetakenOnlyUnknown` and `LoneManagerTakesOnce`; with a
  third, `AInv`, `ApartStopsNeverLoosen`.
- `EntryGateProofs`: `Invariance` of its `IInv`, and `OneEach`, `CapHolds`,
  `LedgerForgetsNothing`.
- `EntryLedgerProofs`: `FeedInvariance` of `FInv`, and from it `TypeCorrect` and
  `LedgerIsTheFeed`; with `DInv`, the refinement `LanesImplementDayLedger`;
  `LanesTogether`, `OnlyALatePassTurnsBack`, `PassesOfTodayNeverTurnBack`.
- `SignalPendingProofs`: `Invariance` of its `IInv`, and `TypeCorrect`,
  `WatchedUnlessLost`, `CapHolds`, `NothingStacks`, `DroppedUnlessOutOfSight`,
  `AnsweredNothingIsDropped`, `LimitsHoldInTurn`.
- `SignalPollingProofs`: `Invariance` of its `IInv`, and `TypeCorrect`,
  `NothingGoesMissing`, `LastWordStands`, `HaltHolds`, `HaltsEndOnlyKnowingly`,
  and `LaneImplementsInbox`, the refinement.
- `LegacyGuardsProofs`: `Invariance` of its `IInv`, and `TypeCorrect`,
  `CalibrationHolds`, `NeverEarly`, `LateByOneGap`, `LateByOffsetOrDetection`,
  `DegradationReachesTheOperator`.

The `IInv` of the managers is needed because none of the properties is inductive. A decision is
computed from a *view*, so what the step does to the book follows only if the
view relates to the book: `ViewsAreOfThePast` says that a ticket seen open was
opened with that side and entry (it may have closed since), and that a stop
seen is the book's stop or the difference is one that `stale` will record.
`TodoWasSeen` ties the tickets a pass will manage to its view; `MemoriesAgree`
states honesty of all three memories at once, because each is copied to another
(save, restart); `TrackedWasOpened` gives that what disappears from a good
reply is closed and not unopened. The proof of a command is factored:
`DecisionFacts` (what any decision can be, guards included), `ExecutedFacts`
(what the broker can make of it), `CommandFacts`, then one lemma per conjunct
(`SentKeepsMemory`, `SentCommits`, `SentLoosensOnlyStale`) shared by the two
managers, and one lemma per action.

The `IInv` of the entry passage says why count-then-order is sound per lane:
`CountsOwn` (a lane past the count has at most that many positions: only it can
add one, everybody can only take one away) and `EntriesCounted` (the state it
computed covers its entries of the day it took for today, if its reading missed
none). `CapOf` is the cap in a form a step preserves: of the entries up to one
that was sent by a pass that missed nothing, so that what a blind pass adds later
does not disturb it (`UpTo`). `DaysAgree` carries the midnight case: a lane whose
pass began on an earlier day has no entry yet on the present one, so one more is
within the cap. `AheadOfFile` with `Exclusive` is the ledger's argument: what is
computed inside the lock is not behind the file, and the file cannot change until
it is saved.

The `IInv` of the limit orders carries `RestingIsWatched` through a watch that
others write into: `PassForgetsNothing` says that an order that rests and was on
the list when the daemon loaded it is still to be handled, or kept, or out of
sight, and that one that was not listed is out of sight or gone; what others have
put on the list since is what the save takes out of sight (`Unseen`). `AllWereSent`
makes a new order's ticket the newest, so only its sending can disturb the cap or
a level: if its sender knew of every order in sight they are all on the list it
checked, and if not the order is `blind`. With pollers that take turns
(`TakeTurns`), nothing is ever blind or unseen (`AllSeen`): that is
`LimitsHoldInTurn`.

The `IInv` of the signal lane is about the lock: `OneHolder`, and
`HoldersServe` (a holder's batch begins after the present offset, what it has
served of it is executed or collected, and the operator's last word is as new
as the commands it has served), `OthersAreBehind` (what the others have in hand
lies under the offset) and `ChecksAreOpen` (an open check saw a moment without a
halt). The refinement then has one abstract step per save of the offset, of a
verdict or an order, and of a break-off; everything else stutters: the batch a
poller serves under the lock is nobody's yet, so its repetition is invisible.

The `IInv` of the guards: a sample is accepted only if the tick moved since the
last poll, which is no more than a gap ago; `PollIsBehind` says that poll saw
the market as it was then, so the tick that moved is no older than the gap
(`CalibrationIsTight`). `SeenAfterOpening` makes a detection no earlier than
the opening, and with both no belief about the opening is earlier than it
(`ExitNeverEarly`). `RecordMeansPaged` says that the alert file vouches for a
page: one sent at that time or later, lost, or about to be sent.

`CutsRemembered` is the converse of honesty: no memory falls behind the broker.
Its invariant, `CInv`, says of every cut of an open position that it is lost, or
on the fallback's file, or in what the watchdog remembers (its memory, or its
file while it is down). What makes that inductive is about the copies of a
record: a poll that begins to track a ticket blanks its memory, so what is not
tracked, in memory or on file, must be blank already (`UntrackedAreBlank`); and
a pass manages only tracked tickets (`TodoIsTracked`), so what it cuts is saved.
The same invariant tells who can take a rung again: the ladder offers a manager
only what it does not remember (`TakesWhatIsOwed`), and by `CutsAreKnown` what
it does not remember is lost or known to the other one.

The ledger's sums are proved by induction over the deals. The provers cannot
instantiate the library's induction theorems, whose hypothesis is an operator;
`SmallestSubset` (of the finite sets with a property, some set has it and no
strict part of it does) is proved once, for a set of sets instead of an
operator, and every fact about a sum or a streak is then an argument about the
smallest counterexample. From it come `Net` and `Streak` lemmas: what a sum or a
run of losses over a first stretch of deals becomes when a second is counted on.
`FInv` adds to `IInv` that a lane in the ledger section has computed what the
deals it has read amount to, from the mark of the file, and that the file agrees
with the feed. `DInv` does the same for the trades of the day, where the code
takes the larger of the file's count and a new one: a recount of the same day
never finds fewer (`EntriesMono`), so the larger is the new one. The refinement
has one abstract step per save (`SaveIsCountOn`, `SaveIsNewDay`), one per deal,
and stutters otherwise.

How far the violated claims are from the truth, or what would make a thing that
can go wrong impossible, is proved, too. Where such a theorem has a hypothesis,
it is about the behaviour, not about the constants, and names what the code
would have to provide:

- `ApartStopsNeverLoosen`: if no watchdog pass overlaps a cycle that has read
  the positions (`Apart`), no command moves a stop away from the price.
  `AInv` says that then every view is current in what it says of stops.
- `LoneManagerTakesOnce`: if only the watchdog takes targets and no record is
  lost, none is taken twice.
- `PassesOfTodayNeverTurnBack`: if no pass saves after a midnight it began
  before, the ledger's day never goes back; `OnlyALatePassTurnsBack` says the
  same of one step and assumes nothing.
- `AnsweredNothingIsDropped`: if the bridge answers and obeys and no poller saves
  over another's list, what is dropped from the watch list has left the broker;
  `DroppedUnlessOutOfSight` assumes nothing and names the orders that are dropped
  all the same.
- `LimitsHoldInTurn`: if no two pollers are in a pass at once, at most
  `PendingMax` orders in sight rest, and no two at one level.
- `LateByOffsetOrDetection`: how late a manager is that does not know the clock.
- `OrdinaryMinimumLotClosesInFull`: outside the strong runner's lane the doc's
  rule for the smallest lot holds.
- `LanesTogether`: the caps are a lane's, so the account has at most as many
  positions and entries of a day as all lanes together may have. Orders whose
  execution nobody saw are not in these counts, nor entries sent by a pass that
  missed one of its own.

Out of the prover's reach, and only model-checked: the liveness properties
`TargetsAreTaken`, `DueIsWithdrawn` and `UpdatesAreServed` (fairness and
ENABLED). Every invariant and every action property of the passing runs is
proved, both refinements included. The inductive invariants were checked by TLC
on the instances of section 3 before they were proved (`AInv` under the
constraint `Apart`).

## 7. Plan and limits

Done: the ladder and a managed trade; the two managers; the entry passage; the
limit orders; the signal lane with the kill switch and its refinement; the
broker's clock, the time exit and the guards' pages; proofs of everything the
runs check but liveness. What a next step would take, in this order:

1. A resting limit that fills past the cap: `SignalPending` composed with
   `EntryGate`, and an abstract entry slot (taken, released) that the passage of
   one lane refines.
2. `PositionCustody`, an abstract custody of one position that
   `PositionManagers` refines through a mapping that forgets the memories; two
   positions, for the fallback that returns after the first one
   (hermes_runtime.py:691).
3. `DurableState`: quarantine of a corrupt file, the fail-open mirror; DEFCON
   and tighten-only learning as operators against reference definitions; the
   restart cooldown.
4. Proofs of what these add; and, in `LegacyGuards` and `SignalPolling`, when
   nothing is lost at all (a cycle that is never cut short, a pass that never
   breaks off).

Not modelled, and why: candle analysis and planning are numerical (the models
take any plan); the signal parser is regular expressions over texts; reports
and dashboards are output; backtests are offline; cooldown and market hours only
refuse entries, which the lanes are free to leave anyway; `archive/`,
`legacy_removed/`, `windows_bridge/`, `forwarder/`, `data/` are not part of the
running system. By lines, most of the repository is of these kinds: old copies
of the program, one-off scripts, backtests, dashboards and numerical analysis.
The modules cover the part that keeps state between steps and shares it between
processes, which is small, and the share of all lines that `map` names stays
small with it.
