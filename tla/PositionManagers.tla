-------------------------- MODULE PositionManagers --------------------------
(***************************************************************************)
(* The two processes that manage the positions on the broker's book:       *)
(*                                                                         *)
(*   - the watchdog, position_daemon.main: polls every 5 s, manages each   *)
(*     live ticket, writes its memory (watchdog_state.json) and its        *)
(*     heartbeat at the END of a poll, and is restarted when it dies;      *)
(*   - the fallback, hermes_runtime.cycle: started by cron, reads the      *)
(*     positions, then reads the heartbeat ONCE, and manages the book      *)
(*     itself when the heartbeat is stale.  Its memory is another file     *)
(*     (runtime_state.json), and it redraws the plan both of them use.     *)
(*                                                                         *)
(* Each acts on the view of the market it read at the start of its pass.   *)
(* The broker executes stops and targets by itself, may refuse a command,  *)
(* and may execute one whose reply is lost.                                *)
(***************************************************************************)
EXTENDS TradeManagement

CONSTANTS
  Tickets,      \* position tickets, numbers: the broker lists them in order
  Prices,       \* prices the market visits
  Openings,     \* orders the entry path may have sent: [side, entry, sl, tp, vol]
  Plans,        \* plans a reassessment may draw: [levels, scale, quality]
  NewsDistance, \* half an ATR: how close a news lock pulls the stop
  MaxDeaths     \* bound: deaths of the watchdog in one behaviour

NoPlan == [levels |-> {}, scale |-> {},
           quality |-> [trend |-> 0, alignment |-> "none", grade |-> "none"]]

PlanType == [levels : SUBSET Int, scale : SUBSET Int,
             quality : [trend : Nat, alignment : Alignments, grade : Grades]]

OrderType == [side : Sides, entry : Int, sl : Int, tp : Int, vol : Nat]

ASSUME TicketsAssumption  == Tickets \subseteq Nat
ASSUME PricesAssumption   == Prices \subseteq Int
ASSUME PlansAssumption    == Plans \subseteq PlanType
ASSUME DistanceAssumption == NewsDistance \in Nat \ {0} /\ MaxDeaths \in Nat
\* An order carries a stop on the losing side of its entry.
ASSUME OpeningsAssumption ==
  /\ Openings \subseteq OrderType
  /\ \A o \in Openings : Beyond(o.side, o.entry, o.sl)

VARIABLES
  price,    \* the market
  plan,     \* current_plan.json
  pos,      \* the broker's book
  mem,      \* the watchdog's state in memory ...
  disk,     \* ... and as last saved to watchdog_state.json
  rt,       \* runtime_state.json["management"]
  fresh,    \* the heartbeat file is younger than 60 s
  dpc,      \* what the watchdog is doing
  todo,     \* tickets its current pass still has to manage
  cpc,      \* what the cycle is doing
  view,     \* what each manager read at the start of its pass
  deaths,
  \* Observations, read by no action:
  cuts,     \* levels at which the broker executed a partial close
  lost,     \* those of them whose record is gone: lost reply, or died unsaved
  stale     \* tickets whose stop was set by a manager that saw an older stop

market  == <<price, pos, cuts, stale>>
daemon  == <<mem, disk, fresh, dpc, todo, deaths>>
runtime == <<plan, rt, cpc>>
vars == <<price, plan, pos, mem, disk, rt, fresh, dpc, todo, cpc, view, deaths,
          cuts, lost, stale>>

Managers == {"daemon", "cycle"}

Position == [st : {"unopened", "open", "closed"}, side : Sides, entry : Int,
             sl : Int, tp : Int, vol : Nat]

Unopened == [st |-> "unopened", side |-> "BUY", entry |-> 0, sl |-> 0, tp |-> 0,
             vol |-> 0]
Closed   == [Unopened EXCEPT !.st = "closed"]

Memory    == [tracked : SUBSET Tickets, flags : [Tickets -> Flags],
              closed : SUBSET Tickets]

\* Deviation: a first start without the keys of the state file.
BareMemory == [tracked |-> {}]

NoMemory  == [tracked |-> {}, flags |-> [t \in Tickets |-> NoFlags], closed |-> {}]

View   == [price : Int, plan : PlanType \cup {NoPlan}, pos : [Tickets -> Position]]
NoView == [price |-> 0, plan |-> NoPlan, pos |-> [t \in Tickets |-> Unopened]]

Open == {t \in Tickets : pos[t].st = "open"}
Seen(m) == {t \in Tickets : view[m].pos[t].st = "open"}

TypeOK ==
  /\ price \in Prices
  /\ plan \in PlanType \cup {NoPlan}
  /\ pos \in [Tickets -> Position]
  /\ mem \in Memory /\ disk \in Memory
  /\ rt \in [Tickets -> Flags]
  /\ fresh \in BOOLEAN
  /\ dpc \in {"idle", "managing", "down"}
  /\ cpc \in {"idle", "started", "watched", "fallback", "managing"}
  /\ todo \subseteq Tickets
  /\ view \in [Managers -> View]
  /\ deaths \in Nat
  /\ cuts \in [Tickets -> SUBSET Int] /\ lost \in [Tickets -> SUBSET Int]
  /\ stale \subseteq Tickets

Init ==
  /\ price \in Prices
  /\ plan \in Plans \cup {NoPlan}
  /\ pos = [t \in Tickets |-> Unopened]
  /\ mem = NoMemory /\ disk = NoMemory
  /\ rt = [t \in Tickets |-> NoFlags]
  /\ fresh = FALSE
  /\ dpc = "idle" /\ todo = {} /\ deaths = 0
  /\ cpc = "idle"
  /\ view = [m \in Managers |-> NoView]
  /\ cuts = [t \in Tickets |-> {}] /\ lost = [t \in Tickets |-> {}]
  /\ stale = {}

-----------------------------------------------------------------------------
(* The market and the broker's own executions.                             *)

\* The stop or the target of position p is reached at price q.
Triggered(p, q) == \/ ~Beyond(p.side, q, p.sl)
                   \/ p.tp # 0 /\ ~Beyond(p.side, p.tp, q)

OpenPosition(t, o) ==
  /\ pos[t].st = "unopened"
  /\ o.entry = price
  /\ pos' = [pos EXCEPT ![t] = [st |-> "open", side |-> o.side, entry |-> o.entry,
                                sl |-> o.sl, tp |-> o.tp, vol |-> o.vol]]
  /\ UNCHANGED <<price, cuts, stale, lost, view>>
  /\ UNCHANGED daemon /\ UNCHANGED runtime

PriceMoves(q) ==
  LET out == {t \in Open : Triggered(pos[t], q)}
      forget(f) == [t \in Tickets |-> IF t \in out THEN {} ELSE f[t]]
  IN /\ q # price
     /\ price' = q
     /\ pos' = [t \in Tickets |-> IF t \in out THEN Closed ELSE pos[t]]
     /\ cuts' = forget(cuts) /\ lost' = forget(lost)
     /\ stale' = stale \ out
     /\ UNCHANGED view /\ UNCHANGED daemon /\ UNCHANGED runtime

-----------------------------------------------------------------------------
(* A management command: POST /api/modify, /api/partial or /api/close.     *)

\* What the book holds for t after the broker has executed d; none if it
\* cannot: no such position, a stop that is not behind the market, a volume
\* below 0.01 lot, or a decision for which no command is sent.
Executed(t, d) ==
  IF pos[t].st # "open" THEN {}
  ELSE IF d.action \in StopMoves
       THEN {p \in {[pos[t] EXCEPT !.sl = d.sl]} : Beyond(p.side, price, p.sl)}
  ELSE IF ClosesAll(d) THEN {Closed}
  ELSE IF d.action = "partial_take_profit"
       THEN {[pos[t] EXCEPT !.vol = @ - v] : v \in PartialVolumes(pos[t].vol, d.percent)}
  ELSE {}

Replies == {"done", "refused", "unanswered"}

\* Deviation: the memory is written whatever the broker answered.
AcceptedUnread(reply) == TRUE

\* The caller sees success exactly when the reply is "done".
Accepted(reply) == reply = "done"

\* Manager m sends the command for decision d on ticket t.
Command(m, t, d, reply) ==
  \/ /\ reply = "refused"
     /\ UNCHANGED <<pos, cuts, lost, stale>>
  \/ /\ reply # "refused"
     /\ \E p \in Executed(t, d) :
          /\ pos' = [pos EXCEPT ![t] = p]
          /\ LET keep == p.st = "open"
                 cut  == IF d.action = "partial_take_profit" THEN {d.level} ELSE {}
             IN /\ cuts' = [cuts EXCEPT ![t] = IF keep THEN @ \cup cut ELSE {}]
                /\ lost' = [lost EXCEPT ![t] = IF ~keep THEN {}
                              ELSE IF reply = "unanswered" THEN @ \cup cut ELSE @]
                /\ stale' = IF ~keep THEN stale \ {t}
                            ELSE IF d.action \in StopMoves /\ view[m].pos[t].sl # pos[t].sl
                            THEN stale \cup {t} ELSE stale

\* Deviation: a news lock counts as the breakeven move whose name it shares.
CommitEveryStop(flags, d) ==
  IF d.action = "partial_take_profit"
    THEN [flags EXCEPT !.filled = @ \cup {d.level}]
  ELSE [flags EXCEPT !.be = @ \/ d.action = "move_stop_to_breakeven"]

\* What an accepted decision adds to a manager's memory of the position.
Commit(flags, d) ==
  IF d.action = "partial_take_profit"
    THEN [flags EXCEPT !.filled = @ \cup {d.level}]
  ELSE IF d.action = "move_stop_to_breakeven" /\ ~IsNewsLock(d)
    THEN [flags EXCEPT !.be = TRUE]
  ELSE flags

-----------------------------------------------------------------------------
(* engines/legacy_guards: verdicts that outrank the ladder.  Which news is *)
(* near, how old the position is, the 60 s throttle and the fingerprint of *)
(* an accepted lock decide whether a guard speaks: any of them may.        *)

Guards == {"none", "news_lock", "time_exit"}

NewsStop(side, p) == Ahead(side, p, -NewsDistance)

\* A lock speaks only when it tightens the stop and leaves more than 1.00 USD.
NewsLockSpeaks(side, sl, p) == Beyond(side, NewsStop(side, p), sl) /\ NewsDistance > 2

Guarded(core, g, side, sl, p) ==
  IF g = "news_lock" /\ NewsLockSpeaks(side, sl, p)
    THEN [Moving("move_stop_to_breakeven", NewsStop(side, p)) EXCEPT !.reason = "news_lock"]
  ELSE IF g = "time_exit" THEN Closing("close_trade_early")
  ELSE core

\* The decision of a manager about ticket t, given its memory of it.
Decision(m, t, flags, scale, g) ==
  LET p    == view[m].pos[t]
      core == IF view[m].plan = NoPlan THEN Hold
              ELSE EvaluateTradeManagement(BuildTrade(p, view[m].plan, flags, scale),
                                           view[m].price)
  IN  Guarded(core, g, p.side, p.sl, view[m].price)

-----------------------------------------------------------------------------
(* Reading the market: GET /api/tick and /api/positions.                   *)

\* positions_list: an error envelope lists nothing.
Listed(reply) == IF reply = "ok" THEN Open ELSE {}

\* A manager's pass is over: what it saw no longer matters.
Leaves(m) == view' = [view EXCEPT ![m] = NoView]

Snapshot(reply) ==
  [ price |-> price, plan |-> plan,
    pos   |-> [t \in Tickets |-> IF t \in Listed(reply) THEN pos[t] ELSE Unopened] ]

-----------------------------------------------------------------------------
(* position_daemon.main                                                    *)

\* Deviation: an error envelope is read as an empty book.
ReadableOrNot(reply) == TRUE

\* The bridge-failure guard: only a good reply is taken for the book.
Readable(reply) == reply = "ok"

\* Deviation: every poll starts the memory of a ticket anew.
KeptFromNone(live) == {}

\* The tickets whose memory goes on.
Kept(live) == mem.tracked \cap live

\* Start of a poll: read plan, tick and positions; report what disappeared,
\* start tracking what is new.
DaemonPoll(reply) ==
  /\ dpc = "idle"
  /\ Readable(reply)
  /\ LET live == Listed(reply)
     IN /\ mem' = [ tracked |-> live,
                    flags   |-> [t \in Tickets |-> IF t \in Kept(live)
                                                   THEN mem.flags[t] ELSE NoFlags],
                    closed  |-> mem.closed \cup (mem.tracked \ live) ]
        /\ todo' = live
  /\ view' = [view EXCEPT !["daemon"] = Snapshot(reply)]
  /\ dpc' = "managing"
  /\ UNCHANGED <<disk, fresh, deaths, lost>>
  /\ UNCHANGED market /\ UNCHANGED runtime

FirstToManage == {t \in todo : \A s \in todo : t <= s}

\* manage_position for one ticket; the view is dropped with the last one.
DaemonManage(t, g, reply) ==
  /\ dpc = "managing"
  /\ t \in FirstToManage
  /\ todo' = todo \ {t}
  /\ \E d \in {Decision("daemon", t, mem.flags[t], {}, g)} :
       /\ Command("daemon", t, d, reply)
       /\ mem' = IF Accepted(reply) THEN [mem EXCEPT !.flags[t] = Commit(@, d)] ELSE mem
  /\ IF todo = {t} THEN Leaves("daemon") ELSE UNCHANGED view
  /\ UNCHANGED <<price, disk, fresh, dpc, deaths>> /\ UNCHANGED runtime

\* End of a poll: save_state, then the heartbeat.
DaemonSave ==
  /\ dpc = "managing" /\ todo = {}
  /\ disk' = mem
  /\ fresh' = TRUE
  /\ dpc' = "idle"
  /\ Leaves("daemon")
  /\ UNCHANGED <<mem, todo, deaths, lost>> /\ UNCHANGED market /\ UNCHANGED runtime

\* An exception anywhere in the poll: log, sleep, poll again; nothing is saved.
DaemonAborts ==
  /\ dpc = "managing"
  /\ dpc' = "idle" /\ todo' = {}
  /\ Leaves("daemon")
  /\ UNCHANGED <<mem, disk, fresh, deaths, lost>> /\ UNCHANGED market /\ UNCHANGED runtime

DaemonDies ==
  /\ dpc # "down" /\ deaths < MaxDeaths
  /\ deaths' = deaths + 1
  /\ dpc' = "down" /\ todo' = {}
  /\ mem' = NoMemory
  /\ lost' = [t \in Tickets |-> lost[t] \cup
                IF t \in Open THEN mem.flags[t].filled \ disk.flags[t].filled ELSE {}]
  /\ Leaves("daemon")
  /\ UNCHANGED <<disk, fresh>> /\ UNCHANGED market /\ UNCHANGED runtime

DaemonRestarts ==
  /\ dpc = "down"
  /\ dpc' = "idle"
  /\ mem' = disk
  /\ UNCHANGED <<disk, fresh, todo, deaths, view, lost>>
  /\ UNCHANGED market /\ UNCHANGED runtime

HeartbeatExpires ==
  /\ fresh
  /\ fresh' = FALSE
  /\ UNCHANGED <<mem, disk, dpc, todo, deaths, view, lost>>
  /\ UNCHANGED market /\ UNCHANGED runtime

-----------------------------------------------------------------------------
(* hermes_runtime.cycle                                                    *)

CycleStarts(reply) ==
  /\ cpc = "idle"
  /\ cpc' = "started"
  /\ view' = [view EXCEPT !["cycle"] = Snapshot(reply)]
  /\ UNCHANGED <<plan, rt, lost>> /\ UNCHANGED market /\ UNCHANGED daemon

\* The one reading of the heartbeat.
CycleReadsHeartbeat ==
  /\ cpc = "started"
  /\ IF fresh \/ Seen("cycle") = {}
       THEN cpc' = "watched" /\ Leaves("cycle")
       ELSE cpc' = "fallback" /\ UNCHANGED view
  /\ UNCHANGED <<plan, rt, lost>> /\ UNCHANGED market /\ UNCHANGED daemon

\* Plan or reassess: the new plan is saved whoever manages the positions.
CycleRedrawsPlan(p) ==
  /\ cpc \in {"watched", "fallback"}
  /\ plan' = p
  /\ IF cpc = "fallback"
       THEN cpc' = "managing" /\ view' = [view EXCEPT !["cycle"].plan = p]
       ELSE cpc' = "idle" /\ UNCHANGED view
  /\ UNCHANGED <<rt, lost>> /\ UNCHANGED market /\ UNCHANGED daemon

\* Monitor step, or a halted system: the plan stays.
CycleKeepsPlan ==
  /\ cpc \in {"watched", "fallback"}
  /\ IF cpc = "fallback" /\ view["cycle"].plan # NoPlan
       THEN cpc' = "managing" /\ UNCHANGED view
       ELSE cpc' = "idle" /\ Leaves("cycle")
  /\ UNCHANGED <<plan, rt, lost>> /\ UNCHANGED market /\ UNCHANGED daemon

CycleDecision(t, g) == Decision("cycle", t, rt[t], view["cycle"].plan.scale, g)

\* The fallback pass acts on the first position that needs an action ...
CycleManages(t, g, reply) ==
  /\ cpc = "managing"
  /\ t \in Seen("cycle")
  /\ \A s \in Seen("cycle") : s < t => CycleDecision(s, "none").action = "hold"
  /\ \E d \in {CycleDecision(t, g)} :
       /\ d.action # "hold"
       /\ Command("cycle", t, d, reply)
       /\ rt' = IF Accepted(reply) THEN [rt EXCEPT ![t] = Commit(@, d)] ELSE rt
  /\ cpc' = "idle"
  /\ Leaves("cycle")
  /\ UNCHANGED <<price, plan>> /\ UNCHANGED daemon

\* ... and ends when none does.
CycleHolds ==
  /\ cpc = "managing"
  /\ \A t \in Seen("cycle") : CycleDecision(t, "none").action = "hold"
  /\ cpc' = "idle"
  /\ Leaves("cycle")
  /\ UNCHANGED <<plan, rt, lost>> /\ UNCHANGED market /\ UNCHANGED daemon

\* cron's timeout, a failed plan build or an exception ends a cycle anywhere.
CycleAborts ==
  /\ cpc # "idle"
  /\ cpc' = "idle"
  /\ Leaves("cycle")
  /\ UNCHANGED <<plan, rt, lost>> /\ UNCHANGED market /\ UNCHANGED daemon

-----------------------------------------------------------------------------
DaemonStep ==
  \/ \E reply \in {"ok", "error"} : DaemonPoll(reply)
  \/ \E t \in Tickets, g \in Guards, reply \in Replies : DaemonManage(t, g, reply)
  \/ DaemonSave
  \/ DaemonAborts
  \/ DaemonDies
  \/ DaemonRestarts

CycleStep ==
  \/ \E reply \in {"ok", "error"} : CycleStarts(reply)
  \/ CycleReadsHeartbeat
  \/ \E p \in Plans : CycleRedrawsPlan(p)
  \/ CycleKeepsPlan
  \/ \E t \in Tickets, g \in Guards, reply \in Replies : CycleManages(t, g, reply)
  \/ CycleHolds
  \/ CycleAborts

Next ==
  \/ \E t \in Tickets, o \in Openings : OpenPosition(t, o)
  \/ \E q \in Prices : PriceMoves(q)
  \/ DaemonStep
  \/ HeartbeatExpires
  \/ CycleStep

Spec == Init /\ [][Next]_vars

-----------------------------------------------------------------------------
(* Fairness.  The watchdog's loop polls every 5 s while its process lives;  *)
(* a command without an answer in 12 s counts as refused; a poll's bridge   *)
(* answers now and then; the guards are evaluated at most once in 60 s, so  *)
(* the ladder decides in infinitely many polls; and the broker does not     *)
(* refuse an executable command forever.  That a dead watchdog is ever      *)
(* started again is not assumed.                                            *)

WatchdogFairness ==
  /\ SF_vars(DaemonPoll("ok"))
  /\ SF_vars(DaemonSave)
  /\ \A t \in Tickets :
       /\ WF_vars(DaemonManage(t, "none", "refused"))
       /\ SF_vars(DaemonManage(t, "none", "done"))

\* The same of the cycles that cron starts every few minutes, each of them
\* killed after 280 s, and of a heartbeat that nobody writes any more.
FallbackFairness ==
  /\ WF_vars(HeartbeatExpires)
  /\ WF_vars(CycleAborts)
  /\ SF_vars(CycleStarts("ok"))
  /\ SF_vars(CycleReadsHeartbeat /\ cpc' = "fallback")
  /\ SF_vars((CycleKeepsPlan \/ \E p \in Plans : CycleRedrawsPlan(p)) /\ cpc' = "managing")
  /\ \A t \in Tickets : SF_vars(CycleManages(t, "none", "done"))

CustodySpec == Spec /\ WatchdogFairness /\ FallbackFairness

(* The market stands at a rung of t's ladder that the broker was not yet    *)
(* made to take.                                                            *)
AtTarget(t) ==
  /\ t \in Open
  /\ \E l \in BuildTpLadder(pos[t].entry, pos[t].side, pos[t].tp, plan.levels) \ cuts[t] :
       ~Beyond(pos[t].side, l, price) /\ Beyond(pos[t].side, l, pos[t].entry)

(* A profit the market offers is not left standing for ever: the rung is    *)
(* taken, the position closes, or the price or the ladder moves away -      *)
(* across aborted polls, refusals and lost replies, and whatever becomes of *)
(* the watchdog: when it comes back it goes on from its file, and when it   *)
(* is dead for good the cycle's fallback takes over (b207: "the last line   *)
(* of protective defence").                                                 *)
TargetsAreTaken == \A t \in Tickets : AtTarget(t) ~> ~AtTarget(t)

-----------------------------------------------------------------------------
Loosened(t) == /\ t \in Open /\ pos'[t].st = "open"
               /\ Beyond(pos[t].side, pos[t].sl, pos'[t].sl)

(* "While the watchdog is alive the runtime must not manage (double-modify  *)
(* race)": with one manager at a time no stop is ever loosened.             *)
StopsNeverLoosen == [][\A t \in Tickets : ~Loosened(t)]_vars

(* A stop can move away from the price only in a step whose manager judged *)
(* an older stop, or after such a step, which marks its ticket for as long *)
(* as it is open: as long as the views are current neither manager ever    *)
(* proposes to give protection back (b202, b205).                          *)
LooseningNeedsStaleView == [][\A t \in Tickets : Loosened(t) => t \in stale']_vars

(* The breakeven flag suppresses every later breakeven move, so it must    *)
(* never be set while the broker's stop still lies on the losing side.     *)
(* Only a manager that saw an older stop can break it (b167, b205).        *)
Protected(t) == ~Beyond(pos[t].side, pos[t].entry, pos[t].sl)

BreakevenFlagMeansProtected ==
  \A t \in Open \ stale :
    mem.flags[t].be \/ disk.flags[t].be \/ rt[t].be => Protected(t)

(* Memory is committed on the broker's acceptance only: no manager ever    *)
(* remembers a target as taken that the broker did not take (b7b, b10b).   *)
LedgersNeverAhead ==
  \A t \in Open : mem.flags[t].filled \cup disk.flags[t].filled \cup rt[t].filled
                    \subseteq cuts[t]

(* ... and every target the broker took is remembered by some manager,     *)
(* unless its reply was lost or the watchdog died before saving it.        *)
CutsRemembered ==
  \A t \in Open : cuts[t] \subseteq lost[t] \cup rt[t].filled
        \cup (IF dpc = "down" THEN disk.flags[t].filled ELSE mem.flags[t].filled)

(* A bridge error is never read as "all positions closed".                 *)
ReportedClosedIsClosed ==
  \A t \in mem.closed \cup disk.closed : pos[t].st = "closed"
=============================================================================
