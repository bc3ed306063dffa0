------------------------------ MODULE EntryGate ------------------------------
(***************************************************************************)
(* The way to a market order.  Two processes may open positions: the       *)
(* master (hermes_runtime.cycle, one process started by cron) and the      *)
(* signal daemon (signal_listener.run_signal_check, for every signal).     *)
(* Both go through the same passage:                                       *)
(*                                                                         *)
(*   _performance_and_policy   under the performance_state lock: count the *)
(*                             open positions, read the broker's deals,    *)
(*                             bring the risk ledger up to date;           *)
(*   evaluate_proposal         the gates, judged by what was read above;   *)
(*   execute_trade             POST /api/order, after the lock is free.    *)
(*                                                                         *)
(* Every gate that can only refuse (spread, macro, kill switch, grade,     *)
(* risk:reward, cooldown, market hours, sizing) is the freedom of a lane   *)
(* to give up; modelled are the gates that read what the other lane or the *)
(* broker may have changed.  An order whose reply is lost, and a limit     *)
(* order parked by the signal lane, may be executed by the broker later.   *)
(*                                                                         *)
(* Two clocks: the lanes' today is the UTC day, a deal's stamp is of the   *)
(* broker's day, which begins some hours earlier, and risk.py reads the    *)
(* stamp as if it were UTC.  The bridge asks for the deals up to its own   *)
(* utcnow(); where the terminal reads that on the broker's clock too, the  *)
(* newest deals are listed hours later.                                    *)
(***************************************************************************)
EXTENDS Integers, Sequences, FiniteSetsExt

CONSTANTS
  Lanes,            \* the master, the signal daemon, a manual signal check
  MaxOpenPositions, \* 1
  MaxDailyTrades,   \* 5
  LossLimit,        \* the loss of a day that locks the account
  EntryFee,         \* commission on the opening deal
  Results,          \* what closing a position may earn
  MaxUnlisted,      \* bound: the newest deals that the history may not list yet
  MaxOrders,        \* bound: orders that reach the broker in one behaviour
  LastDay           \* bound: days are 1 .. LastDay

ASSUME LanesAssumption  == IsFiniteSet(Lanes)
ASSUME LimitsAssumption == /\ MaxOpenPositions \in Nat \ {0}
                           /\ MaxDailyTrades \in Nat \ {0}
                           /\ LossLimit \in Nat \ {0}
ASSUME DealsAssumption  == EntryFee \in Nat /\ Results \subseteq Int
ASSUME BoundsAssumption == /\ MaxOrders \in Nat /\ MaxUnlisted \in Nat
                           /\ LastDay \in Nat \ {0}

VARIABLES
  today,       \* the day in UTC
  brokerToday, \* the day at the broker, whose clock is ahead
  book,    \* positions on the broker's book
  late,    \* orders that the broker may still execute on its own
  deals,   \* the broker's deals; a deal's ticket is its index
  listed,  \* the newest one that a reading of the history has listed
  sent,    \* orders that reached the broker so far
  ledger,  \* performance_state.json
  lock,    \* holders of the performance_state lock
  pc,      \* where each lane is in the passage
  at,      \* ... the day it took for today when it started
  count,   \* ... the open positions it counted
  perf,    \* ... and the performance state it computed
  \* Observations, read by no action:
  base,    \* the last deal before the ledger's day began
  blind    \* lanes whose reading missed an entry of their own of the day

vars == <<today, brokerToday, book, late, deals, listed, sent, ledger, lock, pc, at, count,
          perf, base, blind>>
days   == <<today, brokerToday>>
broker == <<book, late, deals, listed, sent>>
files  == <<ledger, base>>

Order    == [id : 1 .. MaxOrders, lane : Lanes]
Position == [id : 1 .. MaxOrders, lane : Lanes, late : BOOLEAN]
\* A deal and its stamp.  Observations: its day in UTC, the lane that sent the
\* order and saw it executed, if any, and whether that lane had missed nothing.
Deal     == [entry : BOOLEAN, day : Nat, net : Int,
             utc : Nat, by : SUBSET Lanes, seeing : BOOLEAN]
Ledger   == [day : Nat, pnl : Int, streak : Nat, trades : Nat, last : Nat]

\* Deviation: a start from nothing, without the fields the gates read.
BareLedger == [day |-> 0]

\* No file, or an unreadable one.
NoLedger == [day |-> 0, pnl |-> 0, streak |-> 0, trades |-> 0, last |-> 0]

Places == {"out", "waiting", "reading", "saving", "gates"}

TypeOK ==
  /\ today \in 1 .. LastDay /\ brokerToday \in {today, today + 1}
  /\ book \subseteq Position /\ late \subseteq Order
  /\ deals \in Seq(Deal) /\ listed \in 0 .. Len(deals)
  /\ sent \in 0 .. MaxOrders
  /\ ledger \in Ledger
  /\ lock \subseteq Lanes
  /\ pc \in [Lanes -> Places]
  /\ at \in [Lanes -> 0 .. LastDay]
  /\ count \in [Lanes -> Nat]
  /\ perf \in [Lanes -> Ledger]
  /\ base \in Nat /\ blind \subseteq Lanes

Init ==
  /\ today = 1 /\ brokerToday = 1
  /\ book = {} /\ late = {} /\ deals = <<>> /\ listed = 0 /\ sent = 0
  /\ ledger = NoLedger /\ base = 0 /\ blind = {}
  /\ lock = {}
  /\ pc = [l \in Lanes |-> "out"]
  /\ at = [l \in Lanes |-> 0]
  /\ count = [l \in Lanes |-> 0]
  /\ perf = [l \in Lanes |-> NoLedger]

-----------------------------------------------------------------------------
(* engines/risk.compute_performance_state                                  *)

\* Deviation: the deal that was counted last is new again.
NewFrom(last, n) == {i \in 1 .. n : i >= last}

\* Tickets of the deals that are newer than the last one counted.
NewDeals(last, n) == {i \in 1 .. n : i > last}

\* Entries of a day among the first n deals: by the stamp, taken for UTC.
EntriesOn(day, n) == Cardinality({i \in 1 .. n : deals[i].entry /\ deals[i].day = day})

NetOf(tickets) == MapThenSumSet(LAMBDA i : deals[i].net, tickets)

\* Closing legs, judged with the commission of their entry.
Exits(tickets)   == {i \in tickets : ~deals[i].entry}
Losers(tickets)  == {i \in Exits(tickets) : deals[i].net - EntryFee < 0}
Winners(tickets) == {i \in Exits(tickets) : deals[i].net - EntryFee > 0}

\* A streak of losses before the deals, and after them.
StreakAfter(streak, tickets) ==
  IF Winners(tickets) = {} THEN streak + Cardinality(Losers(tickets))
  ELSE Cardinality({i \in Losers(tickets) : i > Max(Winners(tickets))})

Larger(a, b) == IF a >= b THEN a ELSE b

\* Deviation: the mark moves with the day, over deals that nobody has counted.
FirstOfDayFromNow(state, day, n) ==
  [day |-> day, pnl |-> 0, streak |-> 0, trades |-> EntriesOn(day, n), last |-> n]

\* The first computation of a day restarts the day's sums, and keeps the mark.
FirstOfDay(state, day, n) ==
  [day |-> day, pnl |-> 0, streak |-> 0, trades |-> EntriesOn(day, n), last |-> state.last]

\* The state of day after the first n deals of the history.
ComputePerformanceState(state, day, n) ==
  IF state.day # day THEN FirstOfDay(state, day, n)
  ELSE LET new == NewDeals(state.last, n)
       IN [ day    |-> day,
            pnl    |-> state.pnl + NetOf(new),
            streak |-> StreakAfter(state.streak, new),
            trades |-> Larger(EntriesOn(day, n), state.trades),
            last   |-> IF new = {} THEN state.last ELSE n ]

-----------------------------------------------------------------------------
(* hermes_runtime._performance_and_policy                                  *)

\* A lane starts a pass: its now, and with it its today, is taken here.
Starts(l) ==
  /\ pc[l] = "out"
  /\ pc' = [pc EXCEPT ![l] = "waiting"]
  /\ at' = [at EXCEPT ![l] = today]
  /\ UNCHANGED <<lock, count, perf, blind>>
  /\ UNCHANGED days /\ UNCHANGED broker /\ UNCHANGED files

\* Deviation: no lock.
AnyTime == TRUE

LockFree == lock = {}

\* Deviation: what cannot be read counts as an empty book (before b214).
OpenCountUnguarded(reply) == IF reply = "ok" THEN Cardinality(book) ELSE 0

\* GET /api/positions: an unreadable reply counts as the cap.
OpenCount(reply) == IF reply = "ok" THEN Cardinality(book) ELSE MaxOpenPositions

CountsPositions(l, reply) ==
  /\ pc[l] = "waiting"
  /\ LockFree
  /\ lock' = lock \cup {l}
  /\ count' = [count EXCEPT ![l] = OpenCount(reply)]
  /\ pc' = [pc EXCEPT ![l] = "reading"]
  /\ UNCHANGED <<at, perf, blind>>
  /\ UNCHANGED days /\ UNCHANGED broker /\ UNCHANGED files

\* The entries that lane l sent and saw executed on a day of UTC.
OwnEntries(l, day) ==
  {i \in 1 .. Len(deals) : deals[i].entry /\ deals[i].utc = day /\ l \in deals[i].by}

\* ... that a reading up to n misses: not listed yet, or stamped with another day.
Missed(l, n) == {i \in OwnEntries(l, at[l]) : i > n \/ deals[i].day # at[l]}

\* GET /api/history/deals; an unreadable history leaves the ledger alone and
\* refuses the entry (LeavesRefused).
ReadsHistory(l, n) ==
  /\ pc[l] = "reading"
  /\ n \in listed .. Len(deals) /\ Len(deals) - n <= MaxUnlisted
  /\ listed' = n
  /\ perf' = [perf EXCEPT ![l] = ComputePerformanceState(ledger, at[l], n)]
  /\ pc' = [pc EXCEPT ![l] = "saving"]
  /\ blind' = IF Missed(l, n) # {} THEN blind \cup {l} ELSE blind
  /\ UNCHANGED <<book, late, deals, sent, lock, at, count>>
  /\ UNCHANGED days /\ UNCHANGED files

\* save_performance_state, and the end of the locked section.
SavesLedger(l) ==
  /\ pc[l] = "saving"
  /\ ledger' = perf[l]
  /\ base' = IF perf[l].day = ledger.day THEN base ELSE perf[l].last
  /\ lock' = lock \ {l}
  /\ pc' = [pc EXCEPT ![l] = "gates"]
  /\ UNCHANGED <<at, count, perf, blind>> /\ UNCHANGED days /\ UNCHANGED broker

-----------------------------------------------------------------------------
(* auto_executor.evaluate_proposal and execute_trade                       *)

\* Deviation: one trade too many.
UpToDailyTrades(l) ==
  /\ perf[l].pnl > -LossLimit
  /\ perf[l].trades <= MaxDailyTrades
  /\ count[l] < MaxOpenPositions

Approved(l) ==
  /\ perf[l].pnl > -LossLimit
  /\ perf[l].trades < MaxDailyTrades
  /\ count[l] < MaxOpenPositions

\* The pass is over and what it read is gone.
Forgets(l) ==
  /\ pc' = [pc EXCEPT ![l] = "out"]
  /\ at' = [at EXCEPT ![l] = 0]
  /\ count' = [count EXCEPT ![l] = 0]
  /\ perf' = [perf EXCEPT ![l] = NoLedger]
  /\ blind' = blind \ {l}

\* A deal is made, stamped on the broker's clock.
Makes(isEntry, net, by) ==
  /\ deals' = Append(deals, [entry |-> isEntry, day |-> brokerToday, net |-> net,
                             utc |-> today, by |-> by, seeing |-> by \cap blind = {}])

\* The broker opens a position for order o.
Opens(o, isLate) ==
  /\ book' = book \cup {[id |-> o.id, lane |-> o.lane, late |-> isLate]}
  /\ Makes(TRUE, -EntryFee, IF isLate THEN {} ELSE {o.lane})

\* An order goes out: it is executed and answered, or it stays with the
\* broker - unanswered, or a limit parked at the signal's price.
SendsOrder(l, fate) ==
  /\ pc[l] = "gates"
  /\ Approved(l)
  /\ sent < MaxOrders
  /\ sent' = sent + 1
  /\ LET o == [id |-> sent', lane |-> l]
     IN \/ fate = "done" /\ Opens(o, FALSE) /\ UNCHANGED late
        \/ fate = "later" /\ late' = late \cup {o} /\ UNCHANGED <<book, deals>>
  /\ Forgets(l)
  /\ UNCHANGED <<listed, lock>> /\ UNCHANGED days /\ UNCHANGED files

\* Refused by a gate or by the broker, the lock not had in 10 s, a failed
\* read, an exception, the death of the process: the system frees the lock.
LeavesRefused(l) ==
  /\ pc[l] # "out"
  /\ lock' = lock \ {l}
  /\ Forgets(l)
  /\ UNCHANGED days /\ UNCHANGED broker /\ UNCHANGED files

-----------------------------------------------------------------------------
(* The broker and the calendar                                             *)

ExecutesLate(o) ==
  /\ o \in late
  /\ late' = late \ {o}
  /\ Opens(o, TRUE)
  /\ UNCHANGED <<listed, sent, lock, pc, at, count, perf, blind>>
  /\ UNCHANGED days /\ UNCHANGED files

\* The stop, the target or a manager closes a position.
Closes(p, r) ==
  /\ p \in book
  /\ book' = book \ {p}
  /\ Makes(FALSE, r, {})
  /\ UNCHANGED <<late, listed, sent, lock, pc, at, count, perf, blind>>
  /\ UNCHANGED days /\ UNCHANGED files

\* The broker's day begins before that of UTC: 21:00 at UTC+3.
BrokerMidnight ==
  /\ brokerToday = today /\ today < LastDay
  /\ brokerToday' = brokerToday + 1
  /\ UNCHANGED <<today, lock, pc, at, count, perf, blind>>
  /\ UNCHANGED broker /\ UNCHANGED files

Midnight ==
  /\ today < brokerToday
  /\ today' = today + 1
  /\ UNCHANGED <<brokerToday, lock, pc, at, count, perf, blind>>
  /\ UNCHANGED broker /\ UNCHANGED files

-----------------------------------------------------------------------------
LaneStep(l) ==
  \/ Starts(l)
  \/ \E reply \in {"ok", "error"} : CountsPositions(l, reply)
  \/ \E n \in listed .. Len(deals) : ReadsHistory(l, n)
  \/ SavesLedger(l)
  \/ \E fate \in {"done", "later"} : SendsOrder(l, fate)
  \/ LeavesRefused(l)

Next ==
  \/ \E l \in Lanes : LaneStep(l)
  \/ \E o \in late : ExecutesLate(o)
  \/ \E p \in book, r \in Results : Closes(p, r)
  \/ BrokerMidnight
  \/ Midnight

Spec == Init /\ [][Next]_vars

-----------------------------------------------------------------------------
(* "Max simultaneous positions": one.                                      *)
OnePosition == Cardinality(book) <= MaxOpenPositions

(* What the gates do guarantee (b45, b214): a lane never opens a position   *)
(* on top of its own, whatever the bridge answers - only two lanes, or an   *)
(* order executed behind its sender's back, get past the cap.               *)
Own(l) == {p \in book : p.lane = l /\ ~p.late}

OnePositionPerLane == \A l \in Lanes : Cardinality(Own(l)) <= MaxOpenPositions

(* MAX_DAILY_TRADES: "the daily trade cap had been dead code" (risk.py); it  *)
(* counts the deals "whose timestamp falls on today (UTC)".                 *)
DailyCapPerLane ==
  \A l \in Lanes, day \in 1 .. LastDay : Cardinality(OwnEntries(l, day)) <= MaxDailyTrades

(* What is true of it, across days, shared ledgers and lost races: an entry  *)
(* beyond the cap is one whose lane, when it read the history, missed an     *)
(* entry of its own of that day - not listed yet, or stamped with the        *)
(* broker's tomorrow.                                                        *)
CapOnWhatIsSeen ==
  \A l \in Lanes, day \in 1 .. LastDay : \A i \in OwnEntries(l, day) :
    deals[i].seeing => Cardinality({j \in OwnEntries(l, day) : j <= i}) <= MaxDailyTrades

(* The risk ledger is the feed's: the day's result is the sum of the deals  *)
(* since the day began for the ledger, each counted once, whatever lanes    *)
(* computed it in between.                                                  *)
LedgerMatchesFeed ==
  /\ ledger.last <= listed
  /\ ledger.pnl = NetOf(base + 1 .. ledger.last)
  /\ ledger.streak = StreakAfter(0, base + 1 .. ledger.last)

(* "A slower, older read-modify-write cannot overwrite a newer risk         *)
(* ledger": within a day no save forgets a trade or a deal ...              *)
LedgerKeepsItsDay ==
  [][ledger'.day = ledger.day =>
       ledger'.trades >= ledger.trades /\ ledger'.last >= ledger.last]_vars

(* ... and the ledger's day is never an earlier one again.                  *)
LedgerNeverGoesBack == [][ledger'.day >= ledger.day]_vars

(* The lanes' interleaved readings, computations and saves amount to one    *)
(* ledger, brought up to date in one step each time, and counting on from   *)
(* what is on file amounts to reading the whole day again.                  *)
Day == INSTANCE DayLedger WITH
         feed <- deals, Fee <- EntryFee, day <- ledger.day, from <- base, upto <- ledger.last,
         net <- ledger.pnl, losses <- ledger.streak, trades <- ledger.trades

ImplementsDayLedger == Day!Spec
=============================================================================
