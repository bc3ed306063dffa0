----------------------- MODULE PositionManagersProofs -----------------------
(***************************************************************************)
(* Proofs that, for any set of tickets, prices, orders and plans, the two  *)
(* managers never loosen a stop but from a stale view, never believe a     *)
(* breakeven that the broker does not hold, never remember a target that   *)
(* was not taken and never report a live position as closed.               *)
(***************************************************************************)
EXTENDS PositionManagers, TradeManagementProofs

-----------------------------------------------------------------------------
(* The inductive invariant.                                                 *)

\* What a manager saw open was open when it looked: it is open now, with the
\* same side and entry, or it is closed.
ViewsAreOfThePast ==
  \A m \in Managers, t \in Tickets :
    view[m].pos[t].st = "open" =>
      \/ pos[t].st = "closed"
      \/ /\ pos[t].st = "open"
         /\ pos[t].side = view[m].pos[t].side
         /\ pos[t].entry = view[m].pos[t].entry

\* The watchdog only manages what it saw.
TodoWasSeen == todo \subseteq Seen("daemon")

\* A memory f of the tickets agrees with the broker: it knows nothing of a
\* position before it opens, no target that was not taken, and no breakeven
\* that the stop does not hold - unless a stale view has set the stop.
MemoryAgrees(f) ==
  \A t \in Tickets :
    /\ pos[t].st = "unopened" => f[t] = NoFlags
    /\ pos[t].st = "open" => f[t].filled \subseteq cuts[t]
    /\ pos[t].st = "open" /\ t \notin stale /\ f[t].be
         => ~Beyond(pos[t].side, pos[t].entry, pos[t].sl)

MemoriesAgree == MemoryAgrees(mem.flags) /\ MemoryAgrees(disk.flags) /\ MemoryAgrees(rt)

\* The watchdog tracks only what was opened, and reports only what closed.
TrackedWasOpened ==
  /\ \A t \in mem.tracked \cup disk.tracked : pos[t].st # "unopened"
  /\ \A t \in mem.closed \cup disk.closed : pos[t].st = "closed"

IInv ==
  /\ TypeOK
  /\ ViewsAreOfThePast
  /\ TodoWasSeen
  /\ MemoriesAgree
  /\ TrackedWasOpened

(* The invariant contains the properties the runs check.                    *)
LEMMA IInvImplies ==
  IInv => LedgersNeverAhead /\ BreakevenFlagMeansProtected /\ ReportedClosedIsClosed
  BY DEF IInv, MemoriesAgree, MemoryAgrees, TrackedWasOpened, LedgersNeverAhead,
         BreakevenFlagMeansProtected, ReportedClosedIsClosed, Open, Protected

-----------------------------------------------------------------------------
(* A manager's decision about a ticket it saw open.                         *)

LEMMA NoFlagsType == NoFlags \in Flags
  BY DEF NoFlags, Flags

LEMMA SidesExclude ==
  ASSUME NEW side \in Sides, NEW a \in Int, NEW b \in Int
  PROVE  ~(Beyond(side, a, b) /\ Beyond(side, b, a))
  BY DEF Sides, Beyond

(* Every verdict is typed; one that moves the stop tightens the stop its    *)
(* manager saw, and unless a news lock moved it, to the entry or beyond.    *)
LEMMA DecisionFacts ==
  ASSUME TypeOK, NEW m \in Managers, NEW t \in Tickets, NEW flags \in Flags,
         NEW scale \in SUBSET Int, NEW g \in Guards
  PROVE  LET d == Decision(m, t, flags, scale, g)
             p == view[m].pos[t]
         IN  /\ d \in Decisions
             /\ d.action \in StopMoves => Beyond(p.side, d.sl, p.sl)
             /\ d.action \in StopMoves /\ ~IsNewsLock(d) => ~Beyond(p.side, p.entry, d.sl)
<1> DEFINE p == view[m].pos[t]
           pl == view[m].plan
           q == view[m].price
           core == IF pl = NoPlan THEN Hold
                   ELSE EvaluateTradeManagement(BuildTrade(p, pl, flags, scale), q)
           Good(d) == /\ d \in Decisions
                      /\ d.action \in StopMoves => Beyond(p.side, d.sl, p.sl)
                      /\ d.action \in StopMoves /\ ~IsNewsLock(d)
                           => ~Beyond(p.side, p.entry, d.sl)
<1>1. p \in Position /\ q \in Int /\ pl \in PlanType \cup {NoPlan}
  BY DEF TypeOK, View
<1>2. p.side \in Sides /\ p.entry \in Int /\ p.sl \in Int /\ p.tp \in Int /\ p.vol \in Nat
  BY <1>1 DEF Position
<1> HIDE DEF p, pl, q
<1>3. Good(core)
  <2>1. CASE pl = NoPlan
    BY <2>1 DEF Hold, Verdict, Decisions, Actions, StopMoves, Closes
  <2>2. CASE pl # NoPlan
    <3> DEFINE tr == BuildTrade(p, pl, flags, scale)
    <3>1. pl.levels \in SUBSET Int /\ pl.quality \in Quality
      BY <1>1, <2>2 DEF PlanType, Quality
    <3>2. tr \in Trades
      BY <1>2, <3>1, BuildTradeType
    <3>3. tr.side = p.side /\ tr.entry = p.entry /\ tr.sl = p.sl
      BY DEF BuildTrade
    <3> HIDE DEF tr
    <3>4. EvaluateTradeManagement(tr, q) \in Decisions
      BY <1>1, <3>2, DecisionType
    <3>5. EvaluateTradeManagement(tr, q).action \in StopMoves =>
             /\ Beyond(tr.side, EvaluateTradeManagement(tr, q).sl, tr.sl)
             /\ ~Beyond(tr.side, tr.entry, EvaluateTradeManagement(tr, q).sl)
      BY <1>1, <3>2, StopMovesRatchet
    <3>6. core = EvaluateTradeManagement(tr, q)
      BY <2>2 DEF tr
    <3> QED
      BY <3>3, <3>4, <3>5, <3>6
  <2> QED
    BY <2>1, <2>2
<1> HIDE DEF core
<1>4. Good(Guarded(core, g, p.side, p.sl, q))
  <2>1. CASE g = "news_lock" /\ NewsLockSpeaks(p.side, p.sl, q)
    <3> DEFINE d == [Moving("move_stop_to_breakeven", NewsStop(p.side, q))
                       EXCEPT !.reason = "news_lock"]
    <3>1. Guarded(core, g, p.side, p.sl, q) = d
      BY <2>1 DEF Guarded
    <3>2. NewsStop(p.side, q) \in Int
      BY <1>1, <1>2, DistanceAssumption DEF NewsStop, Ahead
    <3>3. d = [action |-> "move_stop_to_breakeven", reason |-> "news_lock",
               sl |-> NewsStop(p.side, q), level |-> 0, percent |-> 0]
      BY DEF Moving, Verdict
    <3>4. Beyond(p.side, NewsStop(p.side, q), p.sl)
      BY <2>1 DEF NewsLockSpeaks
    <3> QED
      BY <3>1, <3>2, <3>3, <3>4 DEF Decisions, Actions, StopMoves, IsNewsLock
  <2>2. CASE ~(g = "news_lock" /\ NewsLockSpeaks(p.side, p.sl, q)) /\ g = "time_exit"
    <3>1. Guarded(core, g, p.side, p.sl, q) = Closing("close_trade_early")
      BY <2>2 DEF Guarded
    <3> QED
      BY <3>1 DEF Closing, Verdict, Decisions, Actions, StopMoves, Closes
  <2>3. CASE ~(g = "news_lock" /\ NewsLockSpeaks(p.side, p.sl, q)) /\ g # "time_exit"
    BY <1>3, <2>3 DEF Guarded
  <2> QED
    BY <2>1, <2>2, <2>3
<1>5. Decision(m, t, flags, scale, g) = Guarded(core, g, p.side, p.sl, q)
  BY DEF Decision, core, p, pl, q
<1> QED
  BY <1>4, <1>5 DEF p

(* What is remembered of a decision is typed.                               *)
LEMMA CommitType ==
  ASSUME NEW flags \in Flags, NEW d \in Decisions
  PROVE  Commit(flags, d) \in Flags
  BY DEF Commit, Flags, Decisions
-----------------------------------------------------------------------------
(* What a command does to the book and to the observations.                 *)

\* Ticket t after manager m sent decision d: closed, or the same trade with
\* its cuts remembered and its stop where it was or where d puts it.
Touched(m, t, d) ==
  pos'[t].st = "open" =>
    /\ pos[t].st = "open"
    /\ pos'[t].side = pos[t].side /\ pos'[t].entry = pos[t].entry
    /\ cuts[t] \subseteq cuts'[t]
    /\ t \in stale => t \in stale'
    /\ \/ pos'[t].sl = pos[t].sl
       \/ /\ d.action \in StopMoves /\ pos'[t].sl = d.sl
          /\ t \in stale' \/ view[m].pos[t].sl = pos[t].sl

\* No other ticket changes.
OthersUntouched(t) ==
  \A s \in Tickets : s # t =>
    /\ pos'[s] = pos[s]
    /\ cuts'[s] = cuts[s]
    /\ (s \in stale') = (s \in stale)

\* ... and what an accepted one leaves behind.
Achieved(t, d) ==
  pos'[t].st = "open" =>
    /\ d.action = "partial_take_profit" => d.level \in cuts'[t]
    /\ d.action \in StopMoves => pos'[t].sl = d.sl

LEMMA ExecutedFacts ==
  ASSUME TypeOK, NEW t \in Tickets, NEW d \in Decisions, NEW p \in Executed(t, d)
  PROVE  /\ p \in Position
         /\ pos[t].st = "open"
         /\ p = Closed \/ (/\ p.st = "open" /\ p.side = pos[t].side
                          /\ p.entry = pos[t].entry
                          /\ p.sl = IF d.action \in StopMoves THEN d.sl ELSE pos[t].sl)
<1>1. pos[t] \in Position /\ pos[t].st = "open"
  BY DEF TypeOK, Executed
<1>2. d.sl \in Int
  BY DEF Decisions
<1>3. Closed \in Position
  BY DEF Closed, Unopened, Position, Sides
<1>4. CASE d.action \in StopMoves
  <2>1. p = [pos[t] EXCEPT !.sl = d.sl]
    BY <1>1, <1>4 DEF Executed
  <2> QED
    BY <1>1, <1>2, <1>4, <2>1 DEF Position
<1>5. CASE d.action \notin StopMoves /\ ClosesAll(d)
  <2>1. p = Closed
    BY <1>1, <1>5 DEF Executed
  <2> QED
    BY <1>1, <1>3, <2>1
<1>6. CASE d.action \notin StopMoves /\ ~ClosesAll(d)
  <2>1. PICK v \in PartialVolumes(pos[t].vol, d.percent) : p = [pos[t] EXCEPT !.vol = @ - v]
    BY <1>1, <1>6 DEF Executed
  <2>2. v \in Nat /\ v < pos[t].vol /\ pos[t].vol \in Nat
    BY <1>1 DEF PartialVolumes, RoundedVolumes, Position
  <2>3. pos[t].vol - v \in Nat
    BY <2>2
  <2> QED
    BY <1>1, <1>6, <2>1, <2>3 DEF Position
<1> QED
  BY <1>4, <1>5, <1>6

LEMMA CommandFacts ==
  ASSUME TypeOK, NEW m \in Managers, NEW t \in Tickets, NEW d \in Decisions,
         NEW reply \in Replies, Command(m, t, d, reply)
  PROVE  /\ pos' \in [Tickets -> Position]
         /\ cuts' \in [Tickets -> SUBSET Int] /\ lost' \in [Tickets -> SUBSET Int]
         /\ stale' \subseteq Tickets
         /\ OthersUntouched(t)
         /\ pos'[t].st = pos[t].st \/ pos'[t].st = "closed"
         /\ Touched(m, t, d)
         /\ Accepted(reply) => Achieved(t, d)
<1>1. CASE reply = "refused"
  <2>1. UNCHANGED <<pos, cuts, lost, stale>>
    BY <1>1 DEF Command
  <2> QED
    BY <1>1, <2>1 DEF TypeOK, Touched, Accepted, OthersUntouched
<1>2. CASE reply # "refused"
  <2> DEFINE cut == IF d.action = "partial_take_profit" THEN {d.level} ELSE {}
  <2>1. PICK p \in Executed(t, d) :
          /\ pos' = [pos EXCEPT ![t] = p]
          /\ cuts' = [cuts EXCEPT ![t] = IF p.st = "open" THEN @ \cup cut ELSE {}]
          /\ lost' = [lost EXCEPT ![t] = IF ~(p.st = "open") THEN {}
                        ELSE IF reply = "unanswered" THEN @ \cup cut ELSE @]
          /\ stale' = IF ~(p.st = "open") THEN stale \ {t}
                      ELSE IF d.action \in StopMoves /\ view[m].pos[t].sl # pos[t].sl
                      THEN stale \cup {t} ELSE stale
    BY <1>2 DEF Command
  <2>2. /\ p \in Position /\ pos[t].st = "open"
        /\ p = Closed \/ (/\ p.st = "open" /\ p.side = pos[t].side
                         /\ p.entry = pos[t].entry
                         /\ p.sl = IF d.action \in StopMoves THEN d.sl ELSE pos[t].sl)
    BY ExecutedFacts
  <2>3. cut \in SUBSET Int
    BY DEF Decisions
  <2>4. Closed.st = "closed"
    BY DEF Closed, Unopened
  <2>5. /\ pos \in [Tickets -> Position] /\ cuts \in [Tickets -> SUBSET Int]
        /\ lost \in [Tickets -> SUBSET Int] /\ stale \subseteq Tickets
    BY DEF TypeOK
  <2>6. /\ pos' \in [Tickets -> Position]
        /\ cuts' \in [Tickets -> SUBSET Int] /\ lost' \in [Tickets -> SUBSET Int]
        /\ stale' \subseteq Tickets
    BY <2>1, <2>2, <2>3, <2>5
  <2>7. OthersUntouched(t)
    BY <2>1, <2>5 DEF OthersUntouched
  <2>8. pos'[t] = p /\ (p.st = "open" => cuts'[t] = cuts[t] \cup cut)
    BY <2>1, <2>5
  <2>9. pos'[t].st = pos[t].st \/ pos'[t].st = "closed"
    BY <2>2, <2>4, <2>8
  <2>10. Touched(m, t, d)
    BY <2>1, <2>2, <2>4, <2>8 DEF Touched
  <2>11. Achieved(t, d)
    BY <2>2, <2>4, <2>8 DEF Achieved
  <2> QED
    BY <2>6, <2>7, <2>9, <2>10, <2>11
<1> QED
  BY <1>1, <1>2
-----------------------------------------------------------------------------
(* The parts of the invariant, carried over a step that touches one ticket. *)

\* MemoryAgrees of a memory f after the step.
WillAgree(f) ==
  \A t \in Tickets :
    /\ pos'[t].st = "unopened" => f[t] = NoFlags
    /\ pos'[t].st = "open" => f[t].filled \subseteq cuts'[t]
    /\ pos'[t].st = "open" /\ t \notin stale' /\ f[t].be
         => ~Beyond(pos'[t].side, pos'[t].entry, pos'[t].sl)

\* The facts of a step in which manager m sends its decision d about ticket t.
Sent(m, t, d) ==
  /\ t \in Seen(m) /\ d \in Decisions
  /\ pos' \in [Tickets -> Position]
  /\ OthersUntouched(t)
  /\ pos'[t].st = pos[t].st \/ pos'[t].st = "closed"
  /\ Touched(m, t, d)
  /\ LET p == view[m].pos[t]
     IN  /\ d.action \in StopMoves => Beyond(p.side, d.sl, p.sl)
         /\ d.action \in StopMoves /\ ~IsNewsLock(d) => ~Beyond(p.side, p.entry, d.sl)

\* A memory that the step leaves alone still agrees with the broker.
LEMMA SentKeepsMemory ==
  ASSUME TypeOK, ViewsAreOfThePast, NEW m \in Managers, NEW t \in Tickets, NEW d,
         Sent(m, t, d), NEW f \in [Tickets -> Flags], MemoryAgrees(f)
  PROVE  WillAgree(f)
<1> SUFFICES ASSUME NEW s \in Tickets
             PROVE  /\ pos'[s].st = "unopened" => f[s] = NoFlags
                    /\ pos'[s].st = "open" => f[s].filled \subseteq cuts'[s]
                    /\ pos'[s].st = "open" /\ s \notin stale' /\ f[s].be
                         => ~Beyond(pos'[s].side, pos'[s].entry, pos'[s].sl)
  BY DEF WillAgree
<1>1. CASE s # t
  <2>1. pos'[s] = pos[s] /\ cuts'[s] = cuts[s] /\ (s \in stale') = (s \in stale)
    BY <1>1 DEF Sent, OthersUntouched
  <2>2. /\ pos[s].st = "unopened" => f[s] = NoFlags
        /\ pos[s].st = "open" => f[s].filled \subseteq cuts[s]
        /\ pos[s].st = "open" /\ s \notin stale /\ f[s].be
             => ~Beyond(pos[s].side, pos[s].entry, pos[s].sl)
    BY DEF MemoryAgrees
  <2> QED
    BY <2>1, <2>2
<1>2. CASE s = t
  <2>1. pos'[t].st = "unopened" => f[t] = NoFlags
    BY DEF Sent, MemoryAgrees
  <2>2. pos'[t].st = "open" => f[t].filled \subseteq cuts'[t]
    BY DEF Sent, Touched, MemoryAgrees
  <2>3. ASSUME pos'[t].st = "open", t \notin stale', f[t].be
        PROVE  ~Beyond(pos'[t].side, pos'[t].entry, pos'[t].sl)
    <3>1. /\ pos[t].st = "open" /\ t \notin stale
          /\ pos'[t].side = pos[t].side /\ pos'[t].entry = pos[t].entry
          /\ \/ pos'[t].sl = pos[t].sl
             \/ /\ d.action \in StopMoves /\ pos'[t].sl = d.sl
                /\ view[m].pos[t].sl = pos[t].sl
      BY <2>3 DEF Sent, Touched
    <3>2. ~Beyond(pos[t].side, pos[t].entry, pos[t].sl)
      BY <2>3, <3>1 DEF MemoryAgrees
    <3>3. CASE pos'[t].sl = pos[t].sl
      BY <3>1, <3>2, <3>3
    <3>4. CASE d.action \in StopMoves /\ pos'[t].sl = d.sl /\ view[m].pos[t].sl = pos[t].sl
      <4>1. view[m].pos[t].side = pos[t].side
        BY <3>1 DEF Sent, Seen, ViewsAreOfThePast
      <4>2. Beyond(pos[t].side, d.sl, pos[t].sl)
        BY <3>4, <4>1 DEF Sent
      <4>3. pos[t].side \in Sides /\ pos[t].entry \in Int /\ pos[t].sl \in Int /\ d.sl \in Int
        BY DEF TypeOK, Position, Sent, Decisions
      <4>4. ~Beyond(pos[t].side, pos[t].entry, d.sl)
        BY <3>2, <4>2, <4>3 DEF Beyond, Sides
      <4> QED
        BY <3>1, <3>4, <4>4
    <3> QED
      BY <3>1, <3>3, <3>4
  <2> QED
    BY <1>2, <2>1, <2>2, <2>3
<1> QED
  BY <1>1, <1>2

\* The memory into which an accepted decision is committed agrees with it too.
LEMMA SentCommits ==
  ASSUME TypeOK, ViewsAreOfThePast, NEW m \in Managers, NEW t \in Tickets, NEW d,
         Sent(m, t, d), Achieved(t, d), NEW f \in [Tickets -> Flags], MemoryAgrees(f)
  PROVE  WillAgree([f EXCEPT ![t] = Commit(@, d)])
<1> DEFINE g == [f EXCEPT ![t] = Commit(@, d)]
<1>1. WillAgree(f)
  BY SentKeepsMemory
<1>2. \A s \in Tickets \ {t} : g[s] = f[s]
  OBVIOUS
<1>3. g[t] = Commit(f[t], d) /\ f[t] \in Flags
  OBVIOUS
<1>4. pos'[t].st # "unopened"
  BY DEF Sent, Seen, ViewsAreOfThePast
<1>5. ASSUME pos'[t].st = "open"
      PROVE  /\ Commit(f[t], d).filled \subseteq cuts'[t]
             /\ t \notin stale' /\ Commit(f[t], d).be
                  => ~Beyond(pos'[t].side, pos'[t].entry, pos'[t].sl)
  <2>1. /\ f[t].filled \subseteq cuts'[t]
        /\ t \notin stale' /\ f[t].be => ~Beyond(pos'[t].side, pos'[t].entry, pos'[t].sl)
    BY <1>1, <1>5 DEF WillAgree
  <2>2. CASE d.action = "partial_take_profit"
    <3>1. Commit(f[t], d) = [f[t] EXCEPT !.filled = @ \cup {d.level}]
      BY <2>2 DEF Commit
    <3>2. Commit(f[t], d).filled = f[t].filled \cup {d.level} /\ Commit(f[t], d).be = f[t].be
      BY <1>3, <3>1 DEF Flags
    <3>3. d.level \in cuts'[t]
      BY <1>5, <2>2 DEF Achieved
    <3> QED
      BY <2>1, <3>2, <3>3
  <2>3. CASE d.action = "move_stop_to_breakeven" /\ ~IsNewsLock(d)
    <3>1. Commit(f[t], d).filled = f[t].filled
      BY <1>3, <2>3 DEF Commit, Flags
    <3>2. pos'[t].sl = d.sl
      BY <1>5, <2>3 DEF Achieved, StopMoves
    <3>3. /\ pos[t].st = "open"
          /\ pos'[t].side = pos[t].side /\ pos'[t].entry = pos[t].entry
      BY <1>5 DEF Sent, Touched
    <3>4. view[m].pos[t].side = pos[t].side /\ view[m].pos[t].entry = pos[t].entry
      BY <3>3 DEF Sent, Seen, ViewsAreOfThePast
    <3>5. ~Beyond(view[m].pos[t].side, view[m].pos[t].entry, d.sl)
      BY <2>3 DEF Sent, StopMoves
    <3> QED
      BY <2>1, <3>1, <3>2, <3>3, <3>4, <3>5
  <2>4. CASE /\ d.action # "partial_take_profit"
             /\ ~(d.action = "move_stop_to_breakeven" /\ ~IsNewsLock(d))
    <3>1. Commit(f[t], d) = f[t]
      BY <2>4 DEF Commit
    <3> QED
      BY <2>1, <3>1
  <2> QED
    BY <2>2, <2>3, <2>4
<1> HIDE DEF g
<1> QED
  BY <1>1, <1>2, <1>3, <1>4, <1>5 DEF WillAgree, g

\* A stop is loosened only by a manager that saw an older one.
LEMMA SentLoosensOnlyStale ==
  ASSUME TypeOK, ViewsAreOfThePast, NEW m \in Managers, NEW t \in Tickets, NEW d,
         Sent(m, t, d), NEW s \in Tickets, Loosened(s)
  PROVE  s \in stale'
<1>1. CASE s # t
  <2>1. pos'[s] = pos[s] /\ pos[s].side \in Sides /\ pos[s].sl \in Int
    BY <1>1 DEF Sent, OthersUntouched, TypeOK, Position
  <2> QED
    BY <2>1 DEF Loosened, Beyond, Sides
<1>2. CASE s = t
  <2>1. pos[t].st = "open" /\ pos'[t].st = "open" /\ Beyond(pos[t].side, pos[t].sl, pos'[t].sl)
    BY <1>2 DEF Loosened, Open
  <2>2. pos[t].side \in Sides /\ pos[t].sl \in Int /\ d.sl \in Int
    BY DEF TypeOK, Position, Sent, Decisions
  <2>3. CASE pos'[t].sl = pos[t].sl
    BY <2>1, <2>2, <2>3 DEF Beyond, Sides
  <2>4. CASE d.action \in StopMoves /\ pos'[t].sl = d.sl /\ view[m].pos[t].sl = pos[t].sl
    <3>1. view[m].pos[t].side = pos[t].side
      BY <2>1 DEF Sent, Seen, ViewsAreOfThePast
    <3>2. Beyond(pos[t].side, d.sl, pos[t].sl)
      BY <2>4, <3>1 DEF Sent
    <3> QED
      BY <2>1, <2>2, <2>4, <3>2 DEF Beyond, Sides
  <2> QED
    BY <1>2, <2>1, <2>3, <2>4 DEF Sent, Touched
<1> QED
  BY <1>1, <1>2
-----------------------------------------------------------------------------
(* The initial states.                                                      *)

LEMMA RecordTypes ==
  /\ Unopened \in Position /\ Closed \in Position
  /\ NoMemory \in Memory
  /\ NoView \in View
  /\ NoView.pos = [t \in Tickets |-> Unopened]
<1>1. Unopened \in Position /\ Closed \in Position
  BY DEF Unopened, Closed, Position, Sides
<1>2. NoMemory \in Memory
  BY NoFlagsType DEF NoMemory, Memory
<1>3. NoView \in View
  BY <1>1 DEF NoView, View
<1> QED
  BY <1>1, <1>2, <1>3 DEF NoView

LEMMA InitIInv == Init => IInv
<1> SUFFICES ASSUME Init PROVE IInv
  OBVIOUS
<1>1. TypeOK
  <2>1. price \in Prices /\ plan \in PlanType \cup {NoPlan}
    BY PlansAssumption DEF Init
  <2>2. pos \in [Tickets -> Position] /\ mem \in Memory /\ disk \in Memory
    BY RecordTypes DEF Init
  <2>3. rt \in [Tickets -> Flags]
    BY NoFlagsType DEF Init
  <2>4. view \in [Managers -> View]
    BY RecordTypes DEF Init
  <2> QED
    BY <2>1, <2>2, <2>3, <2>4 DEF Init, TypeOK
<1>2. \A t \in Tickets : pos[t].st = "unopened"
  BY DEF Init, Unopened
<1>3. ViewsAreOfThePast
  BY RecordTypes DEF Init, ViewsAreOfThePast, Unopened
<1>4. TodoWasSeen
  BY DEF Init, TodoWasSeen
<1>5. MemoriesAgree
  BY <1>2 DEF Init, MemoriesAgree, MemoryAgrees, NoMemory
<1>6. TrackedWasOpened
  BY DEF Init, TrackedWasOpened, NoMemory
<1> QED
  BY <1>1, <1>3, <1>4, <1>5, <1>6 DEF IInv

-----------------------------------------------------------------------------
(* The market.                                                              *)

LEMMA OpenPositionKeeps ==
  ASSUME IInv, NEW t \in Tickets, NEW o \in Openings, OpenPosition(t, o)
  PROVE  IInv'
<1> DEFINE p == [st |-> "open", side |-> o.side, entry |-> o.entry, sl |-> o.sl,
                 tp |-> o.tp, vol |-> o.vol]
<1>1. p \in Position
  BY OpeningsAssumption DEF OrderType, Position
<1>2. pos' = [pos EXCEPT ![t] = p] /\ pos[t].st = "unopened"
  BY DEF OpenPosition
<1>3. UNCHANGED <<price, plan, mem, disk, rt, fresh, dpc, todo, cpc, view, deaths, cuts, lost, stale>>
  BY DEF OpenPosition, daemon, runtime
<1>4. pos \in [Tickets -> Position]
  BY DEF IInv, TypeOK
<1>5. /\ pos'[t].st = "open"
      /\ \A s \in Tickets : s # t => pos'[s] = pos[s]
  BY <1>2, <1>4
<1>6. TypeOK'
  <2>1. pos' \in [Tickets -> Position]
    BY <1>1, <1>2, <1>4
  <2> QED
    BY <2>1, <1>3 DEF IInv, TypeOK
<1>7. ViewsAreOfThePast'
  BY <1>2, <1>3, <1>5 DEF IInv, ViewsAreOfThePast
<1>8. TodoWasSeen'
  BY <1>3 DEF IInv, TodoWasSeen, Seen
<1>9. MemoriesAgree'
  <2>1. ASSUME NEW f \in [Tickets -> Flags], MemoryAgrees(f)
        PROVE  WillAgree(f)
    <3>1. f[t] = NoFlags
      BY <1>2, <2>1 DEF MemoryAgrees
    <3>2. f[t].filled = {} /\ f[t].be = FALSE
      BY <3>1 DEF NoFlags
    <3> QED
      BY <1>3, <1>5, <2>1, <3>2 DEF MemoryAgrees, WillAgree
  <2>2. /\ mem.flags \in [Tickets -> Flags] /\ disk.flags \in [Tickets -> Flags]
        /\ rt \in [Tickets -> Flags]
    BY DEF IInv, TypeOK, Memory
  <2>3. WillAgree(mem.flags) /\ WillAgree(disk.flags) /\ WillAgree(rt)
    BY <2>1, <2>2 DEF IInv, MemoriesAgree
  <2> QED
    BY <1>3, <2>3 DEF MemoriesAgree, MemoryAgrees, WillAgree
<1>10. TrackedWasOpened'
  <2>1. /\ mem.tracked \subseteq Tickets /\ disk.tracked \subseteq Tickets
        /\ mem.closed \subseteq Tickets /\ disk.closed \subseteq Tickets
    BY DEF IInv, TypeOK, Memory
  <2> QED
    BY <1>2, <1>3, <1>5, <2>1 DEF IInv, TrackedWasOpened
<1> QED
  BY <1>6, <1>7, <1>8, <1>9, <1>10 DEF IInv

LEMMA PriceMovesKeeps ==
  ASSUME IInv, NEW q \in Prices, PriceMoves(q)
  PROVE  IInv'
<1> DEFINE out == {t \in Open : Triggered(pos[t], q)}
<1>1. /\ price' = q
      /\ pos' = [t \in Tickets |-> IF t \in out THEN Closed ELSE pos[t]]
      /\ cuts' = [t \in Tickets |-> IF t \in out THEN {} ELSE cuts[t]]
      /\ lost' = [t \in Tickets |-> IF t \in out THEN {} ELSE lost[t]]
      /\ stale' = stale \ out
      /\ UNCHANGED <<plan, mem, disk, rt, fresh, dpc, todo, cpc, view, deaths>>
  BY DEF PriceMoves, daemon, runtime
<1>2. \A t \in Tickets :
        \/ pos'[t] = pos[t] /\ cuts'[t] = cuts[t] /\ (t \in stale') = (t \in stale)
        \/ pos[t].st = "open" /\ pos'[t].st = "closed"
  BY <1>1 DEF Closed, Open
<1> HIDE DEF out
<1>3. TypeOK'
  BY <1>1, RecordTypes DEF IInv, TypeOK
<1>4. ViewsAreOfThePast'
  BY <1>1, <1>2 DEF IInv, ViewsAreOfThePast
<1>5. TodoWasSeen'
  BY <1>1 DEF IInv, TodoWasSeen, Seen
<1>6. MemoriesAgree'
  <2>1. ASSUME NEW f, MemoryAgrees(f)
        PROVE  WillAgree(f)
    BY <1>2, <2>1 DEF MemoryAgrees, WillAgree
  <2> QED
    BY <1>1, <2>1 DEF IInv, MemoriesAgree, MemoryAgrees, WillAgree
<1>7. TrackedWasOpened'
  <2>1. /\ mem.tracked \subseteq Tickets /\ disk.tracked \subseteq Tickets
        /\ mem.closed \subseteq Tickets /\ disk.closed \subseteq Tickets
    BY DEF IInv, TypeOK, Memory
  <2> QED
    BY <1>1, <1>2, <2>1 DEF IInv, TrackedWasOpened
<1> QED
  BY <1>3, <1>4, <1>5, <1>6, <1>7 DEF IInv
-----------------------------------------------------------------------------
(* Steps that do not touch the book: what they do to the memories and views. *)

\* A step that leaves the market alone, in which every memory is an old one or
\* forgets tickets, and every view an old one, an empty one or the truth.
LEMMA QuietKeeps ==
  ASSUME IInv, TypeOK', UNCHANGED market,
         \A m \in Managers : \/ view'[m].pos = view[m].pos
                            \/ view'[m] = NoView
                            \/ \A t \in Tickets : view'[m].pos[t] \in {pos[t], Unopened},
         \A t \in Tickets :
           /\ mem'.flags[t] \in {mem.flags[t], disk.flags[t], NoFlags}
           /\ disk'.flags[t] \in {disk.flags[t], mem.flags[t]}
           /\ rt'[t] = rt[t],
         TodoWasSeen', TrackedWasOpened'
  PROVE  IInv'
<1>1. UNCHANGED <<pos, cuts, stale>>
  BY DEF market
<1>2. ViewsAreOfThePast'
  <2> SUFFICES ASSUME NEW m \in Managers, NEW t \in Tickets, view'[m].pos[t].st = "open"
               PROVE  \/ pos'[t].st = "closed"
                      \/ /\ pos'[t].st = "open"
                         /\ pos'[t].side = view'[m].pos[t].side
                         /\ pos'[t].entry = view'[m].pos[t].entry
    BY DEF ViewsAreOfThePast
  <2>1. Unopened.st = "unopened"
    BY DEF Unopened
  <2>2. view'[m] # NoView
    BY <2>1, RecordTypes
  <2>3. CASE view'[m].pos = view[m].pos
    BY <1>1, <2>3 DEF IInv, ViewsAreOfThePast
  <2>4. CASE \A s \in Tickets : view'[m].pos[s] \in {pos[s], Unopened}
    BY <1>1, <2>1, <2>4
  <2> QED
    BY <2>2, <2>3, <2>4
<1>3. MemoriesAgree'
  <2>1. NoFlags.filled = {} /\ NoFlags.be = FALSE
    BY DEF NoFlags
  <2>2. MemoryAgrees(mem.flags) /\ MemoryAgrees(disk.flags) /\ MemoryAgrees(rt)
    BY DEF IInv, MemoriesAgree
  <2>3. \A t \in Tickets : mem'.flags[t] \in {mem.flags[t], disk.flags[t], NoFlags}
    OBVIOUS
  <2>4. WillAgree(mem'.flags)
    <3> SUFFICES ASSUME NEW t \in Tickets
                 PROVE  /\ pos[t].st = "unopened" => mem'.flags[t] = NoFlags
                        /\ pos[t].st = "open" => mem'.flags[t].filled \subseteq cuts[t]
                        /\ pos[t].st = "open" /\ t \notin stale /\ mem'.flags[t].be
                             => ~Beyond(pos[t].side, pos[t].entry, pos[t].sl)
      BY <1>1 DEF WillAgree
    <3>1. CASE mem'.flags[t] = mem.flags[t]
      BY <2>2, <3>1 DEF MemoryAgrees
    <3>2. CASE mem'.flags[t] = disk.flags[t]
      BY <2>2, <3>2 DEF MemoryAgrees
    <3>3. CASE mem'.flags[t] = NoFlags
      BY <2>1, <3>3
    <3> QED
      BY <2>3, <3>1, <3>2, <3>3
  <2>5. WillAgree(disk'.flags)
    BY <1>1, <2>2 DEF MemoryAgrees, WillAgree
  <2>6. WillAgree(rt')
    BY <1>1, <2>2 DEF MemoryAgrees, WillAgree
  <2> QED
    BY <2>4, <2>5, <2>6 DEF MemoriesAgree, MemoryAgrees, WillAgree
<1> QED
  BY <1>2, <1>3 DEF IInv

LEMMA LeavesFacts ==
  ASSUME TypeOK, NEW m \in Managers, Leaves(m)
  PROVE  /\ view' \in [Managers -> View]
         /\ view'[m] = NoView
         /\ \A n \in Managers : n # m => view'[n] = view[n]
  BY RecordTypes DEF TypeOK, Leaves

LEMMA SnapshotType ==
  ASSUME TypeOK, NEW reply
  PROVE  /\ Snapshot(reply) \in View
         /\ \A t \in Tickets : Snapshot(reply).pos[t] \in {pos[t], Unopened}
         /\ \A t \in Listed(reply) : Snapshot(reply).pos[t].st = "open"
<1> DEFINE book == [t \in Tickets |-> IF t \in Listed(reply) THEN pos[t] ELSE Unopened]
<1>1. Snapshot(reply).pos = book /\ Snapshot(reply) = [price |-> price, plan |-> plan, pos |-> book]
  BY DEF Snapshot
<1>2. book \in [Tickets -> Position]
  BY RecordTypes DEF TypeOK
<1>3. price \in Int /\ plan \in PlanType \cup {NoPlan}
  BY PricesAssumption DEF TypeOK
<1>4. \A t \in Tickets : book[t] \in {pos[t], Unopened}
  OBVIOUS
<1>5. \A t \in Listed(reply) : t \in Tickets /\ book[t].st = "open"
  BY DEF Listed, Open
<1> HIDE DEF book
<1> QED
  BY <1>1, <1>2, <1>3, <1>4, <1>5 DEF View

LEMMA DaemonPollKeeps ==
  ASSUME IInv, NEW reply, DaemonPoll(reply)
  PROVE  IInv'
<1> DEFINE live == Listed(reply)
<1>1. /\ mem' = [ tracked |-> live,
                 flags   |-> [t \in Tickets |-> IF t \in Kept(live) THEN mem.flags[t] ELSE NoFlags],
                 closed  |-> mem.closed \cup (mem.tracked \ live) ]
      /\ todo' = live /\ dpc' = "managing"
      /\ view' = [view EXCEPT !["daemon"] = Snapshot(reply)]
      /\ UNCHANGED <<price, pos, cuts, stale, disk, fresh, deaths, lost, plan, rt, cpc>>
  BY DEF DaemonPoll, market, runtime
<1>2. reply = "ok" /\ live = Open /\ live \subseteq Tickets
  BY DEF DaemonPoll, Readable, Listed, Open
<1>3. TypeOK
  BY DEF IInv
<1>4. \A t \in Tickets : mem'.flags[t] \in {mem.flags[t], NoFlags}
  BY <1>1
<1>5. mem' \in Memory
  <2>1. [t \in Tickets |-> IF t \in Kept(live) THEN mem.flags[t] ELSE NoFlags] \in [Tickets -> Flags]
    BY <1>3, NoFlagsType DEF TypeOK, Memory
  <2>2. mem.closed \cup (mem.tracked \ live) \subseteq Tickets
    BY <1>3 DEF TypeOK, Memory
  <2> HIDE DEF live
  <2> QED
    BY <1>1, <1>2, <2>1, <2>2 DEF Memory
<1>6. /\ view' \in [Managers -> View]
      /\ view'["daemon"] = Snapshot(reply) /\ view'["cycle"] = view["cycle"]
  BY <1>1, <1>3, SnapshotType DEF TypeOK, Managers
<1>7. TypeOK'
  BY <1>1, <1>2, <1>3, <1>5, <1>6 DEF TypeOK
<1>8. TodoWasSeen'
  BY <1>1, <1>2, <1>3, <1>6, SnapshotType DEF TodoWasSeen, Seen
<1>9. TrackedWasOpened'
  <2>1. \A t \in Tickets : pos[t].st \in {"unopened", "open", "closed"}
    BY <1>3 DEF TypeOK, Position
  <2>2. \A t \in live : pos[t].st = "open"
    BY <1>2 DEF Open
  <2>3. \A t \in mem.tracked \ live : pos[t].st = "closed"
    BY <1>2, <1>3, <2>1 DEF IInv, TrackedWasOpened, Open, TypeOK, Memory
  <2>4. mem'.tracked = live /\ mem'.closed = mem.closed \cup (mem.tracked \ live)
    BY <1>1
  <2> HIDE DEF live
  <2> QED
    BY <1>1, <2>2, <2>3, <2>4 DEF IInv, TrackedWasOpened
<1>10. \A m \in Managers : \/ view'[m].pos = view[m].pos
                          \/ \A t \in Tickets : view'[m].pos[t] \in {pos[t], Unopened}
  BY <1>3, <1>6, SnapshotType DEF Managers
<1> QED
  BY <1>1, <1>4, <1>7, <1>8, <1>9, <1>10, QuietKeeps DEF market

\* The other steps of the watchdog that send no command.
LEMMA DaemonQuietKeeps ==
  ASSUME IInv, DaemonSave \/ DaemonAborts \/ DaemonDies \/ DaemonRestarts \/ HeartbeatExpires
  PROVE  IInv'
<1>1. TypeOK
  BY DEF IInv
<1>2. UNCHANGED market /\ UNCHANGED runtime
  BY DEF DaemonSave, DaemonAborts, DaemonDies, DaemonRestarts, HeartbeatExpires
<1>3. mem' \in {mem, disk, NoMemory} /\ disk' \in {disk, mem}
  BY DEF DaemonSave, DaemonAborts, DaemonDies, DaemonRestarts, HeartbeatExpires
<1>4. view' = view \/ Leaves("daemon")
  <2>1. CASE DaemonSave \/ DaemonAborts \/ DaemonDies
    BY <2>1 DEF DaemonSave, DaemonAborts, DaemonDies
  <2>2. CASE DaemonRestarts \/ HeartbeatExpires
    BY <2>2 DEF DaemonRestarts, HeartbeatExpires
  <2> QED
    BY <2>1, <2>2
<1>5. /\ view' \in [Managers -> View]
      /\ view'["cycle"] = view["cycle"]
      /\ view'["daemon"] = view["daemon"] \/ view'["daemon"] = NoView
  BY <1>1, <1>4, LeavesFacts DEF TypeOK, Managers
<1>6. mem' \in Memory /\ disk' \in Memory
  BY <1>1, <1>3, RecordTypes DEF TypeOK
<1>7. lost' \in [Tickets -> SUBSET Int]
  <2>1. \A t \in Tickets : mem.flags[t].filled \in SUBSET Int
    BY <1>1 DEF TypeOK, Memory, Flags
  <2>2. CASE UNCHANGED lost
    BY <1>1, <2>2 DEF TypeOK
  <2>3. CASE lost' = [t \in Tickets |-> lost[t] \cup
                        IF t \in Open THEN mem.flags[t].filled \ disk.flags[t].filled ELSE {}]
    BY <1>1, <2>1, <2>3 DEF TypeOK
  <2> QED
    BY <2>2, <2>3 DEF DaemonSave, DaemonAborts, DaemonDies, DaemonRestarts, HeartbeatExpires
<1>8. /\ dpc' \in {"idle", "managing", "down"} /\ fresh' \in BOOLEAN /\ deaths' \in Nat
      /\ todo' = todo \/ todo' = {}
  <2>1. /\ dpc \in {"idle", "managing", "down"} /\ fresh \in BOOLEAN /\ deaths \in Nat
    BY <1>1 DEF TypeOK
  <2>2. CASE DaemonDies
    BY <2>1, <2>2 DEF DaemonDies
  <2>3. CASE DaemonSave
    BY <2>1, <2>3 DEF DaemonSave
  <2>4. CASE DaemonAborts
    BY <2>1, <2>4 DEF DaemonAborts
  <2>5. CASE DaemonRestarts
    BY <2>1, <2>5 DEF DaemonRestarts
  <2>6. CASE HeartbeatExpires
    BY <2>1, <2>6 DEF HeartbeatExpires
  <2> QED
    BY <2>2, <2>3, <2>4, <2>5, <2>6
<1>9. TypeOK'
  BY <1>1, <1>2, <1>5, <1>6, <1>7, <1>8 DEF TypeOK, market, runtime
<1>10. TodoWasSeen'
  <2>1. CASE todo' = {}
    BY <2>1 DEF TodoWasSeen
  <2>2. CASE UNCHANGED <<todo, view>>
    BY <2>2 DEF IInv, TodoWasSeen, Seen
  <2> QED
    BY <2>1, <2>2 DEF DaemonSave, DaemonAborts, DaemonDies, DaemonRestarts, HeartbeatExpires
<1>11. TrackedWasOpened'
  <2>1. NoMemory.tracked = {} /\ NoMemory.closed = {}
    BY DEF NoMemory
  <2> QED
    BY <1>2, <1>3, <2>1 DEF IInv, TrackedWasOpened, market
<1>12. \A t \in Tickets : /\ mem'.flags[t] \in {mem.flags[t], disk.flags[t], NoFlags}
                         /\ disk'.flags[t] \in {disk.flags[t], mem.flags[t]}
                         /\ rt'[t] = rt[t]
  <2>1. \A t \in Tickets : NoMemory.flags[t] = NoFlags
    BY DEF NoMemory
  <2> QED
    BY <1>2, <1>3, <2>1 DEF runtime
<1>13. \A m \in Managers : view'[m].pos = view[m].pos \/ view'[m] = NoView
  BY <1>5 DEF Managers
<1> QED
  BY <1>2, <1>9, <1>10, <1>11, <1>12, <1>13, QuietKeeps
-----------------------------------------------------------------------------
(* Steps that send a command.                                               *)

\* The command of a manager's verdict about a ticket it saw.
LEMMA VerdictIsSent ==
  ASSUME IInv, NEW m \in Managers, NEW t \in Seen(m), NEW flags \in Flags,
         NEW scale \in SUBSET Int, NEW g \in Guards, NEW reply \in Replies, NEW d,
         d = Decision(m, t, flags, scale, g), Command(m, t, d, reply)
  PROVE  /\ Sent(m, t, d)
         /\ Accepted(reply) => Achieved(t, d)
         /\ cuts' \in [Tickets -> SUBSET Int] /\ lost' \in [Tickets -> SUBSET Int]
         /\ stale' \subseteq Tickets
<1>1. TypeOK /\ t \in Tickets
  BY DEF IInv, Seen
<1>2. /\ d \in Decisions
      /\ LET p == view[m].pos[t]
         IN  /\ d.action \in StopMoves => Beyond(p.side, d.sl, p.sl)
             /\ d.action \in StopMoves /\ ~IsNewsLock(d) => ~Beyond(p.side, p.entry, d.sl)
  BY <1>1, DecisionFacts
<1> QED
  BY <1>1, <1>2, CommandFacts DEF Sent

\* What such a step does to the views, to what is tracked and to what is owed.
LEMMA SentKeepsRest ==
  ASSUME IInv, NEW m \in Managers, NEW t \in Tickets, NEW d, Sent(m, t, d)
  PROVE  /\ \A n \in Managers, s \in Tickets :
              view[n].pos[s].st = "open" =>
                \/ pos'[s].st = "closed"
                \/ /\ pos'[s].st = "open"
                   /\ pos'[s].side = view[n].pos[s].side
                   /\ pos'[s].entry = view[n].pos[s].entry
         /\ \A s \in Tickets : pos[s].st # "unopened" => pos'[s].st # "unopened"
         /\ \A s \in Tickets : pos[s].st = "closed" => pos'[s].st = "closed"
<1>1. \A s \in Tickets : s # t => pos'[s] = pos[s]
  BY DEF Sent, OthersUntouched
<1>2. pos'[t].st = pos[t].st \/ pos'[t].st = "closed"
  BY DEF Sent
<1>3. pos'[t].st = "open" => pos'[t].side = pos[t].side /\ pos'[t].entry = pos[t].entry
  BY DEF Sent, Touched
<1> QED
  BY <1>1, <1>2, <1>3 DEF IInv, ViewsAreOfThePast

LEMMA DaemonManageKeeps ==
  ASSUME IInv, NEW t \in Tickets, NEW g \in Guards, NEW reply \in Replies,
         DaemonManage(t, g, reply)
  PROVE  IInv' /\ \A s \in Tickets : Loosened(s) => s \in stale'
<1> DEFINE d == Decision("daemon", t, mem.flags[t], {}, g)
<1>1. /\ Command("daemon", t, d, reply)
      /\ mem' = IF Accepted(reply) THEN [mem EXCEPT !.flags[t] = Commit(@, d)] ELSE mem
      /\ t \in todo /\ todo' = todo \ {t}
      /\ IF todo = {t} THEN Leaves("daemon") ELSE UNCHANGED view
      /\ UNCHANGED <<price, disk, fresh, dpc, deaths, plan, rt, cpc>>
  BY DEF DaemonManage, FirstToManage, runtime
<1>2. TypeOK /\ ViewsAreOfThePast /\ t \in Seen("daemon") /\ "daemon" \in Managers
  BY <1>1 DEF IInv, TodoWasSeen, Managers
<1>3. mem \in Memory /\ mem.flags \in [Tickets -> Flags] /\ disk.flags \in [Tickets -> Flags]
      /\ rt \in [Tickets -> Flags]
  BY <1>2 DEF TypeOK, Memory
<1>4. d = Decision("daemon", t, mem.flags[t], {}, g) /\ mem.flags[t] \in Flags
  BY <1>3
<1> HIDE DEF d
<1>5. /\ Sent("daemon", t, d)
      /\ Accepted(reply) => Achieved(t, d)
      /\ cuts' \in [Tickets -> SUBSET Int] /\ lost' \in [Tickets -> SUBSET Int]
      /\ stale' \subseteq Tickets
  BY <1>1, <1>2, <1>4, VerdictIsSent
<1>6. /\ mem'.tracked = mem.tracked /\ mem'.closed = mem.closed
      /\ mem'.flags = IF Accepted(reply) THEN [mem.flags EXCEPT ![t] = Commit(@, d)] ELSE mem.flags
  BY <1>1, <1>3 DEF Memory
<1>7. mem' \in Memory
  <2>1. Commit(mem.flags[t], d) \in Flags
    BY <1>4, <1>5, CommitType DEF Sent
  <2>2. [mem.flags EXCEPT ![t] = Commit(@, d)] \in [Tickets -> Flags]
    BY <1>3, <2>1
  <2> QED
    BY <1>1, <1>3, <2>2 DEF Memory
<1>8. /\ view' \in [Managers -> View] /\ view'["cycle"] = view["cycle"]
      /\ view'["daemon"] = view["daemon"] \/ (view'["daemon"] = NoView /\ todo' = {})
  BY <1>1, <1>2, LeavesFacts DEF TypeOK, Managers
<1>9. TypeOK'
  BY <1>1, <1>2, <1>5, <1>7, <1>8 DEF TypeOK, Sent
<1>10. ViewsAreOfThePast'
  <2>1. NoView.pos = [s \in Tickets |-> Unopened] /\ Unopened.st = "unopened"
    BY RecordTypes DEF Unopened
  <2> QED
    BY <1>2, <1>5, <1>8, <2>1, SentKeepsRest DEF ViewsAreOfThePast, Managers
<1>11. TodoWasSeen'
  BY <1>1, <1>8 DEF IInv, TodoWasSeen, Seen
<1>12. MemoriesAgree'
  <2>1. WillAgree(disk.flags) /\ WillAgree(rt) /\ WillAgree(mem.flags)
    BY <1>2, <1>3, <1>5, SentKeepsMemory DEF IInv, MemoriesAgree
  <2>2. Accepted(reply) => WillAgree([mem.flags EXCEPT ![t] = Commit(@, d)])
    BY <1>2, <1>3, <1>5, SentCommits DEF IInv, MemoriesAgree
  <2>3. WillAgree(mem'.flags) /\ WillAgree(disk'.flags) /\ WillAgree(rt')
    BY <1>1, <1>6, <2>1, <2>2
  <2> QED
    BY <2>3 DEF MemoriesAgree, MemoryAgrees, WillAgree
<1>13. TrackedWasOpened'
  <2>1. /\ mem.tracked \subseteq Tickets /\ disk.tracked \subseteq Tickets
        /\ mem.closed \subseteq Tickets /\ disk.closed \subseteq Tickets
    BY <1>2 DEF TypeOK, Memory
  <2> QED
    BY <1>1, <1>2, <1>5, <1>6, <2>1, SentKeepsRest DEF IInv, TrackedWasOpened
<1>14. \A s \in Tickets : Loosened(s) => s \in stale'
  BY <1>2, <1>5, SentLoosensOnlyStale
<1> QED
  BY <1>9, <1>10, <1>11, <1>12, <1>13, <1>14 DEF IInv

LEMMA CycleManagesKeeps ==
  ASSUME IInv, NEW t \in Tickets, NEW g \in Guards, NEW reply \in Replies,
         CycleManages(t, g, reply)
  PROVE  IInv' /\ \A s \in Tickets : Loosened(s) => s \in stale'
<1> DEFINE scale == view["cycle"].plan.scale
           d == Decision("cycle", t, rt[t], scale, g)
<1>1. /\ Command("cycle", t, d, reply)
      /\ rt' = IF Accepted(reply) THEN [rt EXCEPT ![t] = Commit(@, d)] ELSE rt
      /\ t \in Seen("cycle") /\ cpc' = "idle"
      /\ Leaves("cycle")
      /\ UNCHANGED <<price, plan, mem, disk, fresh, dpc, todo, deaths>>
  BY DEF CycleManages, CycleDecision, daemon
<1>2. TypeOK /\ ViewsAreOfThePast /\ "cycle" \in Managers
  BY DEF IInv, Managers
<1>3. /\ mem \in Memory /\ mem.flags \in [Tickets -> Flags]
      /\ disk.flags \in [Tickets -> Flags] /\ rt \in [Tickets -> Flags]
  BY <1>2 DEF TypeOK, Memory
<1>4. scale \in SUBSET Int
  <2>1. view["cycle"].plan \in PlanType \cup {NoPlan}
    BY <1>2 DEF TypeOK, View
  <2> QED
    BY <2>1 DEF PlanType, NoPlan
<1>5. d = Decision("cycle", t, rt[t], scale, g) /\ rt[t] \in Flags
  BY <1>3
<1> HIDE DEF d, scale
<1>6. /\ Sent("cycle", t, d)
      /\ Accepted(reply) => Achieved(t, d)
      /\ cuts' \in [Tickets -> SUBSET Int] /\ lost' \in [Tickets -> SUBSET Int]
      /\ stale' \subseteq Tickets
  BY <1>1, <1>2, <1>4, <1>5, VerdictIsSent
<1>7. rt' \in [Tickets -> Flags]
  <2>1. Commit(rt[t], d) \in Flags
    BY <1>5, <1>6, CommitType DEF Sent
  <2> QED
    BY <1>1, <1>3, <2>1
<1>8. /\ view' \in [Managers -> View] /\ view'["daemon"] = view["daemon"]
      /\ view'["cycle"] = NoView
  BY <1>1, <1>2, LeavesFacts DEF Managers
<1>9. TypeOK'
  BY <1>1, <1>2, <1>6, <1>7, <1>8 DEF TypeOK, Sent
<1>10. ViewsAreOfThePast'
  <2>1. NoView.pos = [s \in Tickets |-> Unopened] /\ Unopened.st = "unopened"
    BY RecordTypes DEF Unopened
  <2> QED
    BY <1>2, <1>6, <1>8, <2>1, SentKeepsRest DEF ViewsAreOfThePast, Managers
<1>11. TodoWasSeen'
  BY <1>1, <1>8 DEF IInv, TodoWasSeen, Seen
<1>12. MemoriesAgree'
  <2>1. WillAgree(disk.flags) /\ WillAgree(rt) /\ WillAgree(mem.flags)
    BY <1>2, <1>3, <1>6, SentKeepsMemory DEF IInv, MemoriesAgree
  <2>2. Accepted(reply) => WillAgree([rt EXCEPT ![t] = Commit(@, d)])
    BY <1>2, <1>3, <1>6, SentCommits DEF IInv, MemoriesAgree
  <2>3. WillAgree(mem'.flags) /\ WillAgree(disk'.flags) /\ WillAgree(rt')
    BY <1>1, <2>1, <2>2
  <2> QED
    BY <2>3 DEF MemoriesAgree, MemoryAgrees, WillAgree
<1>13. TrackedWasOpened'
  <2>1. /\ mem.tracked \subseteq Tickets /\ disk.tracked \subseteq Tickets
        /\ mem.closed \subseteq Tickets /\ disk.closed \subseteq Tickets
    BY <1>2 DEF TypeOK, Memory
  <2> QED
    BY <1>1, <1>2, <1>6, <2>1, SentKeepsRest DEF IInv, TrackedWasOpened
<1>14. \A s \in Tickets : Loosened(s) => s \in stale'
  BY <1>2, <1>6, SentLoosensOnlyStale DEF Seen
<1> QED
  BY <1>9, <1>10, <1>11, <1>12, <1>13, <1>14 DEF IInv
\* The steps of the cycle that send no command.
CycleQuiet ==
  \/ \E reply \in {"ok", "error"} : CycleStarts(reply)
  \/ CycleReadsHeartbeat
  \/ \E p \in Plans : CycleRedrawsPlan(p)
  \/ CycleKeepsPlan
  \/ CycleHolds
  \/ CycleAborts

LEMMA CycleQuietKeeps ==
  ASSUME IInv, CycleQuiet
  PROVE  IInv'
<1>1. TypeOK
  BY DEF IInv
<1>2. UNCHANGED market /\ UNCHANGED daemon /\ UNCHANGED <<rt, lost>>
  BY DEF CycleQuiet, CycleStarts, CycleReadsHeartbeat, CycleRedrawsPlan, CycleKeepsPlan,
         CycleHolds, CycleAborts
<1>3. plan' \in PlanType \cup {NoPlan}
  BY <1>1, PlansAssumption DEF TypeOK, CycleQuiet, CycleStarts, CycleReadsHeartbeat,
         CycleRedrawsPlan, CycleKeepsPlan, CycleHolds, CycleAborts
<1>4. cpc' \in {"idle", "started", "watched", "fallback", "managing"}
  BY DEF CycleQuiet, CycleStarts, CycleReadsHeartbeat, CycleRedrawsPlan, CycleKeepsPlan,
         CycleHolds, CycleAborts
<1>5. /\ view' \in [Managers -> View] /\ view'["daemon"] = view["daemon"]
      /\ \/ view'["cycle"] = NoView
         \/ view'["cycle"].pos = view["cycle"].pos
         \/ \A t \in Tickets : view'["cycle"].pos[t] \in {pos[t], Unopened}
  <2>1. view \in [Managers -> View] /\ "daemon" \in Managers /\ "cycle" \in Managers
    BY <1>1 DEF TypeOK, Managers
  <2>2. ASSUME NEW reply \in {"ok", "error"}, CycleStarts(reply)
        PROVE  /\ view' \in [Managers -> View] /\ view'["daemon"] = view["daemon"]
               /\ \A t \in Tickets : view'["cycle"].pos[t] \in {pos[t], Unopened}
    BY <1>1, <2>1, <2>2, SnapshotType DEF CycleStarts
  <2>3. ASSUME NEW p \in Plans, view' = [view EXCEPT !["cycle"].plan = p]
        PROVE  /\ view' \in [Managers -> View] /\ view'["daemon"] = view["daemon"]
               /\ view'["cycle"].pos = view["cycle"].pos
    <3>1. view["cycle"] \in View /\ p \in PlanType
      BY <2>1, PlansAssumption
    <3>2. view' = [view EXCEPT !["cycle"] = [view["cycle"] EXCEPT !.plan = p]]
      BY <2>1, <2>3
    <3>3. /\ [view["cycle"] EXCEPT !.plan = p] \in View
          /\ [view["cycle"] EXCEPT !.plan = p].pos = view["cycle"].pos
      BY <3>1 DEF View
    <3> QED
      BY <2>1, <3>2, <3>3
  <2>4. CASE Leaves("cycle")
    BY <1>1, <2>1, <2>4, LeavesFacts
  <2>5. CASE UNCHANGED view
    BY <2>1, <2>5
  <2>6. ASSUME NEW p \in Plans, CycleRedrawsPlan(p)
        PROVE  view' = [view EXCEPT !["cycle"].plan = p] \/ UNCHANGED view
    BY <2>6 DEF CycleRedrawsPlan
  <2>7. CycleReadsHeartbeat \/ CycleKeepsPlan \/ CycleHolds \/ CycleAborts
          => Leaves("cycle") \/ UNCHANGED view
    BY DEF CycleReadsHeartbeat, CycleKeepsPlan, CycleHolds, CycleAborts
  <2>8. CASE \E p \in Plans : CycleRedrawsPlan(p)
    BY <2>3, <2>5, <2>6, <2>8
  <2>9. CASE \E reply \in {"ok", "error"} : CycleStarts(reply)
    BY <2>2, <2>9
  <2> QED
    BY <2>4, <2>5, <2>7, <2>8, <2>9 DEF CycleQuiet
<1>6. TypeOK'
  BY <1>1, <1>2, <1>3, <1>4, <1>5 DEF TypeOK, market, daemon
<1>7. TodoWasSeen'
  BY <1>2, <1>5 DEF IInv, TodoWasSeen, Seen, daemon
<1>8. TrackedWasOpened'
  BY <1>2 DEF IInv, TrackedWasOpened, market, daemon
<1>9. \A m \in Managers : \/ view'[m].pos = view[m].pos
                         \/ view'[m] = NoView
                         \/ \A t \in Tickets : view'[m].pos[t] \in {pos[t], Unopened}
  BY <1>5 DEF Managers
<1>10. \A t \in Tickets : /\ mem'.flags[t] \in {mem.flags[t], disk.flags[t], NoFlags}
                         /\ disk'.flags[t] \in {disk.flags[t], mem.flags[t]}
                         /\ rt'[t] = rt[t]
  BY <1>2 DEF daemon
<1> QED
  BY <1>2, <1>6, <1>7, <1>8, <1>9, <1>10, QuietKeeps

-----------------------------------------------------------------------------
(* The theorems.                                                            *)

\* A stop that stays where it was is not loosened.
LEMMA StandingStop ==
  ASSUME TypeOK, NEW t \in Tickets, pos'[t].st = "open" => pos'[t] = pos[t]
  PROVE  ~Loosened(t)
  BY DEF TypeOK, Position, Loosened, Beyond, Sides

LEMMA NextKeeps ==
  ASSUME IInv, [Next]_vars
  PROVE  IInv' /\ \A t \in Tickets : Loosened(t) => t \in stale'
<1>1. TypeOK /\ pos \in [Tickets -> Position]
  BY DEF IInv, TypeOK
<1>2. ASSUME NEW t \in Tickets, NEW o \in Openings, OpenPosition(t, o)
      PROVE  IInv' /\ \A s \in Tickets : ~Loosened(s)
  <2>1. \A s \in Tickets : s # t => pos'[s] = pos[s]
    BY <1>1, <1>2 DEF OpenPosition
  <2>2. pos[t].st = "unopened"
    BY <1>2 DEF OpenPosition
  <2>3. \A s \in Tickets : ~Loosened(s)
    BY <1>1, <2>1, <2>2, StandingStop DEF Loosened, Open
  <2> QED
    BY <1>2, <2>3, OpenPositionKeeps
<1>3. ASSUME NEW q \in Prices, PriceMoves(q)
      PROVE  IInv' /\ \A s \in Tickets : ~Loosened(s)
  <2>1. \A s \in Tickets : pos'[s] = pos[s] \/ pos'[s].st = "closed"
    BY <1>3 DEF PriceMoves, Closed
  <2> QED
    BY <1>1, <1>3, <2>1, PriceMovesKeeps, StandingStop
<1>4. ASSUME UNCHANGED pos
      PROVE  \A s \in Tickets : ~Loosened(s)
  BY <1>1, <1>4, StandingStop
<1>5. ASSUME NEW reply \in {"ok", "error"}, DaemonPoll(reply)
      PROVE  IInv' /\ UNCHANGED pos
  BY <1>5, DaemonPollKeeps DEF DaemonPoll, market
<1>6. CASE DaemonSave \/ DaemonAborts \/ DaemonDies \/ DaemonRestarts \/ HeartbeatExpires
  <2>1. UNCHANGED pos
    BY <1>6 DEF DaemonSave, DaemonAborts, DaemonDies, DaemonRestarts, HeartbeatExpires, market
  <2> QED
    BY <1>4, <1>6, <2>1, DaemonQuietKeeps
<1>7. CASE CycleQuiet
  <2>1. UNCHANGED pos
    BY <1>7 DEF CycleQuiet, CycleStarts, CycleReadsHeartbeat, CycleRedrawsPlan, CycleKeepsPlan,
                CycleHolds, CycleAborts, market
  <2> QED
    BY <1>4, <1>7, <2>1, CycleQuietKeeps
<1>8. CASE UNCHANGED vars
  <2>1. IInv'
    BY <1>8 DEF vars, IInv, TypeOK, ViewsAreOfThePast, TodoWasSeen, Seen, MemoriesAgree,
                MemoryAgrees, TrackedWasOpened
  <2> QED
    BY <1>4, <1>8, <2>1 DEF vars
<1>9. CASE DaemonStep
  BY <1>4, <1>5, <1>6, <1>9, DaemonManageKeeps DEF DaemonStep
<1>10. CASE CycleStep
  BY <1>7, <1>10, CycleManagesKeeps DEF CycleStep, CycleQuiet
<1> QED
  BY <1>2, <1>3, <1>6, <1>8, <1>9, <1>10 DEF Next

(* The invariant holds in every reachable state.                            *)
THEOREM Invariance == Spec => []IInv
<1>1. IInv /\ [Next]_vars => IInv'
  BY NextKeeps
<1> QED
  BY InitIInv, <1>1, PTL DEF Spec

(* Every variable keeps its type.                                           *)
THEOREM TypeCorrect == Spec => []TypeOK
<1>1. IInv => TypeOK
  BY DEF IInv
<1> QED
  BY Invariance, <1>1, PTL

(* Whatever the two managers see, and in whatever order they act, a stop    *)
(* moves away from the price only by a manager that judged an older stop.   *)
THEOREM StopsLoosenOnlyFromStaleViews == Spec => LooseningNeedsStaleView
<1>1. IInv /\ [Next]_vars => [\A t \in Tickets : Loosened(t) => t \in stale']_vars
  BY NextKeeps
<1> QED
  BY Invariance, <1>1, PTL DEF Spec, LooseningNeedsStaleView

(* A manager that believes a position at breakeven is right, unless a stale *)
(* view set the stop: across handoffs, lost replies, deaths and restarts.   *)
THEOREM BreakevenIsHeld == Spec => []BreakevenFlagMeansProtected
  BY Invariance, IInvImplies, PTL

(* No memory, in either file, runs ahead of the broker.                     *)
THEOREM LedgersAreHonest == Spec => []LedgersNeverAhead
  BY Invariance, IInvImplies, PTL

(* The watchdog never reports a live position as closed.                    *)
THEOREM ReportsAreTrue == Spec => []ReportedClosedIsClosed
  BY Invariance, IInvImplies, PTL

-----------------------------------------------------------------------------
(* No cut is forgotten.  The invariant above says that memories are never   *)
(* ahead of the broker; this one says that they are never behind.           *)

OnlyOpenAreCut == \A t \in Tickets : pos[t].st # "open" => cuts[t] = {}

\* A ticket that a memory does not track has left nothing in it, so a poll
\* that starts to track it forgets nothing.
UntrackedAreBlank ==
  \A t \in Tickets : /\ t \notin mem.tracked => mem.flags[t] = NoFlags
                     /\ t \notin disk.tracked => disk.flags[t] = NoFlags

TodoIsTracked == todo \subseteq mem.tracked /\ (dpc = "down" => todo = {})

\* The targets that the watchdog knows of, or will when it comes back.
Remembers(t) == IF dpc = "down" THEN disk.flags[t].filled ELSE mem.flags[t].filled

CutsAreKnown == \A t \in Tickets : cuts[t] \subseteq lost[t] \cup rt[t].filled \cup Remembers(t)

CInv == OnlyOpenAreCut /\ UntrackedAreBlank /\ TodoIsTracked /\ CutsAreKnown

LEMMA InitCInv == Init => CInv
<1> SUFFICES ASSUME Init PROVE CInv
  OBVIOUS
<1>1. \A t \in Tickets : cuts[t] = {}
  BY DEF Init
<1>2. UntrackedAreBlank /\ TodoIsTracked
  BY DEF Init, NoMemory, UntrackedAreBlank, TodoIsTracked
<1> QED
  BY <1>1, <1>2 DEF CInv, OnlyOpenAreCut, CutsAreKnown

\* What a command adds to the cuts of its ticket: nothing, or its level, which
\* is lost with its reply.
LEMMA CommandCuts ==
  ASSUME TypeOK, NEW m \in Managers, NEW t \in Tickets, NEW d \in Decisions,
         NEW reply \in Replies, Command(m, t, d, reply)
  PROVE  /\ \A s \in Tickets : s # t => pos'[s] = pos[s] /\ cuts'[s] = cuts[s] /\ lost'[s] = lost[s]
         /\ \/ pos'[t] = pos[t] /\ cuts'[t] = cuts[t] /\ lost'[t] = lost[t]
            \/ cuts'[t] = {}
            \/ /\ pos'[t].st = "open" /\ lost[t] \subseteq lost'[t]
               /\ cuts'[t] \subseteq cuts[t] \cup lost'[t] \cup
                    (IF Accepted(reply) /\ d.action = "partial_take_profit" THEN {d.level} ELSE {})
<1>0. /\ pos \in [Tickets -> Position] /\ cuts \in [Tickets -> SUBSET Int]
      /\ lost \in [Tickets -> SUBSET Int]
  BY DEF TypeOK
<1>1. CASE reply = "refused"
  BY <1>1 DEF Command
<1>2. CASE reply # "refused"
  <2> DEFINE cut == IF d.action = "partial_take_profit" THEN {d.level} ELSE {}
  <2>1. PICK p \in Executed(t, d) :
          /\ pos' = [pos EXCEPT ![t] = p]
          /\ cuts' = [cuts EXCEPT ![t] = IF p.st = "open" THEN @ \cup cut ELSE {}]
          /\ lost' = [lost EXCEPT ![t] = IF ~(p.st = "open") THEN {}
                        ELSE IF reply = "unanswered" THEN @ \cup cut ELSE @]
    BY <1>2 DEF Command
  <2> HIDE DEF cut
  <2>2. \A s \in Tickets : s # t => pos'[s] = pos[s] /\ cuts'[s] = cuts[s] /\ lost'[s] = lost[s]
    BY <1>0, <2>1
  <2>3. pos'[t] = p
    BY <1>0, <2>1
  <2>4. CASE p.st # "open"
    BY <1>0, <2>1, <2>2, <2>4
  <2>5. CASE p.st = "open"
    <3>1. cuts'[t] = cuts[t] \cup cut
      BY <1>0, <2>1, <2>5
    <3>2. lost'[t] = IF reply = "unanswered" THEN lost[t] \cup cut ELSE lost[t]
      BY <1>0, <2>1, <2>5
    <3>3. reply = "unanswered" \/ Accepted(reply)
      BY <1>2 DEF Replies, Accepted
    <3>4. cut \subseteq lost'[t] \cup
            (IF Accepted(reply) /\ d.action = "partial_take_profit" THEN {d.level} ELSE {})
      BY <3>2, <3>3 DEF cut
    <3> QED
      BY <2>2, <2>3, <2>5, <3>1, <3>2, <3>4
  <2> QED
    BY <2>4, <2>5
<1> QED
  BY <1>1, <1>2

\* A commit keeps what was remembered, and adds the level that was taken.
LEMMA CommitRemembers ==
  ASSUME NEW f \in Flags, NEW d
  PROVE  /\ f.filled \subseteq Commit(f, d).filled
         /\ d.action = "partial_take_profit" => d.level \in Commit(f, d).filled
<1>1. CASE d.action = "partial_take_profit"
  <2>1. Commit(f, d) = [f EXCEPT !.filled = @ \cup {d.level}]
    BY <1>1 DEF Commit
  <2>2. Commit(f, d).filled = f.filled \cup {d.level}
    BY <2>1 DEF Flags
  <2> QED
    BY <2>2
<1>2. CASE d.action # "partial_take_profit"
  <2>1. Commit(f, d) = [f EXCEPT !.be = TRUE] \/ Commit(f, d) = f
    BY <1>2 DEF Commit
  <2>2. Commit(f, d).filled = f.filled
    BY <2>1 DEF Flags
  <2> QED
    BY <1>2, <2>2
<1> QED
  BY <1>1, <1>2

LEMMA OpenPositionCuts ==
  ASSUME IInv, CInv, NEW t \in Tickets, NEW o \in Openings, OpenPosition(t, o)
  PROVE  CInv'
<1>1. /\ pos[t].st = "unopened"
      /\ \A s \in Tickets : s # t => pos'[s] = pos[s]
      /\ UNCHANGED <<mem, disk, rt, dpc, todo, cuts, lost>>
  BY DEF OpenPosition, daemon, runtime, IInv, TypeOK
<1>2. cuts[t] = {}
  BY <1>1 DEF CInv, OnlyOpenAreCut
<1>3. OnlyOpenAreCut'
  BY <1>1, <1>2 DEF CInv, OnlyOpenAreCut
<1>4. (UntrackedAreBlank /\ TodoIsTracked /\ CutsAreKnown)'
  BY <1>1 DEF CInv, UntrackedAreBlank, TodoIsTracked, CutsAreKnown, Remembers
<1> QED
  BY <1>3, <1>4 DEF CInv

LEMMA PriceMovesCuts ==
  ASSUME CInv, NEW q \in Prices, PriceMoves(q)
  PROVE  CInv'
<1> DEFINE out == {t \in Open : Triggered(pos[t], q)}
<1>1. /\ pos' = [t \in Tickets |-> IF t \in out THEN Closed ELSE pos[t]]
      /\ cuts' = [t \in Tickets |-> IF t \in out THEN {} ELSE cuts[t]]
      /\ lost' = [t \in Tickets |-> IF t \in out THEN {} ELSE lost[t]]
      /\ UNCHANGED <<mem, disk, rt, dpc, todo>>
  BY DEF PriceMoves, daemon, runtime
<1> HIDE DEF out
<1>2. \A t \in Tickets :
        \/ cuts'[t] = {}
        \/ pos'[t] = pos[t] /\ cuts'[t] = cuts[t] /\ lost'[t] = lost[t]
  BY <1>1
<1>3. OnlyOpenAreCut'
  BY <1>2 DEF CInv, OnlyOpenAreCut
<1>4. (UntrackedAreBlank /\ TodoIsTracked)'
  BY <1>1 DEF CInv, UntrackedAreBlank, TodoIsTracked
<1>5. CutsAreKnown'
  BY <1>1, <1>2 DEF CInv, CutsAreKnown, Remembers
<1> QED
  BY <1>3, <1>4, <1>5 DEF CInv

\* A poll drops only the memory of what is not on the book.
LEMMA DaemonPollCuts ==
  ASSUME IInv, CInv, NEW reply, DaemonPoll(reply)
  PROVE  CInv'
<1> DEFINE live == Listed(reply)
<1>1. /\ mem' = [ tracked |-> live,
                 flags   |-> [t \in Tickets |-> IF t \in Kept(live) THEN mem.flags[t] ELSE NoFlags],
                 closed  |-> mem.closed \cup (mem.tracked \ live) ]
      /\ todo' = live /\ dpc = "idle" /\ dpc' = "managing"
      /\ UNCHANGED <<pos, cuts, disk, lost, rt>>
  BY DEF DaemonPoll, market, runtime
<1>2. live = Open
  BY DEF DaemonPoll, Readable, Listed
<1> HIDE DEF live
<1>3. /\ mem'.tracked = live
      /\ \A t \in Tickets : mem'.flags[t] = IF t \in Kept(live) THEN mem.flags[t] ELSE NoFlags
  BY <1>1
<1>4. \A t \in Open : mem'.flags[t] = mem.flags[t]
  BY <1>2, <1>3 DEF Kept, Open, CInv, UntrackedAreBlank
<1>5. OnlyOpenAreCut'
  BY <1>1 DEF CInv, OnlyOpenAreCut
<1>6. (UntrackedAreBlank /\ TodoIsTracked)'
  BY <1>1, <1>3 DEF CInv, UntrackedAreBlank, TodoIsTracked, Kept
<1>7. CutsAreKnown'
  <2> SUFFICES ASSUME NEW t \in Tickets
               PROVE  cuts[t] \subseteq lost[t] \cup rt[t].filled \cup mem'.flags[t].filled
    BY <1>1 DEF CutsAreKnown, Remembers
  <2>1. CASE t \in Open
    BY <1>1, <1>4, <2>1 DEF CInv, CutsAreKnown, Remembers
  <2>2. CASE t \notin Open
    BY <2>2 DEF CInv, OnlyOpenAreCut, Open
  <2> QED
    BY <2>1, <2>2
<1> QED
  BY <1>5, <1>6, <1>7 DEF CInv

\* A death loses what was not saved, and says so; a restart goes on from the file.
LEMMA DaemonQuietCuts ==
  ASSUME IInv, CInv, DaemonSave \/ DaemonAborts \/ DaemonDies \/ DaemonRestarts \/ HeartbeatExpires
  PROVE  CInv'
<1>1. UNCHANGED <<pos, cuts, rt>>
  BY DEF DaemonSave, DaemonAborts, DaemonDies, DaemonRestarts, HeartbeatExpires, market, runtime
<1>2. OnlyOpenAreCut'
  BY <1>1 DEF CInv, OnlyOpenAreCut
<1>3. NoMemory.tracked = {} /\ \A t \in Tickets : NoMemory.flags[t] = NoFlags
  BY DEF NoMemory
<1>4. CASE DaemonSave
  <2>1. /\ disk' = mem /\ mem' = mem /\ todo' = todo /\ lost' = lost
        /\ dpc = "managing" /\ dpc' = "idle"
    BY <1>4 DEF DaemonSave
  <2>2. (UntrackedAreBlank /\ TodoIsTracked)'
    BY <2>1 DEF CInv, UntrackedAreBlank, TodoIsTracked
  <2>3. CutsAreKnown'
    BY <1>1, <2>1 DEF CInv, CutsAreKnown, Remembers
  <2> QED
    BY <1>2, <2>2, <2>3 DEF CInv
<1>5. CASE DaemonAborts \/ HeartbeatExpires
  <2>1. /\ disk' = disk /\ mem' = mem /\ lost' = lost /\ (todo' = todo \/ todo' = {})
        /\ (dpc' = "down") = (dpc = "down")
    BY <1>5 DEF DaemonAborts, HeartbeatExpires
  <2>2. (UntrackedAreBlank /\ TodoIsTracked)'
    BY <2>1 DEF CInv, UntrackedAreBlank, TodoIsTracked
  <2>3. CutsAreKnown'
    BY <1>1, <2>1 DEF CInv, CutsAreKnown, Remembers
  <2> QED
    BY <1>2, <2>2, <2>3 DEF CInv
<1>6. CASE DaemonDies
  <2>1. /\ disk' = disk /\ mem' = NoMemory /\ todo' = {} /\ dpc # "down" /\ dpc' = "down"
        /\ lost' = [t \in Tickets |-> lost[t] \cup
                      IF t \in Open THEN mem.flags[t].filled \ disk.flags[t].filled ELSE {}]
    BY <1>6 DEF DaemonDies
  <2>2. (UntrackedAreBlank /\ TodoIsTracked)'
    BY <1>3, <2>1 DEF CInv, UntrackedAreBlank, TodoIsTracked
  <2>3. CutsAreKnown'
    <3> SUFFICES ASSUME NEW t \in Tickets
                 PROVE  cuts[t] \subseteq lost'[t] \cup rt[t].filled \cup disk.flags[t].filled
      BY <1>1, <2>1 DEF CutsAreKnown, Remembers
    <3>1. CASE t \in Open
      <4>1. cuts[t] \subseteq lost[t] \cup rt[t].filled \cup mem.flags[t].filled
        BY <2>1 DEF CInv, CutsAreKnown, Remembers
      <4>2. lost'[t] = lost[t] \cup (mem.flags[t].filled \ disk.flags[t].filled)
        BY <2>1, <3>1
      <4> QED
        BY <4>1, <4>2
    <3>2. CASE t \notin Open
      BY <3>2 DEF CInv, OnlyOpenAreCut, Open
    <3> QED
      BY <3>1, <3>2
  <2> QED
    BY <1>2, <2>2, <2>3 DEF CInv
<1>7. CASE DaemonRestarts
  <2>1. disk' = disk /\ mem' = disk /\ todo' = todo /\ lost' = lost /\ dpc = "down" /\ dpc' = "idle"
    BY <1>7 DEF DaemonRestarts
  <2>2. (UntrackedAreBlank /\ TodoIsTracked)'
    BY <2>1 DEF CInv, UntrackedAreBlank, TodoIsTracked
  <2>3. CutsAreKnown'
    BY <1>1, <2>1 DEF CInv, CutsAreKnown, Remembers
  <2> QED
    BY <1>2, <2>2, <2>3 DEF CInv
<1> QED
  BY <1>4, <1>5, <1>6, <1>7

\* Manager m's own memory f of its ticket, after the command and the commit.
LEMMA SentIsRemembered ==
  ASSUME TypeOK, NEW m \in Managers, NEW t \in Tickets, NEW d \in Decisions,
         NEW reply \in Replies, Command(m, t, d, reply), NEW f \in Flags, NEW others,
         cuts[t] \subseteq lost[t] \cup others \cup f.filled
  PROVE  cuts'[t] \subseteq
           lost'[t] \cup others \cup (IF Accepted(reply) THEN Commit(f, d) ELSE f).filled
<1>1. /\ f.filled \subseteq Commit(f, d).filled
      /\ d.action = "partial_take_profit" => d.level \in Commit(f, d).filled
  BY CommitRemembers
<1>2. \/ cuts'[t] = cuts[t] /\ lost'[t] = lost[t]
      \/ cuts'[t] = {}
      \/ /\ lost[t] \subseteq lost'[t]
         /\ cuts'[t] \subseteq cuts[t] \cup lost'[t] \cup
              (IF Accepted(reply) /\ d.action = "partial_take_profit" THEN {d.level} ELSE {})
  BY CommandCuts
<1> QED
  BY <1>1, <1>2

\* A command leaves only open positions cut.
LEMMA SentCutsOnlyOpen ==
  ASSUME TypeOK, OnlyOpenAreCut, NEW m \in Managers, NEW t \in Tickets, NEW d \in Decisions,
         NEW reply \in Replies, Command(m, t, d, reply)
  PROVE  OnlyOpenAreCut'
<1>1. \A s \in Tickets : \/ cuts'[s] = {}
                         \/ pos'[s] = pos[s] /\ cuts'[s] = cuts[s]
                         \/ pos'[s].st = "open"
  BY CommandCuts
<1> QED
  BY <1>1 DEF OnlyOpenAreCut

LEMMA DaemonManageCuts ==
  ASSUME IInv, CInv, NEW t \in Tickets, NEW g \in Guards, NEW reply \in Replies,
         DaemonManage(t, g, reply)
  PROVE  CInv'
<1> DEFINE d == Decision("daemon", t, mem.flags[t], {}, g)
<1>1. /\ Command("daemon", t, d, reply)
      /\ mem' = IF Accepted(reply) THEN [mem EXCEPT !.flags[t] = Commit(@, d)] ELSE mem
      /\ dpc = "managing" /\ t \in todo /\ todo' = todo \ {t}
      /\ UNCHANGED <<disk, dpc, rt>>
  BY DEF DaemonManage, FirstToManage, runtime
<1>2. TypeOK /\ "daemon" \in Managers
  BY DEF IInv, Managers
<1>3. mem \in Memory /\ mem.flags \in [Tickets -> Flags]
  BY <1>2 DEF TypeOK, Memory
<1>4. d \in Decisions
  BY <1>2, <1>3, DecisionFacts
<1> HIDE DEF d
<1>5. /\ mem'.tracked = mem.tracked
      /\ mem'.flags = IF Accepted(reply) THEN [mem.flags EXCEPT ![t] = Commit(@, d)] ELSE mem.flags
  BY <1>1, <1>3 DEF Memory
<1>6. /\ \A s \in Tickets : s # t => mem'.flags[s] = mem.flags[s]
      /\ mem'.flags[t] = IF Accepted(reply) THEN Commit(mem.flags[t], d) ELSE mem.flags[t]
  BY <1>3, <1>5
<1>7. OnlyOpenAreCut'
  BY <1>1, <1>2, <1>4, SentCutsOnlyOpen DEF CInv
<1>8. t \in mem.tracked
  BY <1>1 DEF CInv, TodoIsTracked
<1>9. (UntrackedAreBlank /\ TodoIsTracked)'
  BY <1>1, <1>5, <1>6, <1>8 DEF CInv, UntrackedAreBlank, TodoIsTracked
<1>10. CutsAreKnown'
  <2> SUFFICES ASSUME NEW s \in Tickets
               PROVE  cuts'[s] \subseteq lost'[s] \cup rt[s].filled \cup mem'.flags[s].filled
    BY <1>1 DEF CutsAreKnown, Remembers
  <2>1. cuts[s] \subseteq lost[s] \cup rt[s].filled \cup mem.flags[s].filled
    BY <1>1 DEF CInv, CutsAreKnown, Remembers
  <2>2. CASE s # t
    <3>1. cuts'[s] = cuts[s] /\ lost'[s] = lost[s]
      BY <1>1, <1>2, <1>4, <2>2, CommandCuts
    <3> QED
      BY <1>6, <2>1, <2>2, <3>1
  <2>3. CASE s = t
    <3>1. mem.flags[t] \in Flags /\ cuts[t] \subseteq lost[t] \cup rt[t].filled \cup mem.flags[t].filled
      BY <1>3, <2>1, <2>3
    <3>2. cuts'[t] \subseteq lost'[t] \cup rt[t].filled \cup
            (IF Accepted(reply) THEN Commit(mem.flags[t], d) ELSE mem.flags[t]).filled
      BY <1>1, <1>2, <1>4, <3>1, SentIsRemembered
    <3> QED
      BY <1>6, <2>3, <3>2
  <2> QED
    BY <2>2, <2>3
<1> QED
  BY <1>7, <1>9, <1>10 DEF CInv

LEMMA CycleManagesCuts ==
  ASSUME IInv, CInv, NEW t \in Tickets, NEW g \in Guards, NEW reply \in Replies,
         CycleManages(t, g, reply)
  PROVE  CInv'
<1> DEFINE scale == view["cycle"].plan.scale
           d == Decision("cycle", t, rt[t], scale, g)
<1>1. /\ Command("cycle", t, d, reply)
      /\ rt' = IF Accepted(reply) THEN [rt EXCEPT ![t] = Commit(@, d)] ELSE rt
      /\ UNCHANGED <<mem, disk, dpc, todo>>
  BY DEF CycleManages, CycleDecision, daemon
<1>2. TypeOK /\ "cycle" \in Managers /\ rt \in [Tickets -> Flags]
  BY DEF IInv, Managers, TypeOK
<1>3. scale \in SUBSET Int
  <2>1. view["cycle"].plan \in PlanType \cup {NoPlan}
    BY <1>2 DEF TypeOK, View
  <2> QED
    BY <2>1 DEF PlanType, NoPlan
<1>4. d \in Decisions
  BY <1>2, <1>3, DecisionFacts
<1> HIDE DEF d, scale
<1>5. /\ \A s \in Tickets : s # t => rt'[s] = rt[s]
      /\ rt'[t] = IF Accepted(reply) THEN Commit(rt[t], d) ELSE rt[t]
  BY <1>1, <1>2
<1>6. OnlyOpenAreCut'
  BY <1>1, <1>2, <1>4, SentCutsOnlyOpen DEF CInv
<1>7. (UntrackedAreBlank /\ TodoIsTracked)'
  BY <1>1 DEF CInv, UntrackedAreBlank, TodoIsTracked
<1>8. CutsAreKnown'
  <2>1. \A s \in Tickets : Remembers(s)' = Remembers(s)
    BY <1>1 DEF Remembers
  <2> SUFFICES ASSUME NEW s \in Tickets
               PROVE  cuts'[s] \subseteq lost'[s] \cup rt'[s].filled \cup Remembers(s)
    BY <2>1 DEF CutsAreKnown
  <2>2. cuts[s] \subseteq lost[s] \cup rt[s].filled \cup Remembers(s)
    BY DEF CInv, CutsAreKnown
  <2>3. CASE s # t
    <3>1. cuts'[s] = cuts[s] /\ lost'[s] = lost[s]
      BY <1>1, <1>2, <1>4, <2>3, CommandCuts
    <3> QED
      BY <1>5, <2>2, <2>3, <3>1
  <2>4. CASE s = t
    <3>1. rt[t] \in Flags /\ cuts[t] \subseteq lost[t] \cup Remembers(t) \cup rt[t].filled
      BY <1>2, <2>2, <2>4
    <3>2. cuts'[t] \subseteq lost'[t] \cup Remembers(t) \cup
            (IF Accepted(reply) THEN Commit(rt[t], d) ELSE rt[t]).filled
      BY <1>1, <1>2, <1>4, <3>1, SentIsRemembered
    <3> QED
      BY <1>5, <2>4, <3>2
  <2> QED
    BY <2>3, <2>4
<1> QED
  BY <1>6, <1>7, <1>8 DEF CInv

\* Nothing else touches the cuts or the memories.
LEMMA OtherCuts ==
  ASSUME CInv, UNCHANGED <<pos, cuts, lost, mem, disk, rt, dpc, todo>>
  PROVE  CInv'
BY DEF CInv, OnlyOpenAreCut, UntrackedAreBlank, TodoIsTracked, CutsAreKnown, Remembers

LEMMA NextCuts ==
  ASSUME IInv, CInv, [Next]_vars
  PROVE  CInv'
<1>1. CASE CycleQuiet
  <2>1. UNCHANGED market /\ UNCHANGED daemon /\ UNCHANGED <<rt, lost>>
    BY <1>1 DEF CycleQuiet, CycleStarts, CycleReadsHeartbeat, CycleRedrawsPlan, CycleKeepsPlan,
                CycleHolds, CycleAborts
  <2> QED
    BY <2>1, OtherCuts DEF market, daemon
<1>2. CASE UNCHANGED vars
  BY <1>2, OtherCuts DEF vars
<1>3. CASE DaemonStep
  BY <1>3, DaemonPollCuts, DaemonManageCuts, DaemonQuietCuts DEF DaemonStep
<1>4. CASE CycleStep
  BY <1>1, <1>4, CycleManagesCuts DEF CycleStep, CycleQuiet
<1> QED
  BY <1>2, <1>3, <1>4, OpenPositionCuts, PriceMovesCuts, DaemonQuietCuts DEF Next

\* Every state satisfies both invariants.
LEMMA CutsInvariance == Spec => [](IInv /\ CInv)
<1>1. IInv /\ CInv /\ [Next]_vars => IInv' /\ CInv'
  BY NextKeeps, NextCuts
<1> QED
  BY InitIInv, InitCInv, <1>1, PTL DEF Spec

(* Every target that the broker took is known to a manager, however deaths, *)
(* restarts, refusals and handoffs to the fallback interleave - or its      *)
(* reply was lost, or the watchdog died between the cut and its save.       *)
THEOREM CutsAreRemembered == Spec => []CutsRemembered
<1>1. CInv => CutsRemembered
  BY DEF CInv, CutsAreKnown, Remembers, CutsRemembered, Open
<1> QED
  BY CutsInvariance, <1>1, PTL

-----------------------------------------------------------------------------
(* No target is taken twice by who knows of the first time.                 *)

\* The broker takes off volume at a rung it was made to take before.
TakenAgain(t) == /\ pos[t].st = "open" /\ pos'[t].st = "open"
                 /\ pos'[t].vol < pos[t].vol
                 /\ cuts'[t] = cuts[t]

\* Who takes it did not know of it: its record is lost, or the other manager's.
\* (Of the two managers' commands only the fallback's ends its pass.)
TakenUnknown(t) ==
  \E l \in cuts[t] :
    IF cpc' = cpc THEN l \notin mem.flags[t].filled /\ l \in lost[t] \cup rt[t].filled
    ELSE l \notin rt[t].filled /\ l \in lost[t] \cup Remembers(t)

\* A decision that takes a target takes one that its manager does not remember.
LEMMA TakesUnknown ==
  ASSUME TypeOK, NEW m \in Managers, NEW t \in Tickets, NEW flags \in Flags,
         NEW scale \in SUBSET Int, NEW g \in Guards,
         Decision(m, t, flags, scale, g).action = "partial_take_profit"
  PROVE  Decision(m, t, flags, scale, g).level \notin flags.filled
<1> DEFINE p == view[m].pos[t]
           pl == view[m].plan
           q == view[m].price
           tr == BuildTrade(p, pl, flags, scale)
           core == IF pl = NoPlan THEN Hold ELSE EvaluateTradeManagement(tr, q)
<1>1. p \in Position /\ q \in Int /\ pl \in PlanType \cup {NoPlan}
  BY DEF TypeOK, View
<1>2. Decision(m, t, flags, scale, g) = Guarded(core, g, p.side, p.sl, q)
  BY DEF Decision
<1> HIDE DEF p, pl, q, tr, core
<1>3. Decision(m, t, flags, scale, g) = core
  BY <1>2 DEF Guarded, Moving, Closing, Verdict
<1>4. pl # NoPlan /\ core = EvaluateTradeManagement(tr, q)
  BY <1>3 DEF core, Hold, Verdict
<1>5. tr \in Trades /\ tr.filled = flags.filled
  <2>1. pl.levels \in SUBSET Int /\ pl.quality \in Quality
    BY <1>1, <1>4 DEF PlanType, Quality
  <2>2. p.side \in Sides /\ p.entry \in Int /\ p.sl \in Int /\ p.tp \in Int /\ p.vol \in Nat
    BY <1>1 DEF Position
  <2> QED
    BY <2>1, <2>2, BuildTradeType DEF tr, BuildTrade
<1> QED
  BY <1>1, <1>3, <1>4, <1>5, TakesWhatIsOwed

\* A command under which an open position loses volume takes a target.
LEMMA CommandTakes ==
  ASSUME TypeOK, NEW m \in Managers, NEW t \in Tickets, NEW d \in Decisions,
         NEW reply \in Replies, Command(m, t, d, reply),
         NEW s \in Tickets, pos[s].st = "open", pos'[s].st = "open", pos'[s].vol < pos[s].vol
  PROVE  /\ s = t
         /\ d.action = "partial_take_profit"
         /\ d.level \in cuts'[t]
         /\ Accepted(reply) \/ d.level \in lost'[t]
<1>0. /\ pos \in [Tickets -> Position] /\ cuts \in [Tickets -> SUBSET Int]
      /\ lost \in [Tickets -> SUBSET Int] /\ pos[s].vol \in Nat
  BY DEF TypeOK, Position
<1>1. s = t /\ reply # "refused"
  <2>1. s # t => pos'[s] = pos[s]
    BY CommandCuts
  <2>2. reply = "refused" => pos' = pos
    BY DEF Command
  <2> QED
    BY <1>0, <2>1, <2>2
<1> DEFINE cut == IF d.action = "partial_take_profit" THEN {d.level} ELSE {}
<1>2. PICK p \in Executed(t, d) :
        /\ pos' = [pos EXCEPT ![t] = p]
        /\ cuts' = [cuts EXCEPT ![t] = IF p.st = "open" THEN @ \cup cut ELSE {}]
        /\ lost' = [lost EXCEPT ![t] = IF ~(p.st = "open") THEN {}
                      ELSE IF reply = "unanswered" THEN @ \cup cut ELSE @]
  BY <1>1 DEF Command
<1>3. pos'[t] = p /\ p.st = "open" /\ p.vol < pos[t].vol
  BY <1>0, <1>1, <1>2
<1>4. d.action = "partial_take_profit"
  <2>1. CASE d.action \in StopMoves
    <3>1. p = [pos[t] EXCEPT !.sl = d.sl]
      BY <1>1, <2>1 DEF Executed
    <3>2. p.vol = pos[t].vol
      BY <1>0, <3>1 DEF Position
    <3> QED
      BY <1>0, <1>1, <1>3, <3>2
  <2>2. CASE d.action \notin StopMoves
    BY <1>1, <1>3, <2>2 DEF Executed, Closed, Unopened
  <2> QED
    BY <2>1, <2>2
<1>5. /\ cuts'[t] = cuts[t] \cup {d.level}
      /\ reply = "unanswered" => lost'[t] = lost[t] \cup {d.level}
  BY <1>0, <1>2, <1>3, <1>4
<1> QED
  BY <1>1, <1>4, <1>5 DEF Replies, Accepted

LEMMA DaemonRetakes ==
  ASSUME IInv, CInv, NEW t \in Tickets, NEW g \in Guards, NEW reply \in Replies,
         DaemonManage(t, g, reply), NEW s \in Tickets, TakenAgain(s)
  PROVE  TakenUnknown(s)
<1> DEFINE d == Decision("daemon", t, mem.flags[t], {}, g)
<1>1. Command("daemon", t, d, reply) /\ dpc = "managing" /\ cpc' = cpc
  BY DEF DaemonManage, runtime
<1>2. TypeOK /\ "daemon" \in Managers /\ mem.flags[t] \in Flags
  BY DEF IInv, Managers, TypeOK, Memory
<1>3. d \in Decisions
  BY <1>2, DecisionFacts
<1>4. d.action = "partial_take_profit" => d.level \notin mem.flags[t].filled
  BY <1>2, TakesUnknown
<1> HIDE DEF d
<1>5. s = t /\ d.action = "partial_take_profit" /\ d.level \in cuts'[t]
  BY <1>1, <1>2, <1>3, CommandTakes DEF TakenAgain
<1>6. d.level \in cuts[t] /\ d.level \notin mem.flags[t].filled
  BY <1>4, <1>5 DEF TakenAgain
<1>7. cuts[t] \subseteq lost[t] \cup rt[t].filled \cup mem.flags[t].filled
  BY <1>1 DEF CInv, CutsAreKnown, Remembers
<1> QED
  BY <1>1, <1>5, <1>6, <1>7 DEF TakenUnknown

LEMMA CycleRetakes ==
  ASSUME IInv, CInv, NEW t \in Tickets, NEW g \in Guards, NEW reply \in Replies,
         CycleManages(t, g, reply), NEW s \in Tickets, TakenAgain(s)
  PROVE  /\ TakenUnknown(s)
         /\ lost'[s] # {} \/ rt'[s].filled # {}
<1> DEFINE scale == view["cycle"].plan.scale
           d == Decision("cycle", t, rt[t], scale, g)
<1>1. /\ Command("cycle", t, d, reply) /\ cpc = "managing" /\ cpc' = "idle"
      /\ rt' = IF Accepted(reply) THEN [rt EXCEPT ![t] = Commit(@, d)] ELSE rt
  BY DEF CycleManages, CycleDecision
<1>2. TypeOK /\ "cycle" \in Managers /\ rt \in [Tickets -> Flags]
  BY DEF IInv, Managers, TypeOK
<1>3. scale \in SUBSET Int
  <2>1. view["cycle"].plan \in PlanType \cup {NoPlan}
    BY <1>2 DEF TypeOK, View
  <2> QED
    BY <2>1 DEF PlanType, NoPlan
<1>4. d \in Decisions /\ (d.action = "partial_take_profit" => d.level \notin rt[t].filled)
  BY <1>2, <1>3, DecisionFacts, TakesUnknown
<1> HIDE DEF d, scale
<1>5. /\ s = t /\ d.action = "partial_take_profit" /\ d.level \in cuts'[t]
      /\ Accepted(reply) \/ d.level \in lost'[t]
  BY <1>1, <1>2, <1>4, CommandTakes DEF TakenAgain
<1>6. d.level \in cuts[t] /\ d.level \notin rt[t].filled
  BY <1>4, <1>5 DEF TakenAgain
<1>7. cuts[t] \subseteq lost[t] \cup rt[t].filled \cup Remembers(t)
  BY DEF CInv, CutsAreKnown
<1>8. TakenUnknown(s)
  BY <1>1, <1>5, <1>6, <1>7 DEF TakenUnknown
<1>9. Accepted(reply) => d.level \in rt'[t].filled
  BY <1>1, <1>2, <1>5, CommitRemembers
<1> QED
  BY <1>5, <1>8, <1>9

\* Only commands take volume off a position that stays open.
LEMMA NextRetakes ==
  ASSUME IInv, CInv, [Next]_vars, NEW s \in Tickets, TakenAgain(s)
  PROVE  TakenUnknown(s) /\ (cpc' = cpc \/ lost'[s] # {} \/ rt'[s].filled # {})
<1>0. pos \in [Tickets -> Position] /\ pos[s].vol \in Nat /\ pos'[s] # pos[s]
  BY DEF IInv, TypeOK, Position, TakenAgain
<1>1. CASE \E t \in Tickets, o \in Openings : OpenPosition(t, o)
  BY <1>0, <1>1 DEF OpenPosition, TakenAgain
<1>2. CASE \E q \in Prices : PriceMoves(q)
  <2>1. pos'[s] = Closed \/ pos'[s] = pos[s]
    BY <1>2 DEF PriceMoves
  <2> QED
    BY <1>0, <2>1 DEF TakenAgain, Closed, Unopened
<1>3. CASE \E t \in Tickets, g \in Guards, reply \in Replies : DaemonManage(t, g, reply)
  BY <1>3, DaemonRetakes DEF DaemonManage, runtime
<1>4. CASE \E t \in Tickets, g \in Guards, reply \in Replies : CycleManages(t, g, reply)
  BY <1>4, CycleRetakes
<1>5. CASE \/ \E reply \in {"ok", "error"} : DaemonPoll(reply)
           \/ DaemonSave \/ DaemonAborts \/ DaemonDies \/ DaemonRestarts \/ HeartbeatExpires
  BY <1>0, <1>5 DEF DaemonPoll, DaemonSave, DaemonAborts, DaemonDies, DaemonRestarts,
                    HeartbeatExpires, market
<1>6. CASE CycleQuiet
  BY <1>0, <1>6 DEF CycleQuiet, CycleStarts, CycleReadsHeartbeat, CycleRedrawsPlan,
                    CycleKeepsPlan, CycleHolds, CycleAborts, market
<1>7. CASE UNCHANGED vars
  BY <1>0, <1>7 DEF vars
<1> QED
  BY <1>1, <1>2, <1>3, <1>4, <1>5, <1>6, <1>7 DEF Next, DaemonStep, CycleStep, CycleQuiet

(* A target is taken a second time only by a manager that could not know of *)
(* the first: the reply was lost, the watchdog died before its save, or the *)
(* other manager took it, whose file nobody else reads (hermes_runtime.py:  *)
(* 664).                                                                    *)
THEOREM RetakenOnlyUnknown ==
  Spec => [][\A t \in Tickets : TakenAgain(t) => TakenUnknown(t)]_vars
<1>1. IInv /\ CInv /\ [Next]_vars
        => [\A t \in Tickets : TakenAgain(t) => TakenUnknown(t)]_vars
  BY NextRetakes
<1> QED
  BY CutsInvariance, <1>1, PTL DEF Spec

\* No record is lost, and the fallback has taken nothing.
Alone == \A t \in Tickets : lost[t] = {} /\ rt[t].filled = {}

(* While the watchdog is the only one to take targets and loses no record   *)
(* of them, it takes every rung of a position once: whatever is refused,    *)
(* aborted, redrawn or restarted in between.                                *)
THEOREM LoneManagerTakesOnce ==
  Spec /\ []Alone => [][\A t \in Tickets : ~TakenAgain(t)]_vars
<1>1. IInv /\ CInv /\ Alone /\ Alone' /\ [Next]_vars => [\A t \in Tickets : ~TakenAgain(t)]_vars
  <2> SUFFICES ASSUME IInv, CInv, Alone, Alone', [Next]_vars, NEW t \in Tickets, TakenAgain(t)
               PROVE  FALSE
    OBVIOUS
  <2>1. TakenUnknown(t) /\ (cpc' = cpc \/ lost'[t] # {} \/ rt'[t].filled # {})
    BY NextRetakes
  <2>2. cpc' = cpc
    BY <2>1 DEF Alone
  <2> QED
    BY <2>1, <2>2 DEF Alone, TakenUnknown
<1> QED
  BY CutsInvariance, <1>1, PTL DEF Spec

-----------------------------------------------------------------------------
(* One manager at a time.  The handoff rule wants the fallback to act only  *)
(* when the watchdog does not.  Kept for whole passes - from the reading of *)
(* the positions to the last command - it is all that is missing: then      *)
(* every view in use holds the stops that the broker holds.                 *)

\* The watchdog and a cycle never have a pass under way together.
Apart == ~(dpc = "managing" /\ cpc \in {"started", "fallback", "managing"})

\* What a manager has yet to act on, it sees as it is.
ViewsAreCurrent ==
  \A t \in Tickets : pos[t].st = "open" =>
    /\ t \in todo => view["daemon"].pos[t].sl = pos[t].sl
    /\ t \in Seen("cycle") => view["cycle"].pos[t].sl = pos[t].sl

AInv ==
  /\ stale = {}
  /\ dpc # "managing" => todo = {}
  /\ cpc \in {"idle", "watched"} => Seen("cycle") = {}
  /\ ViewsAreCurrent

LEMMA NothingSeenAfterwards ==
  ASSUME view'["cycle"] = NoView
  PROVE  Seen("cycle")' = {}
<1>1. \A t \in Tickets : NoView.pos[t].st = "unopened"
  BY DEF NoView, Unopened
<1> QED
  BY <1>1 DEF Seen

LEMMA InitApart == Init => AInv
<1> SUFFICES ASSUME Init PROVE AInv
  OBVIOUS
<1>1. stale = {} /\ todo = {} /\ \A t \in Tickets : pos[t].st = "unopened"
  BY DEF Init, Unopened
<1>2. Seen("cycle") = {}
  BY DEF Init, Seen, NoView, Unopened, Managers
<1> QED
  BY <1>1, <1>2 DEF AInv, ViewsAreCurrent

\* A command on a view that is current leaves no stop set by an older one.
LEMMA CommandOnCurrentView ==
  ASSUME NEW m, NEW t, NEW d, NEW reply, Command(m, t, d, reply), stale = {},
         pos[t].st = "open" => view[m].pos[t].sl = pos[t].sl
  PROVE  stale' = {}
<1>1. CASE reply = "refused"
  BY <1>1 DEF Command
<1>2. CASE reply # "refused"
  <2>1. pos[t].st = "open"
    BY <1>2 DEF Command, Executed
  <2>2. PICK p \in Executed(t, d) :
          stale' = IF ~(p.st = "open") THEN stale \ {t}
                   ELSE IF d.action \in StopMoves /\ view[m].pos[t].sl # pos[t].sl
                   THEN stale \cup {t} ELSE stale
    BY <1>2 DEF Command
  <2> QED
    BY <2>1, <2>2
<1> QED
  BY <1>1, <1>2

LEMMA MarketApart ==
  ASSUME IInv, AInv, \/ \E t \in Tickets, o \in Openings : OpenPosition(t, o)
                     \/ \E q \in Prices : PriceMoves(q)
  PROVE  AInv'
<1>1. /\ UNCHANGED <<dpc, todo, cpc, view>> /\ stale' \subseteq stale
  BY DEF OpenPosition, PriceMoves, daemon, runtime
<1>2. \A t \in Tickets :
        pos'[t].st = "open" =>
          pos'[t] = pos[t] \/ (t \notin Seen("cycle") /\ t \notin Seen("daemon"))
  <2>1. ASSUME NEW t \in Tickets, NEW o \in Openings, OpenPosition(t, o), NEW s \in Tickets
        PROVE  pos'[s] = pos[s] \/ (s \notin Seen("cycle") /\ s \notin Seen("daemon"))
    <3>1. CASE s # t
      BY <2>1, <3>1 DEF OpenPosition, IInv, TypeOK
    <3>2. CASE s = t
      <4>1. pos[s].st = "unopened"
        BY <2>1, <3>2 DEF OpenPosition
      <4> QED
        BY <4>1 DEF IInv, ViewsAreOfThePast, Seen, Managers
    <3> QED
      BY <3>1, <3>2
  <2>2. ASSUME NEW q \in Prices, PriceMoves(q), NEW s \in Tickets
        PROVE  pos'[s] = pos[s] \/ pos'[s] = Closed
    BY <2>2 DEF PriceMoves
  <2>3. Closed.st = "closed"
    BY DEF Closed, Unopened
  <2> QED
    BY <2>1, <2>2, <2>3
<1>3. Seen("cycle")' = Seen("cycle")
  BY <1>1 DEF Seen
<1>4. ViewsAreCurrent'
  BY <1>1, <1>2, <1>3 DEF AInv, ViewsAreCurrent, IInv, TodoWasSeen
<1> QED
  BY <1>1, <1>3, <1>4 DEF AInv

\* A pass that begins sees the stops as they are.
LEMMA SnapshotIsCurrent ==
  ASSUME NEW reply, NEW t \in Tickets, Snapshot(reply).pos[t].st = "open"
  PROVE  Snapshot(reply).pos[t] = pos[t]
<1>1. Snapshot(reply).pos[t] = IF t \in Listed(reply) THEN pos[t] ELSE Unopened
  BY DEF Snapshot
<1> QED
  BY <1>1 DEF Unopened

LEMMA DaemonPollApart ==
  ASSUME IInv, AInv, NEW reply, DaemonPoll(reply)
  PROVE  AInv'
<1>1. /\ todo' = Listed(reply) /\ dpc' = "managing" /\ UNCHANGED <<pos, stale, cpc>>
      /\ view' = [view EXCEPT !["daemon"] = Snapshot(reply)]
  BY DEF DaemonPoll, market, runtime
<1>2. view'["cycle"] = view["cycle"] /\ view'["daemon"] = Snapshot(reply)
  BY <1>1 DEF IInv, TypeOK, Managers
<1>3. Seen("cycle")' = Seen("cycle")
  BY <1>2 DEF Seen
<1>4. \A t \in todo' : t \in Tickets => view'["daemon"].pos[t] = pos[t]
  BY <1>1, <1>2, SnapshotType, SnapshotIsCurrent DEF IInv
<1>5. ViewsAreCurrent'
  BY <1>1, <1>2, <1>3, <1>4 DEF AInv, ViewsAreCurrent
<1> QED
  BY <1>1, <1>3, <1>5 DEF AInv

\* While the watchdog manages, no cycle holds a view that its command outdates.
LEMMA DaemonManageApart ==
  ASSUME IInv, AInv, Apart, NEW t \in Tickets, NEW g \in Guards, NEW reply \in Replies,
         DaemonManage(t, g, reply)
  PROVE  AInv'
<1> DEFINE d == Decision("daemon", t, mem.flags[t], {}, g)
<1>1. /\ Command("daemon", t, d, reply)
      /\ dpc = "managing" /\ t \in todo /\ todo' = todo \ {t}
      /\ IF todo = {t} THEN Leaves("daemon") ELSE UNCHANGED view
      /\ UNCHANGED <<dpc, cpc>>
  BY DEF DaemonManage, FirstToManage, runtime
<1>2. TypeOK /\ "daemon" \in Managers /\ "cycle" \in Managers
  BY DEF IInv, Managers
<1>3. mem.flags[t] \in Flags
  BY <1>2 DEF TypeOK, Memory
<1>4. d \in Decisions
  BY <1>2, <1>3, DecisionFacts
<1> HIDE DEF d
<1>5. stale' = {}
  BY <1>1, CommandOnCurrentView DEF AInv, ViewsAreCurrent
<1>6. \A s \in Tickets : s # t => pos'[s] = pos[s]
  BY <1>1, <1>2, <1>4, CommandFacts DEF OthersUntouched
<1>7. view'["cycle"] = view["cycle"] /\ (todo' = {} \/ view' = view)
  BY <1>1, <1>2, LeavesFacts
<1>8. cpc \in {"idle", "watched"} /\ Seen("cycle") = {}
  BY <1>1, <1>2 DEF Apart, TypeOK, AInv
<1>9. Seen("cycle")' = {}
  BY <1>7, <1>8 DEF Seen
<1>10. ViewsAreCurrent'
  BY <1>1, <1>6, <1>7, <1>9 DEF AInv, ViewsAreCurrent
<1> QED
  BY <1>1, <1>5, <1>9, <1>10 DEF AInv

LEMMA DaemonQuietApart ==
  ASSUME IInv, AInv,
         DaemonSave \/ DaemonAborts \/ DaemonDies \/ DaemonRestarts \/ HeartbeatExpires
  PROVE  AInv'
<1>1. /\ UNCHANGED <<pos, stale, cpc>>
      /\ \/ todo' = {} /\ (Leaves("daemon") \/ UNCHANGED view)
         \/ UNCHANGED <<todo, dpc, view>>
  BY DEF DaemonSave, DaemonAborts, DaemonDies, DaemonRestarts, HeartbeatExpires, market, runtime,
         AInv
<1>2. view'["cycle"] = view["cycle"]
  BY <1>1, LeavesFacts DEF IInv, Managers
<1>3. Seen("cycle")' = Seen("cycle")
  BY <1>2 DEF Seen
<1>4. ViewsAreCurrent'
  BY <1>1, <1>2, <1>3 DEF AInv, ViewsAreCurrent
<1> QED
  BY <1>1, <1>3, <1>4 DEF AInv

LEMMA CycleQuietApart ==
  ASSUME IInv, AInv, CycleQuiet
  PROVE  AInv'
<1>1. UNCHANGED <<pos, stale, dpc, todo>>
  BY DEF CycleQuiet, CycleStarts, CycleReadsHeartbeat, CycleRedrawsPlan, CycleKeepsPlan,
         CycleHolds, CycleAborts, market, daemon
<1>2. view \in [Managers -> View] /\ "daemon" \in Managers /\ "cycle" \in Managers
  BY DEF IInv, TypeOK, Managers
<1>3. ASSUME NEW reply \in {"ok", "error"}, CycleStarts(reply)
      PROVE  AInv'
  <2>1. /\ view'["daemon"] = view["daemon"] /\ view'["cycle"] = Snapshot(reply)
        /\ cpc' = "started"
    BY <1>2, <1>3 DEF CycleStarts
  <2>2. \A t \in Seen("cycle")' : t \in Tickets /\ view'["cycle"].pos[t] = pos[t]
    BY <2>1, SnapshotIsCurrent DEF Seen
  <2>3. ViewsAreCurrent'
    BY <1>1, <2>1, <2>2 DEF AInv, ViewsAreCurrent
  <2> QED
    BY <1>1, <2>1, <2>3 DEF AInv
<1>4. CASE Leaves("cycle")
  <2>1. view'["daemon"] = view["daemon"] /\ Seen("cycle")' = {}
    BY <1>2, <1>4, LeavesFacts, NothingSeenAfterwards DEF IInv
  <2>2. ViewsAreCurrent'
    BY <1>1, <2>1 DEF AInv, ViewsAreCurrent
  <2> QED
    BY <1>1, <2>1, <2>2 DEF AInv
<1>5. ASSUME view'["daemon"] = view["daemon"], view'["cycle"].pos = view["cycle"].pos,
             cpc' \in {"idle", "watched"} => cpc \in {"idle", "watched"}
      PROVE  AInv'
  <2>1. Seen("cycle")' = Seen("cycle")
    BY <1>5 DEF Seen
  <2>2. ViewsAreCurrent'
    BY <1>1, <1>5, <2>1 DEF AInv, ViewsAreCurrent
  <2> QED
    BY <1>1, <1>5, <2>1, <2>2 DEF AInv
<1>6. ASSUME NEW p \in Plans, CycleRedrawsPlan(p)
      PROVE  AInv'
  <2>1. /\ view' = [view EXCEPT !["cycle"].plan = p] \/ UNCHANGED view
        /\ cpc' \in {"idle", "watched"} => cpc \in {"idle", "watched"}
    BY <1>6 DEF CycleRedrawsPlan
  <2>2. view'["daemon"] = view["daemon"] /\ view'["cycle"].pos = view["cycle"].pos
    BY <1>2, <2>1 DEF View
  <2> QED
    BY <1>5, <2>1, <2>2
<1>7. ASSUME CycleReadsHeartbeat \/ CycleKeepsPlan \/ CycleHolds \/ CycleAborts
      PROVE  AInv'
  <2>1. \/ Leaves("cycle")
        \/ UNCHANGED view /\ (cpc' \in {"idle", "watched"} => cpc \in {"idle", "watched"})
    BY <1>7 DEF CycleReadsHeartbeat, CycleKeepsPlan, CycleHolds, CycleAborts
  <2> QED
    BY <1>4, <1>5, <2>1
<1> QED
  BY <1>3, <1>6, <1>7 DEF CycleQuiet

LEMMA CycleManagesApart ==
  ASSUME IInv, AInv, Apart, NEW t \in Tickets, NEW g \in Guards, NEW reply \in Replies,
         CycleManages(t, g, reply)
  PROVE  AInv'
<1> DEFINE d == Decision("cycle", t, rt[t], view["cycle"].plan.scale, g)
<1>1. /\ Command("cycle", t, d, reply)
      /\ t \in Seen("cycle") /\ cpc = "managing" /\ Leaves("cycle")
      /\ UNCHANGED <<dpc, todo>>
  BY DEF CycleManages, CycleDecision, daemon
<1> HIDE DEF d
<1>2. todo = {}
  BY <1>1 DEF Apart, AInv
<1>3. stale' = {}
  BY <1>1, CommandOnCurrentView DEF AInv, ViewsAreCurrent
<1>4. Seen("cycle")' = {}
  BY <1>1, LeavesFacts, NothingSeenAfterwards DEF IInv, Managers
<1>5. ViewsAreCurrent'
  BY <1>1, <1>2, <1>4 DEF ViewsAreCurrent
<1> QED
  BY <1>1, <1>2, <1>3, <1>4, <1>5 DEF AInv

LEMMA NextApart ==
  ASSUME IInv, AInv, Apart, [Next]_vars
  PROVE  AInv'
<1>1. CASE UNCHANGED vars
  BY <1>1 DEF vars, AInv, ViewsAreCurrent, Seen
<1>2. CASE DaemonStep
  BY <1>2, DaemonPollApart, DaemonManageApart, DaemonQuietApart DEF DaemonStep
<1>3. CASE CycleStep
  BY <1>3, CycleQuietApart, CycleManagesApart DEF CycleStep, CycleQuiet
<1>4. CASE HeartbeatExpires
  BY <1>4, DaemonQuietApart
<1> QED
  BY <1>1, <1>2, <1>3, <1>4, MarketApart DEF Next

(* "No double-manager race", made exact: as long as no pass of the watchdog *)
(* overlaps with a cycle that has read the positions, no stop is loosened,  *)
(* whatever is refused, lost, aborted or killed.  The heartbeat does not    *)
(* see to it (the run managers_race); a lease for a whole pass would.       *)
THEOREM ApartStopsNeverLoosen == Spec /\ []Apart => StopsNeverLoosen
<1>1. IInv /\ AInv /\ Apart /\ [Next]_vars => IInv' /\ AInv'
  BY NextKeeps, NextApart
<1>2. IInv /\ AInv /\ Apart /\ [Next]_vars => [\A t \in Tickets : ~Loosened(t)]_vars
  <2> SUFFICES ASSUME IInv, AInv, Apart, Next, NEW t \in Tickets, Loosened(t)
               PROVE  FALSE
    OBVIOUS
  <2>1. t \in stale' /\ stale' = {}
    BY NextKeeps, NextApart DEF AInv
  <2> QED
    BY <2>1
<1> QED
  BY InitIInv, InitApart, <1>1, <1>2, PTL DEF Spec, StopsNeverLoosen
=============================================================================
