--------------------------- MODULE TradeManagement ---------------------------
(***************************************************************************)
(* engines/trade_management.py: what to do with one open position, decided *)
(* from its stop, its take-profit ladder, what was already taken of it and *)
(* the quality of the current plan.  Both managers of a position (the      *)
(* watchdog daemon and the runtime's fallback) call this decision.         *)
(*                                                                         *)
(* Prices are integers counting half dollars, volumes integers counting    *)
(* 0.01 lot, momentum and trend integers counting hundredths.              *)
(***************************************************************************)
EXTENDS Integers

Sides      == {"BUY", "SELL"}
Grades     == {"A", "B", "C"}
Alignments == {"aligned", "mixed", "counter"}

\* Price a lies further than b in the direction in which the side earns.
Beyond(side, a, b) == IF side = "BUY" THEN a > b ELSE a < b

\* The price at distance d from p in the direction in which the side earns.
Ahead(side, p, d) == IF side = "BUY" THEN p + d ELSE p - d

Distance(a, b) == IF a >= b THEN a - b ELSE b - a

AtLeast(a, b) == IF a >= b THEN a ELSE b

StopGap        == 1     \* 0.50 USD: closer stops are refused (retcode 10025)
TrailFloor     == 6     \* 3.00 USD
LooseTrailFloor == 8    \* 4.00 USD

\* Deviation: the smallest lot passes for one that can be halved.
SmallestVolume == 1

\* 0.02 lot
HalvableVolume == 2

-----------------------------------------------------------------------------
(* What the ladder reads out of a plan's quality block.                    *)

Momentum(trend) == IF trend <= 40 THEN 20
                   ELSE IF trend >= 200 THEN 100 ELSE trend \div 2

LadderFields(q) ==
  [ grade      |-> q.grade,
    momentum   |-> Momentum(q.trend),
    volatility |-> IF q.trend >= 300 THEN "high" ELSE "normal",
    structure  |-> IF q.alignment = "aligned" THEN "healthy" ELSE "mixed",
    thesis     |-> q.alignment # "counter" ]

\* Deviation: levels on both sides of the entry (before b44).
OnEitherSide(side, level, entry) == TRUE

\* The filter keeps a SELL target that lies exactly on the entry.
OnTargetSide(side, level, entry) == (level > entry) = (side = "BUY")

Farthest(entry, levels) ==
  {l \in levels : \A m \in levels : Distance(m, entry) <= Distance(l, entry)}

Nearest(entry, levels) ==
  {l \in levels : \A m \in levels : Distance(l, entry) <= Distance(m, entry)}

\* Rounded away from the entry: the code does not round, and its midpoint lies
\* beyond the entry whenever the final target does.
Midpoint(entry, final) == IF final >= entry THEN final - (final - entry) \div 2
                          ELSE entry + (final - entry) \div 2

\* The two rungs of a live position's ladder: the final target, which is the
\* farthest of the plan's levels and the broker's own TP, and halfway to it.
BuildTpLadder(entry, side, brokerTp, raw) ==
  LET levels == {l \in raw : OnTargetSide(side, l, entry)}
      own    == {l \in {brokerTp} : l # 0 /\ OnTargetSide(side, l, entry)}
      final  == Farthest(entry, levels \cup own)
  IN  IF levels = {} THEN {} ELSE final \cup {Midpoint(entry, l) : l \in final}

-----------------------------------------------------------------------------
(* A position [side, entry, sl, tp, vol], a plan [levels, scale, quality]   *)
(* and a manager's memory of the position [filled, be, runner] shape the   *)
(* trade that is judged.                                                   *)

Flags   == [filled : SUBSET Int, be : BOOLEAN, runner : BOOLEAN]
NoFlags == [filled |-> {}, be |-> FALSE, runner |-> TRUE]

\* plan.scale holds at most one price: the first pullback level.
BuildTrade(p, plan, flags, scale) ==
  LET q == LadderFields(plan.quality)
  IN  [ side |-> p.side, entry |-> p.entry, sl |-> p.sl, vol |-> p.vol,
        ladder |-> BuildTpLadder(p.entry, p.side, p.tp, plan.levels),
        scale  |-> scale,
        filled |-> flags.filled, be |-> flags.be, runner |-> flags.runner,
        grade |-> q.grade, momentum |-> q.momentum, volatility |-> q.volatility,
        structure |-> q.structure, thesis |-> q.thesis ]

\* The first rung that was not taken yet: a set of at most one.
NextUnfilledTarget(tr) == Nearest(tr.entry, tr.ladder \ tr.filled)

StrongRunner(tr) == /\ tr.grade = "A"
                    /\ tr.momentum >= 80
                    /\ tr.structure = "healthy"

\* Percentage of the volume closed when target l is hit.
PartialClosePercent(tr, l) ==
  IF StrongRunner(tr) THEN 30
  ELSE IF /\ tr.vol >= HalvableVolume
          /\ \E m \in tr.ladder : Distance(m, tr.entry) > Distance(l, tr.entry)
       THEN 50 ELSE 100

RiskDistance(tr) == Distance(tr.entry, tr.sl)

BreakevenStop(tr) ==
  IF tr.grade \in {"A", "B"} /\ tr.momentum >= 65
  THEN Ahead(tr.side, tr.entry, (15 * RiskDistance(tr)) \div 100)
  ELSE tr.entry

RunnerShouldDie(tr) == \/ tr.structure = "failing"
                       \/ tr.momentum <= 30
                       \/ ~tr.thesis

TrailDistance(tr) ==
  IF tr.volatility # "high" /\ tr.momentum >= 80
  THEN AtLeast((60 * RiskDistance(tr)) \div 100, LooseTrailFloor)
  ELSE AtLeast((30 * RiskDistance(tr)) \div 100, TrailFloor)

\* The trailing stop, clamped so that it never lies on the losing side.
TrailStop(tr, p) ==
  LET stop == Ahead(tr.side, p, -TrailDistance(tr))
  IN  IF Beyond(tr.side, tr.entry, stop) THEN tr.entry ELSE stop

\* Deviation: no ratchet on the stop (before b202 and b205).
AnyStopImproves(tr, stop) == TRUE

Improves(tr, stop) == Beyond(tr.side, stop, tr.sl)

GapOk(tr, stop, p) == Beyond(tr.side, p, Ahead(tr.side, stop, StopGap))

\* A decision; "reason" tells a news lock from a breakeven move, which share the
\* action name.
Verdict(action, sl, level, percent) ==
  [action |-> action, reason |-> "ladder", sl |-> sl, level |-> level, percent |-> percent]

Hold    == Verdict("hold", 0, 0, 0)
ScaleIn == Verdict("scale_in_existing_idea", 0, 0, 0)

Moving(action, stop)   == Verdict(action, stop, 0, 0)
Closing(action)        == Verdict(action, 0, 0, 100)
Taking(level, percent) == Verdict("partial_take_profit", 0, level, percent)

ThesisBroken(tr) == ~tr.thesis /\ tr.filled = {}

\* Targets that may be realised at p: reached, and on the profit side.
HitTargets(tr, p) == {l \in NextUnfilledTarget(tr) :
                        /\ ~Beyond(tr.side, l, p)
                        /\ Beyond(tr.side, l, tr.entry)}

\* Deviation: the breakeven move is compared with the market only (before b205).
BreakevenDueUnratcheted(tr, p) == /\ tr.filled # {}
                                  /\ ~tr.be
                                  /\ GapOk(tr, BreakevenStop(tr), p)

BreakevenDue(tr, p) == /\ tr.filled # {}
                       /\ ~tr.be
                       /\ Improves(tr, BreakevenStop(tr))
                       /\ GapOk(tr, BreakevenStop(tr), p)

RunnerLeg(tr) == /\ \E a, b \in tr.filled : a # b
                 /\ tr.runner

RunnerDecision(tr, p) ==
  IF RunnerShouldDie(tr) THEN Closing("close_runner")
  ELSE IF Improves(tr, TrailStop(tr, p)) /\ GapOk(tr, TrailStop(tr, p), p)
       THEN Moving("trail_stop", TrailStop(tr, p))
       ELSE Hold

\* The pullback level is reached (the exposure, the remaining reward and the
\* structure that a live producer fills in always allow the add).
ScaleInDue(tr, p) == /\ tr.filled = {}
                     /\ tr.thesis
                     /\ \E l \in tr.scale : ~Beyond(tr.side, p, l)

EvaluateTradeManagement(tr, p) ==
  IF ThesisBroken(tr) THEN Closing("close_trade_early")
  ELSE IF HitTargets(tr, p) # {}
       THEN LET l == CHOOSE m \in HitTargets(tr, p) : TRUE
            IN  Taking(l, PartialClosePercent(tr, l))
  ELSE IF BreakevenDue(tr, p)
       THEN Moving("move_stop_to_breakeven", BreakevenStop(tr))
  ELSE IF RunnerLeg(tr) THEN RunnerDecision(tr, p)
  ELSE IF ScaleInDue(tr, p) THEN ScaleIn
  ELSE Hold

IsNewsLock(d) == d.reason = "news_lock"

\* /api/partial rounds to 0.01 lot; a tie goes either way (binary floats).
RoundedVolumes(vol, percent) ==
  {v \in 0..vol : Distance(100 * v, vol * percent) <= 50}

\* The volumes a partial close may take: at least 0.01 lot, and not all.
PartialVolumes(vol, percent) ==
  {v \in RoundedVolumes(vol, percent) : v >= 1 /\ v < vol}

StopMoves == {"move_stop_to_breakeven", "trail_stop"}
Closes    == {"close_trade_early", "close_runner"}

\* A partial close of everything is sent as a close: a 100% partial is refused.
ClosesAll(d) == \/ d.action \in Closes
                \/ d.action = "partial_take_profit" /\ d.percent = 100
=============================================================================
