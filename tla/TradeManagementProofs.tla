----------------------- MODULE TradeManagementProofs ------------------------
(***************************************************************************)
(* What EvaluateTradeManagement decides, for every trade and every price:  *)
(* the type of its decision, and the ratchet: a stop is only ever moved    *)
(* towards the price, and never to the losing side of the entry.           *)
(***************************************************************************)
EXTENDS TradeManagement, TLAPS

Trades == [ side : Sides, entry : Int, sl : Int, vol : Nat,
            ladder : SUBSET Int, scale : SUBSET Int,
            filled : SUBSET Int, be : BOOLEAN, runner : BOOLEAN,
            grade : Grades, momentum : Int, volatility : {"high", "normal"},
            structure : {"healthy", "mixed"}, thesis : BOOLEAN ]

Actions == StopMoves \cup Closes
             \cup {"hold", "partial_take_profit", "scale_in_existing_idea"}

Decisions == [ action : Actions, reason : {"ladder", "news_lock"}, sl : Int,
               level : Int, percent : Int ]

Quality == [trend : Nat, alignment : Alignments, grade : Grades]

-----------------------------------------------------------------------------
(* The momentum read out of a plan is a number of hundredths.              *)
LEMMA MomentumType == \A trend \in Nat : Momentum(trend) \in Int
  BY DEF Momentum

(* The rungs of a ladder are prices.                                       *)
LEMMA LadderType ==
  ASSUME NEW entry \in Int, NEW side \in Sides, NEW tp \in Int, NEW raw \in SUBSET Int
  PROVE  BuildTpLadder(entry, side, tp, raw) \in SUBSET Int
<1> DEFINE levels == {l \in raw : OnTargetSide(side, l, entry)}
           own    == {l \in {tp} : l # 0 /\ OnTargetSide(side, l, entry)}
           final  == Farthest(entry, levels \cup own)
<1>1. levels \cup own \in SUBSET Int
  OBVIOUS
<1>2. final \in SUBSET Int
  BY <1>1 DEF Farthest
<1>3. \A l \in final : Midpoint(entry, l) \in Int
  BY <1>2 DEF Midpoint
<1>4. {Midpoint(entry, l) : l \in final} \in SUBSET Int
  BY <1>3
<1>5. BuildTpLadder(entry, side, tp, raw)
        = IF levels = {} THEN {} ELSE final \cup {Midpoint(entry, l) : l \in final}
  BY DEF BuildTpLadder
<1> QED
  BY <1>2, <1>4, <1>5

(* A well-typed position, plan and memory make a well-typed trade.         *)
LEMMA BuildTradeType ==
  ASSUME NEW p, p.side \in Sides, p.entry \in Int, p.sl \in Int, p.tp \in Int, p.vol \in Nat,
         NEW plan, plan.levels \in SUBSET Int, plan.quality \in Quality,
         NEW flags \in Flags, NEW scale \in SUBSET Int
  PROVE  BuildTrade(p, plan, flags, scale) \in Trades
<1> DEFINE q == LadderFields(plan.quality)
<1>1. /\ q.grade \in Grades /\ q.volatility \in {"high", "normal"}
      /\ q.structure \in {"healthy", "mixed"} /\ q.thesis \in BOOLEAN
  BY DEF LadderFields, Quality
<1>2. q.momentum \in Int
  BY MomentumType DEF LadderFields, Quality
<1>3. BuildTpLadder(p.entry, p.side, p.tp, plan.levels) \in SUBSET Int
  BY LadderType
<1>4. flags.filled \in SUBSET Int /\ flags.be \in BOOLEAN /\ flags.runner \in BOOLEAN
  BY DEF Flags
<1> HIDE DEF q
<1>5. BuildTrade(p, plan, flags, scale)
        = [ side |-> p.side, entry |-> p.entry, sl |-> p.sl, vol |-> p.vol,
            ladder |-> BuildTpLadder(p.entry, p.side, p.tp, plan.levels),
            scale  |-> scale,
            filled |-> flags.filled, be |-> flags.be, runner |-> flags.runner,
            grade |-> q.grade, momentum |-> q.momentum, volatility |-> q.volatility,
            structure |-> q.structure, thesis |-> q.thesis ]
  BY DEF BuildTrade, q
<1> QED
  BY <1>1, <1>2, <1>3, <1>4, <1>5 DEF Trades

-----------------------------------------------------------------------------
(* The breakeven stop lies at the entry or beyond it.                      *)
LEMMA BreakevenStopProtects ==
  ASSUME NEW tr \in Trades
  PROVE  BreakevenStop(tr) \in Int /\ ~Beyond(tr.side, tr.entry, BreakevenStop(tr))
<1>1. tr.entry \in Int /\ tr.sl \in Int /\ tr.side \in Sides
  BY DEF Trades
<1>2. RiskDistance(tr) \in Nat
  BY <1>1 DEF RiskDistance, Distance
<1>3. (15 * RiskDistance(tr)) \div 100 \in Nat
  BY <1>2
<1> QED
  BY <1>1, <1>3 DEF BreakevenStop, Beyond, Ahead, Sides

(* The trailing stop lies at the entry or beyond it.                       *)
LEMMA TrailStopProtects ==
  ASSUME NEW tr \in Trades, NEW p \in Int
  PROVE  TrailStop(tr, p) \in Int /\ ~Beyond(tr.side, tr.entry, TrailStop(tr, p))
<1>1. tr.entry \in Int /\ tr.sl \in Int /\ tr.side \in Sides
  BY DEF Trades
<1>2. RiskDistance(tr) \in Nat
  BY <1>1 DEF RiskDistance, Distance
<1>3. TrailDistance(tr) \in Int
  <2>1. (60 * RiskDistance(tr)) \div 100 \in Int /\ (30 * RiskDistance(tr)) \div 100 \in Int
    BY <1>2
  <2> QED
    BY <2>1 DEF TrailDistance, AtLeast, LooseTrailFloor, TrailFloor
<1> QED
  BY <1>1, <1>3 DEF TrailStop, Beyond, Ahead, Sides

(* The next target is one of the ladder that was not taken yet.            *)
LEMMA HitTargetsOwed ==
  ASSUME NEW tr \in Trades, NEW p \in Int
  PROVE  HitTargets(tr, p) \in SUBSET Int /\ HitTargets(tr, p) \subseteq tr.ladder \ tr.filled
  BY DEF HitTargets, NextUnfilledTarget, Nearest, Trades

(* The decisions there are, each with what is known when it is made.       *)
LEMMA DecisionCases ==
  ASSUME NEW tr \in Trades, NEW p \in Int
  PROVE  LET d == EvaluateTradeManagement(tr, p) IN
         \/ \E a \in Closes : d = Closing(a)
         \/ \E l \in HitTargets(tr, p) : d = Taking(l, PartialClosePercent(tr, l))
         \/ \E a \in StopMoves, s \in Int :
              /\ d = Moving(a, s)
              /\ Improves(tr, s) /\ GapOk(tr, s, p)
              /\ ~Beyond(tr.side, tr.entry, s)
         \/ d = ScaleIn
         \/ d = Hold
<1> DEFINE d == EvaluateTradeManagement(tr, p)
<1>1. CASE ThesisBroken(tr)
  <2>1. d = Closing("close_trade_early")
    BY <1>1 DEF EvaluateTradeManagement
  <2> QED
    BY <2>1 DEF Closes
<1>2. CASE ~ThesisBroken(tr) /\ HitTargets(tr, p) # {}
  <2> DEFINE l == CHOOSE m \in HitTargets(tr, p) : TRUE
  <2>1. l \in HitTargets(tr, p)
    BY <1>2
  <2>2. d = Taking(l, PartialClosePercent(tr, l))
    BY <1>2 DEF EvaluateTradeManagement
  <2> HIDE DEF l
  <2> QED
    BY <2>1, <2>2
<1>3. CASE ~ThesisBroken(tr) /\ HitTargets(tr, p) = {} /\ BreakevenDue(tr, p)
  <2>1. d = Moving("move_stop_to_breakeven", BreakevenStop(tr))
    BY <1>3 DEF EvaluateTradeManagement
  <2>2. Improves(tr, BreakevenStop(tr)) /\ GapOk(tr, BreakevenStop(tr), p)
    BY <1>3 DEF BreakevenDue
  <2> QED
    BY <2>1, <2>2, BreakevenStopProtects DEF StopMoves
<1>4. CASE ~ThesisBroken(tr) /\ HitTargets(tr, p) = {} /\ ~BreakevenDue(tr, p) /\ RunnerLeg(tr)
  <2>1. d = RunnerDecision(tr, p)
    BY <1>4 DEF EvaluateTradeManagement
  <2>2. CASE RunnerShouldDie(tr)
    BY <2>1, <2>2 DEF RunnerDecision, Closes
  <2>3. CASE /\ ~RunnerShouldDie(tr)
             /\ Improves(tr, TrailStop(tr, p)) /\ GapOk(tr, TrailStop(tr, p), p)
    <3>1. d = Moving("trail_stop", TrailStop(tr, p))
      BY <2>1, <2>3 DEF RunnerDecision
    <3> QED
      BY <2>3, <3>1, TrailStopProtects DEF StopMoves
  <2>4. CASE /\ ~RunnerShouldDie(tr)
             /\ ~(Improves(tr, TrailStop(tr, p)) /\ GapOk(tr, TrailStop(tr, p), p))
    BY <2>1, <2>4 DEF RunnerDecision
  <2> QED
    BY <2>2, <2>3, <2>4
<1>5. CASE ~ThesisBroken(tr) /\ HitTargets(tr, p) = {} /\ ~BreakevenDue(tr, p) /\ ~RunnerLeg(tr)
  <2>1. d = IF ScaleInDue(tr, p) THEN ScaleIn ELSE Hold
    BY <1>5 DEF EvaluateTradeManagement
  <2> QED
    BY <2>1
<1> QED
  BY <1>1, <1>2, <1>3, <1>4, <1>5

(* Every decision is typed, and made by the ladder.                        *)
LEMMA DecisionType ==
  ASSUME NEW tr \in Trades, NEW p \in Int
  PROVE  /\ EvaluateTradeManagement(tr, p) \in Decisions
         /\ EvaluateTradeManagement(tr, p).reason = "ladder"
<1> DEFINE d == EvaluateTradeManagement(tr, p)
<1>1. \A l \in HitTargets(tr, p) : l \in Int /\ PartialClosePercent(tr, l) \in Int
  BY HitTargetsOwed DEF PartialClosePercent
<1> QED
  BY DecisionCases, <1>1
     DEF Decisions, Actions, StopMoves, Closes, Moving, Closing, Taking, ScaleIn, Hold, Verdict

(* The ratchet (b202, b205): a decision that moves the stop moves it       *)
(* strictly towards the price, to the entry or beyond it, and leaves the   *)
(* broker's gap (b44, b52).                                                *)
THEOREM StopMovesRatchet ==
  ASSUME NEW tr \in Trades, NEW p \in Int,
         EvaluateTradeManagement(tr, p).action \in StopMoves
  PROVE  LET stop == EvaluateTradeManagement(tr, p).sl
         IN  /\ Beyond(tr.side, stop, tr.sl)
             /\ ~Beyond(tr.side, tr.entry, stop)
             /\ GapOk(tr, stop, p)
<1> DEFINE d == EvaluateTradeManagement(tr, p)
<1>1. PICK a \in StopMoves, s \in Int :
        d = Moving(a, s) /\ Improves(tr, s) /\ GapOk(tr, s, p) /\ ~Beyond(tr.side, tr.entry, s)
  BY DecisionCases DEF StopMoves, Closes, Moving, Closing, Taking, ScaleIn, Hold, Verdict
<1>2. d.sl = s
  BY <1>1 DEF Moving, Taking, Verdict
<1> QED
  BY <1>1, <1>2 DEF Improves

(* A target is taken only when it is one of the ladder not taken before    *)
(* (as far as this manager remembers), for 30, 50 or 100 percent.          *)
LEMMA TakesWhatIsOwed ==
  ASSUME NEW tr \in Trades, NEW p \in Int,
         EvaluateTradeManagement(tr, p).action = "partial_take_profit"
  PROVE  /\ EvaluateTradeManagement(tr, p).level \in tr.ladder \ tr.filled
         /\ EvaluateTradeManagement(tr, p).percent \in {30, 50, 100}
<1> DEFINE d == EvaluateTradeManagement(tr, p)
<1>1. PICK l \in HitTargets(tr, p) : d = Taking(l, PartialClosePercent(tr, l))
  BY DecisionCases DEF StopMoves, Closes, Moving, Closing, Taking, ScaleIn, Hold, Verdict
<1>2. d.level = l /\ d.percent = PartialClosePercent(tr, l)
  BY <1>1 DEF Moving, Taking, Verdict
<1> QED
  BY <1>1, <1>2, HitTargetsOwed DEF PartialClosePercent
-----------------------------------------------------------------------------
(* A live position's ladder is empty, or a final target on the target side *)
(* of the entry and one rung between the entry and it.                     *)
LEMMA LadderShape ==
  ASSUME NEW entry \in Int, NEW side \in Sides, NEW tp \in Int, NEW raw \in SUBSET Int,
         BuildTpLadder(entry, side, tp, raw) # {}
  PROVE  \E f \in Int : /\ OnTargetSide(side, f, entry)
                        /\ BuildTpLadder(entry, side, tp, raw) = {f, Midpoint(entry, f)}
<1> DEFINE levels == {l \in raw : OnTargetSide(side, l, entry)}
           own    == {l \in {tp} : l # 0 /\ OnTargetSide(side, l, entry)}
           final  == Farthest(entry, levels \cup own)
<1>1. \A l \in levels \cup own : l \in Int /\ OnTargetSide(side, l, entry)
  OBVIOUS
<1>2. /\ levels # {}
      /\ BuildTpLadder(entry, side, tp, raw) = final \cup {Midpoint(entry, l) : l \in final}
  BY DEF BuildTpLadder
<1>3. \A l \in final : l \in levels \cup own
  BY DEF Farthest
<1>4. \A l, m \in final : Distance(l, entry) <= Distance(m, entry)
  BY DEF Farthest
<1> HIDE DEF levels, own, final
<1>5. \A l, m \in final : l = m
  BY <1>1, <1>3, <1>4 DEF Distance, OnTargetSide, Sides
<1>6. PICK f : f \in final
  BY <1>2
<1>7. final = {f}
  BY <1>5, <1>6
<1>8. BuildTpLadder(entry, side, tp, raw) = {f, Midpoint(entry, f)}
  BY <1>2, <1>7
<1> QED
  BY <1>1, <1>3, <1>6, <1>8

(* The rung halfway lies no farther than the final target, and beyond the  *)
(* entry if that does.                                                     *)
LEMMA MidpointBetween ==
  ASSUME NEW entry \in Int, NEW side \in Sides, NEW f \in Int, OnTargetSide(side, f, entry)
  PROVE  /\ Midpoint(entry, f) \in Int
         /\ ~Beyond(side, Midpoint(entry, f), f)
         /\ Distance(Midpoint(entry, f), entry) <= Distance(f, entry)
         /\ Beyond(side, f, entry) => Beyond(side, Midpoint(entry, f), entry)
<1>1. (f - entry) \div 2 \in Int /\ 2 * ((f - entry) \div 2) <= f - entry
        /\ f - entry <= 2 * ((f - entry) \div 2) + 1
  OBVIOUS
<1> QED
  BY <1>1 DEF Midpoint, Beyond, Distance, OnTargetSide, Sides

(* The ladder owes nothing when no target is hit: the next rung does not   *)
(* block one that the price has reached (b44).                             *)
THEOREM NothingHitNothingOwed ==
  ASSUME NEW tr \in Trades, NEW p \in Int, NEW tp \in Int, NEW raw \in SUBSET Int,
         tr.ladder = BuildTpLadder(tr.entry, tr.side, tp, raw),
         HitTargets(tr, p) = {},
         NEW l \in tr.ladder, ~Beyond(tr.side, l, p), Beyond(tr.side, l, tr.entry)
  PROVE  l \in tr.filled
<1> SUFFICES ASSUME l \notin tr.filled
             PROVE  FALSE
  OBVIOUS
<1>1. tr.entry \in Int /\ tr.side \in Sides
  BY DEF Trades
<1>2. PICK f \in Int : /\ OnTargetSide(tr.side, f, tr.entry)
                       /\ tr.ladder = {f, Midpoint(tr.entry, f)}
  BY <1>1, LadderShape
<1> DEFINE mid == Midpoint(tr.entry, f)
<1>3. /\ mid \in Int /\ ~Beyond(tr.side, mid, f)
      /\ Distance(mid, tr.entry) <= Distance(f, tr.entry)
      /\ Beyond(tr.side, f, tr.entry) => Beyond(tr.side, mid, tr.entry)
  BY <1>1, <1>2, MidpointBetween
<1>4. tr.ladder = {f, mid} /\ (l = f \/ l = mid)
  BY <1>2
<1> HIDE DEF mid
<1>5. \A n \in Nearest(tr.entry, tr.ladder \ tr.filled) :
        Beyond(tr.side, n, p) \/ ~Beyond(tr.side, n, tr.entry)
  BY DEF HitTargets, NextUnfilledTarget
<1>6. CASE mid \notin tr.filled
  <2>1. mid \in Nearest(tr.entry, tr.ladder \ tr.filled)
    BY <1>1, <1>2, <1>3, <1>4, <1>6 DEF Nearest, Distance
  <2>2. ~Beyond(tr.side, mid, p) /\ Beyond(tr.side, mid, tr.entry)
    BY <1>1, <1>2, <1>3, <1>4 DEF Beyond, Sides
  <2> QED
    BY <1>5, <2>1, <2>2
<1>7. CASE mid \in tr.filled
  <2>1. l = f /\ f \in Nearest(tr.entry, tr.ladder \ tr.filled)
    BY <1>1, <1>2, <1>4, <1>7 DEF Nearest, Distance
  <2> QED
    BY <1>5, <2>1
<1> QED
  BY <1>6, <1>7

(* The ladder holds, or only notes a scale-in, when no target is hit.      *)
LEMMA HoldsWhenNothingHit ==
  ASSUME NEW tr \in Trades, NEW p \in Int,
         EvaluateTradeManagement(tr, p).action \in {"hold", "scale_in_existing_idea"}
  PROVE  HitTargets(tr, p) = {}
<1> SUFFICES ASSUME HitTargets(tr, p) # {}
             PROVE  EvaluateTradeManagement(tr, p).action
                      \notin {"hold", "scale_in_existing_idea"}
  OBVIOUS
<1>1. CASE ThesisBroken(tr)
  BY <1>1 DEF EvaluateTradeManagement, Closing, Verdict
<1>2. CASE ~ThesisBroken(tr)
  BY <1>2 DEF EvaluateTradeManagement, Taking, Verdict
<1> QED
  BY <1>1, <1>2

(* A share that is not all of the volume takes at least 0.01 lot of it and *)
(* leaves as much (b182a), but for 30% of the smallest lot.                *)
LEMMA SharesAreTradable ==
  ASSUME NEW tr \in Trades, tr.vol > 0, NEW l \in tr.ladder,
         PartialClosePercent(tr, l) # 100
  PROVE  \/ RoundedVolumes(tr.vol, PartialClosePercent(tr, l)) \subseteq 1..(tr.vol - 1)
         \/ tr.vol = 1 /\ PartialClosePercent(tr, l) = 30
<1>1. tr.vol \in Nat
  BY DEF Trades
<1>2. \/ PartialClosePercent(tr, l) = 30
      \/ PartialClosePercent(tr, l) = 50 /\ tr.vol >= 2
  BY DEF PartialClosePercent, HalvableVolume
<1>3. ASSUME tr.vol >= 2, NEW percent \in {30, 50}
      PROVE  RoundedVolumes(tr.vol, percent) \subseteq 1..(tr.vol - 1)
  BY <1>1, <1>3 DEF RoundedVolumes, Distance
<1> QED
  BY <1>1, <1>2, <1>3
=============================================================================
