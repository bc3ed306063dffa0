------------------------- MODULE ManagedTradeProofs -------------------------
(***************************************************************************)
(* Proofs that, for any prices, positions and plans, every command of the  *)
(* manager takes volume off or tightens the stop behind the price, none is *)
(* one the broker must refuse (but for the smallest lot's 30%), and the    *)
(* manager holds only when nothing is owed.                                *)
(***************************************************************************)
EXTENDS ManagedTrade, TradeManagementProofs

LEMMA TradeType ==
  ASSUME TypeOK, Alive
  PROVE  /\ Trade \in Trades
         /\ Trade.side = pos.side /\ Trade.sl = pos.sl /\ Trade.filled = flags.filled
         /\ pos \in Orders
<1>1. pos \in Orders
  BY DEF TypeOK, Alive, Gone
<1>2. plan.levels \in SUBSET Int /\ plan.quality \in Quality /\ plan.scale \in SUBSET Int
  BY PlansAssumption DEF TypeOK, Quality
<1>3. /\ pos.side \in Sides /\ pos.entry \in Int /\ pos.sl \in Int /\ pos.tp \in Int
      /\ pos.vol \in Nat
  BY <1>1 DEF Orders
<1>4. BuildTrade(pos, plan, flags, plan.scale) \in Trades
  BY <1>2, <1>3, BuildTradeType DEF TypeOK
<1> QED
  BY <1>1, <1>4 DEF Trade, BuildTrade

LEMMA DecisionFacts ==
  ASSUME TypeOK, Alive
  PROVE  /\ Decision \in Decisions
         /\ Decision.action \in StopMoves =>
              /\ Beyond(pos.side, Decision.sl, pos.sl)
              /\ Beyond(pos.side, price, Decision.sl)
<1>1. /\ Trade \in Trades /\ Trade.side = pos.side /\ Trade.sl = pos.sl
      /\ price \in Int /\ pos.side \in Sides
  BY TradeType DEF TypeOK, Orders
<1>2. Decision \in Decisions
  BY <1>1, DecisionType DEF Decision
<1>3. ASSUME Decision.action \in StopMoves
      PROVE  /\ Beyond(pos.side, Decision.sl, pos.sl)
             /\ GapOk(Trade, Decision.sl, price)
  BY <1>1, <1>3, StopMovesRatchet DEF Decision
<1>4. \A stop \in Int : GapOk(Trade, stop, price) => Beyond(pos.side, price, stop)
  BY <1>1 DEF GapOk, Beyond, Ahead, StopGap, Sides
<1>5. Decision.sl \in Int
  BY <1>2 DEF Decisions
<1> QED
  BY <1>2, <1>3, <1>4, <1>5

\* What the broker makes of a command: gone, smaller, or with a better stop.
LEMMA ManageFacts ==
  ASSUME TypeOK, Manage
  PROVE  /\ TypeOK'
         /\ \/ pos'.vol < pos.vol
            \/ Beyond(pos.side, pos'.sl, pos.sl) /\ Beyond(pos.side, price, pos'.sl)
<1>1. Alive /\ UNCHANGED <<price, plan>>
  BY DEF Manage
<1>2. pos \in Orders /\ Decision \in Decisions
  BY <1>1, TradeType, DecisionFacts
<1> DEFINE d == Decision
<1>3. /\ pos' \in IF ClosesAll(d) THEN {Gone}
                 ELSE IF d.action \in StopMoves THEN {[pos EXCEPT !.sl = d.sl]}
                 ELSE {[pos EXCEPT !.vol = @ - v] : v \in PartialVolumes(pos.vol, d.percent)}
      /\ flags' = IF d.action = "partial_take_profit"
                   THEN [flags EXCEPT !.filled = @ \cup {d.level}]
                 ELSE IF d.action = "move_stop_to_breakeven"
                   THEN [flags EXCEPT !.be = TRUE] ELSE flags
  BY DEF Manage
<1>4. d.sl \in Int /\ d.level \in Int
  BY <1>2 DEF Decisions
<1>5. d.action \in StopMoves => /\ Beyond(pos.side, d.sl, pos.sl)
                               /\ Beyond(pos.side, price, d.sl)
  BY <1>1, DecisionFacts
<1> HIDE DEF d
<1>6. flags' \in Flags
  BY <1>3, <1>4 DEF TypeOK, Flags
<1>7. CASE ClosesAll(d)
  BY <1>1, <1>2, <1>3, <1>6, <1>7 DEF TypeOK, Gone, Orders
<1>8. CASE ~ClosesAll(d) /\ d.action \in StopMoves
  <2>1. pos' = [pos EXCEPT !.sl = d.sl]
    BY <1>3, <1>8
  <2>2. pos' \in Orders /\ pos'.sl = d.sl
    BY <1>2, <1>4, <2>1 DEF Orders
  <2> QED
    BY <1>1, <1>5, <1>6, <1>8, <2>2 DEF TypeOK
<1>9. CASE ~ClosesAll(d) /\ d.action \notin StopMoves
  <2>1. PICK v \in PartialVolumes(pos.vol, d.percent) : pos' = [pos EXCEPT !.vol = @ - v]
    BY <1>3, <1>9
  <2>2. v \in Nat /\ v >= 1 /\ v < pos.vol /\ pos.vol \in Nat
    BY <1>2 DEF PartialVolumes, RoundedVolumes, Orders
  <2>3. pos.vol - v \in Nat \ {0} /\ pos.vol - v < pos.vol
    BY <2>2
  <2>4. pos' \in Orders /\ pos'.vol = pos.vol - v
    BY <1>2, <2>1, <2>3 DEF Orders
  <2> QED
    BY <1>1, <1>6, <2>3, <2>4 DEF TypeOK
<1> QED
  BY <1>7, <1>8, <1>9

LEMMA NextTyped ==
  ASSUME TypeOK, [Next]_vars
  PROVE  TypeOK'
<1>1. ASSUME NEW q \in Prices, PriceMoves(q)
      PROVE  TypeOK'
  BY <1>1, PricesAssumption DEF PriceMoves, TypeOK
<1>2. ASSUME NEW p \in Plans, Reassess(p)
      PROVE  TypeOK'
  BY <1>2 DEF Reassess, TypeOK
<1>3. CASE UNCHANGED vars
  BY <1>3 DEF vars, TypeOK
<1> QED
  BY <1>1, <1>2, <1>3, ManageFacts DEF Next

(* A trade under one manager keeps its type.                               *)
THEOREM TradeTypeCorrect == Spec => []TypeOK
<1>1. Init => TypeOK
  BY OpeningsAssumption DEF Init, TypeOK, Orders, NoFlags, Flags
<1> QED
  BY <1>1, NextTyped, PTL DEF Spec

(* Every command takes volume off the position or moves its stop strictly  *)
(* towards the price and still behind it: the manager cannot chatter.      *)
THEOREM CommandsProgress == Spec => CommandsMakeProgress
<1>1. TypeOK /\ [Next]_vars
        => [Manage => \/ pos'.vol < pos.vol
                      \/ /\ Beyond(pos.side, pos'.sl, pos.sl)
                         /\ Beyond(pos.side, price, pos'.sl)]_vars
  BY ManageFacts
<1> QED
  BY TradeTypeCorrect, <1>1, PTL DEF Spec, CommandsMakeProgress

-----------------------------------------------------------------------------
\* The trade that is judged: its ladder is that of the plan's levels.
LEMMA LadderOfTrade ==
  ASSUME TypeOK, Alive
  PROVE  /\ Trade.entry = pos.entry /\ Trade.vol = pos.vol
         /\ pos.tp \in Int /\ plan.levels \in SUBSET Int
         /\ Trade.ladder = BuildTpLadder(Trade.entry, Trade.side, pos.tp, plan.levels)
<1>1. pos.tp \in Int /\ plan.levels \in SUBSET Int
  BY TradeType, PlansAssumption DEF TypeOK, Orders
<1> QED
  BY <1>1 DEF Trade, BuildTrade

LEMMA HoldsOnlyWhenNothingIsOwed == TypeOK => HoldMeansNothingOwed
<1> SUFFICES ASSUME TypeOK, Alive, ~Acts, NEW l \in Trade.ladder, Earned(l)
             PROVE  l \in flags.filled
  BY DEF HoldMeansNothingOwed
<1>1. /\ Trade \in Trades /\ Trade.side = pos.side /\ Trade.filled = flags.filled
      /\ price \in Int
  BY TradeType DEF TypeOK
<1>2. HitTargets(Trade, price) = {}
  BY <1>1, HoldsWhenNothingHit DEF Acts, Decision
<1>3. ~Beyond(Trade.side, l, price) /\ Beyond(Trade.side, l, Trade.entry)
  BY <1>1, LadderOfTrade DEF Earned
<1> QED
  BY <1>1, <1>2, <1>3, LadderOfTrade, NothingHitNothingOwed

LEMMA SentIsExecutable == TypeOK => CommandsAreExecutable
<1> SUFFICES ASSUME TypeOK, Alive, Acts, ~ClosesAll(Decision), Decision.action \notin StopMoves
             PROVE  /\ Decision.action = "partial_take_profit"
                    /\ \/ RoundedVolumes(pos.vol, Decision.percent) \subseteq 1..(pos.vol - 1)
                       \/ SmallestRunnerShare
  BY DecisionFacts DEF CommandsAreExecutable
<1>1. Trade \in Trades /\ price \in Int /\ Trade.vol = pos.vol /\ pos.vol > 0
  BY TradeType, LadderOfTrade DEF TypeOK, Alive
<1>2. Decision.action = "partial_take_profit" /\ Decision.percent # 100
  BY DecisionFacts DEF Decisions, Actions, Acts, ClosesAll
<1>3. PICK l \in HitTargets(Trade, price) :
        Decision = Taking(l, PartialClosePercent(Trade, l))
  BY <1>1, <1>2, DecisionCases
     DEF Decision, StopMoves, Closes, Moving, Closing, Taking, ScaleIn, Hold, Verdict
<1>4. l \in Trade.ladder /\ Decision.percent = PartialClosePercent(Trade, l)
  BY <1>1, <1>3, HitTargetsOwed DEF Taking, Verdict
<1> QED
  BY <1>1, <1>2, <1>4, SharesAreTradable DEF SmallestRunnerShare

(* A redraw of the plan never leaves the ladder dead-locked: whatever the   *)
(* plans and the positions, a manager that holds has taken every target the *)
(* price has reached (b44).                                                 *)
THEOREM NothingIsOwed == Spec => []HoldMeansNothingOwed
  BY TradeTypeCorrect, HoldsOnlyWhenNothingIsOwed, PTL

(* The manager never sends what the broker must refuse, but for 30% of the  *)
(* smallest lot in the strong runner's lane (b182a).                        *)
THEOREM CommandsExecutable == Spec => []CommandsAreExecutable
  BY TradeTypeCorrect, SentIsExecutable, PTL

LEMMA HalvesNothingSmaller == TypeOK => StrongRunner(Trade) \/ MinimumLotClosesInFull
<1> SUFFICES ASSUME TypeOK, ~StrongRunner(Trade), Alive, pos.vol = 1,
                    Decision.action = "partial_take_profit"
             PROVE  Decision.percent = 100
  BY DEF MinimumLotClosesInFull, ClosesAll
<1>1. Trade \in Trades /\ price \in Int /\ Trade.vol = 1
  BY TradeType, LadderOfTrade DEF TypeOK
<1>2. PICK l \in HitTargets(Trade, price) :
        Decision = Taking(l, PartialClosePercent(Trade, l))
  BY <1>1, DecisionCases
     DEF Decision, StopMoves, Closes, Moving, Closing, Taking, ScaleIn, Hold, Verdict
<1> QED
  BY <1>1, <1>2 DEF Taking, Verdict, PartialClosePercent, HalvableVolume

(* The doc's rule for the smallest lot, which MinimumLotClosesInFull finds  *)
(* violated, holds in every lane but the strong runner's: whatever the plan *)
(* and the position, a target takes all of 0.01 lot unless the plan has     *)
(* opened that lane.                                                        *)
THEOREM OrdinaryMinimumLotClosesInFull ==
  Spec => [](StrongRunner(Trade) \/ MinimumLotClosesInFull)
  BY TradeTypeCorrect, HalvesNothingSmaller, PTL
=============================================================================
