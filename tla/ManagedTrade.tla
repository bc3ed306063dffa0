---------------------------- MODULE ManagedTrade ----------------------------
(***************************************************************************)
(* One position under one manager that sees the true market and whose      *)
(* commands always reach the broker: what the ladder of TradeManagement    *)
(* makes of a whole trade, over every path of the price and every redraw   *)
(* of the plan.  PositionManagers adds the faults and the second manager.  *)
(***************************************************************************)
EXTENDS TradeManagement

CONSTANTS
  Prices,    \* prices the market visits
  Openings,  \* positions to manage: [side, entry, sl, tp, vol]
  Plans      \* plans a reassessment may draw: [levels, scale, quality]

Orders == [side : Sides, entry : Int, sl : Int, tp : Int, vol : Nat \ {0}]

ASSUME PricesAssumption   == Prices \subseteq Int
ASSUME OpeningsAssumption == Openings \subseteq Orders
ASSUME PlansAssumption    ==
  Plans \subseteq [levels : SUBSET Int, scale : SUBSET Int,
                  quality : [trend : Nat, alignment : Alignments, grade : Grades]]

VARIABLES price, plan, pos, flags

vars == <<price, plan, pos, flags>>

Gone == [side |-> "BUY", entry |-> 0, sl |-> 0, tp |-> 0, vol |-> 0]

Alive == pos.vol > 0

TypeOK ==
  /\ price \in Int
  /\ plan \in Plans
  /\ pos \in Orders \cup {Gone}
  /\ flags \in Flags

Init ==
  /\ plan \in Plans
  /\ pos \in Openings
  /\ price = pos.entry
  /\ flags = NoFlags

\* The stop or the target of position p is reached at price q.
Reached(p, q) == \/ ~Beyond(p.side, q, p.sl)
                 \/ p.tp # 0 /\ ~Beyond(p.side, p.tp, q)

PriceMoves(q) ==
  /\ Alive /\ q # price
  /\ price' = q
  /\ pos' = IF Reached(pos, q) THEN Gone ELSE pos
  /\ UNCHANGED <<plan, flags>>

Reassess(p) ==
  /\ Alive /\ p # plan
  /\ plan' = p
  /\ UNCHANGED <<price, pos, flags>>

Trade    == BuildTrade(pos, plan, flags, plan.scale)
Decision == EvaluateTradeManagement(Trade, price)

\* The fallback and the watchdog only log a scale-in: no order follows.
Acts == Decision.action \notin {"hold", "scale_in_existing_idea"}

Manage ==
  /\ Alive /\ Acts
  /\ \E d \in {Decision} :
       /\ pos' \in IF ClosesAll(d) THEN {Gone}
                   ELSE IF d.action \in StopMoves THEN {[pos EXCEPT !.sl = d.sl]}
                   ELSE {[pos EXCEPT !.vol = @ - v] : v \in PartialVolumes(pos.vol, d.percent)}
       /\ flags' = IF d.action = "partial_take_profit"
                     THEN [flags EXCEPT !.filled = @ \cup {d.level}]
                   ELSE IF d.action = "move_stop_to_breakeven"
                     THEN [flags EXCEPT !.be = TRUE] ELSE flags
  /\ UNCHANGED <<price, plan>>

Next == (\E q \in Prices : PriceMoves(q)) \/ (\E p \in Plans : Reassess(p)) \/ Manage

Spec == Init /\ [][Next]_vars

-----------------------------------------------------------------------------
\* The price stands at rung l or beyond it, and taking it there earns something
\* (a SELL's ladder may have a rung exactly on the entry).
Earned(l) == ~Beyond(pos.side, l, price) /\ Beyond(pos.side, l, pos.entry)

(* A redraw of the plan never leaves the ladder dead-locked (b44): when the *)
(* manager holds, no target that the price has reached is left untaken.     *)
HoldMeansNothingOwed ==
  Alive /\ ~Acts => \A l \in Trade.ladder : Earned(l) => l \in flags.filled

(* The manager never chatters (b44, b52, b202): every command it sends takes *)
(* volume off or moves the stop strictly towards the price and still behind  *)
(* it, so at a standing price it soon has nothing more to send.              *)
CommandsMakeProgress ==
  [][Manage => \/ pos'.vol < pos.vol
               \/ /\ Beyond(pos.side, pos'.sl, pos.sl)
                  /\ Beyond(pos.side, price, pos'.sl)]_vars

\* A 30% share of the smallest lot, which no rounding can take off it.
SmallestRunnerShare == pos.vol = 1 /\ Decision.percent = 30

(* No command is one that the broker must refuse: a stop ahead of the price,  *)
(* a partial close of less than 0.01 lot or of everything (b182a).  The one   *)
(* exception is the strong runner's share of the smallest lot, see            *)
(* MinimumLotClosesInFull.                                                    *)
CommandsAreExecutable ==
  Alive /\ Acts =>
    \/ ClosesAll(Decision)
    \/ Decision.action \in StopMoves /\ Beyond(pos.side, price, Decision.sl)
    \/ /\ Decision.action = "partial_take_profit"
       /\ \/ RoundedVolumes(pos.vol, Decision.percent) \subseteq 1..(pos.vol - 1)
          \/ SmallestRunnerShare

(* "Under 0.02 lots the full close at TP1 stands": a position of the smallest *)
(* volume is closed in full when it takes a target.                           *)
MinimumLotClosesInFull ==
  Alive /\ pos.vol = 1 /\ Decision.action = "partial_take_profit"
    => ClosesAll(Decision)
=============================================================================
