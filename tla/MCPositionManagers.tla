------------------------- MODULE MCPositionManagers -------------------------
(* One position, bought or sold at 100, ladder 120/140 (80/60 for a SELL),  *)
(* redrawn to 130/160 (70/40) by the wider plan.                            *)
EXTENDS PositionManagers

MCBuy  == [side |-> "BUY",  entry |-> 100, sl |-> 80,  tp |-> 140, vol |-> 2]
MCSell == [side |-> "SELL", entry |-> 100, sl |-> 120, tp |-> 60,  vol |-> 2]

MCBuys  == {MCBuy}
MCSells == {MCSell}

MCTrend == [levels |-> {140, 60}, scale |-> {},
            quality |-> [trend |-> 150, alignment |-> "aligned", grade |-> "B"]]
MCWider == [levels |-> {160, 40}, scale |-> {110},
            quality |-> [trend |-> 70, alignment |-> "mixed", grade |-> "C"]]

MCOnePlan  == {MCTrend}
MCTwoPlans == {MCTrend, MCWider}

MCBuyPrices  == {100, 121, 131}
MCTakePrices == {100, 131}
MCSellPrices == {100, 69}
=============================================================================
