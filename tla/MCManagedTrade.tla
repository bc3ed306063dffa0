--------------------------- MODULE MCManagedTrade ---------------------------
(* Positions of 0.01 to 0.04 lot opened at 100 on either side, with and     *)
(* without a broker target, under plans of every quality the ladder tells   *)
(* apart whose levels lie on both sides of the entry.                       *)
EXTENDS ManagedTrade

MCOpenings ==
  {o \in [side : Sides, entry : {100}, sl : {80, 120}, tp : {0, 140, 60}, vol : {1, 2, 4}] :
     /\ Beyond(o.side, o.entry, o.sl)
     /\ o.tp # 0 => Beyond(o.side, o.tp, o.entry)}

MCQualities ==
  [trend : {30, 70, 150, 200, 300}, alignment : Alignments, grade : {"A", "B", "C"}]

MCStrong(q) == q.grade = "A" /\ q.trend >= 160 /\ q.alignment = "aligned"

MCLevels == {{90, 110, 130}, {60, 140}, {100, 101}}

MCPlansOf(Qualities) == [levels : MCLevels, scale : {{96}}, quality : Qualities]

\* Plans outside the lane of the strong runner, one of each kind the ladder
\* tells apart, and those that open it.
MCOrdinaryQuality(q) ==
  /\ q.trend # 150 /\ ~MCStrong(q)
  /\ q.alignment = "mixed" => q.grade = "C"
  /\ q.grade = "B" => MCStrong([q EXCEPT !.grade = "A"])

MCOrdinary    == MCPlansOf({q \in MCQualities : MCOrdinaryQuality(q)})
MCStrongPlans == MCPlansOf({q \in MCQualities : MCStrong(q) /\ q.trend = 200})

MCEveryPlan == MCOrdinary \cup MCStrongPlans

MCPrices == {60, 81, 96, 104, 107, 116, 121, 131}
=============================================================================
