----------------------------- MODULE DayLedger ------------------------------
(***************************************************************************)
(* What the risk ledger promises of the deals of its day, whoever computes *)
(* it: at every update, and in one step, the result, the run of losses and *)
(* the trades on file are what one reading of the feed would say, from the *)
(* deal where the day began to the last deal counted; and what was counted *)
(* once stays counted until another day begins.                            *)
(***************************************************************************)
EXTENDS Integers, Sequences, FiniteSetsExt

CONSTANT Fee  \* what the entry of a trade costs, charged to its exit

VARIABLES
  feed,    \* the deals
  day,     \* the day of the ledger
  from,    \* the last deal before its day began
  upto,    \* the last deal counted
  net,     \* the result of the day
  losses,  \* exits that lost, since the last one that won
  trades   \* entries of the day

file == <<day, from, upto, net, losses, trades>>

Won(i)  == ~feed[i].entry /\ feed[i].net > Fee
Lost(i) == ~feed[i].entry /\ feed[i].net < Fee

Earned(deals)      == MapThenSumSet(LAMBDA i : feed[i].net, deals)
RunOfLosses(deals) == Cardinality({i \in deals : Lost(i) /\ \A j \in deals : Won(j) => j < i})
EntriesOf(d, n)    == Cardinality({i \in 1 .. n : feed[i].entry /\ feed[i].day = d})

Init ==
  /\ feed = <<>>
  /\ day = 0 /\ from = 0 /\ upto = 0
  /\ net = 0 /\ losses = 0 /\ trades = 0

Deal ==
  /\ Len(feed') = Len(feed) + 1
  /\ \A i \in 1 .. Len(feed) : feed'[i] = feed[i]
  /\ UNCHANGED file

\* More of the same day.
CountOn ==
  /\ UNCHANGED <<feed, day, from>>
  /\ upto' \in upto .. Len(feed)
  /\ net' = Earned(from + 1 .. upto')
  /\ losses' = RunOfLosses(from + 1 .. upto')
  /\ trades' = EntriesOf(day, upto')

\* Another day begins behind the last deal counted; its entries may be known
\* before its result.
NewDay ==
  /\ UNCHANGED <<feed, upto>>
  /\ day' \in Nat \ {day}
  /\ from' = upto
  /\ net' = 0 /\ losses' = 0
  /\ \E n \in upto .. Len(feed) : trades' = EntriesOf(day', n)

Next == Deal \/ CountOn \/ NewDay

Spec == Init /\ [][Next]_<<feed, file>>
=============================================================================
