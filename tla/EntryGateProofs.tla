--------------------------- MODULE EntryGateProofs ---------------------------
(***************************************************************************)
(* Proofs that, for any set of lanes, limits and deals, no lane opens a    *)
(* position on top of its own, no lane trades beyond the daily cap unless  *)
(* its reading of the history missed a trade of its own, and the risk      *)
(* ledger forgets no trade of its day.                                     *)
(***************************************************************************)
EXTENDS EntryGate, FiniteSetTheorems, TLAPS

-----------------------------------------------------------------------------
(* The inductive invariant.                                                 *)

\* What the proofs need of a ledger; its sums are the subject of
\* EntryLedgerProofs.
LedgerShape(s) == s.day \in Nat /\ s.trades \in Nat /\ s.last \in Nat

Shape ==
  /\ today \in Nat /\ brokerToday \in Nat
  /\ book \subseteq Position /\ IsFiniteSet(book)
  /\ late \subseteq Order
  /\ deals \in Seq(Deal) /\ listed \in 0 .. Len(deals)
  /\ sent \in Nat
  /\ LedgerShape(ledger)
  /\ lock \subseteq Lanes
  /\ pc \in [Lanes -> Places]
  /\ at \in [Lanes -> Nat]
  /\ count \in [Lanes -> Nat]
  /\ DOMAIN perf = Lanes /\ \A l \in Lanes : LedgerShape(perf[l])

\* The locked section is exclusive.
Exclusive == \A l \in Lanes : pc[l] \in {"reading", "saving"} => lock = {l}

\* Whoever counted saw its own positions.
CountsOwn ==
  \A l \in Lanes : pc[l] \in {"reading", "saving", "gates"} => Cardinality(Own(l)) <= count[l]

\* What is about to be saved is not behind what is on file.
AheadOfFile ==
  \A l \in Lanes :
    pc[l] = "saving" /\ perf[l].day = ledger.day =>
      perf[l].trades >= ledger.trades /\ perf[l].last >= ledger.last

\* No deal was made on a later day, and no lane has traded since its pass began.
DaysAgree ==
  /\ \A i \in 1 .. Len(deals) : deals[i].utc <= today
  /\ \A l \in Lanes : pc[l] # "out" =>
       /\ at[l] <= today
       /\ \A day \in Nat : day > at[l] => OwnEntries(l, day) = {}

\* Whoever computed the state of its day, and missed nothing, counted its own
\* trades.
EntriesCounted ==
  \A l \in Lanes :
    pc[l] \in {"saving", "gates"} /\ l \notin blind =>
      Cardinality(OwnEntries(l, at[l])) <= perf[l].trades

\* The entries of a lane and a day up to one of them, and the cap on those that
\* were sent by a pass that missed nothing.
UpTo(l, day, i) == {j \in OwnEntries(l, day) : j <= i}

CapOf(l, day) ==
  \A i \in OwnEntries(l, day) :
    deals[i].seeing => Cardinality(UpTo(l, day, i)) <= MaxDailyTrades

CapOfEveryDay == \A l \in Lanes, day \in Nat : CapOf(l, day)

IInv ==
  /\ Shape
  /\ Exclusive
  /\ CountsOwn
  /\ OnePositionPerLane
  /\ AheadOfFile
  /\ DaysAgree
  /\ EntriesCounted
  /\ CapOfEveryDay

-----------------------------------------------------------------------------
(* Own positions and own entries are finite sets.                           *)

LEMMA OwnFinite ==
  ASSUME Shape, NEW l \in Lanes
  PROVE  /\ IsFiniteSet(Own(l)) /\ Cardinality(Own(l)) \in Nat
         /\ Cardinality(Own(l)) <= Cardinality(book) /\ Cardinality(book) \in Nat
  <1>1. Own(l) \in SUBSET book
    BY DEF Own
  <1>2. IsFiniteSet(book)
    BY DEF Shape
  <1>3. QED
    BY <1>1, <1>2, FS_Subset, FS_CardinalityType

LEMMA AddedOne ==
  ASSUME NEW S, NEW x, IsFiniteSet(S), Cardinality(S) \in Nat
  PROVE  /\ Cardinality(S \cup {x}) \in Nat
         /\ Cardinality(S \cup {x}) <= Cardinality(S) + 1
  <1>1. Cardinality(S \cup {x}) = IF x \in S THEN Cardinality(S) ELSE Cardinality(S) + 1
    BY FS_AddElement
  <1>2. QED
    BY <1>1

LEMMA EntriesFinite ==
  ASSUME Shape, NEW l, NEW day
  PROVE  IsFiniteSet(OwnEntries(l, day)) /\ Cardinality(OwnEntries(l, day)) \in Nat
  <1>1. IsFiniteSet(1 .. Len(deals))
    BY FS_Interval DEF Shape
  <1>2. OwnEntries(l, day) \in SUBSET (1 .. Len(deals))
    BY DEF OwnEntries
  <1>3. QED
    BY <1>1, <1>2, FS_Subset, FS_CardinalityType

\* A reading that misses none of a lane's entries counts them all.
LEMMA EntriesSeen ==
  ASSUME Shape, NEW l, NEW n \in Nat, n <= Len(deals)
  PROVE  /\ EntriesOn(at[l], n) \in Nat
         /\ Missed(l, n) = {} => Cardinality(OwnEntries(l, at[l])) <= EntriesOn(at[l], n)
  <1> DEFINE all == {i \in 1 .. n : deals[i].entry /\ deals[i].day = at[l]}
  <1>1. IsFiniteSet(1 .. n) /\ all \in SUBSET (1 .. n)
    BY FS_Interval
  <1>2. IsFiniteSet(all) /\ Cardinality(all) \in Nat
    BY <1>1, FS_Subset, FS_CardinalityType
  <1>3. Missed(l, n) = {} => OwnEntries(l, at[l]) \in SUBSET all
    BY DEF OwnEntries, Missed, Shape
  <1>4. EntriesOn(at[l], n) = Cardinality(all)
    BY DEF EntriesOn
  <1> HIDE DEF all
  <1>5. QED
    BY <1>2, <1>3, <1>4, FS_Subset, FS_CardinalityType

\* A deal that was made: the feed, and the deal.
LEMMA OneMoreDeal ==
  ASSUME Shape, \A i \in 1 .. Len(deals) : deals[i].utc <= today,
         NEW isEntry \in BOOLEAN, NEW net \in Int, NEW by \in SUBSET Lanes,
         Makes(isEntry, net, by)
  PROVE  /\ deals' \in Seq(Deal) /\ Len(deals') = Len(deals) + 1 /\ Len(deals) \in Nat
         /\ \A i \in 1 .. Len(deals) : deals'[i] = deals[i]
         /\ \A i \in 1 .. Len(deals') : deals'[i].utc <= today
         /\ deals'[Len(deals) + 1].entry <=> isEntry
         /\ deals'[Len(deals) + 1].utc = today
         /\ deals'[Len(deals) + 1].by = by
         /\ deals'[Len(deals) + 1].seeing <=> by \cap blind = {}
  <1> DEFINE d == [entry |-> isEntry, day |-> brokerToday, net |-> net,
                   utc |-> today, by |-> by, seeing |-> by \cap blind = {}]
  <1>1. deals \in Seq(Deal) /\ Len(deals) \in Nat /\ deals' = Append(deals, d)
    BY DEF Shape, Makes
  <1>2. d \in Deal /\ today \in Nat
    BY DEF Shape, Deal
  <1>3. /\ d.entry = isEntry /\ d.utc = today /\ d.by = by
        /\ d.seeing <=> by \cap blind = {}
    OBVIOUS
  <1> HIDE DEF d
  <1>4. /\ deals' \in Seq(Deal) /\ Len(deals') = Len(deals) + 1
        /\ \A i \in 1 .. Len(deals) : deals'[i] = deals[i]
        /\ deals'[Len(deals) + 1] = d
    BY <1>1, <1>2
  <1>5. 1 .. Len(deals') = (1 .. Len(deals)) \cup {Len(deals) + 1}
    BY <1>1, <1>4
  <1>6. \A i \in 1 .. Len(deals') : deals'[i].utc <= today
    BY <1>2, <1>3, <1>4, <1>5
  <1>7. QED
    BY <1>1, <1>3, <1>4, <1>6

\* What it adds to a lane's entries of a day.
LEMMA EntriesAfter ==
  ASSUME Len(deals') = Len(deals) + 1, Len(deals) \in Nat,
         \A i \in 1 .. Len(deals) : deals'[i] = deals[i],
         NEW l, NEW day
  PROVE  LET d == deals'[Len(deals) + 1]
         IN OwnEntries(l, day)' = IF d.entry /\ d.utc = day /\ l \in d.by
                                  THEN OwnEntries(l, day) \cup {Len(deals) + 1}
                                  ELSE OwnEntries(l, day)
  <1> DEFINE Is(i) == deals'[i].entry /\ deals'[i].utc = day /\ l \in deals'[i].by
  <1>1. OwnEntries(l, day) = {i \in 1 .. Len(deals) : Is(i)}
    BY DEF OwnEntries
  <1>2. OwnEntries(l, day)' = {i \in 1 .. Len(deals') : Is(i)}
    BY DEF OwnEntries
  <1>3. 1 .. Len(deals') = (1 .. Len(deals)) \cup {Len(deals) + 1}
    OBVIOUS
  <1> HIDE DEF Is
  <1>4. OwnEntries(l, day)' = IF Is(Len(deals) + 1) THEN OwnEntries(l, day) \cup {Len(deals) + 1}
                              ELSE OwnEntries(l, day)
    BY <1>1, <1>2, <1>3
  <1>5. QED
    BY <1>4 DEF Is

\* A step that leaves the broker alone leaves every lane's own alone.
LEMMA SameBroker ==
  ASSUME UNCHANGED <<book, deals>>
  PROVE  /\ \A l : Own(l)' = Own(l)
         /\ \A l, day : OwnEntries(l, day)' = OwnEntries(l, day)
         /\ \A l, day : CapOf(l, day)' = CapOf(l, day)
  BY DEF Own, OwnEntries, CapOf, UpTo

\* Deals that are none of a lane's entries of a day leave its cap alone.
LEMMA CapKept ==
  ASSUME Shape, \A i \in 1 .. Len(deals) : deals'[i] = deals[i],
         NEW l, NEW day, OwnEntries(l, day)' = OwnEntries(l, day), CapOf(l, day)
  PROVE  CapOf(l, day)'
  <1>1. \A i \in OwnEntries(l, day) : deals'[i] = deals[i]
    BY DEF OwnEntries
  <1>2. \A i : UpTo(l, day, i)' = UpTo(l, day, i)
    BY DEF UpTo
  <1>3. QED
    BY <1>1, <1>2 DEF CapOf

LEMMA NoLedgerShape == LedgerShape(NoLedger)
  BY DEF LedgerShape, NoLedger

-----------------------------------------------------------------------------
(* One lemma per action.                                                    *)

LEMMA InitInv == Init => IInv
  <1> SUFFICES ASSUME Init PROVE IInv
    OBVIOUS
  <1>1. Shape
    BY FS_EmptySet, NoLedgerShape DEF Init, Shape, Places, NoLedger, LedgerShape
  <1>2. \A l : Own(l) = {}
    BY DEF Init, Own
  <1>3. \A l, day : OwnEntries(l, day) = {}
    BY DEF Init, OwnEntries
  <1>4. Cardinality({}) = 0
    BY FS_EmptySet
  <1>5. OnePositionPerLane /\ CapOfEveryDay
    BY <1>2, <1>3, <1>4, LimitsAssumption DEF OnePositionPerLane, CapOfEveryDay, CapOf
  <1>6. Exclusive /\ CountsOwn /\ AheadOfFile /\ EntriesCounted
    BY DEF Init, Exclusive, CountsOwn, AheadOfFile, EntriesCounted
  <1>7. DaysAgree
    BY DEF Init, DaysAgree
  <1>8. QED
    BY <1>1, <1>5, <1>6, <1>7 DEF IInv

LEMMA StartsKeeps ==
  ASSUME IInv, NEW l \in Lanes, Starts(l)
  PROVE  IInv'
  <1>1. /\ UNCHANGED <<book, late, deals, listed, sent, ledger, today, brokerToday>>
        /\ UNCHANGED <<lock, count, perf, blind>>
        /\ pc' = [pc EXCEPT ![l] = "waiting"] /\ at' = [at EXCEPT ![l] = today]
    BY DEF Starts, broker, days, files
  <1>2. /\ \A m : Own(m)' = Own(m)
        /\ \A m, day : OwnEntries(m, day)' = OwnEntries(m, day)
        /\ \A m, day : CapOf(m, day)' = CapOf(m, day)
    BY <1>1, SameBroker
  <1>3. Shape'
    BY <1>1, <1>2 DEF IInv, Shape, Places, LedgerShape
  <1>4. (Exclusive /\ CountsOwn /\ OnePositionPerLane /\ AheadOfFile)'
    BY <1>1, <1>2 DEF IInv, Shape, Exclusive, CountsOwn, OnePositionPerLane, AheadOfFile
  <1>5. DaysAgree'
    <2>1. \A day \in Nat : day > today => OwnEntries(l, day) = {}
      BY DEF IInv, Shape, DaysAgree, OwnEntries, Deal
    <2>2. QED
      BY <1>1, <1>2, <2>1 DEF IInv, Shape, DaysAgree
  <1>6. (EntriesCounted /\ CapOfEveryDay)'
    BY <1>1, <1>2 DEF IInv, Shape, EntriesCounted, CapOfEveryDay
  <1>7. QED
    BY <1>3, <1>4, <1>5, <1>6 DEF IInv

LEMMA CountsPositionsKeeps ==
  ASSUME IInv, NEW l \in Lanes, NEW reply, CountsPositions(l, reply)
  PROVE  IInv'
  <1>1. /\ UNCHANGED <<book, late, deals, listed, sent, ledger, today, brokerToday>>
        /\ UNCHANGED <<at, perf, blind>>
        /\ lock = {} /\ lock' = lock \cup {l} /\ pc[l] = "waiting"
        /\ pc' = [pc EXCEPT ![l] = "reading"]
        /\ count' = [count EXCEPT ![l] = OpenCount(reply)]
    BY DEF CountsPositions, LockFree, broker, days, files
  <1>2. /\ \A m : Own(m)' = Own(m)
        /\ \A m, day : OwnEntries(m, day)' = OwnEntries(m, day)
        /\ \A m, day : CapOf(m, day)' = CapOf(m, day)
    BY <1>1, SameBroker
  <1>3. OpenCount(reply) \in Nat /\ Cardinality(Own(l)) <= OpenCount(reply)
    BY OwnFinite, LimitsAssumption DEF IInv, OnePositionPerLane, OpenCount
  <1>4. Shape'
    BY <1>1, <1>2, <1>3 DEF IInv, Shape, Places, LedgerShape
  <1>5. (Exclusive /\ CountsOwn /\ OnePositionPerLane /\ AheadOfFile)'
    BY <1>1, <1>2, <1>3 DEF IInv, Shape, Exclusive, CountsOwn, OnePositionPerLane, AheadOfFile
  <1>6. (DaysAgree /\ EntriesCounted /\ CapOfEveryDay)'
    BY <1>1, <1>2 DEF IInv, Shape, DaysAgree, EntriesCounted, CapOfEveryDay
  <1>7. QED
    BY <1>4, <1>5, <1>6 DEF IInv

\* What the computation of a state does to the fields the proofs are about.
LEMMA Computed ==
  ASSUME Shape, NEW s, LedgerShape(s), NEW day \in Nat,
         NEW n \in Nat, EntriesOn(day, n) \in Nat,
         NEW new, new = ComputePerformanceState(s, day, n)
  PROVE  /\ LedgerShape(new)
         /\ new.day = day
         /\ new.trades >= EntriesOn(day, n)
         /\ s.day = day => new.trades >= s.trades /\ new.last >= s.last
  <1>1. CASE s.day # day
    <2>1. new = FirstOfDay(s, day, n)
      BY <1>1 DEF ComputePerformanceState
    <2>2. new.day = day /\ new.trades = EntriesOn(day, n) /\ new.last = s.last
      BY <2>1 DEF FirstOfDay
    <2>3. QED
      BY <1>1, <2>2 DEF LedgerShape
  <1>2. CASE s.day = day
    <2>1. /\ new.day = day /\ new.trades = Larger(EntriesOn(day, n), s.trades)
          /\ new.last = IF NewDeals(s.last, n) = {} THEN s.last ELSE n
      BY <1>2 DEF ComputePerformanceState
    <2>2. NewDeals(s.last, n) # {} => n > s.last
      BY DEF NewDeals, LedgerShape
    <2>3. QED
      BY <1>2, <2>1, <2>2 DEF Larger, LedgerShape
  <1>3. QED
    BY <1>1, <1>2

LEMMA ReadsHistoryKeeps ==
  ASSUME IInv, NEW l \in Lanes, NEW n, ReadsHistory(l, n)
  PROVE  IInv'
  <1> DEFINE new == ComputePerformanceState(ledger, at[l], n)
  <1>1. /\ UNCHANGED <<book, late, deals, sent, ledger, today, brokerToday, at, count, lock>>
        /\ n \in listed .. Len(deals) /\ listed' = n
        /\ blind' = IF Missed(l, n) # {} THEN blind \cup {l} ELSE blind
        /\ pc[l] = "reading" /\ pc' = [pc EXCEPT ![l] = "saving"]
        /\ perf' = [perf EXCEPT ![l] = new]
    BY DEF ReadsHistory, days, files
  <1>2. /\ \A m : Own(m)' = Own(m)
        /\ \A m, day : OwnEntries(m, day)' = OwnEntries(m, day)
        /\ \A m, day : CapOf(m, day)' = CapOf(m, day)
    BY <1>1, SameBroker
  <1>3. n \in Nat /\ n <= Len(deals) /\ n \in 0 .. Len(deals)
    BY <1>1 DEF IInv, Shape
  <1>4. /\ EntriesOn(at[l], n) \in Nat
        /\ Missed(l, n) = {} => Cardinality(OwnEntries(l, at[l])) <= EntriesOn(at[l], n)
    BY <1>3, EntriesSeen DEF IInv
  <1>5. /\ LedgerShape(new)
        /\ new.trades >= EntriesOn(at[l], n)
        /\ new.day = ledger.day => new.trades >= ledger.trades /\ new.last >= ledger.last
    BY <1>3, <1>4, Computed DEF IInv, Shape
  <1>6. Missed(l, n) = {} => Cardinality(OwnEntries(l, at[l])) <= new.trades
    BY <1>4, <1>5, EntriesFinite DEF IInv, LedgerShape
  <1> HIDE DEF new
  <1>7. Shape'
    BY <1>1, <1>3, <1>5 DEF IInv, Shape, Places
  <1>8. (Exclusive /\ CountsOwn /\ OnePositionPerLane /\ AheadOfFile)'
    BY <1>1, <1>2, <1>5 DEF IInv, Shape, Exclusive, CountsOwn, OnePositionPerLane, AheadOfFile
  <1>9. (DaysAgree /\ EntriesCounted /\ CapOfEveryDay)'
    BY <1>1, <1>2, <1>6 DEF IInv, Shape, DaysAgree, EntriesCounted, CapOfEveryDay
  <1>10. QED
    BY <1>7, <1>8, <1>9 DEF IInv

LEMMA SavesLedgerKeeps ==
  ASSUME IInv, NEW l \in Lanes, SavesLedger(l)
  PROVE  IInv'
  <1>1. /\ UNCHANGED <<book, late, deals, listed, sent, today, brokerToday>>
        /\ UNCHANGED <<at, count, perf, blind>>
        /\ pc[l] = "saving" /\ pc' = [pc EXCEPT ![l] = "gates"]
        /\ ledger' = perf[l] /\ lock' = lock \ {l}
    BY DEF SavesLedger, broker, days
  <1>2. /\ \A m : Own(m)' = Own(m)
        /\ \A m, day : OwnEntries(m, day)' = OwnEntries(m, day)
        /\ \A m, day : CapOf(m, day)' = CapOf(m, day)
    BY <1>1, SameBroker
  <1>3. \A m \in Lanes : m # l => pc[m] \notin {"reading", "saving"}
    BY <1>1 DEF IInv, Exclusive
  <1>4. Shape'
    BY <1>1, <1>2 DEF IInv, Shape, Places
  <1>5. (Exclusive /\ CountsOwn /\ OnePositionPerLane /\ AheadOfFile)'
    BY <1>1, <1>2, <1>3 DEF IInv, Shape, Exclusive, CountsOwn, OnePositionPerLane, AheadOfFile
  <1>6. (DaysAgree /\ EntriesCounted /\ CapOfEveryDay)'
    BY <1>1, <1>2 DEF IInv, Shape, DaysAgree, EntriesCounted, CapOfEveryDay
  <1>7. QED
    BY <1>4, <1>5, <1>6 DEF IInv

\* What a lane that ends its pass leaves to the others.
LEMMA Forgotten ==
  ASSUME Shape, NEW l \in Lanes, Forgets(l)
  PROVE  /\ pc' \in [Lanes -> Places] /\ at' \in [Lanes -> Nat] /\ count' \in [Lanes -> Nat]
         /\ DOMAIN perf' = Lanes /\ \A m \in Lanes : LedgerShape(perf'[m])
         /\ pc'[l] = "out"
         /\ \A m \in Lanes : m # l =>
              /\ pc'[m] = pc[m] /\ at'[m] = at[m] /\ count'[m] = count[m] /\ perf'[m] = perf[m]
              /\ m \in blind' <=> m \in blind
  BY NoLedgerShape DEF Shape, Places, Forgets

LEMMA LeavesRefusedKeeps ==
  ASSUME IInv, NEW l \in Lanes, LeavesRefused(l)
  PROVE  IInv'
  <1>1. /\ UNCHANGED <<book, late, deals, listed, sent, ledger, today, brokerToday>>
        /\ lock' = lock \ {l} /\ Forgets(l)
    BY DEF LeavesRefused, broker, days, files
  <1>2. /\ \A m : Own(m)' = Own(m)
        /\ \A m, day : OwnEntries(m, day)' = OwnEntries(m, day)
        /\ \A m, day : CapOf(m, day)' = CapOf(m, day)
    BY <1>1, SameBroker
  <1>3. /\ pc' \in [Lanes -> Places] /\ at' \in [Lanes -> Nat] /\ count' \in [Lanes -> Nat]
        /\ DOMAIN perf' = Lanes /\ \A m \in Lanes : LedgerShape(perf'[m])
        /\ pc'[l] = "out"
        /\ \A m \in Lanes : m # l =>
             /\ pc'[m] = pc[m] /\ at'[m] = at[m] /\ count'[m] = count[m] /\ perf'[m] = perf[m]
             /\ m \in blind' <=> m \in blind
    BY <1>1, Forgotten DEF IInv
  <1>4. Shape'
    BY <1>1, <1>2, <1>3 DEF IInv, Shape
  <1>5. (Exclusive /\ CountsOwn /\ OnePositionPerLane /\ AheadOfFile)'
    BY <1>1, <1>2, <1>3 DEF IInv, Exclusive, CountsOwn, OnePositionPerLane, AheadOfFile
  <1>6. (DaysAgree /\ EntriesCounted /\ CapOfEveryDay)'
    BY <1>1, <1>2, <1>3 DEF IInv, DaysAgree, EntriesCounted, CapOfEveryDay
  <1>7. QED
    BY <1>4, <1>5, <1>6 DEF IInv

\* A position that is opened: the book, the feed, and whose they are.
LEMMA Opened ==
  ASSUME IInv, NEW o \in Order, NEW isLate \in BOOLEAN, Opens(o, isLate), EntryFee \in Nat
  PROVE  /\ book' \subseteq Position /\ IsFiniteSet(book')
         /\ deals' \in Seq(Deal) /\ Len(deals') = Len(deals) + 1 /\ Len(deals) \in Nat
         /\ \A i \in 1 .. Len(deals) : deals'[i] = deals[i]
         /\ \A i \in 1 .. Len(deals') : deals'[i].utc <= today
         /\ \A m \in Lanes : isLate \/ m # o.lane =>
              Own(m)' = Own(m) /\ \A day \in Nat : OwnEntries(m, day)' = OwnEntries(m, day)
         /\ ~isLate =>
              /\ Cardinality(Own(o.lane))' \in Nat
              /\ Cardinality(Own(o.lane))' <= Cardinality(Own(o.lane)) + 1
              /\ \A day \in Nat : OwnEntries(o.lane, day)' =
                   IF day = today THEN OwnEntries(o.lane, day) \cup {Len(deals) + 1}
                   ELSE OwnEntries(o.lane, day)
              /\ deals'[Len(deals) + 1].seeing <=> o.lane \notin blind
  <1> DEFINE p == [id |-> o.id, lane |-> o.lane, late |-> isLate]
  <1>0. PICK by \in SUBSET Lanes, net \in Int :
          by = (IF isLate THEN {} ELSE {o.lane}) /\ net = -EntryFee
    <2>1. (IF isLate THEN {} ELSE {o.lane}) \in SUBSET Lanes /\ -EntryFee \in Int
      BY DEF Order
    <2>2. QED
      BY <2>1
  <1>1. /\ book' = book \cup {p} /\ Makes(TRUE, net, by)
    BY <1>0 DEF Opens
  <1>2. /\ Shape /\ today \in Nat /\ o.lane \in Lanes
    BY DEF IInv, Shape, Order
  <1>3. p \in Position /\ p.lane = o.lane /\ p.late = isLate
    BY <1>2 DEF Position, Order
  <1>4. /\ deals' \in Seq(Deal) /\ Len(deals') = Len(deals) + 1 /\ Len(deals) \in Nat
        /\ \A i \in 1 .. Len(deals) : deals'[i] = deals[i]
        /\ \A i \in 1 .. Len(deals') : deals'[i].utc <= today
        /\ deals'[Len(deals) + 1].seeing <=> by \cap blind = {}
        /\ \A m, day : OwnEntries(m, day)' = IF today = day /\ m \in by
                                             THEN OwnEntries(m, day) \cup {Len(deals) + 1}
                                             ELSE OwnEntries(m, day)
    <2>1. TRUE \in BOOLEAN /\ \A i \in 1 .. Len(deals) : deals[i].utc <= today
      BY DEF IInv, DaysAgree
    <2>2. /\ deals' \in Seq(Deal) /\ Len(deals') = Len(deals) + 1 /\ Len(deals) \in Nat
          /\ \A i \in 1 .. Len(deals) : deals'[i] = deals[i]
          /\ \A i \in 1 .. Len(deals') : deals'[i].utc <= today
          /\ deals'[Len(deals) + 1].entry /\ deals'[Len(deals) + 1].utc = today
          /\ deals'[Len(deals) + 1].by = by
          /\ deals'[Len(deals) + 1].seeing <=> by \cap blind = {}
      BY <1>1, <1>2, <2>1, OneMoreDeal
    <2>3. QED
      BY <2>2, EntriesAfter
  <1>5. \A m : m \in by <=> ~isLate /\ m = o.lane
    BY <1>0
  <1> HIDE DEF p
  <1>6. book' \subseteq Position /\ IsFiniteSet(book')
    <2>1. IsFiniteSet(book \cup {p})
      BY FS_AddElement DEF IInv, Shape
    <2>2. QED
      BY <1>1, <1>3, <2>1 DEF IInv, Shape
  <1>7. ASSUME NEW m \in Lanes, isLate \/ m # o.lane
        PROVE  Own(m)' = Own(m) /\ \A day \in Nat : OwnEntries(m, day)' = OwnEntries(m, day)
    <2>1. Own(m)' = Own(m)
      BY <1>1, <1>3, <1>7 DEF Own
    <2>2. QED
      BY <1>4, <1>5, <1>7, <2>1
  <1>8. ASSUME ~isLate
        PROVE  /\ Cardinality(Own(o.lane))' \in Nat
               /\ Cardinality(Own(o.lane))' <= Cardinality(Own(o.lane)) + 1
               /\ \A day \in Nat : OwnEntries(o.lane, day)' =
                    IF day = today THEN OwnEntries(o.lane, day) \cup {Len(deals) + 1}
                    ELSE OwnEntries(o.lane, day)
               /\ deals'[Len(deals) + 1].seeing <=> o.lane \notin blind
    <2>1. Own(o.lane)' = Own(o.lane) \cup {p}
      BY <1>1, <1>3, <1>8 DEF Own
    <2>2. IsFiniteSet(Own(o.lane)) /\ Cardinality(Own(o.lane)) \in Nat
      BY <1>2, OwnFinite
    <2>3. /\ Cardinality(Own(o.lane) \cup {p}) \in Nat
          /\ Cardinality(Own(o.lane) \cup {p}) <= Cardinality(Own(o.lane)) + 1
      BY <2>2, AddedOne
    <2>4. QED
      BY <1>2, <1>4, <1>5, <1>8, <2>1, <2>3
  <1>9. QED
    BY <1>4, <1>6, <1>7, <1>8

\* An entry sent by a pass that missed nothing stays within the cap; one sent by
\* a pass that missed something does not count.
LEMMA CapAfterEntry ==
  ASSUME IInv, NEW l \in Lanes, pc[l] = "gates", Approved(l), at[l] <= today,
         NEW day \in Nat, day = today,
         \A i \in 1 .. Len(deals) : deals'[i] = deals[i],
         OwnEntries(l, day)' = OwnEntries(l, day) \cup {Len(deals) + 1},
         deals'[Len(deals) + 1].seeing <=> l \notin blind
  PROVE  CapOf(l, day)'
  <1> DEFINE own  == OwnEntries(l, day)
             next == Len(deals) + 1
  <1>1. /\ Shape /\ Len(deals) \in Nat /\ own \subseteq 1 .. Len(deals)
        /\ IsFiniteSet(own) /\ Cardinality(own) \in Nat
    <2>1. Shape
      BY DEF IInv
    <2>2. Len(deals) \in Nat
      BY <2>1 DEF Shape
    <2>3. own \subseteq 1 .. Len(deals)
      BY DEF OwnEntries
    <2>4. QED
      BY <2>1, <2>2, <2>3, EntriesFinite
  <1>2. \A i : UpTo(l, day, i)' = {j \in own \cup {next} : j <= i}
    BY DEF UpTo
  <1>3. ASSUME NEW i \in own, deals'[i].seeing
        PROVE  Cardinality(UpTo(l, day, i)') <= MaxDailyTrades
    <2>1. i \in 1 .. Len(deals) /\ deals'[i] = deals[i] /\ ~(next <= i)
      BY <1>1
    <2>2. UpTo(l, day, i)' = UpTo(l, day, i)
      BY <1>2, <2>1 DEF UpTo
    <2>3. QED
      BY <1>1, <1>3, <2>1, <2>2 DEF IInv, CapOfEveryDay, CapOf
  <1>4. ASSUME NEW i, i = next, l \notin blind
        PROVE  Cardinality(UpTo(l, day, i)') <= MaxDailyTrades
    <2>1. UpTo(l, day, i)' = own \cup {next}
      <3>1. \A j \in own \cup {next} : j <= i
        BY <1>1, <1>4
      <3>2. QED
        BY <1>2, <3>1
    <2>2. /\ Cardinality(own \cup {next}) \in Nat
          /\ Cardinality(own \cup {next}) <= Cardinality(own) + 1
      BY <1>1, AddedOne
    <2>3. at[l] \in Nat /\ perf[l].trades \in Nat /\ perf[l].trades < MaxDailyTrades
      BY DEF IInv, Shape, LedgerShape, Approved
    <2>4. Cardinality(own) < MaxDailyTrades
      <3>1. CASE at[l] = day
        BY <1>1, <1>4, <2>3, <3>1, LimitsAssumption DEF IInv, EntriesCounted
      <3>2. CASE at[l] < day
        <4>1. own = {}
          BY <1>1, <3>2 DEF IInv, DaysAgree
        <4>2. QED
          BY <4>1, FS_EmptySet, LimitsAssumption
      <3>3. QED
        BY <1>1, <2>3, <3>1, <3>2
    <2>5. MaxDailyTrades \in Nat /\ Cardinality(own) + 1 <= MaxDailyTrades
      BY <1>1, <2>4, LimitsAssumption
    <2> HIDE DEF own, next
    <2>6. QED
      BY <1>1, <2>1, <2>2, <2>5
  <1>5. ASSUME NEW i \in own \cup {next}, deals'[i].seeing
        PROVE  Cardinality(UpTo(l, day, i)') <= MaxDailyTrades
    <2>1. CASE i \in own
      BY <1>3, <1>5, <2>1
    <2>2. CASE i = next
      <3>1. l \notin blind
        BY <1>5, <2>2
      <3>2. QED
        BY <1>4, <2>2, <3>1
    <2>3. QED
      BY <1>5, <2>1, <2>2
  <1>6. OwnEntries(l, day)' = own \cup {next}
    OBVIOUS
  <1>7. QED
    BY <1>5, <1>6 DEF CapOf

LEMMA SendsOrderKeeps ==
  ASSUME IInv, NEW l \in Lanes, NEW fate, SendsOrder(l, fate)
  PROVE  IInv'
  <1> DEFINE o == [id |-> sent + 1, lane |-> l]
  <1>1. /\ pc[l] = "gates" /\ Approved(l) /\ sent < MaxOrders /\ sent' = sent + 1
        /\ Forgets(l) /\ UNCHANGED <<ledger, today, brokerToday, lock, listed>>
        /\ \/ Opens(o, FALSE) /\ late' = late
           \/ late' = late \cup {o} /\ book' = book /\ deals' = deals
    BY DEF SendsOrder, days, files
  <1>2. /\ Shape /\ today \in Nat /\ sent \in Nat /\ o \in Order /\ o.lane = l /\ at[l] <= today
    BY <1>1, BoundsAssumption DEF IInv, Shape, Order, DaysAgree
  <1> HIDE DEF o
  <1>3. /\ pc' \in [Lanes -> Places] /\ at' \in [Lanes -> Nat] /\ count' \in [Lanes -> Nat]
        /\ DOMAIN perf' = Lanes /\ \A m \in Lanes : LedgerShape(perf'[m])
        /\ pc'[l] = "out"
        /\ \A m \in Lanes : m # l =>
             /\ pc'[m] = pc[m] /\ at'[m] = at[m] /\ count'[m] = count[m] /\ perf'[m] = perf[m]
             /\ m \in blind' <=> m \in blind
    BY <1>1, <1>2, Forgotten
  <1>4. CASE Opens(o, FALSE) /\ late' = late
    <2>1. /\ book' \subseteq Position /\ IsFiniteSet(book')
          /\ deals' \in Seq(Deal) /\ Len(deals') = Len(deals) + 1 /\ Len(deals) \in Nat
          /\ \A i \in 1 .. Len(deals) : deals'[i] = deals[i]
          /\ \A i \in 1 .. Len(deals') : deals'[i].utc <= today
          /\ \A m \in Lanes : m # l =>
               Own(m)' = Own(m) /\ \A day \in Nat : OwnEntries(m, day)' = OwnEntries(m, day)
          /\ Cardinality(Own(l))' \in Nat
          /\ Cardinality(Own(l))' <= Cardinality(Own(l)) + 1
          /\ \A day \in Nat : OwnEntries(l, day)' =
               IF day = today THEN OwnEntries(l, day) \cup {Len(deals) + 1}
               ELSE OwnEntries(l, day)
          /\ deals'[Len(deals) + 1].seeing <=> l \notin blind
      BY <1>1, <1>2, <1>4, Opened, DealsAssumption
    <2>2. Shape'
      BY <1>1, <1>2, <1>3, <1>4, <2>1 DEF IInv, Shape
    <2>3. OnePositionPerLane'
      <3>1. Cardinality(Own(l)) <= count[l] /\ count[l] < MaxOpenPositions /\ count[l] \in Nat
        BY <1>1 DEF IInv, Shape, CountsOwn, Approved
      <3>2. Cardinality(Own(l)) \in Nat
        BY <1>2, OwnFinite
      <3>3. Cardinality(Own(l))' <= MaxOpenPositions
        BY <2>1, <3>1, <3>2, LimitsAssumption
      <3>4. QED
        BY <2>1, <3>3 DEF IInv, OnePositionPerLane
    <2>4. CapOfEveryDay'
      <3>1. ASSUME NEW day \in Nat, day = today PROVE CapOf(l, day)'
        BY <1>1, <1>2, <2>1, <3>1, CapAfterEntry
      <3>2. ASSUME NEW m \in Lanes, NEW day \in Nat
            PROVE  CapOf(m, day)'
        <4>1. CASE m = l /\ day = today
          BY <3>1, <4>1
        <4>2. CASE ~(m = l /\ day = today)
          <5>1. OwnEntries(m, day)' = OwnEntries(m, day) /\ CapOf(m, day)
            BY <2>1, <4>2 DEF IInv, CapOfEveryDay
          <5>2. QED
            BY <1>2, <2>1, <5>1, CapKept
        <4>3. QED
          BY <4>1, <4>2
      <3>3. QED
        BY <3>2 DEF CapOfEveryDay
    <2>5. (Exclusive /\ CountsOwn /\ AheadOfFile)'
      BY <1>1, <1>3, <2>1 DEF IInv, Exclusive, CountsOwn, AheadOfFile
    <2>6. \A m \in Lanes : pc'[m] # "out" => m # l /\ at[m] \in Nat
      BY <1>3 DEF IInv, Shape
    <2>7. DaysAgree'
      <3>1. \A i \in 1 .. Len(deals') : deals'[i].utc <= today'
        BY <1>1, <2>1
      <3>2. ASSUME NEW m \in Lanes, pc'[m] # "out"
            PROVE  at'[m] <= today' /\ \A day \in Nat : day > at'[m] => OwnEntries(m, day)' = {}
        <4>1. m # l /\ at'[m] = at[m] /\ pc[m] # "out" /\ today' = today
          BY <1>1, <1>3, <2>6, <3>2
        <4>2. at[m] <= today /\ \A day \in Nat : day > at[m] => OwnEntries(m, day) = {}
          BY <4>1 DEF IInv, DaysAgree
        <4>3. \A day \in Nat : OwnEntries(m, day)' = OwnEntries(m, day)
          BY <2>1, <4>1
        <4>4. QED
          BY <4>1, <4>2, <4>3
      <3>3. QED
        BY <3>1, <3>2 DEF DaysAgree
    <2>8. EntriesCounted'
      <3>1. ASSUME NEW m \in Lanes, pc'[m] \in {"saving", "gates"}, m \notin blind'
            PROVE  Cardinality(OwnEntries(m, at[m]))' <= perf'[m].trades
        <4>1. /\ m # l /\ at[m] \in Nat /\ at'[m] = at[m] /\ perf'[m] = perf[m]
              /\ pc[m] \in {"saving", "gates"} /\ m \notin blind
          BY <1>3, <2>6, <3>1
        <4>2. OwnEntries(m, at[m])' = OwnEntries(m, at[m])
          BY <2>1, <4>1
        <4>3. QED
          BY <4>1, <4>2 DEF IInv, EntriesCounted
      <3>2. QED
        BY <3>1 DEF EntriesCounted
    <2>9. QED
      BY <2>2, <2>3, <2>4, <2>5, <2>7, <2>8 DEF IInv
  <1>5. CASE late' = late \cup {o} /\ book' = book /\ deals' = deals
    <2>1. /\ \A m : Own(m)' = Own(m)
          /\ \A m, day : OwnEntries(m, day)' = OwnEntries(m, day)
          /\ \A m, day : CapOf(m, day)' = CapOf(m, day)
      BY <1>5, SameBroker
    <2>2. Shape'
      BY <1>1, <1>2, <1>3, <1>5 DEF IInv, Shape
    <2>3. (Exclusive /\ CountsOwn /\ OnePositionPerLane /\ AheadOfFile)'
      BY <1>1, <1>3, <2>1 DEF IInv, Exclusive, CountsOwn, OnePositionPerLane, AheadOfFile
    <2>4. (DaysAgree /\ EntriesCounted /\ CapOfEveryDay)'
      BY <1>1, <1>3, <1>5, <2>1 DEF IInv, DaysAgree, EntriesCounted, CapOfEveryDay
    <2>5. QED
      BY <2>2, <2>3, <2>4 DEF IInv
  <1>6. QED
    BY <1>1, <1>4, <1>5

LEMMA ExecutesLateKeeps ==
  ASSUME IInv, NEW o \in late, ExecutesLate(o)
  PROVE  IInv'
  <1>1. /\ UNCHANGED <<today, brokerToday, listed, sent, lock, pc, at, count, perf, blind, ledger>>
        /\ late' = late \ {o} /\ Opens(o, TRUE) /\ o \in Order
    BY DEF ExecutesLate, days, files, IInv, Shape
  <1>2. /\ book' \subseteq Position /\ IsFiniteSet(book')
        /\ deals' \in Seq(Deal) /\ Len(deals') = Len(deals) + 1 /\ Len(deals) \in Nat
        /\ \A i \in 1 .. Len(deals) : deals'[i] = deals[i]
        /\ \A i \in 1 .. Len(deals') : deals'[i].utc <= today
        /\ \A m \in Lanes :
             Own(m)' = Own(m) /\ \A day \in Nat : OwnEntries(m, day)' = OwnEntries(m, day)
    BY <1>1, Opened, DealsAssumption
  <1>3. Shape'
    BY <1>1, <1>2 DEF IInv, Shape, LedgerShape
  <1>4. (Exclusive /\ CountsOwn /\ OnePositionPerLane /\ AheadOfFile)'
    BY <1>1, <1>2 DEF IInv, Exclusive, CountsOwn, OnePositionPerLane, AheadOfFile
  <1>5. DaysAgree'
    BY <1>1, <1>2 DEF IInv, DaysAgree
  <1>6. EntriesCounted'
    <2>1. \A m \in Lanes : at[m] \in Nat
      BY DEF IInv, Shape
    <2>2. QED
      BY <1>1, <1>2, <2>1 DEF IInv, EntriesCounted
  <1>7. CapOfEveryDay'
    BY <1>2, CapKept DEF IInv, CapOfEveryDay
  <1>8. QED
    BY <1>3, <1>4, <1>5, <1>6, <1>7 DEF IInv

LEMMA ClosesKeeps ==
  ASSUME IInv, NEW p \in book, NEW r \in Results, Closes(p, r)
  PROVE  IInv'
  <1>1. /\ UNCHANGED <<today, brokerToday, late, listed, sent, lock, pc, at, count, perf, blind>>
        /\ ledger' = ledger /\ book' = book \ {p} /\ Makes(FALSE, r, {})
    BY DEF Closes, days, files
  <1>2. Shape /\ r \in Int /\ {} \in SUBSET Lanes
    BY DealsAssumption DEF IInv
  <1>3. /\ deals' \in Seq(Deal) /\ Len(deals') = Len(deals) + 1 /\ Len(deals) \in Nat
        /\ \A i \in 1 .. Len(deals) : deals'[i] = deals[i]
        /\ \A i \in 1 .. Len(deals') : deals'[i].utc <= today
        /\ \A m \in Lanes, day \in Nat : OwnEntries(m, day)' = OwnEntries(m, day)
    <2>1. FALSE \in BOOLEAN /\ \A i \in 1 .. Len(deals) : deals[i].utc <= today
      BY DEF IInv, DaysAgree
    <2>2. /\ deals' \in Seq(Deal) /\ Len(deals') = Len(deals) + 1 /\ Len(deals) \in Nat
          /\ \A i \in 1 .. Len(deals) : deals'[i] = deals[i]
          /\ \A i \in 1 .. Len(deals') : deals'[i].utc <= today
          /\ ~deals'[Len(deals) + 1].entry
      BY <1>1, <1>2, <2>1, OneMoreDeal
    <2>3. QED
      BY <2>2, EntriesAfter
  <1>4. IsFiniteSet(book') /\ book' \subseteq Position
    <2>1. book' \in SUBSET book
      BY <1>1
    <2>2. QED
      BY <1>2, <2>1, FS_Subset DEF Shape
  <1>5. Shape'
    BY <1>1, <1>2, <1>3, <1>4 DEF Shape, LedgerShape
  <1>6. ASSUME NEW m \in Lanes
        PROVE  /\ Cardinality(Own(m)) \in Nat /\ Cardinality(Own(m))' \in Nat
               /\ Cardinality(Own(m))' <= Cardinality(Own(m))
    <2>1. IsFiniteSet(Own(m)) /\ Cardinality(Own(m)) \in Nat
      BY <1>2, OwnFinite
    <2>2. Own(m)' \in SUBSET Own(m)
      BY <1>1 DEF Own
    <2>3. QED
      BY <2>1, <2>2, FS_Subset, FS_CardinalityType
  <1>7. (CountsOwn /\ OnePositionPerLane)'
    BY <1>1, <1>2, <1>6, LimitsAssumption DEF IInv, Shape, CountsOwn, OnePositionPerLane
  <1>8. (Exclusive /\ AheadOfFile)'
    BY <1>1 DEF IInv, Exclusive, AheadOfFile
  <1>9. DaysAgree'
    BY <1>1, <1>3 DEF IInv, DaysAgree
  <1>10. EntriesCounted'
    BY <1>1, <1>2, <1>3 DEF IInv, Shape, EntriesCounted
  <1>11. CapOfEveryDay'
    BY <1>2, <1>3, CapKept DEF IInv, CapOfEveryDay
  <1>12. QED
    BY <1>5, <1>7, <1>8, <1>9, <1>10, <1>11 DEF IInv

LEMMA MidnightKeeps ==
  ASSUME IInv, Midnight
  PROVE  IInv'
  <1>1. /\ UNCHANGED <<book, late, deals, listed, sent, ledger, brokerToday>>
        /\ UNCHANGED <<lock, pc, at, count, perf, blind>>
        /\ today' = today + 1 /\ today \in Nat
    BY DEF Midnight, broker, files, IInv, Shape
  <1>2. /\ \A m : Own(m)' = Own(m)
        /\ \A m, day : OwnEntries(m, day)' = OwnEntries(m, day)
        /\ \A m, day : CapOf(m, day)' = CapOf(m, day)
    BY <1>1, SameBroker
  <1>3. Shape'
    BY <1>1 DEF IInv, Shape, LedgerShape
  <1>4. (Exclusive /\ CountsOwn /\ OnePositionPerLane /\ AheadOfFile)'
    BY <1>1, <1>2 DEF IInv, Exclusive, CountsOwn, OnePositionPerLane, AheadOfFile
  <1>5. DaysAgree'
    <2>1. ASSUME NEW i \in 1 .. Len(deals) PROVE deals[i].utc <= today + 1
      <3>1. deals[i] \in Deal
        BY DEF IInv, Shape
      <3>2. deals[i].utc \in Nat /\ deals[i].utc <= today
        BY <3>1 DEF IInv, DaysAgree, Deal
      <3>3. QED
        BY <1>1, <3>2
    <2>2. ASSUME NEW m \in Lanes, pc[m] # "out"
          PROVE  /\ at[m] <= today + 1
                 /\ \A day \in Nat : day > at[m] => OwnEntries(m, day) = {}
      <3>1. at[m] \in Nat /\ at[m] <= today
        BY <2>2 DEF IInv, Shape, DaysAgree
      <3>2. QED
        BY <1>1, <2>2, <3>1 DEF IInv, DaysAgree
    <2>3. QED
      BY <1>1, <1>2, <2>1, <2>2 DEF DaysAgree
  <1>6. (EntriesCounted /\ CapOfEveryDay)'
    BY <1>1, <1>2 DEF IInv, EntriesCounted, CapOfEveryDay
  <1>7. QED
    BY <1>3, <1>4, <1>5, <1>6 DEF IInv

\* The broker's midnight, and stuttering.
LEMMA StutterKeeps ==
  ASSUME IInv, brokerToday' \in Nat,
         UNCHANGED <<today, book, late, deals, listed, sent, ledger, lock, pc, at, count, perf,
                     blind>>
  PROVE  IInv'
  <1>1. /\ \A m : Own(m)' = Own(m)
        /\ \A m, day : OwnEntries(m, day)' = OwnEntries(m, day)
        /\ \A m, day : CapOf(m, day)' = CapOf(m, day)
    BY SameBroker
  <1>2. Shape'
    BY DEF IInv, Shape, LedgerShape
  <1>3. (Exclusive /\ CountsOwn /\ OnePositionPerLane /\ AheadOfFile)'
    BY <1>1 DEF IInv, Exclusive, CountsOwn, OnePositionPerLane, AheadOfFile
  <1>4. (DaysAgree /\ EntriesCounted /\ CapOfEveryDay)'
    BY <1>1 DEF IInv, DaysAgree, EntriesCounted, CapOfEveryDay
  <1>5. QED
    BY <1>2, <1>3, <1>4 DEF IInv

LEMMA StepInv == IInv /\ [Next]_vars => IInv'
  <1> SUFFICES ASSUME IInv, [Next]_vars PROVE IInv'
    OBVIOUS
  <1>1. CASE \E l \in Lanes : LaneStep(l)
    <2>1. PICK l \in Lanes : LaneStep(l)
      BY <1>1
    <2>2. QED
      BY <2>1, StartsKeeps, CountsPositionsKeeps, ReadsHistoryKeeps, SavesLedgerKeeps,
         SendsOrderKeeps, LeavesRefusedKeeps DEF LaneStep
  <1>2. CASE \E o \in late : ExecutesLate(o)
    BY <1>2, ExecutesLateKeeps
  <1>3. CASE \E p \in book, r \in Results : Closes(p, r)
    BY <1>3, ClosesKeeps
  <1>4. CASE Midnight
    BY <1>4, MidnightKeeps
  <1>5. CASE BrokerMidnight
    BY <1>5, StutterKeeps DEF BrokerMidnight, broker, files, IInv, Shape
  <1>6. CASE UNCHANGED vars
    BY <1>6, StutterKeeps DEF vars, IInv, Shape
  <1>7. QED
    BY <1>1, <1>2, <1>3, <1>4, <1>5, <1>6 DEF Next

-----------------------------------------------------------------------------
(* The results.                                                             *)

\* Every state of the passage satisfies the invariant: the ledger section is
\* exclusive, a lane in it has counted its own positions and its own trades
\* of the day, and what it saves is not behind what is on file.
THEOREM Invariance == Spec => []IInv
  <1>1. QED
    BY InitInv, StepInv, PTL DEF Spec

\* However the lanes interleave, whatever the bridge answers and the broker
\* executes late, no lane opens a position on top of its own (risk gates of
\* auto_executor, and b214: an unreadable book counts as full).
THEOREM OneEach == Spec => []OnePositionPerLane
  <1>1. IInv => OnePositionPerLane
    BY DEF IInv
  <1>2. QED
    BY <1>1, Invariance, PTL

\* An order that is executed at once and takes its lane beyond MaxDailyTrades of
\* the UTC day was sent by a pass whose reading missed an entry of that lane and
\* day, for the history did not list it or its stamp was of the broker's
\* tomorrow; across midnights and a ledger shared with other lanes.
THEOREM CapHolds == Spec => []CapOnWhatIsSeen
  <1>1. IInv => CapOnWhatIsSeen
    BY BoundsAssumption DEF IInv, CapOfEveryDay, CapOf, UpTo, CapOnWhatIsSeen
  <1>2. QED
    BY <1>1, Invariance, PTL

\* A save never takes a trade or a deal off the ledger of the same day: the
\* lock makes the read-modify-write of performance_state.json one step.
THEOREM LedgerForgetsNothing == Spec => LedgerKeepsItsDay
  <1> DEFINE Keeps == ledger'.day = ledger.day =>
                        ledger'.trades >= ledger.trades /\ ledger'.last >= ledger.last
  <1>1. IInv /\ [Next]_vars => [Keeps]_vars
    <2> SUFFICES ASSUME IInv, Next PROVE Keeps
      BY DEF vars
    <2>1. LedgerShape(ledger)
      BY DEF IInv, Shape
    <2>2. CASE \E l \in Lanes : SavesLedger(l)
      BY <2>2 DEF SavesLedger, IInv, AheadOfFile
    <2>3. CASE ledger' = ledger
      BY <2>1, <2>3 DEF LedgerShape
    <2>4. QED
      BY <2>2, <2>3 DEF Next, LaneStep, Starts, CountsPositions, ReadsHistory, SendsOrder,
         LeavesRefused, ExecutesLate, Closes, BrokerMidnight, Midnight, files
  <1>2. QED
    BY <1>1, Invariance, PTL DEF Spec, LedgerKeepsItsDay
=============================================================================
