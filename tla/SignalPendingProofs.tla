------------------------- MODULE SignalPendingProofs -------------------------
(***************************************************************************)
(* Proofs that, for any pollers, levels, caps and numbers of orders, a     *)
(* limit order that rests at the broker is watched unless a failure or a   *)
(* save over another poller's took it out of sight, that the orders in     *)
(* sight respect the cap and do not stack but for the sends on a list that *)
(* another poller had outgrown, and that pollers which take turns need     *)
(* neither exception of theirs.                                            *)
(***************************************************************************)
EXTENDS SignalPending, FiniteSetTheorems, TLAPS

-----------------------------------------------------------------------------
(* The inductive invariant.                                                 *)

\* No list, and no broker, ever holds more than was sent.
AllWereSent ==
  /\ IsFiniteSet(resting) /\ IsFiniteSet(items)
  /\ \A p \in Pollers : IsFiniteSet(mine[p])
  /\ \A o \in resting \cup items \cup UNION {mine[p] : p \in Pollers} : o.id <= sent

Watching == pc[Daemon] \in {"judging", "withdrawing"}

\* The orders of a watch are those of the list it has loaded.
HoldsTheList ==
  /\ Watching => todo \cup keep \subseteq mine[Daemon]
  /\ ~Watching => keep = {}

\* In a watch, an order that was on the list when it was loaded, and rests, is
\* still to be handled, or kept, or out of sight; and what was not listed is
\* out of sight or gone.
PassForgetsNothing ==
  /\ Watching => resting \cap mine[Daemon] \subseteq todo \cup keep \cup excused
  /\ pc[Daemon] = "judging" => resting \cap todo \subseteq live \cup excused

IInv ==
  /\ TypeOK
  /\ AllWereSent
  /\ HoldsTheList
  /\ PassForgetsNothing
  /\ RestingIsWatched
  /\ AtMostPendingMax
  /\ NoStackedLimits

\* The parts that speak of the lists only.
ListInv == AllWereSent /\ HoldsTheList /\ PassForgetsNothing /\ RestingIsWatched

LEMMA InitInv == Init => IInv
  <1> SUFFICES ASSUME Init PROVE IInv
    OBVIOUS
  <1>1. TypeOK
    <2>1. sent \in 0 .. MaxOrders /\ aged \in 0 .. MaxOrders
      BY MaxOrdersAssumption DEF Init
    <2>2. trading \in {"on", "halted", "closed"} /\ pc \in [Pollers -> Places]
      BY DEF Init, Places
    <2>3. mine \in [Pollers -> SUBSET Order]
      BY DEF Init
    <2>4. /\ resting \subseteq Order /\ items \subseteq Order
          /\ live \subseteq Order /\ todo \subseteq Order /\ keep \subseteq Order
          /\ excused \subseteq Order /\ blind \subseteq Order
      BY Zenon DEF Init
    <2>5. QED
      BY <2>1, <2>2, <2>3, <2>4, Zenon DEF TypeOK
  <1>2. ListInv
    BY FS_EmptySet, PollersAssumption
       DEF Init, ListInv, AllWereSent, HoldsTheList, Watching, PassForgetsNothing,
       RestingIsWatched
  <1>3. AtMostPendingMax /\ NoStackedLimits
    <2>1. InSight \ blind = {}
      BY DEF Init, InSight
    <2>2. QED
      BY <2>1, FS_EmptySet, PendingMaxAssumption DEF AtMostPendingMax, NoStackedLimits
  <1>4. QED
    BY <1>1, <1>2, <1>3 DEF IInv, ListInv

-----------------------------------------------------------------------------
(* The cap and the levels are disturbed by one action, the sending of an    *)
(* order.                                                                   *)

\* With fewer orders in sight, the limits still hold.
LEMMA FewerInSight ==
  ASSUME IInv, InSight' \subseteq InSight, (InSight \ blind)' \subseteq InSight \ blind
  PROVE  (AtMostPendingMax /\ NoStackedLimits)'
  <1>1. IsFiniteSet(InSight \ blind)
    BY FS_Subset DEF IInv, AllWereSent, InSight
  <1>2. /\ Cardinality((InSight \ blind)') <= Cardinality(InSight \ blind)
        /\ Cardinality((InSight \ blind)') \in Nat /\ Cardinality(InSight \ blind) \in Nat
    BY <1>1, FS_Subset, FS_CardinalityType
  <1>3. AtMostPendingMax'
    BY <1>2, PendingMaxAssumption DEF IInv, AtMostPendingMax
  <1>4. NoStackedLimits'
    BY DEF IInv, NoStackedLimits
  <1>5. QED
    BY <1>3, <1>4

\* An order that does not count, and is the newest, disturbs neither limit.
LEMMA SentUncounted ==
  ASSUME IInv, NEW o, o.id = sent + 1,
         InSight' \subseteq InSight \cup {o}, (InSight \ blind)' \subseteq InSight \ blind
  PROVE  (AtMostPendingMax /\ NoStackedLimits)'
  <1>1. IsFiniteSet(InSight \ blind)
    BY FS_Subset DEF IInv, AllWereSent, InSight
  <1>2. /\ Cardinality((InSight \ blind)') <= Cardinality(InSight \ blind)
        /\ Cardinality((InSight \ blind)') \in Nat /\ Cardinality(InSight \ blind) \in Nat
    BY <1>1, FS_Subset, FS_CardinalityType
  <1>3. AtMostPendingMax'
    BY <1>2, PendingMaxAssumption DEF IInv, AtMostPendingMax
  <1>4. \A x \in InSight \ blind : ~(o.id < x.id)
    BY MaxOrdersAssumption DEF IInv, TypeOK, AllWereSent, Order, InSight
  <1>5. NoStackedLimits'
    BY <1>4 DEF IInv, NoStackedLimits
  <1>6. QED
    BY <1>3, <1>5

\* An order sent on a list that no other poller has outgrown: everything in
\* sight is on that list, which has room for one more, at another level.
LEMMA SentWithFullView ==
  ASSUME IInv, NEW p \in Pollers, pc[p] = "sending", ~SendsBlind(p),
         NEW level, Fits(mine[p], level),
         NEW o, o.level = level, o.id = sent + 1,
         InSight' \subseteq InSight \cup {o},
         (InSight \ blind)' \subseteq (InSight \ blind) \cup {o}
  PROVE  (AtMostPendingMax /\ NoStackedLimits)'
  <1>1. InSight \subseteq mine[p]
    BY DEF IInv, RestingIsWatched, AboutToBeSaved, InSight, SendsBlind, Unseen
  <1>2. IsFiniteSet(InSight \ blind) /\ InSight \subseteq resting
    BY FS_Subset DEF IInv, AllWereSent, InSight
  <1>3. Cardinality(InSight \ blind) < PendingMax
    <2>1. IsFiniteSet(mine[p])
      BY DEF IInv, AllWereSent
    <2>2. QED
      BY <1>1, <2>1, FS_Subset, FS_CardinalityType, PendingMaxAssumption DEF Fits
  <1> DEFINE seen == InSight \ blind
  <1>4. AtMostPendingMax'
    <2> HIDE DEF seen
    <2>1. IsFiniteSet(seen) /\ Cardinality(seen) \in Nat
      BY <1>2, FS_CardinalityType DEF seen
    <2>2. /\ IsFiniteSet(seen \cup {o})
          /\ Cardinality(seen \cup {o}) \in {Cardinality(seen), Cardinality(seen) + 1}
      BY <2>1, FS_AddElement
    <2>3. /\ IsFiniteSet((InSight \ blind)')
          /\ Cardinality((InSight \ blind)') <= Cardinality(seen \cup {o})
      BY <2>2, FS_Subset DEF seen
    <2>4. Cardinality((InSight \ blind)') \in Nat
      BY <2>3, FS_CardinalityType
    <2>5. Cardinality(seen) < PendingMax
      BY <1>3 DEF seen
    <2>6. QED
      BY <2>1, <2>2, <2>3, <2>4, <2>5, PendingMaxAssumption DEF AtMostPendingMax
  <1>5. NoStackedLimits'
    <2>0. sent \in Int
      BY MaxOrdersAssumption DEF IInv, TypeOK
    <2>1. \A x \in InSight : x.level # level /\ x.id \in Int /\ x.id < sent + 1
      BY <1>1, <1>2, <2>0 DEF IInv, TypeOK, AllWereSent, Order, Fits
    <2> SUFFICES ASSUME NEW x \in (InSight \ blind)', NEW y \in InSight', y.id < x.id
                 PROVE  x.level # y.level
      BY DEF NoStackedLimits
    <2>2. CASE x = o
      BY <2>0, <2>1, <2>2
    <2>3. CASE x # o
      <3>1. x \in InSight \ blind /\ y \in InSight
        BY <2>0, <2>1, <2>3
      <3>2. QED
        BY <3>1 DEF IInv, NoStackedLimits
    <2>4. QED
      BY <2>2, <2>3
  <1>6. QED
    BY <1>4, <1>5

-----------------------------------------------------------------------------
(* One lemma per action.                                                    *)

LEMMA LoadsListKeeps ==
  ASSUME IInv, NEW p \in Pollers, LoadsList(p)
  PROVE  IInv'
  <1>1. /\ pc[p] = "up" /\ pc' = [pc EXCEPT ![p] = "sending"]
        /\ mine' = [mine EXCEPT ![p] = items]
        /\ UNCHANGED <<resting, sent, aged, trading, items, live, todo, keep, excused, blind>>
    BY DEF LoadsList, Goes, world, watch
  <1>2. TypeOK'
    BY <1>1 DEF IInv, TypeOK, Places
  <1>3. ListInv'
    BY <1>1, PollersAssumption
       DEF IInv, ListInv, AllWereSent, HoldsTheList, Watching, PassForgetsNothing,
           RestingIsWatched, AboutToBeSaved
  <1>4. InSight' \subseteq InSight /\ (InSight \ blind)' \subseteq InSight \ blind
    BY <1>1 DEF InSight
  <1>5. QED
    BY <1>2, <1>3, <1>4, FewerInSight DEF IInv, ListInv

LEMMA GivesUpKeeps ==
  ASSUME IInv, NEW p \in Pollers, GivesUp(p)
  PROVE  IInv'
  <1>1. /\ pc[p] = "sending" /\ pc' = [pc EXCEPT ![p] = "up"]
        /\ mine' = [mine EXCEPT ![p] = {}]
        /\ UNCHANGED <<resting, sent, aged, trading, items, live, todo, keep, excused, blind>>
    BY DEF GivesUp, Goes, world, watch
  <1>2. TypeOK'
    BY <1>1 DEF IInv, TypeOK, Places
  <1>3. ListInv'
    BY <1>1, FS_EmptySet, PollersAssumption
       DEF IInv, ListInv, AllWereSent, HoldsTheList, Watching, PassForgetsNothing,
           RestingIsWatched, AboutToBeSaved
  <1>4. InSight' \subseteq InSight /\ (InSight \ blind)' \subseteq InSight \ blind
    BY <1>1 DEF InSight
  <1>5. QED
    BY <1>2, <1>3, <1>4, FewerInSight DEF IInv, ListInv

LEMMA SavesParkedKeeps ==
  ASSUME IInv, NEW p \in Pollers, SavesParked(p)
  PROVE  IInv'
  <1>1. /\ pc[p] = "parking" /\ pc' = [pc EXCEPT ![p] = "up"]
        /\ mine' = [mine EXCEPT ![p] = {}]
        /\ items' = mine[p] /\ excused' = excused \cup ((items \ mine[p]) \cap resting)
        /\ UNCHANGED <<resting, sent, aged, trading, live, todo, keep, blind>>
    BY DEF SavesParked, Unseen, Goes, world, watch
  <1>2. TypeOK'
    BY <1>1 DEF IInv, TypeOK, Places
  <1>3. ListInv'
    BY <1>1, FS_EmptySet, PollersAssumption
       DEF IInv, ListInv, AllWereSent, HoldsTheList, Watching, PassForgetsNothing,
           RestingIsWatched, AboutToBeSaved
  <1>4. InSight' \subseteq InSight /\ (InSight \ blind)' \subseteq InSight \ blind
    BY <1>1 DEF InSight
  <1>5. QED
    BY <1>2, <1>3, <1>4, FewerInSight DEF IInv, ListInv

LEMMA WithdrawsKeeps ==
  ASSUME IInv, Withdraws
  PROVE  IInv'
  <1>1. /\ pc[Daemon] = "up" /\ pc' = [pc EXCEPT ![Daemon] = "withdrawing"]
        /\ mine' = [mine EXCEPT ![Daemon] = items] /\ todo' = items
        /\ UNCHANGED <<resting, sent, aged, trading, items, live, keep, excused, blind>>
    BY DEF Withdraws, Goes, world
  <1>2. TypeOK'
    BY <1>1 DEF IInv, TypeOK, Places
  <1>3. ListInv'
    <2>1. AllWereSent'
      BY <1>1, PollersAssumption DEF IInv, AllWereSent, HoldsTheList, Watching
    <2>2. HoldsTheList' /\ PassForgetsNothing'
      BY <1>1, PollersAssumption
         DEF IInv, TypeOK, HoldsTheList, Watching, PassForgetsNothing
    <2>3. RestingIsWatched'
      BY <1>1, PollersAssumption
         DEF IInv, HoldsTheList, Watching, PassForgetsNothing,
         RestingIsWatched, AboutToBeSaved
    <2>4. QED
      BY <2>1, <2>2, <2>3 DEF ListInv
  <1>4. InSight' \subseteq InSight /\ (InSight \ blind)' \subseteq InSight \ blind
    BY <1>1 DEF InSight
  <1>5. QED
    BY <1>2, <1>3, <1>4, FewerInSight DEF IInv, ListInv

LEMMA ReadsOrdersKeeps ==
  ASSUME IInv, NEW reply, ReadsOrders(reply)
  PROVE  IInv'
  <1>1. /\ pc[Daemon] = "up" /\ pc' = [pc EXCEPT ![Daemon] = "judging"]
        /\ mine' = [mine EXCEPT ![Daemon] = items] /\ todo' = items
        /\ UNCHANGED <<resting, sent, aged, trading, items, keep, blind>>
        /\ \/ live' = items \cap resting /\ excused' = excused
           \/ live' = {} /\ excused' = excused \cup (items \cap resting)
    BY DEF ReadsOrders, Walkable, Listed, Goes, world
  <1>2. TypeOK'
    BY <1>1 DEF IInv, TypeOK, Places
  <1>3. ListInv'
    <2>1. AllWereSent'
      BY <1>1, PollersAssumption DEF IInv, AllWereSent, HoldsTheList, Watching
    <2>2. HoldsTheList' /\ PassForgetsNothing'
      BY <1>1, PollersAssumption
         DEF IInv, TypeOK, HoldsTheList, Watching, PassForgetsNothing
    <2>3. RestingIsWatched'
      BY <1>1, PollersAssumption
         DEF IInv, HoldsTheList, Watching, PassForgetsNothing,
         RestingIsWatched, AboutToBeSaved
    <2>4. QED
      BY <2>1, <2>2, <2>3 DEF ListInv
  <1>4. InSight' \subseteq InSight /\ (InSight \ blind)' \subseteq InSight \ blind
    BY <1>1 DEF InSight
  <1>5. QED
    BY <1>2, <1>3, <1>4, FewerInSight DEF IInv, ListInv

LEMMA CancelFacts ==
  ASSUME NEW o, NEW reply, CancelQuiet(o, reply)
  PROVE  /\ resting' \in {resting, resting \ {o}}
         /\ excused' \subseteq excused \cup ({o} \cap resting)
         /\ o \in resting' => o \in excused'
         /\ resting' \cap excused \subseteq excused'
         /\ blind' \subseteq blind /\ resting' \cap blind \subseteq blind'
  BY DEF CancelQuiet

LEMMA JudgesKeeps ==
  ASSUME IInv, NEW o \in todo, NEW reply, Judges(o, reply)
  PROVE  IInv'
  <1>1. /\ pc[Daemon] = "judging" /\ todo' = todo \ {o}
        /\ UNCHANGED <<sent, aged, trading, items, pc, mine, live>>
    BY DEF Judges
  <1>2. /\ resting' \in {resting, resting \ {o}}
        /\ keep \subseteq keep' /\ keep' \subseteq keep \cup {o}
        /\ excused' \subseteq excused \cup ({o} \cap resting)
        /\ resting' \cap excused \subseteq excused'
        /\ blind' \subseteq blind /\ resting' \cap blind \subseteq blind'
        /\ o \in resting' => o \in excused' \cup keep'
    <2>1. CASE CancelQuiet(o, reply) /\ UNCHANGED keep
      BY <2>1, CancelFacts
    <2>2. CASE keep' = keep \cup {o} /\ UNCHANGED <<resting, excused, blind>>
      BY <2>2
    <2>3. CASE o \notin live /\ UNCHANGED <<resting, excused, blind, keep>>
      BY <1>1, <2>3 DEF IInv, PassForgetsNothing
    <2>4. QED
      BY <2>1, <2>2, <2>3 DEF Judges
  <1>3. IsFiniteSet(resting')
    BY <1>2, FS_Subset DEF IInv, AllWereSent
  <1>4. TypeOK'
    BY <1>1, <1>2 DEF IInv, TypeOK
  <1>5. ListInv'
    BY <1>1, <1>2, <1>3, PollersAssumption
       DEF IInv, ListInv, AllWereSent, HoldsTheList, Watching, PassForgetsNothing,
           RestingIsWatched, AboutToBeSaved
  <1>6. InSight' \subseteq InSight /\ (InSight \ blind)' \subseteq InSight \ blind
    BY <1>2 DEF InSight
  <1>7. QED
    BY <1>4, <1>5, <1>6, FewerInSight DEF IInv, ListInv

LEMMA CancelsKeeps ==
  ASSUME IInv, NEW o \in todo, NEW reply, Cancels(o, reply)
  PROVE  IInv'
  <1>1. /\ pc[Daemon] = "withdrawing" /\ todo' = todo \ {o}
        /\ UNCHANGED <<sent, aged, trading, items, pc, mine, live, keep>>
    BY DEF Cancels
  <1>2. /\ resting' \in {resting, resting \ {o}}
        /\ excused' \subseteq excused \cup ({o} \cap resting)
        /\ o \in resting' => o \in excused'
        /\ resting' \cap excused \subseteq excused'
        /\ blind' \subseteq blind /\ resting' \cap blind \subseteq blind'
    BY CancelFacts DEF Cancels
  <1>3. IsFiniteSet(resting')
    BY <1>2, FS_Subset DEF IInv, AllWereSent
  <1>4. TypeOK'
    BY <1>1, <1>2 DEF IInv, TypeOK
  <1>5. ListInv'
    BY <1>1, <1>2, <1>3, PollersAssumption
       DEF IInv, ListInv, AllWereSent, HoldsTheList, Watching, PassForgetsNothing,
           RestingIsWatched, AboutToBeSaved
  <1>6. InSight' \subseteq InSight /\ (InSight \ blind)' \subseteq InSight \ blind
    BY <1>2 DEF InSight
  <1>7. QED
    BY <1>4, <1>5, <1>6, FewerInSight DEF IInv, ListInv

LEMMA SavesWatchedKeeps ==
  ASSUME IInv, SavesWatched
  PROVE  IInv'
  <1>1. /\ Watching /\ todo = {} /\ items' = keep
        /\ excused' = excused \cup ((items \ mine[Daemon]) \cap resting)
        /\ pc' = [pc EXCEPT ![Daemon] = "up"] /\ mine' = [mine EXCEPT ![Daemon] = {}]
        /\ live' = {} /\ todo' = {} /\ keep' = {}
        /\ UNCHANGED <<resting, sent, aged, trading, blind>>
    BY DEF SavesWatched, Watching, Unseen, Goes, ForgetsWatch, world
  <1>2. IsFiniteSet(keep) /\ keep \subseteq mine[Daemon]
    BY <1>1, PollersAssumption, FS_Subset DEF IInv, AllWereSent, HoldsTheList
  <1>3. TypeOK'
    BY <1>1 DEF IInv, TypeOK, Places
  <1>4. ListInv'
    <2>1. AllWereSent'
      BY <1>1, <1>2, FS_EmptySet, PollersAssumption DEF IInv, AllWereSent, HoldsTheList, Watching
    <2>2. HoldsTheList' /\ PassForgetsNothing'
      BY <1>1, <1>2, FS_EmptySet, PollersAssumption
         DEF IInv, TypeOK, HoldsTheList, Watching, PassForgetsNothing
    <2>3. RestingIsWatched'
      BY <1>1, <1>2, FS_EmptySet, PollersAssumption
         DEF IInv, HoldsTheList, Watching, PassForgetsNothing,
         RestingIsWatched, AboutToBeSaved
    <2>4. QED
      BY <2>1, <2>2, <2>3 DEF ListInv
  <1>5. InSight' \subseteq InSight /\ (InSight \ blind)' \subseteq InSight \ blind
    BY <1>1 DEF InSight
  <1>6. QED
    BY <1>3, <1>4, <1>5, FewerInSight DEF IInv, ListInv

LEMMA DiesKeeps ==
  ASSUME IInv, NEW p \in Pollers, Dies(p)
  PROVE  IInv'
  <1>1. /\ pc' = [pc EXCEPT ![p] = IF p = Daemon THEN "down" ELSE "up"]
        /\ mine' = [mine EXCEPT ![p] = {}]
        /\ IF p = Daemon THEN live' = {} /\ todo' = {} /\ keep' = {}
           ELSE UNCHANGED <<live, todo, keep>>
        /\ excused' = IF pc[p] = "parking" THEN excused \cup ((mine[p] \ items) \cap resting)
                      ELSE excused
        /\ UNCHANGED <<resting, sent, aged, trading, items, blind>>
    BY DEF Dies, Goes, ForgetsWatch, world, watch
  <1>2. TypeOK'
    BY <1>1 DEF IInv, TypeOK, Places
  <1>3. ListInv'
    <2>1. AllWereSent'
      BY <1>1, FS_EmptySet, PollersAssumption DEF IInv, AllWereSent, HoldsTheList, Watching
    <2>2. HoldsTheList' /\ PassForgetsNothing'
      BY <1>1, FS_EmptySet, PollersAssumption
         DEF IInv, TypeOK, HoldsTheList, Watching, PassForgetsNothing
    <2>3. RestingIsWatched'
      BY <1>1, FS_EmptySet, PollersAssumption
         DEF IInv, HoldsTheList, Watching, PassForgetsNothing,
         RestingIsWatched, AboutToBeSaved
    <2>4. QED
      BY <2>1, <2>2, <2>3 DEF ListInv
  <1>4. InSight' \subseteq InSight /\ (InSight \ blind)' \subseteq InSight \ blind
    BY <1>1 DEF InSight
  <1>5. QED
    BY <1>2, <1>3, <1>4, FewerInSight DEF IInv, ListInv

LEMMA RestartsKeeps ==
  ASSUME IInv, Restarts
  PROVE  IInv'
  <1>1. /\ pc[Daemon] = "down" /\ pc' = [pc EXCEPT ![Daemon] = "up"]
        /\ UNCHANGED <<resting, sent, aged, trading, items, mine, live, todo, keep, excused,
                       blind>>
    BY DEF Restarts, world, watch
  <1>2. TypeOK'
    BY <1>1 DEF IInv, TypeOK, Places
  <1>3. ListInv'
    BY <1>1, PollersAssumption
       DEF IInv, ListInv, AllWereSent, HoldsTheList, Watching, PassForgetsNothing,
           RestingIsWatched, AboutToBeSaved
  <1>4. InSight' \subseteq InSight /\ (InSight \ blind)' \subseteq InSight \ blind
    BY <1>1 DEF InSight
  <1>5. QED
    BY <1>2, <1>3, <1>4, FewerInSight DEF IInv, ListInv

LEMMA LeavesBrokerKeeps ==
  ASSUME IInv, NEW o \in resting, LeavesBroker(o)
  PROVE  IInv'
  <1>1. /\ resting' = resting \ {o} /\ excused' = excused \ {o} /\ blind' = blind \ {o}
        /\ UNCHANGED <<sent, aged, trading, items, pc, mine, live, todo, keep>>
    BY DEF LeavesBroker, watch
  <1>2. IsFiniteSet(resting')
    BY <1>1, FS_Subset DEF IInv, AllWereSent
  <1>3. TypeOK'
    BY <1>1 DEF IInv, TypeOK, Places
  <1>4. ListInv'
    BY <1>1, <1>2, PollersAssumption
       DEF IInv, ListInv, AllWereSent, HoldsTheList, Watching, PassForgetsNothing,
           RestingIsWatched, AboutToBeSaved
  <1>5. InSight' \subseteq InSight /\ (InSight \ blind)' \subseteq InSight \ blind
    BY <1>1 DEF InSight
  <1>6. QED
    BY <1>3, <1>4, <1>5, FewerInSight DEF IInv, ListInv

\* The clock, the other processes and stuttering.
LEMMA WorldKeeps ==
  ASSUME IInv, aged' \in 0 .. MaxOrders, trading' \in {"on", "halted", "closed"},
         UNCHANGED <<resting, sent, items, pc, mine, live, todo, keep, excused, blind>>
  PROVE  IInv'
  <1>1. TypeOK'
    BY DEF IInv, TypeOK
  <1>2. ListInv'
    BY DEF IInv, ListInv, AllWereSent, HoldsTheList, Watching, PassForgetsNothing,
       RestingIsWatched, AboutToBeSaved
  <1>3. InSight' \subseteq InSight /\ (InSight \ blind)' \subseteq InSight \ blind
    BY DEF InSight
  <1>4. QED
    BY <1>1, <1>2, <1>3, FewerInSight DEF IInv, ListInv

\* The sending of an order, blind or not, answered or not.
LEMMA ParksOrderKeeps ==
  ASSUME IInv, NEW p \in Pollers, NEW level \in Levels, NEW reply, ParksOrder(p, level, reply)
  PROVE  IInv'
  <1> DEFINE o == NewOrder(level)
  <1>1. /\ pc[p] = "sending" /\ Fits(mine[p], level)
        /\ sent < MaxOrders /\ sent' = sent + 1
        /\ resting' = resting \cup {o}
        /\ blind' = IF SendsBlind(p) THEN blind \cup {o} ELSE blind
        /\ UNCHANGED <<aged, trading, items, live, todo, keep>>
        /\ \/ /\ pc' = [pc EXCEPT ![p] = "parking"] /\ excused' = excused
              /\ mine' = [mine EXCEPT ![p] = mine[p] \cup {o}]
           \/ /\ pc' = [pc EXCEPT ![p] = "up"] /\ excused' = excused \cup {o}
              /\ mine' = [mine EXCEPT ![p] = {}]
    BY DEF ParksOrder, Goes, watch
  <1>2. o \in Order /\ o.level = level /\ o.id = sent + 1 /\ sent \in Int
    BY <1>1, MaxOrdersAssumption DEF IInv, TypeOK, Order, NewOrder
  <1> HIDE DEF o
  <1>3. o \notin resting \cup mine[Daemon]
    BY <1>2, PollersAssumption DEF IInv, AllWereSent
  <1>4. TypeOK'
    <2>1. mine' \in [Pollers -> SUBSET Order] /\ pc' \in [Pollers -> Places]
      BY <1>1, <1>2 DEF IInv, TypeOK, Places
    <2>2. sent' \in 0 .. MaxOrders
      BY <1>1, <1>2, MaxOrdersAssumption DEF IInv, TypeOK
    <2>3. QED
      BY <1>1, <1>2, <2>1, <2>2 DEF IInv, TypeOK
  <1>5. AllWereSent'
    <2>1. IsFiniteSet(resting \cup {o}) /\ IsFiniteSet(mine[p] \cup {o}) /\ IsFiniteSet({})
      BY FS_AddElement, FS_EmptySet DEF IInv, AllWereSent
    <2>2. /\ IsFiniteSet(resting') /\ IsFiniteSet(items')
          /\ \A q \in Pollers : IsFiniteSet(mine'[q])
      BY <1>1, <2>1 DEF IInv, TypeOK, AllWereSent
    <2>3. \A q \in Pollers : mine'[q] \subseteq mine[q] \cup {o}
      BY <1>1 DEF IInv, TypeOK
    <2>4. /\ \A x \in resting \cup items : x.id <= sent + 1
          /\ \A q \in Pollers : \A x \in mine[q] : x.id <= sent + 1
      <3>1. \A x \in Order : x.id \in Int
        BY MaxOrdersAssumption DEF Order
      <3>2. /\ resting \cup items \subseteq Order
            /\ \A q \in Pollers : mine[q] \subseteq Order
        BY DEF IInv, TypeOK
      <3>3. /\ \A x \in resting \cup items : x.id <= sent
            /\ \A q \in Pollers : \A x \in mine[q] : x.id <= sent
        BY DEF IInv, AllWereSent
      <3>4. QED
        BY <1>2, <3>1, <3>2, <3>3
    <2>5. \A x \in resting' \cup items' : x.id <= sent'
      BY <1>1, <1>2, <2>4
    <2>6. \A q \in Pollers : \A x \in mine'[q] : x.id <= sent'
      BY <1>1, <1>2, <2>3, <2>4
    <2>7. QED
      BY <2>2, <2>5, <2>6 DEF AllWereSent
  <1>6. HoldsTheList' /\ PassForgetsNothing'
    BY <1>1, <1>3, PollersAssumption
       DEF IInv, TypeOK, HoldsTheList, Watching, PassForgetsNothing
  <1>7. RestingIsWatched'
    BY <1>1 DEF IInv, TypeOK, RestingIsWatched, AboutToBeSaved
  <1>8. (AtMostPendingMax /\ NoStackedLimits)'
    <2>1. CASE SendsBlind(p) \/ o \in excused'
      <3>1. (InSight \ blind)' \subseteq InSight \ blind
        BY <1>1, <2>1 DEF InSight
      <3>2. InSight' \subseteq InSight \cup {o}
        BY <1>1 DEF InSight
      <3>3. QED
        BY <1>2, <1>3, <3>1, <3>2, SentUncounted
    <2>2. CASE ~SendsBlind(p)
      <3>1. /\ InSight' \subseteq InSight \cup {o}
            /\ (InSight \ blind)' \subseteq (InSight \ blind) \cup {o}
        BY <1>1, <2>2 DEF InSight
      <3>2. QED
        BY <1>1, <1>2, <2>2, <3>1, SentWithFullView
    <2>3. QED
      BY <2>1, <2>2
  <1>9. QED
    BY <1>4, <1>5, <1>6, <1>7, <1>8 DEF IInv

LEMMA StepInv == IInv /\ [Next]_vars => IInv'
  <1> SUFFICES ASSUME IInv, [Next]_vars PROVE IInv'
    OBVIOUS
  <1>1. CASE \E p \in Pollers : PollerStep(p)
    BY <1>1, LoadsListKeeps, ParksOrderKeeps, GivesUpKeeps, SavesParkedKeeps, DiesKeeps
       DEF PollerStep
  <1>2. CASE Withdraws
    BY <1>2, WithdrawsKeeps
  <1>3. CASE \E reply \in {"listed", "nothing", "HTTP error"} : ReadsOrders(reply)
    BY <1>3, ReadsOrdersKeeps
  <1>4. CASE \E o \in todo, reply \in {"done", "refused"} : Judges(o, reply)
    BY <1>4, JudgesKeeps
  <1>5. CASE \E o \in todo, reply \in {"done", "refused"} : Cancels(o, reply)
    BY <1>5, CancelsKeeps
  <1>6. CASE SavesWatched
    BY <1>6, SavesWatchedKeeps
  <1>7. CASE Restarts
    BY <1>7, RestartsKeeps
  <1>8. CASE \E o \in resting : LeavesBroker(o)
    BY <1>8, LeavesBrokerKeeps
  <1>9. CASE Ages
    <2>1. aged' \in 0 .. MaxOrders
      BY <1>9, MaxOrdersAssumption DEF Ages, IInv, TypeOK
    <2>2. QED
      BY <1>9, <2>1, WorldKeeps DEF Ages, watch, IInv, TypeOK
  <1>10. CASE TradingChanges
    BY <1>10, WorldKeeps DEF TradingChanges, watch, IInv, TypeOK
  <1>11. CASE UNCHANGED vars
    BY <1>11, WorldKeeps DEF vars, IInv, TypeOK
  <1>12. QED
    BY <1>1, <1>2, <1>3, <1>4, <1>5, <1>6, <1>7, <1>8, <1>9, <1>10, <1>11 DEF Next

-----------------------------------------------------------------------------
(* The results.                                                             *)

\* Every state satisfies the invariant: in the middle of a pass nothing that
\* rests has been forgotten, whoever else writes the list meanwhile.
THEOREM Invariance == Spec => []IInv
  <1>1. QED
    BY InitInv, StepInv, PTL DEF Spec

\* The type invariant of the limit orders.
THEOREM TypeCorrect == Spec => []TypeOK
  <1>1. IInv => TypeOK
    BY DEF IInv
  <1>2. QED
    BY <1>1, Invariance, PTL

\* An order that rests is on the watch list or about to be saved on it, unless
\* a lost answer, a death between order and save, an order list that did not
\* come, a refused cancel, or a save over a list that another poller had
\* changed took it out of sight.
THEOREM WatchedUnlessLost == Spec => []RestingIsWatched
  <1>1. IInv => RestingIsWatched
    BY DEF IInv
  <1>2. QED
    BY <1>1, Invariance, PTL

\* At most PendingMax orders rest at once (docstring of signal_pending), of
\* those in sight that no poller sent on a list another poller had outgrown.
THEOREM CapHolds == Spec => []AtMostPendingMax
  <1>1. IInv => AtMostPendingMax
    BY DEF IInv
  <1>2. QED
    BY <1>1, Invariance, PTL

\* A channel that repeats a level stacks an order on one in sight only from a
\* poller that sent it on a list another poller had outgrown.
THEOREM NothingStacks == Spec => []NoStackedLimits
  <1>1. IInv => NoStackedLimits
    BY DEF IInv
  <1>2. QED
    BY <1>1, Invariance, PTL

-----------------------------------------------------------------------------
(* Pollers that take turns.                                                 *)

\* At most one poller is in a pass.
TakeTurns ==
  \A p, q \in Pollers : p # q => pc[p] \in {"up", "down"} \/ pc[q] \in {"up", "down"}

\* Nobody sends on a list that was outgrown.
AllSeen ==
  /\ blind = {}
  /\ \A p \in Pollers : pc[p] = "sending" => Unseen(p) = {}

LEMMA TurnsInit == Init => AllSeen
  BY DEF Init, AllSeen

LEMMA TurnsStep == IInv /\ TakeTurns /\ AllSeen /\ [Next]_vars => AllSeen'
  <1> SUFFICES ASSUME IInv, TakeTurns, AllSeen, [Next]_vars PROVE AllSeen'
    OBVIOUS
  <1> USE DEF AllSeen, Unseen
  <1>0. pc \in [Pollers -> Places] /\ mine \in [Pollers -> SUBSET Order]
    BY DEF IInv, TypeOK
  <1>1. ASSUME NEW p \in Pollers, LoadsList(p) \/ GivesUp(p) \/ Dies(p)
        PROVE  AllSeen'
    BY <1>0, <1>1 DEF LoadsList, GivesUp, Dies, Goes, world, watch
  <1>2. ASSUME NEW p \in Pollers, NEW level, NEW reply, ParksOrder(p, level, reply)
        PROVE  AllSeen'
    <2>1. ~SendsBlind(p)
      BY <1>2 DEF ParksOrder, SendsBlind, TakeTurns
    <2>2. QED
      BY <1>0, <1>2, <2>1 DEF ParksOrder, Goes, watch
  <1>3. ASSUME NEW p \in Pollers, SavesParked(p)
        PROVE  AllSeen'
    BY <1>0, <1>3 DEF SavesParked, Goes, world, watch, TakeTurns
  <1>4. CASE SavesWatched
    BY <1>0, <1>4, PollersAssumption DEF SavesWatched, Goes, ForgetsWatch, world, TakeTurns
  <1>5. CASE Withdraws \/ \E reply \in {"listed", "nothing", "HTTP error"} : ReadsOrders(reply)
    BY <1>0, <1>5, PollersAssumption DEF Withdraws, ReadsOrders, Goes, world
  <1>6. CASE \E o \in todo, reply \in {"done", "refused"} : Judges(o, reply) \/ Cancels(o, reply)
    BY <1>6, CancelFacts DEF Judges, Cancels
  <1>7. CASE Restarts \/ (\E o \in resting : LeavesBroker(o)) \/ Ages \/ TradingChanges
    BY <1>0, <1>7, PollersAssumption
       DEF Restarts, LeavesBroker, Ages, TradingChanges, world, watch
  <1>8. CASE UNCHANGED vars
    BY <1>8 DEF vars
  <1>9. QED
    BY <1>1, <1>2, <1>3, <1>4, <1>5, <1>6, <1>7, <1>8 DEF Next, PollerStep

\* The cap and the duplicate check as the code states them, of every order in
\* sight: they hold as long as no two pollers are in a pass at the same time.
THEOREM LimitsHoldInTurn ==
  Spec /\ []TakeTurns =>
    [](/\ Cardinality(InSight) <= PendingMax
       /\ \A o, p \in InSight : o # p => o.level # p.level)
  <1>1. IInv /\ AllSeen => /\ Cardinality(InSight) <= PendingMax
                           /\ \A o, p \in InSight : o # p => o.level # p.level
    <2> SUFFICES ASSUME IInv, AllSeen
                 PROVE  /\ Cardinality(InSight) <= PendingMax
                        /\ \A o, p \in InSight : o # p => o.level # p.level
      OBVIOUS
    <2>1. InSight \ blind = InSight
      BY DEF AllSeen
    <2>2. \A o, p \in InSight : o # p => o.level # p.level \/ p.id < o.id \/ o.id < p.id
      BY MaxOrdersAssumption DEF InSight, IInv, TypeOK, Order
    <2>3. \A o, p \in InSight : p.id < o.id => o.level # p.level
      BY <2>1 DEF IInv, NoStackedLimits
    <2>4. Cardinality(InSight) <= PendingMax
      BY <2>1 DEF IInv, AtMostPendingMax
    <2>5. QED
      BY <2>2, <2>3, <2>4
  <1>2. QED
    BY <1>1, Invariance, TurnsInit, TurnsStep, PTL DEF Spec

-----------------------------------------------------------------------------
(* How far the violated DroppedIsGone is from the truth.                    *)

\* The one thing a save may take off the list while it rests is an order that
\* is out of sight from then on.
LEMMA StepDrops ==
  ASSUME IInv, [Next]_vars
  PROVE  \A o \in items \ items' : o \in resting => o \in excused'
  <1>1. CASE SavesWatched
    BY <1>1 DEF SavesWatched, Unseen, IInv, PassForgetsNothing, Watching
  <1>2. ASSUME NEW p \in Pollers, SavesParked(p)
        PROVE  \A o \in items \ items' : o \in resting => o \in excused'
    BY <1>2 DEF SavesParked, Unseen
  <1>3. CASE ~SavesWatched /\ \A p \in Pollers : ~SavesParked(p)
    <2>1. items' = items
      BY <1>3 DEF Next, PollerStep, vars, world, watch, LoadsList, ParksOrder, GivesUp, Dies,
         Withdraws, ReadsOrders, Judges, Cancels, Restarts, LeavesBroker, Ages, TradingChanges
    <2>2. QED
      BY <2>1
  <1>4. QED
    BY <1>1, <1>2, <1>3

\* An order leaves the watch list only when it has left the broker, or after
\* an order list that did not come, a refused cancel, or by a save over
\* another poller's ("transient bridge error: do nothing this tick" fails by
\* the first two, the third is the missing lock).
THEOREM DroppedUnlessOutOfSight ==
  Spec => [][\A o \in items \ items' : o \in resting => o \in excused']_vars
  <1>1. IInv /\ [Next]_vars => [\A o \in items \ items' : o \in resting => o \in excused']_vars
    BY StepDrops
  <1>2. QED
    BY <1>1, Invariance, PTL DEF Spec

\* If every answer arrives, every cancel is done and no poller saves over
\* another's list, the comment is true: no order that rests is ever dropped.
THEOREM AnsweredNothingIsDropped == Spec /\ [](excused = {}) => DroppedIsGone
  <1>1. IInv /\ (excused = {})' /\ [Next]_vars => [\A o \in items \ items' : o \notin resting]_vars
    BY StepDrops
  <1>2. QED
    BY <1>1, Invariance, PTL DEF Spec, DroppedIsGone
=============================================================================
