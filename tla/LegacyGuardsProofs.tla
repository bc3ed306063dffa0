------------------------- MODULE LegacyGuardsProofs -------------------------
(***************************************************************************)
(* Proofs about the time exit and the alert, for any clock, bounds and     *)
(* failures: the calibration is tight, no exit is early, none is later     *)
(* than what its manager does not know of the clock, and a failure of the  *)
(* guards stays unpaged only under the page before it.                     *)
(***************************************************************************)
EXTENDS LegacyGuards, WellFoundedInduction, TLAPS

-----------------------------------------------------------------------------
(* The inductive invariant.                                                 *)

\* Since the last poll either nothing was ticked, or it was ticked later.
PollIsBehind ==
  /\ ticked =< now /\ prev.at =< now
  /\ prev # NoPoll => prev.tick = Tick \/ ticked >= prev.at

\* The watchdog does not see a position before it is there.
SeenAfterOpening ==
  /\ opened =< now
  /\ detected > 0 => opened > 0 /\ detected >= opened
  /\ closed > 0 => opened > 0

\* The alert file vouches for a page, but for the one being sent.
RecordMeansPaged ==
  /\ paging => report \in Failures
  /\ record.at =< now
  /\ record.key \in Failures =>
       /\ record.at > 0
       /\ \/ paging /\ report = record.key
          \/ record.key \in dropped
          \/ told[record.key] >= record.at

IInv ==
  /\ TypeOK
  /\ PollIsBehind /\ CalibrationIsTight
  /\ SeenAfterOpening /\ ExitNeverEarly
  /\ RecordMeansPaged

USE ClockAssumption, GuardsAssumption

-----------------------------------------------------------------------------
(* The estimate.                                                            *)

\* A set of integers that is bounded below has a least element.
LEMMA LeastInteger ==
  ASSUME NEW S, NEW b \in Int, S # {}, \A x \in S : x \in Int /\ b =< x
  PROVE  \E x \in S : \A y \in S : x =< y
  <1> DEFINE N == {x - b : x \in S}
  <1>1. N \subseteq Nat /\ N # {}
    OBVIOUS
  <1>2. PICK m \in N : \A k \in N : ~(<<k, m>> \in OpToRel(<, Nat))
    BY <1>1, WFMin, NatLessThanWellFounded, Zenon
  <1>3. \A k \in N : ~(k < m)
    BY <1>1, <1>2 DEF OpToRel
  <1>4. PICK x \in S : m = x - b
    OBVIOUS
  <1>5. \A y \in S : x =< y
    <2> TAKE y \in S
    <2>1. ~(y - b < m)
      BY <1>3
    <2>2. QED
      BY <2>1, <1>4
  <1>6. QED
    BY <1>5

\* The estimate is one of the samples, so it is as near as they are.
LEMMA EstimateIsNear ==
  ASSUME NEW s \in Seq(Int), s # <<>>, \A i \in DOMAIN s : Near(s[i])
  PROVE  Estimate(s) \in Int /\ Near(Estimate(s))
  <1>1. Range(s) # {} /\ \A x \in Range(s) : x \in Int /\ Near(x)
    BY DEF Range
  <1>2. \E x \in Range(s) : \A y \in Range(s) : x =< y
    BY <1>1, LeastInteger, Offset - MaxGap \in Int DEF Near
  <1>3. Estimate(s) = Min(Range(s))
    BY DEF Estimate
  <1>4. Estimate(s) \in Range(s)
    BY <1>2, <1>3 DEF Min
  <1>5. QED
    BY <1>1, <1>4

LEMMA EstimateType ==
  ASSUME NEW s \in Seq(Int), \A i \in DOMAIN s : Near(s[i])
  PROVE  Estimate(s) \in Int
  <1>1. CASE s = <<>>
    BY <1>1 DEF Estimate
  <1>2. CASE s # <<>>
    BY <1>2, EstimateIsNear
  <1>3. QED
    BY <1>1, <1>2

\* What is kept are the samples there were, and the new one.
LEMMA KeptSamples ==
  ASSUME NEW s \in Seq(Int), Len(s) =< Window, NEW x \in Int,
         Near(x), \A i \in DOMAIN s : Near(s[i])
  PROVE  LET k == Kept(Append(s, x)) IN
           k \in Seq(Int) /\ Len(k) =< Window /\ \A i \in DOMAIN k : Near(k[i])
  <1> DEFINE a == Append(s, x)
  <1>1. a \in Seq(Int) /\ Len(a) = Len(s) + 1 /\ \A i \in DOMAIN a : Near(a[i])
    OBVIOUS
  <1>2. Len(a) > 0 /\ a # <<>>
    BY <1>1
  <1>3. /\ Tail(a) \in Seq(Int) /\ Len(Tail(a)) = Len(a) - 1
        /\ \A i \in DOMAIN Tail(a) : Near(Tail(a)[i])
    BY <1>1, <1>2
  <1>4. QED
    BY <1>1, <1>3 DEF Kept

-----------------------------------------------------------------------------
(* The calibration.                                                         *)

\* What a poll does to the invariant's clock part.
LEMMA MeasuresInv ==
  ASSUME ClockType, PollIsBehind, CalibrationIsTight,
         Measures, Publishes, UNCHANGED <<now, ticked>>
  PROVE  ClockType' /\ PollIsBehind' /\ CalibrationIsTight'
  <1>1. /\ now \in Nat \ {0} /\ ticked \in Nat /\ Tick \in Int /\ Tick - now \in Int
        /\ Tick' = Tick
    BY DEF ClockType, Tick
  <1>2. StreamIsLive => Near(Tick - now)
    <2> SUFFICES ASSUME StreamIsLive PROVE Near(Tick - now)
      OBVIOUS
    <2>1. prev.at \in Nat /\ prev.tick \in Int
      BY DEF ClockType
    <2>2. prev.at < now /\ now - prev.at =< MaxGap /\ Tick - prev.tick > 0
      BY <1>1, <2>1 DEF StreamIsLive
    <2>3. ticked >= prev.at /\ ticked =< now
      BY <1>1, <2>1, <2>2 DEF PollIsBehind, StreamIsLive
    <2>4. QED
      BY <1>1, <2>1, <2>2, <2>3 DEF Near, Tick
  <1>3. samples' \in Seq(Int) /\ Len(samples') =< Window /\ \A i \in DOMAIN samples' : Near(samples'[i])
    <2>1. CASE StreamIsLive /\ Plausible(Tick - now)
      BY <1>1, <1>2, <2>1, KeptSamples DEF Measures, ClockType, CalibrationIsTight
    <2>2. CASE ~(StreamIsLive /\ Plausible(Tick - now))
      BY <2>2 DEF Measures, ClockType, CalibrationIsTight
    <2>3. QED
      BY <2>1, <2>2
  <1>4. published' \in [offset : Int, at : Nat] /\ (published' # Unknown => Near(published'.offset))
    <2>1. CASE published' = published
      BY <2>1 DEF ClockType, CalibrationIsTight
    <2>2. CASE published' # published
      <3>1. samples' # <<>> /\ published' = [offset |-> Estimate(samples'), at |-> now]
        BY <2>2 DEF Publishes
      <3>2. Estimate(samples') \in Int /\ Near(Estimate(samples'))
        BY <1>3, <3>1, EstimateIsNear
      <3>3. QED
        BY <1>1, <3>1, <3>2
    <2>3. QED
      BY <2>1, <2>2
  <1>5. prev' = [tick |-> Tick, at |-> now]
    BY DEF Measures
  <1>6. ClockType'
    BY <1>1, <1>3, <1>4, <1>5 DEF ClockType
  <1>7. PollIsBehind'
    BY <1>1, <1>5 DEF PollIsBehind, ClockType
  <1>8. CalibrationIsTight'
    BY <1>3, <1>4 DEF CalibrationIsTight, Near
  <1>9. QED
    BY <1>6, <1>7, <1>8

\* How late an exit may be: what the manager does not know of the clock.
DogIgnores == IF samples' = <<>> THEN Offset ELSE MaxGap
CycleIgnores ==
  IF HasCalibration THEN MaxGap
  ELSE IF detected > 0 THEN detected - opened ELSE Offset

\* The believed openings are not before the true one.
LEMMA DogBelievesLater ==
  ASSUME opened \in Nat, samples' \in Seq(Int), \A i \in DOMAIN samples' : Near(samples'[i])
  PROVE  /\ DogBelieves \in Int /\ DogBelieves >= opened
         /\ DogBelieves =< opened + DogIgnores
  <1>1. CASE samples' = <<>>
    BY <1>1 DEF DogBelieves, DogIgnores, Stamp, Estimate
  <1>2. CASE samples' # <<>>
    <2>1. Estimate(samples') \in Int /\ Near(Estimate(samples'))
      BY <1>2, EstimateIsNear
    <2>2. QED
      BY <1>2, <2>1 DEF DogBelieves, DogIgnores, Stamp, Near
  <1>3. QED
    BY <1>1, <1>2

LEMMA CycleBelievesLater ==
  ASSUME TypeOK, CalibrationIsTight, SeenAfterOpening
  PROVE  /\ CycleBelieves \in Int /\ CycleBelieves >= opened
         /\ CycleBelieves =< opened + CycleIgnores
  <1>1. opened \in Nat /\ detected \in Nat /\ published.offset \in Int
    BY DEF TypeOK, ClockType
  <1>2. CASE HasCalibration
    <2>1. Near(published.offset)
      BY <1>2 DEF HasCalibration, CalibrationIsTight
    <2>2. QED
      BY <1>1, <1>2, <2>1 DEF CycleBelieves, CycleIgnores, Stamp, Near
  <1>3. CASE ~HasCalibration
    BY <1>1, <1>3 DEF CycleBelieves, CycleIgnores, Stamp, SeenAfterOpening
  <1>4. QED
    BY <1>2, <1>3

-----------------------------------------------------------------------------
(* The steps.                                                               *)

LEMMA NoSamples == <<>> \in Seq(Int) /\ Len(<<>>) =< Window
  OBVIOUS

LEMMA InitInv == Init => IInv
  <1> SUFFICES ASSUME Init PROVE IInv
    OBVIOUS
  <1>1. TypeOK
    <2>1. ClockType
      BY NoSamples DEF Init, ClockInit, ClockType, NoPoll, Unknown
    <2>2. QED
      BY <2>1 DEF Init, TypeOK, Reports, Silent
  <1>2. PollIsBehind /\ CalibrationIsTight /\ SeenAfterOpening /\ ExitNeverEarly
    BY DEF Init, ClockInit, PollIsBehind, CalibrationIsTight, SeenAfterOpening,
           ExitNeverEarly, NoPoll, Unknown
  <1>3. RecordMeansPaged
    BY DEF Init, ClockInit, RecordMeansPaged, Silent
  <1>4. QED
    BY <1>1, <1>2, <1>3 DEF IInv

\* The clock part and the position part do not see the alert.
LEMMA ClockStays ==
  ASSUME IInv, UNCHANGED clock
  PROVE  ClockType' /\ PollIsBehind' /\ CalibrationIsTight'
  BY DEF IInv, TypeOK, clock, ClockType, PollIsBehind, CalibrationIsTight, Near, Tick

LEMMA PositionStays ==
  ASSUME IInv, UNCHANGED <<now, opened, detected, closed>>
  PROVE  SeenAfterOpening' /\ ExitNeverEarly'
  BY DEF IInv, SeenAfterOpening, ExitNeverEarly

LEMMA AlertStays ==
  ASSUME IInv, UNCHANGED <<now, report, paging, record, told, dropped>>
  PROVE  RecordMeansPaged'
  BY DEF IInv, RecordMeansPaged

LEMMA TimeInv == IInv /\ (Elapses \/ Trades) => IInv'
  <1> SUFFICES ASSUME IInv, Elapses \/ Trades PROVE IInv'
    OBVIOUS
  <1>1. now' \in Nat \ {0} /\ now' >= now /\ UNCHANGED <<prev, samples, published, dog, position, alert>>
    BY DEF IInv, TypeOK, ClockType, Elapses, Trades, TimePasses, MarketMoves
  <1>2. ticked' = ticked \/ (ticked' = now /\ now' = now)
    BY DEF Elapses, Trades, TimePasses, MarketMoves
  <1>3. TypeOK'
    BY <1>1, <1>2 DEF IInv, TypeOK, ClockType, position, alert
  <1>4. PollIsBehind'
    BY <1>1, <1>2 DEF IInv, TypeOK, ClockType, PollIsBehind, Tick
  <1>5. CalibrationIsTight' /\ ExitNeverEarly'
    BY <1>1 DEF IInv, CalibrationIsTight, ExitNeverEarly, position
  <1>6. SeenAfterOpening'
    BY <1>1 DEF IInv, TypeOK, ClockType, SeenAfterOpening, position
  <1>7. RecordMeansPaged'
    BY <1>1 DEF IInv, TypeOK, ClockType, RecordMeansPaged, alert
  <1>8. QED
    BY <1>3, <1>4, <1>5, <1>6, <1>7 DEF IInv

LEMMA OpensInv == IInv /\ Opens => IInv'
  <1> SUFFICES ASSUME IInv, Opens PROVE IInv'
    OBVIOUS
  <1>1. UNCHANGED clock /\ UNCHANGED <<now, dog, detected, closed, report, paging, record, told, dropped>>
    BY DEF Opens, clock, alert
  <1>2. TypeOK'
    BY <1>1, ClockStays DEF IInv, TypeOK, ClockType, Opens
  <1>3. SeenAfterOpening' /\ ExitNeverEarly'
    BY <1>1 DEF IInv, TypeOK, ClockType, SeenAfterOpening, ExitNeverEarly, Opens
  <1>4. QED
    BY <1>1, <1>2, <1>3, ClockStays, AlertStays DEF IInv

LEMMA PollsInv ==
  ASSUME IInv, NEW evaluates \in BOOLEAN, NEW accepted \in BOOLEAN, Polls(evaluates, accepted)
  PROVE  IInv'
  <1>1. ClockType' /\ PollIsBehind' /\ CalibrationIsTight'
    BY MeasuresInv DEF IInv, TypeOK, Polls
  <1>2. UNCHANGED <<now, ticked, dog, opened, report, paging, record, told, dropped>>
    BY DEF Polls, alert
  <1>3. detected' = detected \/ (IsOpen /\ detected' = now)
    BY DEF Polls
  <1>4. closed' = closed \/ (IsOpen /\ IsDue(DogBelieves) /\ closed' = now)
    BY DEF Polls, Exits
  <1>5. TypeOK'
    BY <1>1, <1>2, <1>3, <1>4 DEF IInv, TypeOK, ClockType
  <1>6. SeenAfterOpening'
    BY <1>2, <1>3, <1>4 DEF IInv, TypeOK, ClockType, SeenAfterOpening, IsOpen
  <1>7. ExitNeverEarly'
    <2>1. CASE closed' = closed
      BY <1>2, <2>1 DEF IInv, ExitNeverEarly
    <2>2. CASE IsOpen /\ IsDue(DogBelieves) /\ closed' = now
      <3>1. DogBelieves \in Int /\ DogBelieves >= opened
        BY <1>1, DogBelievesLater DEF IInv, TypeOK, ClockType, CalibrationIsTight, Near
      <3>2. QED
        BY <1>2, <2>2, <3>1 DEF IInv, TypeOK, ClockType, ExitNeverEarly, IsDue
    <2>3. QED
      BY <1>4, <2>1, <2>2
  <1>8. QED
    BY <1>1, <1>2, <1>5, <1>6, <1>7, AlertStays DEF IInv

LEMMA DogInv ==
  ASSUME IInv, DogStarts \/ \E saved \in BOOLEAN : DogDies(saved)
  PROVE  IInv'
  <1>1. CASE DogStarts
    <2>1. TypeOK'
      BY <1>1, ClockStays DEF IInv, TypeOK, DogStarts, position, alert
    <2>2. UNCHANGED <<now, opened, detected, closed, report, paging, record, told, dropped>>
      BY <1>1 DEF DogStarts, clock, position, alert
    <2>3. UNCHANGED clock
      BY <1>1 DEF DogStarts
    <2>4. QED
      BY <2>1, <2>2, <2>3, ClockStays, PositionStays, AlertStays DEF IInv
  <1>2. ASSUME NEW saved \in BOOLEAN, DogDies(saved) PROVE IInv'
    <2>1. /\ prev' = NoPoll /\ samples' = <<>> /\ dog' = FALSE
          /\ UNCHANGED <<now, ticked, published, opened, closed, report, paging, record, told, dropped>>
      BY <1>2 DEF DogDies, Forgets, alert
    <2>2. detected' = detected \/ detected' = 0
      BY <1>2 DEF DogDies
    <2>3. TypeOK'
      <3>1. ClockType'
        BY <2>1, NoSamples DEF IInv, TypeOK, ClockType, NoPoll
      <3>2. dog' \in BOOLEAN /\ detected' \in Nat /\ opened' \in Nat /\ closed' \in Nat
        <4>1. detected \in Nat /\ opened \in Nat /\ closed \in Nat
          BY DEF IInv, TypeOK
        <4>2. opened' = opened /\ closed' = closed /\ dog' \in BOOLEAN
          BY <2>1
        <4>3. QED
          BY <2>2, <4>1, <4>2
      <3>3. /\ report' \in Reports /\ paging' \in BOOLEAN
            /\ record' \in [key : Failures \cup {"none"}, at : Nat]
            /\ told' \in [Failures -> Nat] /\ dropped' \subseteq Failures
        BY <2>1 DEF IInv, TypeOK, Reports
      <3>4. QED
        BY <3>1, <3>2, <3>3 DEF TypeOK, Reports
    <2>4. PollIsBehind' /\ CalibrationIsTight' /\ SeenAfterOpening' /\ ExitNeverEarly'
      BY <2>1, <2>2 DEF IInv, TypeOK, ClockType, PollIsBehind, CalibrationIsTight, Near,
         SeenAfterOpening, ExitNeverEarly, NoPoll
    <2>5. QED
      BY <2>1, <2>3, <2>4, AlertStays DEF IInv
  <1>3. QED
    BY <1>1, <1>2

\* The cycle's guards may close the position, and that never early.
LEMMA CycleInv ==
  ASSUME IInv,
         \/ StandsBack
         \/ \E locked, blind, halted, accepted \in BOOLEAN :
              Guards(locked, blind, halted, accepted)
         \/ \E f \in Failures : GuardsFail(f)
  PROVE  IInv'
  <1>1. /\ UNCHANGED clock /\ report = "idle" /\ report' \in Reports
        /\ UNCHANGED <<now, dog, opened, detected, paging, record, told, dropped>>
    BY DEF StandsBack, Guards, GuardsFail, clock, position, Reports, GuardsAssumption
  <1>2. closed' = closed \/ (IsOpen /\ IsDue(CycleBelieves) /\ closed' = now)
    BY DEF StandsBack, Guards, GuardsFail, Exits, position
  <1>3. TypeOK'
    BY <1>1, <1>2, ClockStays DEF IInv, TypeOK, ClockType
  <1>4. SeenAfterOpening'
    BY <1>1, <1>2 DEF IInv, TypeOK, ClockType, SeenAfterOpening, IsOpen
  <1>5. ExitNeverEarly'
    <2>1. CASE closed' = closed
      BY <1>1, <2>1 DEF IInv, ExitNeverEarly
    <2>2. CASE IsOpen /\ IsDue(CycleBelieves) /\ closed' = now
      <3>1. CycleBelieves \in Int /\ CycleBelieves >= opened
        BY CycleBelievesLater DEF IInv
      <3>2. QED
        BY <1>1, <2>2, <3>1 DEF IInv, TypeOK, ClockType, ExitNeverEarly, IsDue
    <2>3. QED
      BY <1>2, <2>1, <2>2
  <1>6. RecordMeansPaged'
    <2>1. ~paging
      BY <1>1, "idle" \notin Failures DEF IInv, RecordMeansPaged
    <2>2. QED
      BY <1>1, <2>1 DEF IInv, RecordMeansPaged
  <1>7. QED
    BY <1>1, <1>3, <1>4, <1>5, <1>6, ClockStays DEF IInv

LEMMA AlertInv ==
  ASSUME IInv,
         \/ \E removed \in BOOLEAN : EndsQuietly(removed)
         \/ \E f \in Failures : Suppresses(f)
         \/ \E f \in Failures, written \in BOOLEAN : Notes(f, written)
         \/ \E f \in Failures, sent \in BOOLEAN : Pages(f, sent)
         \/ MasterDies
  PROVE  IInv'
  <1>1. UNCHANGED clock /\ UNCHANGED <<now, dog, opened, detected, closed>>
    BY DEF EndsQuietly, Suppresses, Notes, Pages, MasterDies, clock, position
  <1>2. TypeOK' /\ RecordMeansPaged'
    <2>1. ASSUME NEW removed \in BOOLEAN, EndsQuietly(removed)
          PROVE  TypeOK' /\ RecordMeansPaged'
      <3>1. ~paging /\ paging' = paging /\ report' = "idle"
        BY <2>1 DEF IInv, RecordMeansPaged, EndsQuietly
      <3>2. CASE report = "healthy" /\ removed
        <4>1. record' = Silent /\ told' = [f \in Failures |-> 0] /\ dropped' = {}
          BY <2>1, <3>2 DEF EndsQuietly
        <4>2. RecordMeansPaged'
          BY <1>1, <3>1, <4>1 DEF IInv, TypeOK, ClockType, RecordMeansPaged, Silent
        <4>3. TypeOK'
          BY <1>1, <3>1, <4>1, ClockStays DEF IInv, TypeOK, Reports, Silent
        <4>4. QED
          BY <4>2, <4>3
      <3>3. CASE ~(report = "healthy" /\ removed)
        <4>1. UNCHANGED <<record, told, dropped>>
          BY <2>1, <3>3 DEF EndsQuietly
        <4>2. RecordMeansPaged'
          BY <1>1, <3>1, <4>1 DEF IInv, RecordMeansPaged
        <4>3. TypeOK'
          BY <1>1, <3>1, <4>1, ClockStays DEF IInv, TypeOK, Reports
        <4>4. QED
          BY <4>2, <4>3
      <3>4. QED
        BY <3>2, <3>3
    <2>2. ASSUME NEW f \in Failures, Suppresses(f) PROVE TypeOK' /\ RecordMeansPaged'
      BY <1>1, <2>2, ClockStays DEF IInv, TypeOK, RecordMeansPaged, Suppresses, Reports
    <2>3. ASSUME NEW f \in Failures, NEW written \in BOOLEAN, Notes(f, written)
          PROVE  TypeOK' /\ RecordMeansPaged'
      <3>1. /\ report = f /\ report' = report /\ paging' = TRUE /\ ~paging
            /\ UNCHANGED <<told, dropped>>
            /\ record' = IF written THEN [key |-> f, at |-> now] ELSE record
        BY <2>3 DEF Notes, clock, position
      <3>2. now \in Nat \ {0} /\ record \in [key : Failures \cup {"none"}, at : Nat]
        BY DEF IInv, TypeOK, ClockType
      <3>3. TypeOK'
        BY <1>1, <3>1, <3>2, ClockStays DEF IInv, TypeOK
      <3>4. CASE written
        <4>1. record'.key = f /\ record'.at = now /\ now > 0 /\ now =< now
          BY <3>1, <3>2, <3>4
        <4>2. QED
          BY <1>1, <3>1, <3>3, <4>1 DEF RecordMeansPaged
      <3>5. CASE ~written
        BY <1>1, <3>1, <3>3, <3>5 DEF IInv, RecordMeansPaged
      <3>6. QED
        BY <3>4, <3>5
    <2>4. ASSUME NEW f \in Failures, NEW sent \in BOOLEAN, Pages(f, sent)
          PROVE  TypeOK' /\ RecordMeansPaged'
      <3>1. report = f /\ report' = "idle" /\ paging' = FALSE /\ record' = record
        BY <2>4 DEF Pages
      <3>2. \/ told' = [told EXCEPT ![f] = now] /\ dropped' = dropped \ {f}
            \/ told' = told /\ dropped' = dropped \cup {f}
        BY <2>4 DEF Pages
      <3>3. TypeOK'
        <4>1. told' \in [Failures -> Nat] /\ dropped' \subseteq Failures
          <5>1. told \in [Failures -> Nat] /\ dropped \subseteq Failures /\ now \in Nat
            BY DEF IInv, TypeOK, ClockType
          <5>2. QED
            BY <3>2, <5>1
        <4>2. QED
          BY <1>1, <3>1, <4>1, ClockStays DEF IInv, TypeOK, Reports
      <3>4. RecordMeansPaged'
        BY <1>1, <3>1, <3>2 DEF IInv, TypeOK, ClockType, RecordMeansPaged
      <3>5. QED
        BY <3>3, <3>4
    <2>5. CASE MasterDies
      BY <1>1, <2>5, ClockStays DEF IInv, TypeOK, RecordMeansPaged, MasterDies, Reports
    <2>6. QED
      BY <2>1, <2>2, <2>3, <2>4, <2>5
  <1>3. QED
    BY <1>1, <1>2, ClockStays, PositionStays DEF IInv

LEMMA StepInv == IInv /\ [Next]_vars => IInv'
  <1> SUFFICES ASSUME IInv, [Next]_vars PROVE IInv'
    OBVIOUS
  <1>1. CASE Next
    BY <1>1, TimeInv, OpensInv, PollsInv, DogInv, CycleInv, AlertInv DEF Next
  <1>2. CASE UNCHANGED vars
    <2>1. UNCHANGED clock /\ UNCHANGED <<now, dog, opened, detected, closed, report, paging, record, told, dropped>>
      BY <1>2 DEF vars, clock
    <2>2. TypeOK'
      BY <2>1, ClockStays DEF IInv, TypeOK
    <2>3. QED
      BY <2>1, <2>2, ClockStays, PositionStays, AlertStays DEF IInv
  <1>3. QED
    BY <1>1, <1>2

-----------------------------------------------------------------------------
(* The theorems.                                                            *)

\* The inductive invariant: a tick that moved since the last poll is no older
\* than it, detections follow openings, and the alert file vouches for a page
\* (position_daemon.broker_utc_offset_sec, hermes_master.alert_degraded_guards).
THEOREM Invariance == Spec => []IInv
  BY InitInv, StepInv, PTL DEF Spec

\* The type invariant of the guards.
THEOREM TypeCorrect == Spec => []TypeOK
  <1>1. IInv => TypeOK
    BY DEF IInv
  <1>2. QED
    BY <1>1, Invariance, PTL

\* For any market, gap and window: what broker_utc_offset_sec accepts and
\* broker_clock.save_offset publishes is within a gap of the broker's clock,
\* and never ahead of it.
THEOREM CalibrationHolds == Spec => []CalibrationIsTight
  <1>1. IInv => CalibrationIsTight
    BY DEF IInv
  <1>2. QED
    BY <1>1, Invariance, PTL

\* For any clock ahead of UTC: evaluate_time_exit closes no position before its
\* age, whichever manager runs it and whatever it knows of the clock.
THEOREM NeverEarly == Spec => []ExitNeverEarly
  <1>1. IInv => ExitNeverEarly
    BY DEF IInv
  <1>2. QED
    BY <1>1, Invariance, PTL

\* A pass leaves no position older than the limit and what it does not know.
LEMMA LateByIgnorance ==
  ASSUME IInv, IInv'
  PROVE  /\ DogLeaves => LeftOpen(DogIgnores)
         /\ CycleLeaves => LeftOpen(CycleIgnores)
  <1>1. now \in Nat \ {0} /\ opened \in Nat /\ closed \in Nat
    BY DEF IInv, TypeOK, ClockType
  <1>2. ASSUME DogLeaves, IsOpen
        PROVE  Age < ExitAge + DogIgnores
    <2>1. ~IsDue(DogBelieves)
      BY <1>1, <1>2 DEF DogLeaves, Polls, Exits, IsOpen
    <2>2. samples' \in Seq(Int) /\ (\A i \in DOMAIN samples' : Near(samples'[i]))
      BY DEF IInv, TypeOK, ClockType, CalibrationIsTight, Near
    <2>3. DogBelieves \in Int /\ DogBelieves =< opened + DogIgnores /\ DogIgnores \in Int
      BY <1>1, <2>2, DogBelievesLater DEF DogIgnores
    <2>4. QED
      BY <1>1, <2>1, <2>3 DEF IsDue, Age
  <1>3. ASSUME CycleLeaves, IsOpen
        PROVE  Age < ExitAge + CycleIgnores
    <2>1. ~IsDue(CycleBelieves)
      BY <1>1, <1>3 DEF CycleLeaves, Guards, Exits, IsOpen
    <2>2. CycleBelieves \in Int /\ CycleBelieves =< opened + CycleIgnores /\ CycleIgnores \in Int
      BY <1>1, CycleBelievesLater DEF IInv, TypeOK, CycleIgnores
    <2>3. QED
      BY <1>1, <2>1, <2>2 DEF IsDue, Age
  <1>4. QED
    BY <1>2, <1>3 DEF LeftOpen

\* A manager that knows the clock leaves no position older than the limit and
\* one gap, whatever the market does and however often the watchdog restarts.
THEOREM LateByOneGap == Spec => LatenessIsBounded
  <1>1. IInv /\ IInv' =>
          /\ DogLeaves /\ samples' # <<>> => LeftOpen(MaxGap)
          /\ CycleLeaves /\ HasCalibration => LeftOpen(MaxGap)
    BY LateByIgnorance DEF DogIgnores, CycleIgnores
  <1>2. QED
    BY <1>1, Invariance, PTL DEF LatenessIsBounded

\* One that does not is late by at most the broker's offset, which is its error
\* when it takes the raw stamp for UTC, or by the delay of the detection.
THEOREM LateByOffsetOrDetection ==
  Spec => [][/\ DogLeaves /\ samples' = <<>> => LeftOpen(Offset)
             /\ CycleLeaves /\ ~HasCalibration =>
                  LeftOpen(IF detected > 0 THEN detected - opened ELSE Offset)]_vars
  <1>1. IInv /\ IInv' =>
          /\ DogLeaves /\ samples' = <<>> => LeftOpen(Offset)
          /\ CycleLeaves /\ ~HasCalibration =>
               LeftOpen(IF detected > 0 THEN detected - opened ELSE Offset)
    BY LateByIgnorance DEF DogIgnores, CycleIgnores
  <1>2. QED
    BY <1>1, Invariance, PTL

\* A failure of the guards goes unpaged only under a page of the cooldown, or
\* under one that was lost.
THEOREM DegradationReachesTheOperator == Spec => DegradationIsPaged
  <1> DEFINE Covered ==
        \A f \in Failures : Suppresses(f) =>
          f \in dropped \/ (told[f] > 0 /\ now - told[f] < Cooldown)
  <1>1. IInv => Covered
    <2> SUFFICES ASSUME IInv, NEW f \in Failures, Suppresses(f), f \notin dropped
                 PROVE  told[f] > 0 /\ now - told[f] < Cooldown
      OBVIOUS
    <2>1. record.key = f /\ now - record.at < Cooldown /\ ~paging
      BY DEF Suppresses, WasPaged
    <2>2. record.at > 0 /\ told[f] >= record.at
      BY <2>1 DEF IInv, RecordMeansPaged
    <2>3. record.at \in Nat /\ told[f] \in Nat /\ now \in Nat
      BY DEF IInv, TypeOK, ClockType
    <2>4. QED
      BY <2>1, <2>2, <2>3
  <1>2. QED
    BY <1>1, Invariance, PTL DEF DegradationIsPaged

=============================================================================
