------------------------- MODULE SignalPollingProofs -------------------------
(***************************************************************************)
(* Proofs about the signal lane, for any pollers and any number of         *)
(* updates: the offset and the lists of the pollers implement the inbox,   *)
(* nothing that was acknowledged goes missing, the operator's newest       *)
(* acknowledged command is never overtaken by an older one, and a halt     *)
(* ends only in the ways that HaltsEndKnowingly names.                     *)
(***************************************************************************)
EXTENDS SignalPolling, TLAPS

-----------------------------------------------------------------------------
(* The inductive invariant.                                                 *)

OneHolder == \A p, q \in lock : p = q

\* What poller p has fetched, and how far it has served it.
Served(p) == (offset + 1) .. (next[p] - 1)

ServesInOrder(p) ==
  /\ offset < next[p] /\ next[p] <= upto[p] + 1
  /\ upto[p] <= Len(feed)
  /\ seen[p] = "nothing"
  /\ good[p] = {}
  /\ todo[p] = {u \in Served(p) : feed[u] = "signal"}
  /\ \A u \in Served(p) : feed[u] \in Commands => u \in settled /\ u <= word

HoldersServe == \A p \in lock : ServesInOrder(p)

OthersAreBehind ==
  \A p \in Pollers \ lock : todo[p] \subseteq 1 .. offset /\ good[p] \subseteq 1 .. offset

\* No check that goes on has read a halt.
ChecksAreOpen == \A c \in Checkers : seen[c] # "halted"

IInv ==
  /\ TypeOK
  /\ OneHolder /\ HoldersServe /\ OthersAreBehind
  /\ ChecksAreOpen
  /\ AcknowledgedIsHandled
  /\ OperatorHasTheLastWord
  /\ HaltHoldsThePass

\* The part of it that does not depend on the switch.
Place ==
  /\ OneHolder /\ HoldersServe /\ OthersAreBehind
  /\ AcknowledgedIsHandled
  /\ OperatorHasTheLastWord

USE PollersAssumption, MasterAssumption, MaxPostsAssumption

-----------------------------------------------------------------------------
LEMMA InitInv == Init => IInv
  <1> SUFFICES ASSUME Init PROVE IInv
    OBVIOUS
  <1>1. TypeOK
    BY DEF Init, SwitchInit, TypeOK, SwitchType, States, Updates
  <1>2. Place /\ ChecksAreOpen /\ HaltHoldsThePass
    BY DEF Init, SwitchInit, Place, OneHolder, HoldersServe, OthersAreBehind, ChecksAreOpen,
           AcknowledgedIsHandled, OperatorHasTheLastWord, HaltHoldsThePass
  <1>3. QED
    BY <1>1, <1>2 DEF IInv, Place

LEMMA PostsKeeps ==
  ASSUME IInv, NEW kind \in Kinds, Posts(kind)
  PROVE  IInv'
  <1>1. /\ Len(feed) < MaxPosts /\ feed' = Append(feed, kind)
        /\ UNCHANGED <<todo, good, gap, offset, lock, next, upto, settled, lost, word,
                       switch, seen>>
    BY DEF Posts, batch, noted, switchVars
  <1>2. /\ feed' \in Seq(Kinds) /\ Len(feed') = Len(feed) + 1 /\ Len(feed) \in Nat
        /\ \A u \in 1 .. Len(feed) : feed'[u] = feed[u]
    BY <1>1 DEF IInv, TypeOK
  <1>3. TypeOK'
    BY <1>1, <1>2 DEF IInv, TypeOK, SwitchType
  <1>4. HoldersServe'
    <2> SUFFICES ASSUME NEW p \in lock PROVE ServesInOrder(p)'
      BY <1>1 DEF HoldersServe
    <2>1. ServesInOrder(p) /\ p \in Pollers
      BY DEF IInv, HoldersServe, TypeOK
    <2>2. Served(p)' = Served(p)
      BY <1>1 DEF Served
    <2>3. Served(p) \subseteq 1 .. Len(feed)
      BY <2>1 DEF Served, ServesInOrder, IInv, TypeOK
    <2>4. \A u \in Served(p) : feed'[u] = feed[u]
      BY <1>2, <2>3
    <2>5. todo'[p] = {u \in Served(p)' : feed'[u] = "signal"}
      BY <1>1, <2>1, <2>2, <2>4 DEF ServesInOrder
    <2>6. \A u \in Served(p)' : feed'[u] \in Commands => u \in settled' /\ u <= word'
      BY <1>1, <2>1, <2>2, <2>4 DEF ServesInOrder
    <2>7. upto'[p] <= Len(feed')
      BY <1>1, <1>2, <2>1 DEF ServesInOrder, IInv, TypeOK
    <2>8. QED
      BY <1>1, <2>1, <2>5, <2>6, <2>7 DEF ServesInOrder
  <1>5. OperatorHasTheLastWord'
    BY <1>1, <1>2 DEF IInv, TypeOK, OperatorHasTheLastWord
  <1>6. AcknowledgedIsHandled'
    BY <1>1 DEF IInv, AcknowledgedIsHandled, InHand
  <1>7. OneHolder' /\ OthersAreBehind' /\ ChecksAreOpen' /\ HaltHoldsThePass'
    BY <1>1 DEF IInv, OneHolder, OthersAreBehind, ChecksAreOpen, HaltHoldsThePass
  <1>8. QED
    BY <1>3, <1>4, <1>5, <1>6, <1>7 DEF IInv

LEMMA FetchesKeeps ==
  ASSUME IInv, NEW p \in Pollers, Fetches(p)
  PROVE  IInv'
  <1>1. /\ p \notin lock /\ lock = {} /\ lock' = {p}
        /\ todo[p] = {} /\ good[p] = {} /\ seen[p] = "nothing"
        /\ next' = [next EXCEPT ![p] = offset + 1]
        /\ upto' = [upto EXCEPT ![p] = Len(feed)]
        /\ gap' = IF switch = "halted" THEN gap \ {p} ELSE gap
        /\ UNCHANGED <<feed, offset, todo, good, settled, lost, word, switch, seen>>
    BY DEF Fetches, LockFree, InHand, NextUpdate, noted, switchVars
  <1>2. TypeOK'
    BY <1>1 DEF IInv, TypeOK, SwitchType
  <1>3. HoldersServe'
    <2>1. next'[p] = offset + 1 /\ upto'[p] = Len(feed) /\ Len(feed) \in Nat /\ offset \in 0 .. Len(feed)
      BY <1>1 DEF IInv, TypeOK
    <2>2. Served(p)' = {}
      BY <1>1, <2>1 DEF Served
    <2>3. ServesInOrder(p)'
      BY <1>1, <2>1, <2>2 DEF ServesInOrder
    <2>4. QED
      BY <1>1, <2>3 DEF HoldersServe
  <1>4. \A q \in Pollers : InHand(q)' = InHand(q)
    BY <1>1 DEF InHand
  <1>5. AcknowledgedIsHandled'
    BY <1>1, <1>4 DEF IInv, AcknowledgedIsHandled
  <1>6. OneHolder' /\ OthersAreBehind' /\ ChecksAreOpen' /\ HaltHoldsThePass'
        /\ OperatorHasTheLastWord'
    BY <1>1 DEF IInv, OneHolder, OthersAreBehind, ChecksAreOpen, HaltHoldsThePass,
                OperatorHasTheLastWord
  <1>7. QED
    BY <1>2, <1>3, <1>5, <1>6 DEF IInv

\* The holder of the lock serves one more update: a command now ...
LEMMA ServesCommandKeeps ==
  ASSUME IInv, NEW p \in Pollers, ServesCommand(p)
  PROVE  IInv'
  <1> DEFINE n == next[p]
  <1>1. /\ p \in lock /\ n <= upto[p] /\ feed[n] \in Commands
        /\ word' = n /\ settled' = settled \cup {n}
        /\ next' = [next EXCEPT ![p] = n + 1]
        /\ gap' = IF switch' = "halted" THEN gap ELSE Pollers
        /\ switch' \in {"halted", "clear"}
        /\ UNCHANGED <<feed, offset, lock, upto, todo, good, lost, seen>>
    BY DEF ServesCommand, Obeys, Watched
  <1>2. ServesInOrder(p) /\ lock = {p}
    BY <1>1 DEF IInv, HoldersServe, OneHolder
  <1>3. /\ n \in 1 .. Len(feed) /\ n > offset /\ offset \in Nat /\ n \in Updates /\ n \in Nat
        /\ Len(feed) \in Nat /\ next \in [Pollers -> Nat] /\ upto[p] \in Nat /\ word \in Nat
    BY <1>1, <1>2 DEF ServesInOrder, IInv, TypeOK, Updates
  <1>4. TypeOK'
    <2>1. n + 1 \in 0 .. MaxPosts + 1 /\ n \in 0 .. MaxPosts
      BY <1>3 DEF Updates
    <2>2. switch' \in States
      BY <1>1 DEF States
    <2>3. /\ next' \in [Pollers -> 0 .. MaxPosts + 1] /\ word' \in 0 .. MaxPosts
          /\ settled' \subseteq Updates /\ gap' \subseteq Pollers
      BY <1>1, <1>3, <2>1 DEF IInv, TypeOK
    <2>4. QED
      BY <1>1, <2>2, <2>3 DEF IInv, TypeOK, SwitchType
  <1>5. ServesInOrder(p)'
    <2>1. next'[p] = n + 1
      BY <1>1, <1>3
    <2>2. Served(p)' = Served(p) \cup {n}
      BY <1>1, <1>2, <1>3, <2>1 DEF Served, ServesInOrder
    <2>3. todo'[p] = {u \in Served(p)' : feed'[u] = "signal"}
      BY <1>1, <1>2, <2>2 DEF ServesInOrder, Commands
    <2>4. \A u \in Served(p)' : u <= n
      BY <1>3, <2>1 DEF Served
    <2>5. \A u \in Served(p)' : feed'[u] \in Commands => u \in settled' /\ u <= word'
      BY <1>1, <1>2, <2>2, <2>4 DEF ServesInOrder
    <2>6. QED
      BY <1>1, <1>2, <1>3, <2>1, <2>3, <2>5 DEF ServesInOrder
  <1>6. HoldersServe' /\ OneHolder' /\ OthersAreBehind'
    BY <1>1, <1>2, <1>5 DEF IInv, HoldersServe, OneHolder, OthersAreBehind
  <1>7. AcknowledgedIsHandled'
    BY <1>1 DEF IInv, AcknowledgedIsHandled, InHand
  <1>8. OperatorHasTheLastWord'
    <2> SUFFICES ASSUME NEW u \in 1 .. offset PROVE u <= n
      BY <1>1 DEF OperatorHasTheLastWord
    <2> QED
      BY <1>3
  <1>9. ChecksAreOpen' /\ HaltHoldsThePass'
    BY <1>1 DEF IInv, ChecksAreOpen, HaltHoldsThePass
  <1>10. QED
    BY <1>4, <1>6, <1>7, <1>8, <1>9 DEF IInv

\* ... a signal for later.
LEMMA CollectsSignalKeeps ==
  ASSUME IInv, NEW p \in Pollers, CollectsSignal(p)
  PROVE  IInv'
  <1> DEFINE n == next[p]
  <1>1. /\ p \in lock /\ n <= upto[p] /\ feed[n] = "signal"
        /\ todo' = [todo EXCEPT ![p] = @ \cup {n}]
        /\ next' = [next EXCEPT ![p] = n + 1]
        /\ UNCHANGED <<feed, offset, lock, upto, good, gap, settled, lost, word, switch, seen>>
    BY DEF CollectsSignal, noted, switchVars
  <1>2. ServesInOrder(p) /\ lock = {p}
    BY <1>1 DEF IInv, HoldersServe, OneHolder
  <1>3. /\ n \in 1 .. Len(feed) /\ n > offset /\ offset \in Nat /\ n \in Updates /\ n \in Nat
        /\ Len(feed) \in Nat /\ next \in [Pollers -> Nat] /\ upto[p] \in Nat
        /\ todo \in [Pollers -> SUBSET Updates]
    BY <1>1, <1>2 DEF ServesInOrder, IInv, TypeOK, Updates
  <1>4. TypeOK'
    BY <1>1, <1>3 DEF IInv, TypeOK, SwitchType, Updates
  <1>5. ServesInOrder(p)'
    <2>1. next'[p] = n + 1 /\ todo'[p] = todo[p] \cup {n}
      BY <1>1, <1>3
    <2>2. Served(p)' = Served(p) \cup {n}
      BY <1>1, <1>2, <1>3, <2>1 DEF Served, ServesInOrder
    <2>3. todo'[p] = {u \in Served(p)' : feed'[u] = "signal"}
      BY <1>1, <1>2, <2>1, <2>2 DEF ServesInOrder
    <2>4. \A u \in Served(p)' : feed'[u] \in Commands => u \in settled' /\ u <= word'
      BY <1>1, <1>2, <2>2 DEF ServesInOrder, Commands
    <2>5. QED
      BY <1>1, <1>2, <1>3, <2>1, <2>3, <2>4 DEF ServesInOrder
  <1>6. HoldersServe' /\ OneHolder' /\ OthersAreBehind'
    BY <1>1, <1>2, <1>3, <1>5 DEF IInv, HoldersServe, OneHolder, OthersAreBehind
  <1>7. \A q \in Pollers : InHand(q)' = InHand(q)
    BY <1>1, <1>3 DEF InHand
  <1>8. AcknowledgedIsHandled' /\ OperatorHasTheLastWord'
    BY <1>1, <1>7 DEF IInv, AcknowledgedIsHandled, OperatorHasTheLastWord
  <1>9. ChecksAreOpen' /\ HaltHoldsThePass'
    BY <1>1 DEF IInv, ChecksAreOpen, HaltHoldsThePass
  <1>10. QED
    BY <1>4, <1>6, <1>8, <1>9 DEF IInv

\* What the save takes over: the batch has been served to its end.
LEMMA SavesOffsetFacts ==
  ASSUME IInv, NEW p \in Pollers, SavesOffset(p)
  PROVE  /\ lock = {p} /\ lock' = {}
         /\ offset \in Nat /\ Len(feed) \in Nat
         /\ offset' \in offset .. Len(feed)
         /\ good[p] = {}
         /\ todo[p] = {u \in (offset + 1) .. offset' : feed[u] = "signal"}
         /\ \A u \in (offset + 1) .. offset' : feed[u] \in Commands => u \in settled /\ u <= word
         /\ next' = [next EXCEPT ![p] = 0] /\ upto' = [upto EXCEPT ![p] = 0]
         /\ seen[p] = "nothing"
         /\ UNCHANGED <<feed, todo, good, gap, settled, lost, word, switch, seen>>
  <1>1. /\ p \in lock /\ next[p] > upto[p] /\ offset' = upto[p] /\ lock' = lock \ {p}
        /\ next' = [next EXCEPT ![p] = 0] /\ upto' = [upto EXCEPT ![p] = 0]
        /\ UNCHANGED <<feed, todo, good, gap, settled, lost, word, switch, seen>>
    BY DEF SavesOffset, NewestServed, noted, switchVars
  <1>2. ServesInOrder(p) /\ lock = {p}
    BY <1>1 DEF IInv, HoldersServe, OneHolder
  <1>3. /\ offset \in Nat /\ Len(feed) \in Nat /\ next[p] \in Nat /\ upto[p] \in Nat
    BY DEF IInv, TypeOK
  <1>4. next[p] = upto[p] + 1 /\ offset' \in offset .. Len(feed)
    BY <1>1, <1>2, <1>3 DEF ServesInOrder
  <1>5. Served(p) = (offset + 1) .. offset'
    BY <1>1, <1>3, <1>4 DEF Served
  <1>6. QED
    BY <1>1, <1>2, <1>3, <1>4, <1>5 DEF ServesInOrder

LEMMA SavesOffsetKeeps ==
  ASSUME IInv, NEW p \in Pollers, SavesOffset(p)
  PROVE  IInv'
  <1>1. /\ lock = {p} /\ lock' = {}
        /\ offset \in Nat /\ Len(feed) \in Nat /\ offset' \in offset .. Len(feed)
        /\ good[p] = {}
        /\ todo[p] = {u \in (offset + 1) .. offset' : feed[u] = "signal"}
        /\ \A u \in (offset + 1) .. offset' : feed[u] \in Commands => u \in settled /\ u <= word
        /\ next' = [next EXCEPT ![p] = 0] /\ upto' = [upto EXCEPT ![p] = 0]
        /\ UNCHANGED <<feed, todo, good, gap, settled, lost, word, switch, seen>>
    BY SavesOffsetFacts
  <1>2. TypeOK'
    BY <1>1 DEF IInv, TypeOK, SwitchType
  <1>3. 1 .. offset' = (1 .. offset) \cup ((offset + 1) .. offset')
    BY <1>1
  <1>4. OthersAreBehind' /\ HoldersServe' /\ OneHolder'
    BY <1>1, <1>3 DEF IInv, OthersAreBehind, HoldersServe, OneHolder
  <1>5. AcknowledgedIsHandled'
    <2> SUFFICES ASSUME NEW u \in 1 .. offset'
                 PROVE  u \in settled \cup lost \/ \E q \in Pollers : u \in InHand(q)'
      BY <1>1 DEF AcknowledgedIsHandled
    <2>1. CASE u \in 1 .. offset
      <3>1. u \in settled \cup lost \/ \E q \in Pollers : u \in InHand(q)
        BY <2>1 DEF IInv, AcknowledgedIsHandled
      <3>2. \A q \in Pollers : u \in InHand(q) => u \in InHand(q)'
        BY <1>1 DEF InHand
      <3>3. QED
        BY <3>1, <3>2
    <2>2. CASE u \in (offset + 1) .. offset' /\ feed[u] = "signal"
      <3>1. u \in InHand(p)'
        BY <1>1, <2>2 DEF InHand
      <3>2. QED
        BY <3>1
    <2>3. CASE u \in (offset + 1) .. offset' /\ feed[u] # "signal"
      <3>1. feed[u] \in Kinds
        BY <1>1 DEF IInv, TypeOK
      <3>2. QED
        BY <1>1, <2>3, <3>1 DEF Commands
    <2>4. QED
      BY <1>3, <2>1, <2>2, <2>3
  <1>6. OperatorHasTheLastWord'
    BY <1>1, <1>3 DEF IInv, OperatorHasTheLastWord
  <1>7. ChecksAreOpen' /\ HaltHoldsThePass'
    BY <1>1 DEF IInv, ChecksAreOpen, HaltHoldsThePass
  <1>8. QED
    BY <1>2, <1>4, <1>5, <1>6, <1>7 DEF IInv

-----------------------------------------------------------------------------
(* Steps outside of the lock.                                               *)

LEMMA CheckFacts ==
  ASSUME IInv, NEW c \in Checkers,
         LoadsSwitch(c) \/ ClearsExpired(c) \/ Trips(c) \/ FindsAllClear(c)
  PROVE  /\ SwitchType' /\ ChecksAreOpen'
         /\ \A d \in Checkers \ {c} : seen'[d] = seen[d]
  BY DEF IInv, TypeOK, SwitchType, States, ChecksAreOpen, LoadsSwitch, GoesOn, ClearsExpired,
         Trips, FindsAllClear

\* A check in progress is not one of the lock's holder.
LEMMA HolderDoesNotCheck ==
  ASSUME IInv, NEW p \in Pollers, seen[p] # "nothing"
  PROVE  p \notin lock
  BY DEF IInv, HoldersServe, ServesInOrder

\* The list of a poller that does not hold the lock shrinks.
LEMMA ListStepKeeps ==
  ASSUME IInv, NEW p \in Pollers \ lock,
         NEW T \in SUBSET todo[p], NEW G \in SUBSET (todo[p] \cup good[p]), NEW X \in SUBSET (todo[p] \cup good[p]),
         todo[p] \cup good[p] \subseteq T \cup G \cup X,
         todo' = [todo EXCEPT ![p] = T], good' = [good EXCEPT ![p] = G],
         settled' = settled \cup X,
         UNCHANGED <<feed, offset, lock, next, upto, lost, word>>,
         SwitchType', ChecksAreOpen', \A q \in Checkers \ {p} : seen'[q] = seen[q],
         gap' \subseteq Pollers, HaltHoldsThePass'
  PROVE  IInv'
  <1>1. /\ todo[p] \subseteq Updates /\ good[p] \subseteq Updates
        /\ todo \in [Pollers -> SUBSET Updates] /\ good \in [Pollers -> SUBSET Updates]
        /\ lock \subseteq Pollers
    BY DEF IInv, TypeOK
  <1>2. TypeOK'
    <2>1. /\ todo' \in [Pollers -> SUBSET Updates] /\ good' \in [Pollers -> SUBSET Updates]
          /\ settled' \subseteq Updates
      BY <1>1 DEF IInv, TypeOK
    <2>2. QED
      BY <2>1 DEF IInv, TypeOK
  <1>3. todo'[p] = T /\ good'[p] = G /\ \A q \in Pollers \ {p} : todo'[q] = todo[q] /\ good'[q] = good[q]
    BY <1>1
  <1>4. HoldersServe'
    <2> SUFFICES ASSUME NEW q \in lock PROVE ServesInOrder(q)'
      BY DEF HoldersServe
    <2>1. ServesInOrder(q) /\ q \in Pollers \ {p} /\ q \in Checkers
      BY <1>1 DEF IInv, HoldersServe
    <2>2. QED
      BY <2>1, <1>3 DEF ServesInOrder, Served
  <1>5. OthersAreBehind'
    BY <1>1, <1>3 DEF IInv, OthersAreBehind
  <1>6. AcknowledgedIsHandled'
    <2> SUFFICES ASSUME NEW u \in 1 .. offset
                 PROVE  u \in settled' \cup lost \/ \E q \in Pollers : u \in InHand(q)'
      BY DEF AcknowledgedIsHandled
    <2>1. CASE u \in settled \cup lost
      BY <2>1
    <2>2. CASE \E q \in Pollers : u \in InHand(q)
      <3>1. PICK q \in Pollers : u \in InHand(q)
        BY <2>2
      <3>2. CASE q = p
        <4>1. u \in T \cup G \cup X
          BY <3>1, <3>2 DEF InHand
        <4>2. InHand(p)' = T \cup G
          BY <1>3 DEF InHand
        <4>3. QED
          BY <4>1, <4>2
      <3>3. CASE q # p
        BY <3>1, <3>3, <1>3 DEF InHand
      <3>4. QED
        BY <3>2, <3>3
    <2>3. QED
      BY <2>1, <2>2 DEF IInv, AcknowledgedIsHandled
  <1>7. OneHolder' /\ OperatorHasTheLastWord'
    BY DEF IInv, OneHolder, OperatorHasTheLastWord
  <1>8. QED
    BY <1>2, <1>4, <1>5, <1>6, <1>7 DEF IInv

LEMMA RefusesKeeps ==
  ASSUME IInv, NEW p \in Pollers, NEW u \in Updates,
         Refuses(p, u) \/ RefusesAfterCheck(p, u)
  PROVE  IInv'
  <1>1. /\ p \notin lock /\ u \in todo[p]
        /\ todo' = [todo EXCEPT ![p] = todo[p] \ {u}] /\ good' = good
        /\ settled' = settled \cup {u}
        /\ UNCHANGED <<feed, offset, lock, next, upto, lost, word>>
    BY DEF Refuses, RefusesAfterCheck, Decides, IsFirst, Settles, batch
  <1>2. /\ SwitchType' /\ ChecksAreOpen' /\ \A q \in Checkers \ {p} : seen'[q] = seen[q]
        /\ gap' = gap \/ gap' = Pollers
    <2>1. CASE Refuses(p, u)
      BY <2>1 DEF Refuses, switchVars, IInv, TypeOK, SwitchType, ChecksAreOpen
    <2>2. CASE RefusesAfterCheck(p, u)
      BY <2>2, CheckFacts DEF RefusesAfterCheck, Watched
    <2>3. QED
      BY <2>1, <2>2
  <1>3. good' = [good EXCEPT ![p] = good[p]]
    BY <1>1 DEF IInv, TypeOK
  <1>4. gap' \subseteq Pollers /\ HaltHoldsThePass'
    BY <1>1, <1>2 DEF IInv, TypeOK, HaltHoldsThePass
  <1> DEFINE T == todo[p] \ {u}
             G == good[p]
             X == {u}
  <1>5. /\ T \in SUBSET todo[p]
        /\ G \in SUBSET (todo[p] \cup good[p]) /\ X \in SUBSET (todo[p] \cup good[p])
        /\ todo[p] \cup good[p] \subseteq T \cup G \cup X
        /\ todo' = [todo EXCEPT ![p] = T] /\ good' = [good EXCEPT ![p] = G]
        /\ settled' = settled \cup X
    BY <1>1, <1>3
  <1> HIDE DEF T, G, X
  <1>6. QED
    BY <1>1, <1>2, <1>4, <1>5, ListStepKeeps

LEMMA ApprovesKeeps ==
  ASSUME IInv, NEW p \in Pollers, NEW u \in Updates, Approves(p, u)
  PROVE  IInv'
  <1>1. /\ p \notin lock /\ u \in todo[p]
        /\ todo' = [todo EXCEPT ![p] = todo[p] \ {u}]
        /\ good' = [good EXCEPT ![p] = good[p] \cup {u}]
        /\ FindsAllClear(p) /\ gap' = Pollers
        /\ UNCHANGED <<feed, offset, lock, next, upto, settled, lost, word>>
    BY DEF Approves, TradeAllowed, FindsAllClear, Decides, IsFirst, Watched, batch, noted
  <1>2. SwitchType' /\ ChecksAreOpen' /\ \A q \in Checkers \ {p} : seen'[q] = seen[q]
    BY <1>1, CheckFacts
  <1>3. HaltHoldsThePass' /\ settled' = settled \cup {}
    BY <1>1 DEF HaltHoldsThePass
  <1>4. QED
    BY <1>1, <1>2, <1>3, ListStepKeeps

LEMMA OrdersKeeps ==
  ASSUME IInv, NEW p \in Pollers, NEW u \in Updates, Orders(p, u)
  PROVE  IInv'
  <1>1. /\ p \notin lock /\ u \in good[p]
        /\ todo' = todo /\ good' = [good EXCEPT ![p] = good[p] \ {u}]
        /\ settled' = settled \cup {u}
        /\ UNCHANGED <<feed, offset, lock, next, upto, lost, word, gap, switch, seen>>
    BY DEF Orders, IsFirst, Settles, batch, switchVars
  <1>2. SwitchType' /\ ChecksAreOpen' /\ \A q \in Checkers \ {p} : seen'[q] = seen[q]
    BY <1>1 DEF IInv, TypeOK, SwitchType, ChecksAreOpen
  <1>3. todo' = [todo EXCEPT ![p] = todo[p]]
    BY <1>1 DEF IInv, TypeOK
  <1>4. gap' \subseteq Pollers /\ HaltHoldsThePass'
    BY <1>1 DEF IInv, TypeOK, HaltHoldsThePass
  <1>5. QED
    BY <1>1, <1>2, <1>3, <1>4, ListStepKeeps

\* The switch changes, and nothing else.
LEMMA SwitchStepKeeps ==
  ASSUME IInv, SwitchType', ChecksAreOpen', \A q \in lock : seen'[q] = seen[q],
         gap' = gap \/ gap' = Pollers,
         UNCHANGED <<feed, offset, lock, next, upto, todo, good, settled, lost, word>>
  PROVE  IInv'
  <1>1. TypeOK' /\ HaltHoldsThePass'
    BY DEF IInv, TypeOK, HaltHoldsThePass
  <1>2. HoldersServe' /\ OneHolder' /\ OthersAreBehind'
    BY DEF IInv, HoldersServe, ServesInOrder, Served, OneHolder, OthersAreBehind
  <1>3. AcknowledgedIsHandled' /\ OperatorHasTheLastWord'
    BY DEF IInv, AcknowledgedIsHandled, InHand, OperatorHasTheLastWord
  <1>4. QED
    BY <1>1, <1>2, <1>3 DEF IInv

LEMMA PollerChecksKeeps ==
  ASSUME IInv, NEW p \in Pollers, ReadsSwitch(p) \/ ClearsSwitch(p)
  PROVE  IInv'
  <1>1. /\ LoadsSwitch(p) \/ ClearsExpired(p)
        /\ gap' = gap \/ gap' = Pollers
        /\ UNCHANGED <<feed, offset, lock, next, upto, todo, good, settled, lost, word>>
    BY DEF ReadsSwitch, ClearsSwitch, Watched, batch, noted
  <1>2. p \notin lock
    BY HolderDoesNotCheck DEF ReadsSwitch, ClearsSwitch, ClearsExpired
  <1>3. SwitchType' /\ ChecksAreOpen' /\ \A q \in lock : seen'[q] = seen[q]
    BY <1>1, <1>2, CheckFacts DEF IInv, TypeOK
  <1>4. QED
    BY <1>1, <1>3, SwitchStepKeeps

LEMMA MasterChecksKeeps ==
  ASSUME IInv, MasterChecks
  PROVE  IInv'
  <1>1. /\ gap' = gap \/ gap' = Pollers
        /\ UNCHANGED <<feed, offset, lock, next, upto, todo, good, settled, lost, word>>
    BY DEF MasterChecks, Watched, batch, noted
  <1>2. Master \in Checkers /\ Master \notin lock /\ lock \subseteq Checkers
    BY DEF IInv, TypeOK
  <1>3. SwitchType' /\ ChecksAreOpen' /\ \A q \in Checkers \ {Master} : seen'[q] = seen[q]
    <2>1. CASE AbandonsCheck(Master) /\ UNCHANGED switch
      BY <2>1, <1>2 DEF AbandonsCheck, IInv, TypeOK, SwitchType, ChecksAreOpen
    <2>2. CASE LoadsSwitch(Master) \/ ClearsExpired(Master) \/ Trips(Master) \/ FindsAllClear(Master)
      BY <2>2, <1>2, CheckFacts
    <2>3. QED
      BY <2>1, <2>2 DEF MasterChecks
  <1>4. QED
    BY <1>1, <1>2, <1>3, SwitchStepKeeps

LEMMA HaltRunsOutKeeps ==
  ASSUME IInv, HaltRunsOut
  PROVE  IInv'
  <1>1. /\ gap' = Pollers /\ switch' = "expired" /\ seen' = seen
        /\ UNCHANGED <<feed, offset, lock, next, upto, todo, good, settled, lost, word>>
    BY DEF HaltRunsOut, CooldownEnds, Watched, batch, noted
  <1>2. SwitchType' /\ ChecksAreOpen'
    BY <1>1 DEF IInv, TypeOK, SwitchType, States, ChecksAreOpen
  <1>3. QED
    BY <1>1, <1>2, SwitchStepKeeps

LEMMA BreaksOffKeeps ==
  ASSUME IInv, NEW p \in Pollers, BreaksOff(p)
  PROVE  IInv'
  <1>1. /\ lost' = lost \cup InHand(p) /\ lock' = lock \ {p}
        /\ next' = [next EXCEPT ![p] = 0] /\ upto' = [upto EXCEPT ![p] = 0]
        /\ todo' = [todo EXCEPT ![p] = {}] /\ good' = [good EXCEPT ![p] = {}]
        /\ seen' = [seen EXCEPT ![p] = "nothing"]
        /\ UNCHANGED <<feed, offset, settled, word, gap, switch>>
    BY DEF BreaksOff, AbandonsCheck
  <1>2. /\ todo \in [Pollers -> SUBSET Updates] /\ good \in [Pollers -> SUBSET Updates]
        /\ next \in [Pollers -> 0 .. MaxPosts + 1] /\ upto \in [Pollers -> 0 .. MaxPosts]
        /\ seen \in [Checkers -> {"nothing"} \cup States] /\ p \in Checkers
        /\ lock \subseteq Pollers /\ lost \subseteq Updates
    BY DEF IInv, TypeOK, SwitchType
  <1>3. /\ todo'[p] = {} /\ good'[p] = {}
        /\ \A q \in Pollers \ {p} : /\ todo'[q] = todo[q] /\ good'[q] = good[q]
                                      /\ next'[q] = next[q] /\ upto'[q] = upto[q] /\ seen'[q] = seen[q]
    BY <1>1, <1>2
  <1>4. TypeOK'
    <2>1. /\ todo' \in [Pollers -> SUBSET Updates] /\ good' \in [Pollers -> SUBSET Updates]
          /\ next' \in [Pollers -> 0 .. MaxPosts + 1] /\ upto' \in [Pollers -> 0 .. MaxPosts]
      BY <1>1, <1>2
    <2>2. seen' \in [Checkers -> {"nothing"} \cup States]
      BY <1>1, <1>2
    <2>3. lost' \subseteq Updates /\ lock' \subseteq Pollers
      BY <1>1, <1>2 DEF InHand
    <2>4. QED
      BY <1>1, <2>1, <2>2, <2>3 DEF IInv, TypeOK, SwitchType
  <1>5. HoldersServe'
    <2> SUFFICES ASSUME NEW q \in lock \ {p} PROVE ServesInOrder(q)'
      BY <1>1 DEF HoldersServe
    <2>1. ServesInOrder(q) /\ q \in Pollers \ {p}
      BY <1>2 DEF IInv, HoldersServe
    <2>2. QED
      BY <1>1, <1>3, <2>1 DEF ServesInOrder, Served
  <1>6. OneHolder' /\ OthersAreBehind'
    BY <1>1, <1>2, <1>3 DEF IInv, OneHolder, OthersAreBehind
  <1>7. AcknowledgedIsHandled'
    <2>1. \A q \in Pollers \ {p} : InHand(q)' = InHand(q)
      BY <1>1, <1>3 DEF InHand
    <2>2. QED
      BY <1>1, <2>1 DEF IInv, AcknowledgedIsHandled
  <1>8. OperatorHasTheLastWord' /\ HaltHoldsThePass'
    BY <1>1, <1>3 DEF IInv, OperatorHasTheLastWord, HaltHoldsThePass
  <1>9. ChecksAreOpen'
    BY <1>1, <1>2 DEF IInv, ChecksAreOpen
  <1>10. QED
    BY <1>4, <1>5, <1>6, <1>7, <1>8, <1>9 DEF IInv

LEMMA StutterKeeps == ASSUME IInv, UNCHANGED vars PROVE IInv'
  <1>1. \A p \in Pollers : InHand(p)' = InHand(p)
    BY DEF vars, InHand
  <1>2. HoldersServe'
    BY DEF vars, IInv, HoldersServe, ServesInOrder, Served
  <1>3. QED
    BY <1>1, <1>2 DEF vars, IInv, TypeOK, SwitchType, OneHolder, OthersAreBehind, ChecksAreOpen,
       AcknowledgedIsHandled, OperatorHasTheLastWord, HaltHoldsThePass

LEMMA NextKeeps == IInv /\ [Next]_vars => IInv'
  <1> SUFFICES ASSUME IInv, [Next]_vars PROVE IInv'
    OBVIOUS
  <1>1. CASE \E kind \in Kinds : Posts(kind)
    BY <1>1, PostsKeeps
  <1>2. CASE \E p \in Pollers : Fetches(p) \/ BreaksOff(p)
    BY <1>2, FetchesKeeps, BreaksOffKeeps
  <1>3. CASE \E p \in Pollers : PassGoesOn(p)
    <2>1. PICK p \in Pollers : PassGoesOn(p)
      BY <1>3
    <2>2. QED
      BY <2>1, ServesCommandKeeps, CollectsSignalKeeps, SavesOffsetKeeps, PollerChecksKeeps,
         RefusesKeeps, ApprovesKeeps, OrdersKeeps DEF PassGoesOn
  <1>4. CASE MasterChecks \/ HaltRunsOut
    BY <1>4, MasterChecksKeeps, HaltRunsOutKeeps
  <1>5. CASE UNCHANGED vars
    BY <1>5, StutterKeeps
  <1>6. QED
    BY <1>1, <1>2, <1>3, <1>4, <1>5 DEF Next

-----------------------------------------------------------------------------
(* The inductive invariant holds in every state of the signal lane          *)
(* (signal_listener.py, kill_switch.py): who serves a batch, what is in the *)
(* hands of whom, and what every check in progress has read.                *)
THEOREM Invariance == Spec => []IInv
  <1>1. Init => IInv
    BY InitInv
  <1>2. IInv /\ [Next]_vars => IInv'
    BY NextKeeps
  <1>3. QED
    BY <1>1, <1>2, PTL DEF Spec

(* The state of the signal lane keeps its types (signal_listener.py).       *)
THEOREM TypeCorrect == Spec => []TypeOK
  <1>1. IInv => TypeOK
    BY DEF IInv
  <1>2. QED
    BY <1>1, Invariance, PTL

(* No update that the saved offset has passed goes missing, unless its pass *)
(* broke off (signal_listener.fetch_new_messages, run_signal_check).        *)
THEOREM NothingGoesMissing == Spec => []AcknowledgedIsHandled
  <1>1. IInv => AcknowledgedIsHandled
    BY DEF IInv
  <1>2. QED
    BY <1>1, Invariance, PTL

(* Commands that are repeated after a pass broke off never overtake an      *)
(* acknowledged one (_serve_trade_callback inside the fetch).               *)
THEOREM LastWordStands == Spec => []OperatorHasTheLastWord
  <1>1. IInv => OperatorHasTheLastWord
    BY DEF IInv
  <1>2. QED
    BY <1>1, Invariance, PTL

(* A halt that lasts through a pass lets no signal of it through            *)
(* (check_signals' call of check_kill_switch).                              *)
THEOREM HaltHolds == Spec => []HaltHoldsThePass
  <1>1. IInv => HaltHoldsThePass
    BY DEF IInv
  <1>2. QED
    BY <1>1, Invariance, PTL

LEMMA CheckSaves ==
  ASSUME IInv, NEW c \in Checkers, ClearsExpired(c) \/ FindsAllClear(c)
  PROVE  seen[c] \in {"clear", "expired"} /\ seen'[c] # seen[c]
  BY DEF IInv, TypeOK, SwitchType, States, ChecksAreOpen, ClearsExpired, FindsAllClear

LEMMA HaltStep ==
  ASSUME IInv, [Next]_vars, switch = "halted", switch' # "halted"
  PROVE  LiftsKnowingly
  <1>1. CASE HaltRunsOut
    BY <1>1 DEF HaltRunsOut, CooldownEnds, LiftsKnowingly
  <1>2. CASE MasterChecks
    <2>1. ClearsExpired(Master) \/ FindsAllClear(Master)
      BY <1>2 DEF MasterChecks, LoadsSwitch, Trips
    <2>2. QED
      BY <2>1, CheckSaves DEF LiftsKnowingly
  <1>3. CASE \E p \in Pollers : ServesCommand(p)
    <2>1. PICK p \in Pollers : ServesCommand(p)
      BY <1>3
    <2>2. /\ p \in lock /\ next[p] <= upto[p] /\ feed[next[p]] \in Commands
          /\ next' = [next EXCEPT ![p] = next[p] + 1]
          /\ switch' = IF feed[next[p]] = "halt" THEN "halted" ELSE "clear"
      BY <2>1 DEF ServesCommand, Obeys
    <2>3. feed[next[p]] = "resume" /\ next'[p] = next[p] + 1
      BY <2>2 DEF Commands, Kinds, IInv, TypeOK
    <2>4. QED
      BY <2>2, <2>3 DEF LiftsKnowingly
  <1>4. CASE \E p \in Pollers : ClearsSwitch(p)
    <2>1. PICK p \in Pollers : ClearsExpired(p)
      BY <1>4 DEF ClearsSwitch
    <2>2. QED
      BY <2>1, CheckSaves DEF LiftsKnowingly
  <1>5. CASE \E p \in Pollers, u \in Updates : RefusesAfterCheck(p, u) \/ Approves(p, u)
    <2>1. PICK p \in Pollers : FindsAllClear(p)
      BY <1>5 DEF RefusesAfterCheck, Approves, TradeAllowed, Trips
    <2>2. QED
      BY <2>1, CheckSaves DEF LiftsKnowingly
  <1>6. CASE \/ \E kind \in Kinds : Posts(kind)
             \/ \E p \in Pollers : \/ Fetches(p) \/ BreaksOff(p) \/ CollectsSignal(p)
                                   \/ SavesOffset(p) \/ ReadsSwitch(p)
                                   \/ \E u \in Updates : Refuses(p, u) \/ Orders(p, u)
             \/ UNCHANGED vars
    BY <1>6 DEF Posts, Fetches, BreaksOff, CollectsSignal, SavesOffset, ReadsSwitch, Refuses,
                Orders, LoadsSwitch, switchVars, vars
  <1>7. QED
    BY <1>1, <1>2, <1>3, <1>4, <1>5, <1>6 DEF Next, PassGoesOn

(* A halt in force ends by its cooldown, by a resume, or through the save   *)
(* of a check that read the file before the halt: kill_switch.py:111, the   *)
(* lost update, is the only other way.                                      *)
THEOREM HaltsEndOnlyKnowingly == Spec => HaltsEndKnowingly
  <1>1. IInv /\ [Next]_vars => [switch = "halted" /\ switch' # "halted" => LiftsKnowingly]_vars
    BY HaltStep
  <1>2. QED
    BY <1>1, Invariance, PTL DEF Spec, HaltsEndKnowingly

-----------------------------------------------------------------------------
(* The refinement.                                                          *)

Hands == [p \in Pollers |-> InHand(p)]

LEMMA SameHands ==
  ASSUME \A p \in Pollers : InHand(p)' = InHand(p), UNCHANGED <<feed, offset>>
  PROVE  UNCHANGED <<feed, offset, Hands>>
  BY DEF Hands

LEMMA InitIsInbox == Init => Inbox!Init
  BY DEF Init, Inbox!Init, InHand

\* One poller's hands change from what they were to T.
LEMMA OtherHands ==
  ASSUME NEW p \in Pollers, NEW T, InHand(p)' = T,
         \A q \in Pollers \ {p} : InHand(q)' = InHand(q)
  PROVE  Hands' = [Hands EXCEPT ![p] = T]
  BY DEF Hands

LEMMA SaveIsHandOut ==
  ASSUME IInv, NEW p \in Pollers, SavesOffset(p)
  PROVE  Inbox!HandOut(p)
  <1>1. /\ lock = {p} /\ lock' = {} /\ good[p] = {}
        /\ offset' \in offset .. Len(feed)
        /\ todo[p] = {u \in (offset + 1) .. offset' : feed[u] = "signal"}
        /\ UNCHANGED <<feed, todo, good>>
    BY SavesOffsetFacts
  <1>2. InHand(p)' = Inbox!Signals(offset, offset')
    BY <1>1 DEF InHand, Inbox!Signals
  <1>3. \A q \in Pollers \ {p} : InHand(q)' = InHand(q)
    BY <1>1 DEF InHand
  <1>4. Hands' = [Hands EXCEPT ![p] = Inbox!Signals(offset, offset')]
    BY <1>2, <1>3, OtherHands
  <1>5. Hands[p] = {}
    BY <1>1 DEF Hands, InHand
  <1>6. QED
    BY <1>1, <1>4, <1>5 DEF Inbox!HandOut, Hands

\* A signal that is refused or ordered leaves the poller's hands.
LEMMA SettledIsResolved ==
  ASSUME IInv, NEW p \in Pollers, NEW u \in Updates,
         Refuses(p, u) \/ RefusesAfterCheck(p, u) \/ Orders(p, u)
  PROVE  \/ Inbox!Resolve(p)
         \/ UNCHANGED <<feed, offset, Hands>>
  <1>1. /\ p \notin lock /\ UNCHANGED <<feed, offset, lock>>
        /\ u \in todo[p] \cup good[p]
        /\ \/ todo' = [todo EXCEPT ![p] = todo[p] \ {u}] /\ good' = good
           \/ todo' = todo /\ todo[p] = {} /\ good' = [good EXCEPT ![p] = good[p] \ {u}]
    BY DEF Refuses, RefusesAfterCheck, Orders, Decides, IsFirst, Settles, batch
  <1>2. InHand(p) = todo[p] \cup good[p] /\ InHand(p)' = todo'[p] \cup good'[p]
    BY <1>1 DEF InHand
  <1>3. \A q \in Pollers \ {p} : InHand(q)' = InHand(q)
    BY <1>1 DEF InHand, IInv, TypeOK
  <1>4. InHand(p)' = InHand(p) \ {u} \/ InHand(p)' = InHand(p)
    BY <1>1, <1>2 DEF IInv, TypeOK
  <1>5. CASE InHand(p)' = InHand(p) \ {u}
    <2>1. Hands' = [Hands EXCEPT ![p] = InHand(p) \ {u}]
      BY <1>3, <1>5, OtherHands
    <2>2. u \in Hands[p] /\ Hands[p] = InHand(p)
      BY <1>1, <1>2 DEF Hands
    <2>3. QED
      BY <1>1, <2>1, <2>2 DEF Inbox!Resolve, Hands
  <1>6. CASE InHand(p)' = InHand(p)
    BY <1>1, <1>3, <1>6, SameHands
  <1>7. QED
    BY <1>4, <1>5, <1>6

LEMMA BreakIsLetGo ==
  ASSUME IInv, NEW p \in Pollers, BreaksOff(p)
  PROVE  Inbox!LetGo(p)
  <1>1. /\ lock' = lock \ {p} /\ UNCHANGED <<feed, offset>>
        /\ todo' = [todo EXCEPT ![p] = {}] /\ good' = [good EXCEPT ![p] = {}]
    BY DEF BreaksOff
  <1>2. InHand(p)' = {} /\ \A q \in Pollers \ {p} : InHand(q)' = InHand(q)
    BY <1>1 DEF InHand, IInv, TypeOK
  <1>3. Hands' = [Hands EXCEPT ![p] = {}]
    BY <1>2, OtherHands
  <1>4. QED
    BY <1>1, <1>3 DEF Inbox!LetGo, Hands

\* Fetching, serving, collecting, checking and approving move nothing
\* between the inbox and the hands.
LEMMA OthersStutter ==
  ASSUME IInv, NEW p \in Pollers,
         \/ Fetches(p) \/ ServesCommand(p) \/ CollectsSignal(p)
         \/ ReadsSwitch(p) \/ ClearsSwitch(p)
         \/ \E u \in Updates : Approves(p, u)
  PROVE  UNCHANGED <<feed, offset, Hands>>
  <1> SUFFICES ASSUME NEW q \in Pollers
               PROVE  InHand(q)' = InHand(q) /\ UNCHANGED <<feed, offset>>
    BY SameHands
  <1>1. CASE Fetches(p)
    BY <1>1 DEF Fetches, InHand, IInv, TypeOK, noted
  <1>2. CASE ServesCommand(p) \/ CollectsSignal(p)
    BY <1>2 DEF ServesCommand, CollectsSignal, InHand, IInv, TypeOK
  <1>3. CASE ReadsSwitch(p) \/ ClearsSwitch(p)
    BY <1>3 DEF ReadsSwitch, ClearsSwitch, InHand, batch
  <1>4. CASE \E u \in Updates : Approves(p, u)
    <2>1. PICK u \in Updates : Approves(p, u)
      BY <1>4
    <2>2. /\ p \notin lock /\ u \in todo[p] /\ UNCHANGED <<feed, offset, lock>>
          /\ todo' = [todo EXCEPT ![p] = todo[p] \ {u}]
          /\ good' = [good EXCEPT ![p] = good[p] \cup {u}]
      BY <2>1 DEF Approves, Decides, IsFirst, batch
    <2>3. QED
      BY <2>2 DEF InHand, IInv, TypeOK
  <1>5. QED
    BY <1>1, <1>2, <1>3, <1>4

LEMMA StepIsInbox ==
  ASSUME IInv, [Next]_vars
  PROVE  [Inbox!Next]_<<feed, offset, Hands>>
  <1>1. CASE \E kind \in Kinds : Posts(kind)
    <2>1. PICK kind \in Kinds : Posts(kind)
      BY <1>1
    <2>2. feed' = Append(feed, kind) /\ UNCHANGED <<offset, lock, todo, good>>
      BY <2>1 DEF Posts, batch
    <2>3. Hands' = Hands
      BY <2>2 DEF Hands, InHand
    <2>4. QED
      BY <2>2, <2>3 DEF Inbox!Next, Inbox!Post, Hands
  <1>2. CASE \E p \in Pollers : Fetches(p)
    BY <1>2, OthersStutter
  <1>3. CASE \E p \in Pollers : BreaksOff(p)
    BY <1>3, BreakIsLetGo DEF Inbox!Next
  <1>4. CASE \E p \in Pollers : PassGoesOn(p)
    <2>1. PICK p \in Pollers : PassGoesOn(p)
      BY <1>4
    <2>2. CASE SavesOffset(p)
      BY <2>2, SaveIsHandOut DEF Inbox!Next
    <2>3. CASE \E u \in Updates : Refuses(p, u) \/ RefusesAfterCheck(p, u) \/ Orders(p, u)
      BY <2>3, SettledIsResolved DEF Inbox!Next
    <2>4. CASE \/ ServesCommand(p) \/ CollectsSignal(p) \/ ReadsSwitch(p) \/ ClearsSwitch(p)
               \/ \E u \in Updates : Approves(p, u)
      BY <2>4, OthersStutter
    <2>5. QED
      BY <2>1, <2>2, <2>3, <2>4 DEF PassGoesOn
  <1>5. CASE MasterChecks \/ HaltRunsOut \/ UNCHANGED vars
    <2>1. UNCHANGED <<feed, offset, lock, todo, good>>
      BY <1>5 DEF MasterChecks, HaltRunsOut, vars, batch
    <2>2. QED
      BY <2>1, SameHands DEF InHand
  <1>6. QED
    BY <1>1, <1>2, <1>3, <1>4, <1>5 DEF Next

(* The signal lane implements the inbox: whatever pollers run, break off or *)
(* wait for the lock, every update is handed out once and in order          *)
(* (fetch_new_messages with its lock and offset).                           *)
THEOREM LaneImplementsInbox == Spec => ImplementsInbox
  <1>1. Init => Inbox!Init
    BY InitIsInbox
  <1>2. IInv /\ [Next]_vars => [Inbox!Next]_<<feed, offset, Hands>>
    BY StepIsInbox
  <1>3. QED
    BY <1>1, <1>2, Invariance, PTL DEF Spec, ImplementsInbox, Inbox!Spec, Hands
=============================================================================
