-------------------------- MODULE EntryLedgerProofs --------------------------
(***************************************************************************)
(* Proof that, for any set of lanes and any deals, the risk ledger is what *)
(* the broker's feed says: the result and the streak of its day are those  *)
(* of the deals since the day began, each counted once.                    *)
(*                                                                         *)
(* The result is a fold over a finite set, whose equation follows from the *)
(* well-foundedness of the strict subset ordering.  Arguments by induction *)
(* over a finite set are stated as: a set of bad subsets has a smallest    *)
(* one.                                                                    *)
(***************************************************************************)
EXTENDS EntryGateProofs

-----------------------------------------------------------------------------
(* Finite sets.                                                            *)

(* Among any subsets of a finite set there is one without a smaller one.   *)
LEMMA SmallestSubset ==
  ASSUME NEW S, IsFiniteSet(S), NEW Bad \in SUBSET SUBSET S, Bad # {}
  PROVE  \E T \in Bad : \A U \in Bad : U \subseteq T => U = T
<1>1. IsWellFoundedOn(StrictSubsetOrdering(S), SUBSET S)
  BY FS_StrictSubsetOrderingWellFounded, FS_FiniteSubsetsOfFinite
<1>2. PICK T \in Bad : \A U \in Bad : <<U, T>> \notin StrictSubsetOrdering(S)
  BY <1>1, WFMin
<1>3. ASSUME NEW U \in Bad, U \subseteq T, U # T
      PROVE  FALSE
  <2>1. <<U, T>> \in StrictSubsetOrdering(S)
    BY <1>3 DEF StrictSubsetOrdering
  <2> QED
    BY <1>2, <2>1
<1> QED
  BY <1>2, <1>3

WellOrdered(S) ==
  \A Bad \in SUBSET SUBSET S : Bad # {} => \E T \in Bad : \A U \in Bad : U \subseteq T => U = T

LEMMA FiniteWellOrdered ==
  ASSUME NEW S, IsFiniteSet(S)
  PROVE  WellOrdered(S)
BY SmallestSubset DEF WellOrdered

(* A finite set of numbers that is not empty has a largest.                *)
LEMMA LargestOf ==
  ASSUME NEW S, S \subseteq Int, IsFiniteSet(S), S # {}
  PROVE  Max(S) \in S /\ \A y \in S : Max(S) >= y
<1> DEFINE Bad == {T \in SUBSET S : T # {} /\ \A m \in T : \E y \in T : ~(m >= y)}
<1> SUFFICES ASSUME Bad # {} PROVE FALSE
  <2>1. S \notin Bad => \E m \in S : \A y \in S : m >= y
    OBVIOUS
  <2> QED
    BY <2>1 DEF Max
<1> Bad \in SUBSET SUBSET S
  OBVIOUS
<1> HIDE DEF Bad
<1>0. WellOrdered(S)
  BY FiniteWellOrdered
<1>1. PICK T \in Bad : \A U \in Bad : U \subseteq T => U = T
  BY <1>0 DEF WellOrdered
<1>2. T \subseteq S /\ T # {} /\ \A m \in T : \E y \in T : ~(m >= y)
  BY DEF Bad
<1>3. PICK x \in T : TRUE
  BY <1>2
<1>4. T \ {x} \notin Bad
  BY <1>1, <1>3
<1>5. T \ {x} \subseteq S /\ T \ {x} # {}
  BY <1>2, <1>3
<1>6. PICK m \in T \ {x} : \A y \in T \ {x} : m >= y
  BY <1>4, <1>5 DEF Bad
<1>7. PICK z \in T : ~(m >= z)
  BY <1>2, <1>6
<1>8. z = x /\ x > m
  BY <1>2, <1>6, <1>7
<1>9. \A y \in T : x >= y
  BY <1>2, <1>6, <1>8
<1> QED
  BY <1>2, <1>3, <1>9

-----------------------------------------------------------------------------
(* Sums over finite sets of deals.                                         *)

\* What the deals with these tickets earned, in the history d.
Net(d, S) == MapThenSumSet(LAMBDA i : d[i].net, S)

Pick(s) == CHOOSE i \in s : TRUE

\* g sums up the subsets of S.
Sums(d, S, g) ==
  g = [s \in SUBSET S |-> IF s = {} THEN 0 ELSE d[Pick(s)].net + g[s \ {Pick(s)}]]

LEMMA NetIsFold == \A d, S : Net(d, S) = (CHOOSE g : Sums(d, S, g))[S]
  BY DEF Net, MapThenSumSet, MapThenFoldSet, Sums, Pick

LEMMA SumsEquation ==
  ASSUME NEW d, NEW S, NEW g, Sums(d, S, g), NEW s, s \subseteq S
  PROVE  g[s] = IF s = {} THEN 0 ELSE d[Pick(s)].net + g[s \ {Pick(s)}]
  BY DEF Sums

LEMMA PickIn == \A s : s # {} => Pick(s) \in s
  BY DEF Pick

\* Two of them agree where both are defined.
LEMMA SumsAgree ==
  ASSUME NEW d, NEW A, NEW B, NEW g, NEW h, IsFiniteSet(A), Sums(d, A, g), Sums(d, B, h),
         NEW v, v \subseteq A, v \subseteq B
  PROVE  g[v] = h[v]
<1> DEFINE Bad == {s \in SUBSET A : s \subseteq B /\ g[s] # h[s]}
<1> SUFFICES ASSUME Bad # {} PROVE FALSE
  OBVIOUS
<1> Bad \in SUBSET SUBSET A
  OBVIOUS
<1> HIDE DEF Bad
<1>1. PICK T \in Bad : \A U \in Bad : U \subseteq T => U = T
  BY SmallestSubset
<1>2. T \subseteq A /\ T \subseteq B /\ g[T] # h[T]
  BY DEF Bad
<1>3. T # {}
  BY <1>2, SumsEquation
<1>4. T \ {Pick(T)} \notin Bad /\ T \ {Pick(T)} \subseteq A /\ T \ {Pick(T)} \subseteq B
  BY <1>1, <1>2, <1>3, PickIn
<1>5. g[T \ {Pick(T)}] = h[T \ {Pick(T)}]
  BY <1>4 DEF Bad
<1>6. /\ g[T] = d[Pick(T)].net + g[T \ {Pick(T)}]
      /\ h[T] = d[Pick(T)].net + h[T \ {Pick(T)}]
  BY <1>2, <1>3, SumsEquation
<1> QED
  BY <1>2, <1>5, <1>6

\* Every finite set has one.
LEMMA SumsExist ==
  ASSUME NEW d, NEW S, IsFiniteSet(S)
  PROVE  \E g : Sums(d, S, g)
<1> DEFINE Bad == {T \in SUBSET S : ~ \E g : Sums(d, T, g)}
           G(u) == CHOOSE g : Sums(d, u, g)
<1> SUFFICES ASSUME Bad # {} PROVE FALSE
  OBVIOUS
<1> Bad \in SUBSET SUBSET S
  OBVIOUS
<1>0. \A T \in Bad : T \subseteq S /\ ~ \E g : Sums(d, T, g)
  OBVIOUS
<1>00. \A T \in SUBSET S : T \notin Bad => \E g : Sums(d, T, g)
  OBVIOUS
<1> HIDE DEF Bad
<1>1. PICK T \in Bad : \A U \in Bad : U \subseteq T => U = T
  BY SmallestSubset
<1>2. T \subseteq S /\ ~ \E g : Sums(d, T, g)
  BY <1>0
<1>3. \A u \in SUBSET T : u # T => Sums(d, u, G(u)) /\ IsFiniteSet(u)
  <2> SUFFICES ASSUME NEW u \in SUBSET T, u # T
               PROVE  Sums(d, u, G(u)) /\ IsFiniteSet(u)
    OBVIOUS
  <2>1. u \in SUBSET S /\ u \notin Bad
    BY <1>1, <1>2
  <2>2. \E g : Sums(d, u, g)
    BY <1>00, <2>1
  <2> QED
    BY <2>1, <2>2, FS_Subset
<1> HIDE DEF G
<1> DEFINE h == [s \in SUBSET T |-> IF s = {} THEN 0
                  ELSE d[Pick(s)].net + G(s \ {Pick(s)})[s \ {Pick(s)}]]
<1>4. ASSUME NEW u \in SUBSET T, u # T
      PROVE  G(u)[u] = h[u]
  <2>1. Sums(d, u, G(u)) /\ IsFiniteSet(u)
    BY <1>3, <1>4
  <2>2. CASE u = {}
    BY <2>1, <2>2, SumsEquation
  <2>3. CASE u # {}
    <3> DEFINE w == u \ {Pick(u)}
    <3>1. w \in SUBSET T /\ w # T /\ w \subseteq u
      BY <2>3, PickIn
    <3>2. Sums(d, w, G(w)) /\ IsFiniteSet(w)
      BY <1>3, <3>1
    <3>3. G(u)[w] = G(w)[w]
      BY <2>1, <3>1, <3>2, SumsAgree
    <3>4. G(u)[u] = d[Pick(u)].net + G(u)[w]
      BY <2>1, <2>3, SumsEquation
    <3>5. h[u] = d[Pick(u)].net + G(w)[w]
      BY <2>3
    <3> QED
      BY <3>3, <3>4, <3>5
  <2> QED
    BY <2>2, <2>3
<1>5. ASSUME NEW s \in SUBSET T, s # {}
      PROVE  h[s] = d[Pick(s)].net + h[s \ {Pick(s)}]
  <2>1. s \ {Pick(s)} \in SUBSET T /\ s \ {Pick(s)} # T
    BY <1>5, PickIn
  <2>2. G(s \ {Pick(s)})[s \ {Pick(s)}] = h[s \ {Pick(s)}]
    BY <1>4, <2>1
  <2>3. h[s] = d[Pick(s)].net + G(s \ {Pick(s)})[s \ {Pick(s)}]
    BY <1>5
  <2> QED
    BY <2>2, <2>3
<1>6. \A s \in SUBSET T : s = {} => h[s] = 0
  OBVIOUS
<1>7. h = [s \in SUBSET T |-> h[s]]
  OBVIOUS
<1> HIDE DEF h
<1>8. [s \in SUBSET T |-> h[s]] =
      [s \in SUBSET T |-> IF s = {} THEN 0 ELSE d[Pick(s)].net + h[s \ {Pick(s)}]]
  BY <1>5, <1>6
<1>9. Sums(d, T, h)
  BY <1>7, <1>8 DEF Sums
<1> QED
  BY <1>2, <1>9

\* The empty sum, and the sum of what is picked and of the rest.
LEMMA NetEquation ==
  ASSUME NEW d, NEW S, IsFiniteSet(S)
  PROVE  Net(d, S) = IF S = {} THEN 0 ELSE d[Pick(S)].net + Net(d, S \ {Pick(S)})
<1> DEFINE G(u) == CHOOSE g : Sums(d, u, g)
           R == S \ {Pick(S)}
<1>1. IsFiniteSet(R) /\ R \subseteq S
  BY FS_Subset
<1>2. Sums(d, S, G(S)) /\ Sums(d, R, G(R))
  BY <1>1, SumsExist
<1>3. Net(d, S) = G(S)[S] /\ Net(d, R) = G(R)[R]
  BY NetIsFold
<1> HIDE DEF G, R
<1>4. G(S)[R] = G(R)[R]
  BY <1>1, <1>2, SumsAgree
<1>5. G(S)[S] = IF S = {} THEN 0 ELSE d[Pick(S)].net + G(S)[R]
  BY <1>2, SumsEquation DEF R
<1> QED
  BY <1>3, <1>4, <1>5 DEF R

LEMMA NetType ==
  ASSUME NEW d, NEW S, IsFiniteSet(S), \A i \in S : d[i].net \in Int
  PROVE  Net(d, S) \in Int
<1> DEFINE Bad == {T \in SUBSET S : Net(d, T) \notin Int}
<1> SUFFICES ASSUME Bad # {} PROVE FALSE
  OBVIOUS
<1> Bad \in SUBSET SUBSET S
  OBVIOUS
<1> HIDE DEF Bad
<1>1. PICK T \in Bad : \A U \in Bad : U \subseteq T => U = T
  BY SmallestSubset
<1>2. T \subseteq S /\ Net(d, T) \notin Int /\ IsFiniteSet(T)
  BY FS_Subset DEF Bad
<1>3. T # {}
  <2>1. ASSUME T = {} PROVE Net(d, T) = 0
    BY <1>2, <2>1, NetEquation
  <2> QED
    BY <1>2, <2>1
<1>4. Pick(T) \in T /\ T \ {Pick(T)} \notin Bad /\ T \ {Pick(T)} \subseteq S
  BY <1>1, <1>2, <1>3, PickIn
<1>5. Net(d, T \ {Pick(T)}) \in Int /\ d[Pick(T)].net \in Int
  BY <1>2, <1>4 DEF Bad
<1>6. Net(d, T) = d[Pick(T)].net + Net(d, T \ {Pick(T)})
  BY <1>2, <1>3, NetEquation
<1> QED
  BY <1>2, <1>5, <1>6

\* Any element may be taken out, whichever the fold picks.
LEMMA NetRemove ==
  ASSUME NEW d, NEW S, IsFiniteSet(S), \A i \in S : d[i].net \in Int, NEW x \in S
  PROVE  Net(d, S) = d[x].net + Net(d, S \ {x})
<1> DEFINE Bad == {T \in SUBSET S : \E y \in T : Net(d, T) # d[y].net + Net(d, T \ {y})}
<1> SUFFICES ASSUME Bad # {} PROVE FALSE
  OBVIOUS
<1> Bad \in SUBSET SUBSET S
  OBVIOUS
<1> HIDE DEF Bad
<1>1. PICK T \in Bad : \A U \in Bad : U \subseteq T => U = T
  BY SmallestSubset
<1>2. T \subseteq S /\ IsFiniteSet(T)
  BY FS_Subset DEF Bad
<1>3. PICK y \in T : Net(d, T) # d[y].net + Net(d, T \ {y})
  BY DEF Bad
<1> DEFINE p == Pick(T)
<1>4. p \in T /\ Net(d, T) = d[p].net + Net(d, T \ {p})
  BY <1>2, <1>3, NetEquation, PickIn
<1> HIDE DEF p
<1>5. p # y
  BY <1>3, <1>4
<1>6. T \ {p} \notin Bad /\ T \ {y} \notin Bad /\ T \ {p} \in SUBSET S /\ T \ {y} \in SUBSET S
  BY <1>1, <1>2, <1>3, <1>4
<1>7. /\ Net(d, T \ {p}) = d[y].net + Net(d, (T \ {p}) \ {y})
      /\ Net(d, T \ {y}) = d[p].net + Net(d, (T \ {y}) \ {p})
  BY <1>3, <1>4, <1>5, <1>6 DEF Bad
<1>8. (T \ {p}) \ {y} = (T \ {y}) \ {p} /\ IsFiniteSet((T \ {p}) \ {y})
  BY <1>2, FS_Subset
<1>9. Net(d, (T \ {p}) \ {y}) \in Int /\ d[p].net \in Int /\ d[y].net \in Int
  <2>1. \A i \in (T \ {p}) \ {y} : d[i].net \in Int
    BY <1>2
  <2> QED
    BY <1>2, <1>3, <1>4, <1>8, <2>1, NetType
<1>10. Net(d, (T \ {p}) \ {y}) = Net(d, (T \ {y}) \ {p})
  BY <1>8
<1> DEFINE rest == Net(d, (T \ {p}) \ {y})
<1>11. d[p].net + (d[y].net + rest) = d[y].net + (d[p].net + rest)
  BY <1>9
<1> QED
  BY <1>3, <1>4, <1>7, <1>10, <1>11, Zenon

\* The sum over two sets that share nothing.
LEMMA NetUnion ==
  ASSUME NEW d, NEW A, NEW B, IsFiniteSet(A), IsFiniteSet(B), A \cap B = {},
         \A i \in A \cup B : d[i].net \in Int
  PROVE  Net(d, A \cup B) = Net(d, A) + Net(d, B)
<1> DEFINE Bad == {T \in SUBSET A : Net(d, T \cup B) # Net(d, T) + Net(d, B)}
<1> SUFFICES ASSUME Bad # {} PROVE FALSE
  OBVIOUS
<1> Bad \in SUBSET SUBSET A
  OBVIOUS
<1> HIDE DEF Bad
<1>1. PICK T \in Bad : \A U \in Bad : U \subseteq T => U = T
  BY SmallestSubset
<1>2. /\ T \subseteq A /\ IsFiniteSet(T) /\ IsFiniteSet(T \cup B)
      /\ Net(d, T \cup B) # Net(d, T) + Net(d, B)
  BY FS_Subset, FS_Union DEF Bad
<1>3. Net(d, B) \in Int /\ Net(d, T) \in Int
  <2>1. \A i \in T : d[i].net \in Int
    BY <1>2
  <2> QED
    BY <1>2, <2>1, NetType
<1>4. T # {}
  <2> SUFFICES ASSUME T = {} PROVE FALSE
    OBVIOUS
  <2>1. Net(d, T) = 0 /\ T \cup B = B
    BY <1>2, NetEquation
  <2> QED
    BY <1>2, <1>3, <2>1
<1>5. PICK x \in T : TRUE
  BY <1>4
<1> DEFINE R == T \ {x}
<1>6. R \notin Bad /\ R \subseteq A
  BY <1>1, <1>2, <1>5
<1>7. Net(d, R \cup B) = Net(d, R) + Net(d, B)
  BY <1>6 DEF Bad
<1>8. Net(d, T) = d[x].net + Net(d, R)
  <2>1. \A i \in T : d[i].net \in Int
    BY <1>2
  <2> QED
    BY <1>2, <2>1, NetRemove
<1>9. Net(d, T \cup B) = d[x].net + Net(d, (T \cup B) \ {x})
  <2>1. \A i \in T \cup B : d[i].net \in Int
    BY <1>2
  <2> QED
    BY <1>2, <2>1, NetRemove
<1>10. (T \cup B) \ {x} = R \cup B
  BY <1>2
<1>11. Net(d, R) \in Int /\ d[x].net \in Int
  <2>1. \A i \in R : d[i].net \in Int
    BY <1>2
  <2>2. IsFiniteSet(R)
    BY <1>2, FS_Subset
  <2>3. Net(d, R) \in Int
    BY <2>1, <2>2, NetType
  <2> QED
    BY <1>2, <2>3
<1>12. Net(d, (T \cup B) \ {x}) = Net(d, R \cup B)
  BY <1>10
<1>13. (d[x].net + Net(d, R)) + Net(d, B) = d[x].net + (Net(d, R) + Net(d, B))
  BY <1>3, <1>11
<1> QED
  BY <1>2, <1>7, <1>8, <1>9, <1>12, <1>13, Zenon

\* Histories that agree on the deals have the same sum.
LEMMA NetSame ==
  ASSUME NEW d, NEW e, NEW S, IsFiniteSet(S), \A i \in S : d[i].net = e[i].net
  PROVE  Net(d, S) = Net(e, S)
<1> DEFINE Bad == {T \in SUBSET S : Net(d, T) # Net(e, T)}
<1> SUFFICES ASSUME Bad # {} PROVE FALSE
  OBVIOUS
<1> Bad \in SUBSET SUBSET S
  OBVIOUS
<1> HIDE DEF Bad
<1>1. PICK T \in Bad : \A U \in Bad : U \subseteq T => U = T
  BY SmallestSubset
<1>2. T \subseteq S /\ IsFiniteSet(T) /\ Net(d, T) # Net(e, T)
  BY FS_Subset DEF Bad
<1>3. T # {}
  <2>1. ASSUME T = {} PROVE Net(d, T) = 0 /\ Net(e, T) = 0
    BY <1>2, <2>1, NetEquation
  <2> QED
    BY <1>2, <2>1
<1>4. Pick(T) \in T /\ T \ {Pick(T)} \notin Bad /\ T \ {Pick(T)} \subseteq S
  BY <1>1, <1>2, <1>3, PickIn
<1>5. Net(d, T \ {Pick(T)}) = Net(e, T \ {Pick(T)}) /\ d[Pick(T)].net = e[Pick(T)].net
  BY <1>2, <1>4 DEF Bad
<1>6. /\ Net(d, T) = d[Pick(T)].net + Net(d, T \ {Pick(T)})
      /\ Net(e, T) = e[Pick(T)].net + Net(e, T \ {Pick(T)})
  BY <1>2, <1>3, NetEquation
<1> QED
  BY <1>2, <1>5, <1>6

-----------------------------------------------------------------------------
(* Streaks of losses.                                                      *)

Lost(d, S) == {i \in S : ~d[i].entry /\ d[i].net - EntryFee < 0}
Won(d, S)  == {i \in S : ~d[i].entry /\ d[i].net - EntryFee > 0}
LostSinceWon(d, S) == {i \in Lost(d, S) : i > Max(Won(d, S))}

\* StreakAfter in the history d.
Streak(d, streak, S) ==
  IF Won(d, S) = {} THEN streak + Cardinality(Lost(d, S)) ELSE Cardinality(LostSinceWon(d, S))

LEMMA LostFinite ==
  ASSUME NEW d, NEW S, IsFiniteSet(S)
  PROVE  /\ IsFiniteSet(Lost(d, S)) /\ Cardinality(Lost(d, S)) \in Nat
         /\ IsFiniteSet(Won(d, S))
         /\ IsFiniteSet(LostSinceWon(d, S)) /\ Cardinality(LostSinceWon(d, S)) \in Nat
<1>1. /\ Lost(d, S) \subseteq S /\ Won(d, S) \subseteq S /\ LostSinceWon(d, S) \subseteq S
  BY DEF Lost, Won, LostSinceWon
<1> QED
  BY <1>1, FS_Subset, FS_CardinalityType

LEMMA StreakType ==
  ASSUME NEW d, NEW S, IsFiniteSet(S), NEW streak \in Nat
  PROVE  Streak(d, streak, S) \in Nat
<1>1. Cardinality(Lost(d, S)) \in Nat /\ Cardinality(LostSinceWon(d, S)) \in Nat
  BY LostFinite
<1> QED
  BY <1>1 DEF Streak

\* The cardinality of two sets that share nothing.
LEMMA CountUnion ==
  ASSUME NEW A, NEW B, IsFiniteSet(A), IsFiniteSet(B), A \cap B = {}
  PROVE  Cardinality(A \cup B) = Cardinality(A) + Cardinality(B)
<1>1. Cardinality(A \cup B) = Cardinality(A) + Cardinality(B) - Cardinality({})
  BY FS_Union
<1>2. /\ Cardinality({}) = 0 /\ Cardinality(A) \in Nat /\ Cardinality(B) \in Nat
  BY FS_EmptySet, FS_CardinalityType
<1> QED
  BY <1>1, <1>2

\* Counting on from an earlier count gives what one count would have given.
LEMMA StreakSplit ==
  ASSUME NEW d, NEW A, NEW B, A \subseteq Int, B \subseteq Int,
         IsFiniteSet(A), IsFiniteSet(B), \A i \in A, j \in B : i < j, NEW streak \in Nat
  PROVE  Streak(d, streak, A \cup B) = Streak(d, Streak(d, streak, A), B)
<1>1. Lost(d, A \cup B) = Lost(d, A) \cup Lost(d, B) /\ Won(d, A \cup B) = Won(d, A) \cup Won(d, B)
  BY DEF Lost, Won
<1>2. /\ Lost(d, A) \subseteq A /\ Won(d, A) \subseteq A
      /\ Lost(d, B) \subseteq B /\ Won(d, B) \subseteq B
  BY DEF Lost, Won
<1>3. /\ IsFiniteSet(Lost(d, A)) /\ IsFiniteSet(Lost(d, B))
      /\ IsFiniteSet(Won(d, A)) /\ IsFiniteSet(Won(d, B))
      /\ IsFiniteSet(LostSinceWon(d, A))
      /\ Cardinality(Lost(d, A)) \in Nat /\ Cardinality(Lost(d, B)) \in Nat
      /\ Cardinality(LostSinceWon(d, A)) \in Nat
  BY LostFinite
<1>0. A \cap B = {}
  <2> SUFFICES ASSUME NEW i \in A, i \in B PROVE FALSE
    OBVIOUS
  <2>1. i \in Int /\ i < i
    OBVIOUS
  <2> QED
    BY <2>1
<1>4. CASE Won(d, B) = {} /\ Won(d, A) = {}
  <2>1. Lost(d, A) \cap Lost(d, B) = {}
    BY <1>0, <1>2
  <2>2. Cardinality(Lost(d, A \cup B)) = Cardinality(Lost(d, A)) + Cardinality(Lost(d, B))
    BY <1>1, <1>3, <2>1, CountUnion
  <2>3. Won(d, A \cup B) = {}
    BY <1>1, <1>4
  <2>4. /\ Streak(d, streak, A) = streak + Cardinality(Lost(d, A))
        /\ Streak(d, streak, A \cup B) = streak + Cardinality(Lost(d, A \cup B))
        /\ \A s : Streak(d, s, B) = s + Cardinality(Lost(d, B))
    BY <1>4, <2>3 DEF Streak
  <2>5. Streak(d, Streak(d, streak, A), B)
          = (streak + Cardinality(Lost(d, A))) + Cardinality(Lost(d, B))
    BY <2>4
  <2>6. (streak + Cardinality(Lost(d, A))) + Cardinality(Lost(d, B))
          = streak + (Cardinality(Lost(d, A)) + Cardinality(Lost(d, B)))
    BY <1>3
  <2> QED
    BY <2>2, <2>4, <2>5, <2>6
<1>5. CASE Won(d, B) = {} /\ Won(d, A) # {}
  <2>1. Won(d, A \cup B) = Won(d, A)
    BY <1>1, <1>5
  <2> DEFINE a == Max(Won(d, A))
  <2>2. a \in Won(d, A)
    BY <1>2, <1>3, <1>5, LargestOf
  <2>3. /\ LostSinceWon(d, A) = {i \in Lost(d, A) : i > a}
        /\ LostSinceWon(d, A \cup B) = {i \in Lost(d, A \cup B) : i > a}
    BY <2>1 DEF LostSinceWon
  <2> HIDE DEF a
  <2>4. LostSinceWon(d, A \cup B) = LostSinceWon(d, A) \cup Lost(d, B)
    <3>1. a \in A /\ a \in Int
      BY <1>2, <2>2
    <3>2. \A j \in Lost(d, B) : j > a
      BY <1>2, <3>1
    <3> QED
      BY <1>1, <2>3, <3>2
  <2>5. LostSinceWon(d, A) \cap Lost(d, B) = {}
    BY <1>0, <1>2, <2>3
  <2>6. Cardinality(LostSinceWon(d, A \cup B)) =
          Cardinality(LostSinceWon(d, A)) + Cardinality(Lost(d, B))
    BY <1>3, <2>4, <2>5, CountUnion
  <2>7. /\ Streak(d, streak, A) = Cardinality(LostSinceWon(d, A))
        /\ Streak(d, streak, A \cup B) = Cardinality(LostSinceWon(d, A \cup B))
        /\ \A s : Streak(d, s, B) = s + Cardinality(Lost(d, B))
    BY <1>5, <2>1 DEF Streak
  <2> QED
    BY <2>6, <2>7
<1>6. CASE Won(d, B) # {}
  <2>1. Won(d, A \cup B) # {}
    BY <1>1, <1>6
  <2> DEFINE b  == Max(Won(d, B))
             ab == Max(Won(d, A \cup B))
  <2>2. b \in Won(d, B) /\ \A j \in Won(d, B) : b >= j
    BY <1>2, <1>3, <1>6, LargestOf
  <2>3. IsFiniteSet(Won(d, A \cup B)) /\ Won(d, A \cup B) \subseteq Int
    BY <1>1, <1>2, <1>3, FS_Union
  <2>4. ab \in Won(d, A \cup B) /\ \A j \in Won(d, A \cup B) : ab >= j
    BY <2>1, <2>3, LargestOf
  <2>5. LostSinceWon(d, B) = {i \in Lost(d, B) : i > b}
    BY DEF LostSinceWon
  <2>6. LostSinceWon(d, A \cup B) = {i \in Lost(d, A \cup B) : i > ab}
    BY DEF LostSinceWon
  <2> HIDE DEF b, ab
  <2>7. b \in B /\ b \in Int /\ ab \in Int /\ ab \in A \cup B
    BY <1>1, <1>2, <2>2, <2>4
  <2>8. ab >= b
    BY <1>1, <2>2, <2>4
  <2>9. ab \notin A
    BY <2>7, <2>8
  <2>10. ab \in Won(d, B)
    BY <1>1, <1>2, <2>4, <2>9
  <2>11. ab = b
    BY <2>2, <2>7, <2>8, <2>10
  <2>12. \A i \in A : ~(i > b)
    BY <2>7
  <2>13. LostSinceWon(d, A \cup B) = LostSinceWon(d, B)
    BY <1>1, <1>2, <2>5, <2>6, <2>11, <2>12
  <2> QED
    BY <1>6, <2>1, <2>13 DEF Streak
<1> QED
  BY <1>4, <1>5, <1>6

\* Histories that agree on the deals have the same streak.
LEMMA StreakSame ==
  ASSUME NEW d, NEW e, NEW S, \A i \in S : d[i] = e[i], NEW streak
  PROVE  Streak(d, streak, S) = Streak(e, streak, S)
<1>1. Lost(d, S) = Lost(e, S) /\ Won(d, S) = Won(e, S)
  BY DEF Lost, Won
<1> QED
  BY <1>1 DEF Streak, LostSinceWon

-----------------------------------------------------------------------------
(* The inductive invariant.                                                *)

Types ==
  /\ today \in 1 .. LastDay /\ brokerToday \in {today, today + 1}
  /\ brokerToday <= LastDay
  /\ blind \subseteq Lanes
  /\ sent \in 0 .. MaxOrders
  /\ at \in [Lanes -> 0 .. LastDay]
  /\ ledger \in Ledger
  /\ perf \in [Lanes -> Ledger]
  /\ base \in Nat

\* The state s is what the feed says of the deals after base.
FeedOf(s) ==
  /\ s.pnl = Net(deals, base + 1 .. s.last)
  /\ s.streak = Streak(deals, 0, base + 1 .. s.last)

FileIsFeed == base <= ledger.last /\ ledger.last <= listed /\ FeedOf(ledger)

\* So is what a lane is about to save, or it is the start of another day.
SaveIsFeed ==
  \A l \in Lanes : pc[l] = "saving" =>
    /\ perf[l].last <= listed
    /\ IF perf[l].day = ledger.day THEN base <= perf[l].last /\ FeedOf(perf[l])
       ELSE perf[l].pnl = 0 /\ perf[l].streak = 0

FInv == Types /\ FileIsFeed /\ SaveIsFeed

\* The operators of the model are those of the lemmas.
LEMMA SameSums ==
  /\ \A S : NetOf(S) = Net(deals, S)
  /\ \A streak, S : StreakAfter(streak, S) = Streak(deals, streak, S)
<1>1. \A S : NetOf(S) = Net(deals, S)
  BY DEF NetOf, Net
<1>2. \A S : Losers(S) = Lost(deals, S) /\ Winners(S) = Won(deals, S)
  BY DEF Losers, Winners, Exits, Lost, Won
<1>3. \A streak, S : StreakAfter(streak, S) = Streak(deals, streak, S)
  BY <1>2 DEF StreakAfter, Streak, LostSinceWon
<1> QED
  BY <1>1, <1>3

LEMMA DealNets ==
  ASSUME NEW d \in Seq(Deal), NEW a \in Nat, NEW n \in Nat, n <= Len(d)
  PROVE  /\ IsFiniteSet(a + 1 .. n) /\ a + 1 .. n \subseteq Int
         /\ \A i \in a + 1 .. n : d[i].net \in Int
<1>1. IsFiniteSet(a + 1 .. n)
  BY FS_Interval
<1>2. \A i \in a + 1 .. n : d[i] \in Deal
  OBVIOUS
<1> QED
  BY <1>1, <1>2 DEF Deal

\* Nothing to count.
LEMMA NothingNew ==
  ASSUME NEW a \in Nat
  PROVE  Net(deals, a + 1 .. a) = 0 /\ Streak(deals, 0, a + 1 .. a) = 0
<1>1. a + 1 .. a = {}
  OBVIOUS
<1>2. Net(deals, {}) = 0 /\ Cardinality({}) = 0 /\ IsFiniteSet({})
  BY FS_EmptySet, NetEquation
<1>3. Won(deals, {}) = {} /\ Lost(deals, {}) = {}
  BY DEF Won, Lost
<1> QED
  BY <1>1, <1>2, <1>3 DEF Streak

\* The entries that a reading counts for a day.
LEMMA CountedEntries ==
  ASSUME NEW day, NEW n \in Nat
  PROVE  EntriesOn(day, n) \in Nat
<1> DEFINE all == {i \in 1 .. n : deals[i].entry /\ deals[i].day = day}
<1>1. IsFiniteSet(1 .. n) /\ all \in SUBSET (1 .. n)
  BY FS_Interval
<1>2. Cardinality(all) \in Nat
  BY <1>1, FS_Subset, FS_CardinalityType
<1> QED
  BY <1>2 DEF EntriesOn

\* Reading the feed on from where the ledger stands.
LEMMA FeedComputed ==
  ASSUME Shape, Types, FileIsFeed, NEW day \in Nat,
         NEW n \in listed .. Len(deals),
         NEW new, new = ComputePerformanceState(ledger, day, n)
  PROVE  /\ new \in Ledger /\ new.last <= n
         /\ IF new.day = ledger.day THEN base <= new.last /\ FeedOf(new)
            ELSE new.pnl = 0 /\ new.streak = 0
<1> DEFINE A == base + 1 .. ledger.last
           N == ledger.last + 1 .. n
<1>1. /\ deals \in Seq(Deal) /\ n \in Nat /\ n <= Len(deals) /\ base \in Nat
      /\ ledger.last \in Nat /\ ledger.day \in Nat /\ ledger.trades \in Nat
      /\ ledger.pnl \in Int /\ ledger.streak \in Nat
      /\ base <= ledger.last /\ ledger.last <= n /\ ledger.last <= Len(deals)
      /\ FeedOf(ledger)
  BY DEF Shape, Types, FileIsFeed, Ledger
<1>2. EntriesOn(day, n) \in Nat
  BY <1>1, CountedEntries
<1>3. CASE ledger.day # day
  <2>1. /\ new = [day |-> day, pnl |-> 0, streak |-> 0, trades |-> EntriesOn(day, n),
                  last |-> ledger.last]
    BY <1>3 DEF ComputePerformanceState, FirstOfDay
  <2> QED
    BY <1>1, <1>2, <1>3, <2>1 DEF Ledger
<1>4. CASE ledger.day = day
  <2>1. NewDeals(ledger.last, n) = N
    BY <1>1 DEF NewDeals
  <2>2. (IF N = {} THEN ledger.last ELSE n) = n
    <3>1. CASE ledger.last < n
      <4>1. n \in N
        BY <1>1, <3>1
      <4> QED
        BY <4>1
    <3>2. CASE ledger.last = n
      BY <3>2
    <3> QED
      BY <1>1, <3>1, <3>2
  <2>3. /\ new = [day |-> day, pnl |-> ledger.pnl + NetOf(N),
                  streak |-> StreakAfter(ledger.streak, N),
                  trades |-> Larger(EntriesOn(day, n), ledger.trades), last |-> n]
    BY <1>4, <2>1, <2>2 DEF ComputePerformanceState
  <2>4. NetOf(N) = Net(deals, N) /\ StreakAfter(ledger.streak, N) = Streak(deals, ledger.streak, N)
    BY SameSums
  <2>5. /\ IsFiniteSet(A) /\ IsFiniteSet(N) /\ A \subseteq Int /\ N \subseteq Int
        /\ \A i \in A : deals[i].net \in Int
        /\ \A i \in N : deals[i].net \in Int
    BY <1>1, DealNets
  <2>6. A \cup N = base + 1 .. n /\ A \cap N = {} /\ \A i \in A, j \in N : i < j
    BY <1>1
  <2>7. ledger.pnl = Net(deals, A) /\ ledger.streak = Streak(deals, 0, A)
    BY <1>1 DEF FeedOf
  <2> HIDE DEF A, N
  <2>8. Net(deals, A \cup N) = Net(deals, A) + Net(deals, N)
    BY <2>5, <2>6, NetUnion
  <2>9. Streak(deals, 0, A \cup N) = Streak(deals, Streak(deals, 0, A), N)
    BY <2>5, <2>6, StreakSplit
  <2>10. Net(deals, N) \in Int /\ Streak(deals, ledger.streak, N) \in Nat
    BY <1>1, <2>5, NetType, StreakType
  <2>11. Larger(EntriesOn(day, n), ledger.trades) \in Nat
    BY <1>1, <1>2 DEF Larger
  <2>12. new \in Ledger
    <3>1. ledger.pnl + NetOf(N) \in Int /\ StreakAfter(ledger.streak, N) \in Nat
      BY <1>1, <2>4, <2>10
    <3> QED
      BY <1>1, <2>3, <2>11, <3>1 DEF Ledger
  <2>13. FeedOf(new)
    <3>1. new.pnl = Net(deals, A \cup N) /\ new.streak = Streak(deals, 0, A \cup N)
      BY <2>3, <2>4, <2>7, <2>8, <2>9
    <3>2. new.last = n
      BY <2>3
    <3> QED
      BY <2>6, <3>1, <3>2 DEF FeedOf
  <2>14. new.day = day /\ new.last = n
    BY <2>3
  <2>15. base <= n
    BY <1>1
  <2> QED
    BY <1>1, <1>4, <2>12, <2>13, <2>14, <2>15
<1> QED
  BY <1>3, <1>4

\* A feed that grows says the same of the deals it had.
LEMMA FeedGrows ==
  ASSUME Shape, deals' \in Seq(Deal), Len(deals') >= Len(deals),
         \A i \in 1 .. Len(deals) : deals'[i] = deals[i],
         NEW a \in Nat, NEW n \in Nat, n <= Len(deals)
  PROVE  /\ Net(deals', a + 1 .. n) = Net(deals, a + 1 .. n)
         /\ Streak(deals', 0, a + 1 .. n) = Streak(deals, 0, a + 1 .. n)
<1>1. deals \in Seq(Deal) /\ Len(deals) \in Nat
  BY DEF Shape
<1>2. IsFiniteSet(a + 1 .. n)
  BY FS_Interval
<1>3. \A i \in a + 1 .. n : deals'[i] = deals[i]
  BY <1>1
<1> QED
  BY <1>2, <1>3, NetSame, StreakSame

\* The feed stays, or has one deal more.
FeedMoves ==
  \/ deals' = deals
  \/ /\ deals' \in Seq(Deal) /\ Len(deals') = Len(deals) + 1
     /\ \A i \in 1 .. Len(deals) : deals'[i] = deals[i]

\* What every step but the two of the ledger does.
Passive ==
  /\ base' = base /\ ledger' = ledger /\ listed' = listed
  /\ FeedMoves
  /\ \A l \in Lanes : pc'[l] = "saving" => pc[l] = "saving" /\ perf'[l] = perf[l]

LEMMA FeedPrefix ==
  ASSUME Shape, FeedMoves
  PROVE  /\ deals \in Seq(Deal) /\ Len(deals) \in Nat
         /\ deals' \in Seq(Deal) /\ Len(deals') \in Nat /\ Len(deals') >= Len(deals)
         /\ \A i \in 1 .. Len(deals) : deals'[i] = deals[i]
<1>1. deals \in Seq(Deal) /\ Len(deals) \in Nat
  BY DEF Shape
<1>2. CASE deals' = deals
  BY <1>1, <1>2
<1>3. CASE /\ deals' \in Seq(Deal) /\ Len(deals') = Len(deals) + 1
           /\ \A i \in 1 .. Len(deals) : deals'[i] = deals[i]
  BY <1>1, <1>3
<1> QED
  BY <1>2, <1>3 DEF FeedMoves

LEMMA FeedKept ==
  ASSUME Shape, FInv, Types', Passive
  PROVE  FInv'
<1>0. /\ base' = base /\ ledger' = ledger /\ listed' = listed
      /\ \A l \in Lanes : pc'[l] = "saving" => pc[l] = "saving" /\ perf'[l] = perf[l]
      /\ deals' \in Seq(Deal) /\ Len(deals') >= Len(deals)
      /\ \A i \in 1 .. Len(deals) : deals'[i] = deals[i]
  BY FeedPrefix DEF Passive
<1>1. /\ base \in Nat /\ ledger \in Ledger /\ Len(deals) \in Nat /\ Len(deals') \in Nat
      /\ listed \in Nat /\ listed <= Len(deals)
      /\ perf \in [Lanes -> Ledger]
  BY <1>0 DEF Shape, FInv, Types
<1>2. ASSUME NEW n \in Nat, n <= Len(deals)
      PROVE  /\ Net(deals', base + 1 .. n) = Net(deals, base + 1 .. n)
             /\ Streak(deals', 0, base + 1 .. n) = Streak(deals, 0, base + 1 .. n)
  BY <1>0, <1>1, <1>2, FeedGrows
<1>3. ASSUME NEW s \in Ledger, s.last <= listed, FeedOf(s)
      PROVE  /\ s.pnl = Net(deals', base' + 1 .. s.last)
             /\ s.streak = Streak(deals', 0, base' + 1 .. s.last)
  <2>1. s.last \in Nat /\ s.last <= Len(deals)
    BY <1>1, <1>3 DEF Ledger
  <2> QED
    BY <1>0, <1>1, <1>2, <1>3, <2>1 DEF FeedOf
<1>4. FileIsFeed'
  BY <1>0, <1>1, <1>3 DEF FInv, FileIsFeed, FeedOf
<1>5. SaveIsFeed'
  <2> SUFFICES ASSUME NEW l \in Lanes, pc'[l] = "saving"
               PROVE  /\ perf'[l].last <= listed'
                      /\ IF perf'[l].day = ledger'.day
                         THEN /\ base' <= perf'[l].last
                              /\ perf'[l].pnl = Net(deals', base' + 1 .. perf'[l].last)
                              /\ perf'[l].streak = Streak(deals', 0, base' + 1 .. perf'[l].last)
                         ELSE perf'[l].pnl = 0 /\ perf'[l].streak = 0
    BY DEF SaveIsFeed, FeedOf
  <2>1. /\ pc[l] = "saving" /\ perf'[l] = perf[l] /\ perf[l] \in Ledger
        /\ perf[l].last <= listed /\ perf[l].last \in Nat
    BY <1>0, <1>1 DEF FInv, SaveIsFeed, Ledger
  <2>2. CASE perf[l].day = ledger.day
    <3>1. FeedOf(perf[l]) /\ base <= perf[l].last
      BY <2>1, <2>2 DEF FInv, SaveIsFeed
    <3> QED
      BY <1>0, <1>3, <2>1, <2>2, <3>1
  <2>3. CASE perf[l].day # ledger.day
    BY <1>0, <1>1, <2>1, <2>3 DEF FInv, SaveIsFeed
  <2> QED
    BY <2>2, <2>3
<1> QED
  BY <1>4, <1>5 DEF FInv

-----------------------------------------------------------------------------
(* One lemma per action.                                                   *)

LEMMA InitFeed == Init => FInv
<1> SUFFICES ASSUME Init PROVE FInv
  OBVIOUS
<1>1. Types
  BY BoundsAssumption DEF Init, Types, NoLedger, Ledger
<1>2. FileIsFeed
  <2>1. base = 0 /\ ledger.last = 0 /\ ledger.pnl = 0 /\ ledger.streak = 0 /\ listed = 0
    BY DEF Init, NoLedger
  <2> QED
    BY <2>1, NothingNew DEF FileIsFeed, FeedOf
<1>3. SaveIsFeed
  BY DEF Init, SaveIsFeed
<1> QED
  BY <1>1, <1>2, <1>3 DEF FInv

LEMMA StartsPassive ==
  ASSUME IInv, FInv, NEW l \in Lanes, Starts(l)
  PROVE  Types' /\ Passive
<1>1. /\ deals' = deals /\ listed' = listed /\ sent' = sent /\ perf' = perf
      /\ UNCHANGED <<today, brokerToday, blind>>
      /\ ledger' = ledger /\ base' = base
      /\ pc' = [pc EXCEPT ![l] = "waiting"] /\ at' = [at EXCEPT ![l] = today]
  BY DEF Starts, broker, days, files
<1>2. Types'
  BY <1>1 DEF FInv, Types
<1>3. pc \in [Lanes -> Places]
  BY DEF IInv, Shape
<1>4. \A m \in Lanes : pc'[m] = "saving" => pc[m] = "saving" /\ perf'[m] = perf[m]
  BY <1>1, <1>3
<1> QED
  BY <1>1, <1>2, <1>4 DEF Passive, FeedMoves

LEMMA CountsPositionsPassive ==
  ASSUME IInv, FInv, NEW l \in Lanes, NEW reply, CountsPositions(l, reply)
  PROVE  Types' /\ Passive
<1>1. /\ deals' = deals /\ listed' = listed /\ sent' = sent /\ perf' = perf /\ at' = at
      /\ UNCHANGED <<today, brokerToday, blind>>
      /\ ledger' = ledger /\ base' = base /\ pc' = [pc EXCEPT ![l] = "reading"]
  BY DEF CountsPositions, broker, days, files
<1>2. Types'
  BY <1>1 DEF FInv, Types
<1>3. pc \in [Lanes -> Places]
  BY DEF IInv, Shape
<1>4. \A m \in Lanes : pc'[m] = "saving" => pc[m] = "saving" /\ perf'[m] = perf[m]
  BY <1>1, <1>3
<1> QED
  BY <1>1, <1>2, <1>4 DEF Passive, FeedMoves

LEMMA ReadsHistoryFeed ==
  ASSUME IInv, FInv, NEW l \in Lanes, NEW n, ReadsHistory(l, n)
  PROVE  FInv'
<1> DEFINE new == ComputePerformanceState(ledger, at[l], n)
<1>1. /\ deals' = deals /\ sent' = sent /\ at' = at
      /\ today' = today /\ brokerToday' = brokerToday
      /\ n \in listed .. Len(deals) /\ listed' = n
      /\ blind' = IF Missed(l, n) # {} THEN blind \cup {l} ELSE blind
      /\ ledger' = ledger /\ base' = base
      /\ pc' = [pc EXCEPT ![l] = "saving"] /\ perf' = [perf EXCEPT ![l] = new]
  BY DEF ReadsHistory, days, files
<1>2. /\ Shape /\ pc \in [Lanes -> Places] /\ at[l] \in Nat
      /\ listed \in Nat /\ n \in Nat /\ listed <= n
  BY <1>1 DEF IInv, Shape
<1>3. /\ new \in Ledger /\ new.last <= n
      /\ IF new.day = ledger.day THEN base <= new.last /\ FeedOf(new)
         ELSE new.pnl = 0 /\ new.streak = 0
  BY <1>1, <1>2, FeedComputed DEF FInv
<1> HIDE DEF new
<1>4. Types'
  BY <1>1, <1>3 DEF FInv, Types
<1>5. FileIsFeed'
  <2>1. ledger.last \in Nat /\ ledger.last <= n
    BY <1>2 DEF Shape, LedgerShape, FInv, FileIsFeed
  <2> QED
    BY <1>1, <2>1 DEF FInv, FileIsFeed, FeedOf
<1>6. SaveIsFeed'
  <2>1. /\ \A m \in Lanes : m # l => pc'[m] = pc[m] /\ perf'[m] = perf[m]
        /\ perf'[l] = new
    BY <1>1, <1>2 DEF FInv, Types
  <2>2. FeedOf(new) => new.pnl = Net(deals', base' + 1 .. new.last)
                       /\ new.streak = Streak(deals', 0, base' + 1 .. new.last)
    BY <1>1 DEF FeedOf
  <2>3. \A m \in Lanes : FeedOf(perf[m]) =>
          /\ perf[m].pnl = Net(deals', base' + 1 .. perf[m].last)
          /\ perf[m].streak = Streak(deals', 0, base' + 1 .. perf[m].last)
    BY <1>1 DEF FeedOf
  <2> SUFFICES ASSUME NEW m \in Lanes, pc'[m] = "saving"
               PROVE  /\ perf'[m].last <= listed'
                      /\ IF perf'[m].day = ledger'.day
                         THEN /\ base' <= perf'[m].last
                              /\ perf'[m].pnl = Net(deals', base' + 1 .. perf'[m].last)
                              /\ perf'[m].streak = Streak(deals', 0, base' + 1 .. perf'[m].last)
                         ELSE perf'[m].pnl = 0 /\ perf'[m].streak = 0
    BY DEF SaveIsFeed, FeedOf
  <2>4. CASE m = l
    BY <1>1, <1>3, <2>1, <2>2, <2>4
  <2>5. CASE m # l
    <3>1. /\ pc[m] = "saving" /\ perf'[m] = perf[m]
          /\ perf[m].last \in Nat /\ perf[m].last <= listed
      BY <1>2, <2>1, <2>5 DEF Shape, LedgerShape, FInv, SaveIsFeed
    <3> QED
      BY <1>1, <1>2, <2>3, <3>1 DEF FInv, SaveIsFeed
  <2> QED
    BY <2>4, <2>5
<1> QED
  BY <1>4, <1>5, <1>6 DEF FInv

LEMMA SavesLedgerFeed ==
  ASSUME IInv, FInv, NEW l \in Lanes, SavesLedger(l)
  PROVE  FInv'
<1>1. /\ deals' = deals /\ listed' = listed /\ sent' = sent /\ at' = at /\ perf' = perf
      /\ UNCHANGED <<today, brokerToday, blind>>
      /\ pc[l] = "saving" /\ pc' = [pc EXCEPT ![l] = "gates"]
      /\ ledger' = perf[l]
      /\ base' = IF perf[l].day = ledger.day THEN base ELSE perf[l].last
  BY DEF SavesLedger, broker, days
<1>2. perf[l] \in Ledger /\ perf[l].last \in Nat /\ base \in Nat
  BY DEF FInv, Types, Ledger
<1>3. Types'
  BY <1>1, <1>2 DEF FInv, Types
<1>4. /\ perf[l].last <= listed
      /\ IF perf[l].day = ledger.day THEN base <= perf[l].last /\ FeedOf(perf[l])
         ELSE perf[l].pnl = 0 /\ perf[l].streak = 0
  BY <1>1 DEF FInv, SaveIsFeed
<1>5. FileIsFeed'
  <2>1. /\ ledger'.pnl = Net(deals', base' + 1 .. ledger'.last)
        /\ ledger'.streak = Streak(deals', 0, base' + 1 .. ledger'.last)
        /\ base' <= ledger'.last
    <3>1. CASE perf[l].day = ledger.day
      BY <1>1, <1>4, <3>1 DEF FeedOf
    <3>2. CASE perf[l].day # ledger.day
      <4>1. /\ Net(deals, perf[l].last + 1 .. perf[l].last) = 0
            /\ Streak(deals, 0, perf[l].last + 1 .. perf[l].last) = 0
        BY <1>2, NothingNew
      <4>2. base' = perf[l].last /\ ledger'.last = perf[l].last
        BY <1>1, <3>2
      <4> QED
        BY <1>1, <1>2, <1>4, <3>2, <4>1, <4>2
    <3> QED
      BY <3>1, <3>2
  <2> QED
    BY <1>1, <1>4, <2>1 DEF FileIsFeed, FeedOf
<1>6. SaveIsFeed'
  <2>1. \A m \in Lanes : m # l => pc[m] # "saving"
    BY <1>1 DEF IInv, Exclusive
  <2>2. \A m \in Lanes : pc'[m] # "saving"
    BY <1>1, <2>1 DEF IInv, Shape
  <2> QED
    BY <2>2 DEF SaveIsFeed
<1> QED
  BY <1>3, <1>5, <1>6 DEF FInv

\* A lane that ends its pass has nothing left to save.
LEMMA ForgetsPassive ==
  ASSUME IInv, FInv, NEW l \in Lanes, Forgets(l), UNCHANGED <<today, brokerToday, listed>>,
         sent' \in 0 .. MaxOrders, ledger' = ledger, base' = base, FeedMoves
  PROVE  Types' /\ Passive
<1>1. pc \in [Lanes -> Places]
  BY DEF IInv, Shape
<1>2. NoLedger \in Ledger
  BY DEF NoLedger, Ledger
<1>3. Types'
  BY <1>2, BoundsAssumption DEF Forgets, FInv, Types
<1>4. \A m \in Lanes : pc'[m] = "saving" => pc[m] = "saving" /\ perf'[m] = perf[m]
  BY <1>1 DEF Forgets, FInv, Types
<1> QED
  BY <1>3, <1>4 DEF Passive

LEMMA LeavesRefusedPassive ==
  ASSUME IInv, FInv, NEW l \in Lanes, LeavesRefused(l)
  PROVE  Types' /\ Passive
<1>1. /\ Forgets(l) /\ sent' = sent /\ ledger' = ledger /\ base' = base
      /\ FeedMoves /\ UNCHANGED <<today, brokerToday, listed>>
  BY DEF LeavesRefused, broker, days, files, FeedMoves
<1>2. sent \in 0 .. MaxOrders
  BY DEF FInv, Types
<1> QED
  BY <1>1, <1>2, ForgetsPassive

\* A deal that is made is one more in the feed.
LEMMA DealAdded ==
  ASSUME IInv, NEW isEntry \in BOOLEAN, NEW net \in Int, NEW by \in SUBSET Lanes,
         Makes(isEntry, net, by)
  PROVE  FeedMoves
<1>1. Shape /\ \A i \in 1 .. Len(deals) : deals[i].utc <= today
  BY DEF IInv, DaysAgree
<1> QED
  BY <1>1, OneMoreDeal DEF FeedMoves

\* An order that is executed adds the deal of its entry.
LEMMA EntryAdded ==
  ASSUME IInv, NEW o \in Order, NEW isLate \in BOOLEAN, Opens(o, isLate)
  PROVE  FeedMoves
  BY Opened, DealsAssumption DEF FeedMoves

LEMMA SendsOrderPassive ==
  ASSUME IInv, FInv, NEW l \in Lanes, NEW fate, SendsOrder(l, fate)
  PROVE  Types' /\ Passive
<1> DEFINE o == [id |-> sent', lane |-> l]
<1>1. /\ sent < MaxOrders /\ sent' = sent + 1 /\ Forgets(l)
      /\ UNCHANGED <<today, brokerToday, listed>> /\ ledger' = ledger /\ base' = base
      /\ Opens(o, FALSE) \/ deals' = deals
  BY DEF SendsOrder, days, files
<1>2. Shape /\ sent \in 0 .. MaxOrders
  BY DEF IInv, FInv, Types
<1>3. sent' \in 0 .. MaxOrders /\ sent' \in 1 .. MaxOrders
  BY <1>1, <1>2, BoundsAssumption
<1>4. o \in Order
  BY <1>3 DEF Order
<1> HIDE DEF o
<1>5. FeedMoves
  <2>1. CASE Opens(o, FALSE)
    BY <1>2, <1>4, <2>1, EntryAdded
  <2>2. CASE deals' = deals
    BY <2>2 DEF FeedMoves
  <2> QED
    BY <1>1, <2>1, <2>2
<1> QED
  BY <1>1, <1>3, <1>5, ForgetsPassive

LEMMA ExecutesLatePassive ==
  ASSUME IInv, FInv, NEW o \in late, ExecutesLate(o)
  PROVE  Types' /\ Passive
<1>1. /\ Opens(o, TRUE) /\ o \in Order /\ Shape
      /\ UNCHANGED <<today, brokerToday, listed, blind, sent, at, pc, perf, ledger, base>>
  BY DEF ExecutesLate, days, files, IInv, Shape
<1>2. FeedMoves
  BY <1>1, EntryAdded
<1> QED
  BY <1>1, <1>2 DEF FInv, Types, Passive

LEMMA ClosesPassive ==
  ASSUME IInv, FInv, NEW p \in book, NEW r \in Results, Closes(p, r)
  PROVE  Types' /\ Passive
<1>1. /\ Makes(FALSE, r, {}) /\ r \in Int /\ {} \in SUBSET Lanes /\ FALSE \in BOOLEAN
      /\ UNCHANGED <<today, brokerToday, listed, blind, sent, at, pc, perf, ledger, base>>
  BY DealsAssumption DEF Closes, days, files
<1>2. FeedMoves
  BY <1>1, DealAdded
<1> QED
  BY <1>1, <1>2 DEF FInv, Types, Passive

LEMMA ClocksPassive ==
  ASSUME FInv, BrokerMidnight \/ Midnight \/ UNCHANGED vars
  PROVE  Types' /\ Passive
<1>1. /\ UNCHANGED <<deals, listed, blind, sent, at, pc, perf, ledger, base>>
      /\ \/ today' = today /\ brokerToday' = brokerToday
         \/ brokerToday = today /\ today < LastDay /\ today' = today /\ brokerToday' = today + 1
         \/ today < brokerToday /\ today' = today + 1 /\ brokerToday' = brokerToday
  BY DEF BrokerMidnight, Midnight, vars, broker, files
<1>2. Types'
  BY <1>1, BoundsAssumption DEF FInv, Types
<1> QED
  BY <1>1, <1>2 DEF Passive, FeedMoves

\* Every step reads the feed for the ledger, saves it, or leaves both alone.
LEMMA StepCases ==
  ASSUME IInv, FInv, [Next]_vars
  PROVE  \/ \E l \in Lanes : (\E n : ReadsHistory(l, n)) \/ SavesLedger(l)
         \/ Types' /\ Passive
<1>1. CASE \E l \in Lanes : LaneStep(l)
  <2>1. PICK l \in Lanes : LaneStep(l)
    BY <1>1
  <2> QED
    BY <2>1, StartsPassive, CountsPositionsPassive, SendsOrderPassive, LeavesRefusedPassive
       DEF LaneStep
<1>2. CASE \E o \in late : ExecutesLate(o)
  BY <1>2, ExecutesLatePassive
<1>3. CASE \E p \in book, r \in Results : Closes(p, r)
  BY <1>3, ClosesPassive
<1>4. CASE BrokerMidnight \/ Midnight \/ UNCHANGED vars
  BY <1>4, ClocksPassive
<1> QED
  BY <1>1, <1>2, <1>3, <1>4 DEF Next

LEMMA StepFeed == IInv /\ FInv /\ [Next]_vars => FInv'
<1> SUFFICES ASSUME IInv, FInv, [Next]_vars PROVE FInv'
  OBVIOUS
<1>1. Shape
  BY DEF IInv
<1>2. ASSUME NEW l \in Lanes, NEW n, ReadsHistory(l, n) PROVE FInv'
  BY <1>2, ReadsHistoryFeed
<1>3. ASSUME NEW l \in Lanes, SavesLedger(l) PROVE FInv'
  BY <1>3, SavesLedgerFeed
<1>4. CASE Types' /\ Passive
  BY <1>1, <1>4, FeedKept
<1> QED
  BY <1>2, <1>3, <1>4, StepCases

-----------------------------------------------------------------------------
(* The refinement: what the trades on file are worth.                      *)

\* Entries of a day among the first n deals of the history d.
EntriesIn(d, day, n) == Cardinality({i \in 1 .. n : d[i].entry /\ d[i].day = day})

LEMMA EntriesMono ==
  ASSUME NEW d, NEW day, NEW n \in Nat, NEW m \in Nat, n <= m
  PROVE  /\ EntriesIn(d, day, n) \in Nat /\ EntriesIn(d, day, m) \in Nat
         /\ EntriesIn(d, day, n) <= EntriesIn(d, day, m)
<1> DEFINE E(k) == {i \in 1 .. k : d[i].entry /\ d[i].day = day}
<1>1. IsFiniteSet(1 .. m) /\ E(m) \subseteq 1 .. m /\ E(n) \subseteq E(m)
  BY FS_Interval
<1>2. IsFiniteSet(E(m)) /\ IsFiniteSet(E(n)) /\ Cardinality(E(n)) <= Cardinality(E(m))
  BY <1>1, FS_Subset
<1>3. Cardinality(E(m)) \in Nat /\ Cardinality(E(n)) \in Nat
  BY <1>2, FS_CardinalityType
<1> QED
  BY <1>2, <1>3 DEF EntriesIn

LEMMA EntriesSame ==
  ASSUME NEW d, NEW e, NEW day, NEW n \in Nat, \A i \in 1 .. n : d[i] = e[i]
  PROVE  EntriesIn(d, day, n) = EntriesIn(e, day, n)
<1>1. {i \in 1 .. n : d[i].entry /\ d[i].day = day} = {i \in 1 .. n : e[i].entry /\ e[i].day = day}
  OBVIOUS
<1> QED
  BY <1>1 DEF EntriesIn

\* No trade is on file that no reading of the feed has listed.
TradesOnFile == ledger.trades <= EntriesIn(deals, ledger.day, listed)

\* What a lane is about to save are the entries the feed had up to the mark, or,
\* when a day begins, up to some deal behind it.
TradesToSave ==
  \A l \in Lanes : pc[l] = "saving" =>
    IF perf[l].day = ledger.day THEN perf[l].trades = EntriesIn(deals, perf[l].day, perf[l].last)
    ELSE /\ perf[l].last = ledger.last
         /\ \E n \in ledger.last .. listed : perf[l].trades = EntriesIn(deals, perf[l].day, n)

DInv == TradesOnFile /\ TradesToSave

\* The larger of the feed's count and the file's is the feed's.
LEMMA TradesComputed ==
  ASSUME Shape, Types, FileIsFeed, TradesOnFile, NEW day \in Nat,
         NEW n \in listed .. Len(deals),
         NEW new, new = ComputePerformanceState(ledger, day, n)
  PROVE  IF new.day = ledger.day THEN new.trades = EntriesIn(deals, new.day, new.last)
         ELSE /\ new.last = ledger.last
              /\ \E k \in ledger.last .. n : new.trades = EntriesIn(deals, new.day, k)
<1>1. /\ n \in Nat /\ listed \in Nat /\ listed <= n /\ ledger.last \in Nat /\ ledger.last <= n /\ ledger.trades \in Nat
  BY DEF Shape, LedgerShape, FileIsFeed
<1>2. EntriesOn(day, n) = EntriesIn(deals, day, n) /\ EntriesIn(deals, day, n) \in Nat
  <2>1. EntriesOn(day, n) = EntriesIn(deals, day, n)
    BY DEF EntriesOn, EntriesIn
  <2>2. EntriesIn(deals, day, n) \in Nat
    BY <1>1, EntriesMono
  <2> QED
    BY <2>1, <2>2
<1>3. CASE ledger.day # day
  <2>1. new = FirstOfDay(ledger, day, n)
    BY <1>3 DEF ComputePerformanceState
  <2>2. new.day = day /\ new.last = ledger.last /\ new.trades = EntriesOn(day, n)
    BY <2>1 DEF FirstOfDay
  <2>3. n \in ledger.last .. n
    BY <1>1
  <2> QED
    BY <1>2, <1>3, <2>2, <2>3
<1>4. CASE ledger.day = day
  <2>1. /\ new.day = day /\ new.trades = Larger(EntriesOn(day, n), ledger.trades)
        /\ new.last = IF NewDeals(ledger.last, n) = {} THEN ledger.last ELSE n
    BY <1>4 DEF ComputePerformanceState
  <2>2. new.trades = EntriesIn(deals, day, n)
    <3>1. ledger.trades <= EntriesIn(deals, day, n)
      <4>1. /\ EntriesIn(deals, day, listed) \in Nat
            /\ EntriesIn(deals, day, listed) <= EntriesIn(deals, day, n)
        BY <1>1, EntriesMono
      <4> QED
        BY <1>1, <1>2, <1>4, <4>1 DEF TradesOnFile
    <3> QED
      BY <1>1, <1>2, <2>1, <3>1 DEF Larger
  <2>3. new.last = n
    <3>1. CASE ledger.last < n
      <4>1. n \in NewDeals(ledger.last, n)
        BY <1>1, <3>1 DEF NewDeals
      <4> QED
        BY <2>1, <4>1
    <3>2. CASE ledger.last = n
      BY <2>1, <3>2
    <3> QED
      BY <1>1, <3>1, <3>2
  <2> QED
    BY <1>4, <2>1, <2>2, <2>3
<1> QED
  BY <1>3, <1>4

LEMMA InitTrades == Init => DInv
<1> SUFFICES ASSUME Init PROVE DInv
  OBVIOUS
<1>1. listed = 0 /\ ledger.trades = 0
  BY DEF Init, NoLedger
<1>2. TradesOnFile
  BY <1>1, EntriesMono DEF TradesOnFile
<1>3. TradesToSave
  BY DEF Init, TradesToSave
<1> QED
  BY <1>2, <1>3 DEF DInv

LEMMA ReadsHistoryTrades ==
  ASSUME IInv, FInv, DInv, NEW l \in Lanes, NEW n, ReadsHistory(l, n)
  PROVE  DInv'
<1> DEFINE new == ComputePerformanceState(ledger, at[l], n)
<1>1. /\ deals' = deals /\ ledger' = ledger /\ n \in listed .. Len(deals) /\ listed' = n
      /\ pc[l] = "reading"
      /\ pc' = [pc EXCEPT ![l] = "saving"] /\ perf' = [perf EXCEPT ![l] = new]
  BY DEF ReadsHistory, files
<1>2. /\ Shape /\ pc \in [Lanes -> Places] /\ at[l] \in Nat /\ DOMAIN perf = Lanes
      /\ listed \in Nat /\ n \in Nat /\ listed <= n /\ ledger.trades \in Nat
  BY <1>1 DEF IInv, Shape, LedgerShape
<1>3. IF new.day = ledger.day THEN new.trades = EntriesIn(deals, new.day, new.last)
      ELSE /\ new.last = ledger.last
           /\ \E k \in ledger.last .. n : new.trades = EntriesIn(deals, new.day, k)
  BY <1>1, <1>2, TradesComputed DEF FInv, DInv
<1> HIDE DEF new
<1>4. TradesOnFile'
  <2>1. /\ EntriesIn(deals, ledger.day, listed) \in Nat
        /\ EntriesIn(deals, ledger.day, n) \in Nat
        /\ EntriesIn(deals, ledger.day, listed) <= EntriesIn(deals, ledger.day, n)
    BY <1>2, EntriesMono
  <2>2. ledger.trades <= EntriesIn(deals, ledger.day, n)
    BY <1>2, <2>1 DEF DInv, TradesOnFile
  <2> QED
    BY <1>1, <2>2 DEF TradesOnFile
<1>5. TradesToSave'
  <2> SUFFICES ASSUME NEW m \in Lanes, pc'[m] = "saving"
               PROVE  IF perf'[m].day = ledger.day
                      THEN perf'[m].trades = EntriesIn(deals, perf'[m].day, perf'[m].last)
                      ELSE /\ perf'[m].last = ledger.last
                           /\ \E k \in ledger.last .. n :
                                perf'[m].trades = EntriesIn(deals, perf'[m].day, k)
    BY <1>1 DEF TradesToSave
  <2>1. CASE m = l
    <3>1. perf'[m] = new
      BY <1>1, <1>2, <2>1 DEF FInv, Types
    <3> QED
      BY <1>3, <3>1
  <2>2. CASE m # l
    <3>1. pc[m] = "saving" /\ pc[l] \in {"reading", "saving"}
      BY <1>1, <1>2, <2>2
    <3> QED
      BY <2>2, <3>1 DEF IInv, Exclusive
  <2> QED
    BY <2>1, <2>2
<1> QED
  BY <1>4, <1>5 DEF DInv

LEMMA SavesLedgerTrades ==
  ASSUME IInv, FInv, DInv, NEW l \in Lanes, SavesLedger(l)
  PROVE  DInv'
<1>1. /\ deals' = deals /\ listed' = listed /\ pc[l] = "saving" /\ pc' = [pc EXCEPT ![l] = "gates"]
      /\ ledger' = perf[l]
  BY DEF SavesLedger, broker
<1>2. /\ listed \in Nat /\ ledger.last \in Nat
      /\ perf[l].last \in Nat /\ perf[l].last <= listed
  BY <1>1 DEF IInv, Shape, FInv, SaveIsFeed, LedgerShape
<1>3. TradesOnFile'
  <2>1. PICK n \in Nat : n <= listed /\ perf[l].trades = EntriesIn(deals, perf[l].day, n)
    <3>1. CASE perf[l].day = ledger.day
      BY <1>1, <1>2, <3>1 DEF DInv, TradesToSave
    <3>2. CASE perf[l].day # ledger.day
      <4>1. PICK n \in ledger.last .. listed :
              perf[l].trades = EntriesIn(deals, perf[l].day, n)
        BY <1>1, <3>2 DEF DInv, TradesToSave
      <4>2. n \in Nat /\ n <= listed
        BY <1>2
      <4> QED
        BY <4>1, <4>2
    <3> QED
      BY <3>1, <3>2
  <2>2. EntriesIn(deals, perf[l].day, n) <= EntriesIn(deals, perf[l].day, listed)
    BY <1>2, <2>1, EntriesMono
  <2> QED
    BY <1>1, <2>1, <2>2 DEF TradesOnFile
<1>4. TradesToSave'
  <2>1. \A m \in Lanes : m # l => pc[m] # "saving"
    BY <1>1 DEF IInv, Exclusive
  <2>2. \A m \in Lanes : pc'[m] # "saving"
    BY <1>1, <2>1 DEF IInv, Shape
  <2> QED
    BY <2>2 DEF TradesToSave
<1> QED
  BY <1>3, <1>4 DEF DInv

LEMMA TradesKept ==
  ASSUME Shape, FInv, DInv, Passive
  PROVE  DInv'
<1>1. /\ base' = base /\ ledger' = ledger /\ listed' = listed
      /\ \A l \in Lanes : pc'[l] = "saving" => pc[l] = "saving" /\ perf'[l] = perf[l]
      /\ Len(deals) \in Nat /\ Len(deals') \in Nat /\ Len(deals) <= Len(deals')
      /\ \A i \in 1 .. Len(deals) : deals'[i] = deals[i]
  BY FeedPrefix DEF Passive
<1>2. ASSUME NEW n \in Nat, n <= Len(deals), NEW day
      PROVE  EntriesIn(deals', day, n) = EntriesIn(deals, day, n)
  <2>1. \A i \in 1 .. n : deals'[i] = deals[i]
    BY <1>1, <1>2
  <2> QED
    BY <2>1, EntriesSame
<1>3. /\ ledger.trades \in Nat /\ ledger.last \in Nat
      /\ listed \in Nat /\ listed <= Len(deals)
  BY DEF Shape, LedgerShape
<1>4. TradesOnFile'
  <2>1. EntriesIn(deals', ledger.day, listed) = EntriesIn(deals, ledger.day, listed)
    BY <1>2, <1>3
  <2> QED
    BY <1>1, <2>1 DEF DInv, TradesOnFile
<1>5. TradesToSave'
  <2> SUFFICES ASSUME NEW l \in Lanes, pc'[l] = "saving"
               PROVE  IF perf'[l].day = ledger'.day
                      THEN perf'[l].trades = EntriesIn(deals', perf'[l].day, perf'[l].last)
                      ELSE /\ perf'[l].last = ledger'.last
                           /\ \E n \in ledger'.last .. listed' :
                                perf'[l].trades = EntriesIn(deals', perf'[l].day, n)
    BY DEF TradesToSave
  <2>1. pc[l] = "saving" /\ perf'[l] = perf[l] /\ perf[l].last \in Nat /\ perf[l].last <= Len(deals)
    BY <1>1, <1>3 DEF Shape, LedgerShape, FInv, SaveIsFeed
  <2>2. CASE perf[l].day = ledger.day
    <3>1. perf[l].trades = EntriesIn(deals, perf[l].day, perf[l].last)
      BY <2>1, <2>2 DEF DInv, TradesToSave
    <3> QED
      BY <1>1, <1>2, <2>1, <2>2, <3>1
  <2>3. CASE perf[l].day # ledger.day
    <3>1. /\ perf[l].last = ledger.last
          /\ \E n \in ledger.last .. listed : perf[l].trades = EntriesIn(deals, perf[l].day, n)
      BY <2>1, <2>3 DEF DInv, TradesToSave
    <3>2. PICK n \in ledger.last .. listed : perf[l].trades = EntriesIn(deals, perf[l].day, n)
      BY <3>1
    <3>3. n \in Nat /\ n <= Len(deals) /\ n \in ledger.last .. listed
      BY <1>1, <1>3
    <3>4. perf[l].trades = EntriesIn(deals', perf[l].day, n)
      BY <1>2, <3>2, <3>3
    <3> QED
      BY <1>1, <2>1, <2>3, <3>1, <3>3, <3>4
  <2> QED
    BY <2>2, <2>3
<1> QED
  BY <1>4, <1>5 DEF DInv

LEMMA StepTrades == IInv /\ FInv /\ DInv /\ [Next]_vars => DInv'
<1> SUFFICES ASSUME IInv, FInv, DInv, [Next]_vars PROVE DInv'
  OBVIOUS
<1>1. Shape
  BY DEF IInv
<1>2. ASSUME NEW l \in Lanes, NEW n, ReadsHistory(l, n) PROVE DInv'
  BY <1>2, ReadsHistoryTrades
<1>3. ASSUME NEW l \in Lanes, SavesLedger(l) PROVE DInv'
  BY <1>3, SavesLedgerTrades
<1>4. CASE Passive
  BY <1>1, <1>4, TradesKept
<1> QED
  BY <1>2, <1>3, <1>4, StepCases

-----------------------------------------------------------------------------
(* The refinement, step by step.                                           *)

\* The abstract ledger counts and sums as the detailed one does.
LEMMA DayCounts == \A S : Day!Cardinality(S) = Cardinality(S)
  BY DEF Day!Cardinality, Cardinality

LEMMA DayEarns == \A S : Day!Earned(S) = Net(deals, S)
  BY DEF Day!Earned, Net, Day!MapThenSumSet, Day!MapThenFoldSet, MapThenSumSet, MapThenFoldSet

LEMMA DayEntries == \A day, n : Day!EntriesOf(day, n) = EntriesIn(deals, day, n)
  BY DayCounts DEF Day!EntriesOf, EntriesIn

\* The run of losses as the abstract ledger defines it.
LEMMA SameRun ==
  ASSUME NEW S, IsFiniteSet(S), S \subseteq Int, \A i \in S : deals[i].net \in Int
  PROVE  Day!RunOfLosses(S) = Streak(deals, 0, S)
<1>1. \A i \in S : /\ deals[i].net - EntryFee < 0 <=> deals[i].net < EntryFee
                   /\ deals[i].net - EntryFee > 0 <=> deals[i].net > EntryFee
  BY DealsAssumption
<1>2. /\ Lost(deals, S) = {i \in S : Day!Lost(i)}
      /\ Won(deals, S) = {i \in S : Day!Won(i)}
  BY <1>1 DEF Lost, Won, Day!Lost, Day!Won
<1> DEFINE run == {i \in S : Day!Lost(i) /\ \A j \in S : Day!Won(j) => j < i}
<1>3. Day!RunOfLosses(S) = Cardinality(run)
  BY DayCounts DEF Day!RunOfLosses
<1>4. CASE Won(deals, S) = {}
  <2>1. run = Lost(deals, S)
    BY <1>2, <1>4
  <2>2. Cardinality(Lost(deals, S)) \in Nat
    BY LostFinite
  <2>3. Streak(deals, 0, S) = 0 + Cardinality(Lost(deals, S))
    BY <1>4 DEF Streak
  <2> HIDE DEF run
  <2> QED
    BY <1>3, <2>1, <2>2, <2>3
<1>5. CASE Won(deals, S) # {}
  <2> DEFINE w == Max(Won(deals, S))
  <2>1. Won(deals, S) \subseteq S /\ Lost(deals, S) \subseteq S
    BY DEF Won, Lost
  <2>2. w \in Won(deals, S) /\ \A j \in Won(deals, S) : w >= j
    BY <1>5, <2>1, LostFinite, LargestOf
  <2>3. LostSinceWon(deals, S) = {i \in Lost(deals, S) : i > w}
    BY DEF LostSinceWon
  <2> HIDE DEF w
  <2>4. \A i \in S : (\A j \in Won(deals, S) : j < i) <=> i > w
    <3>1. w \in Int /\ \A j \in Won(deals, S) : j \in Int
      BY <2>1, <2>2
    <3>2. ASSUME NEW i \in S, i > w, NEW j \in Won(deals, S)
          PROVE  j < i
      <4>1. i \in Int /\ j \in Int /\ w >= j
        BY <2>2, <3>1, <3>2
      <4> QED
        BY <3>1, <3>2, <4>1
    <3>3. ASSUME NEW i \in S, \A j \in Won(deals, S) : j < i
          PROVE  i > w
      <4>1. i \in Int /\ w < i
        BY <2>2, <3>3
      <4> QED
        BY <3>1, <4>1
    <3> QED
      BY <3>2, <3>3
  <2>5. run = LostSinceWon(deals, S)
    <3>1. run = {i \in Lost(deals, S) : \A j \in Won(deals, S) : j < i}
      BY <1>2
    <3> QED
      BY <2>1, <2>3, <2>4, <3>1
  <2> QED
    BY <1>3, <1>5, <2>5 DEF Streak
<1> QED
  BY <1>4, <1>5

LEMMA InitIsDay == Init => Day!Init
  BY DEF Init, NoLedger, Day!Init

\* Every other step leaves the file alone; the feed may have grown.
LEMMA PassiveIsDeal ==
  ASSUME Shape, Passive
  PROVE  Day!Deal \/ UNCHANGED <<deals, Day!file>>
<1>1. ledger' = ledger /\ base' = base /\ UNCHANGED Day!file
  BY DEF Passive, Day!file
<1>2. CASE deals' = deals
  BY <1>1, <1>2
<1>3. CASE /\ Len(deals') = Len(deals) + 1
           /\ \A i \in 1 .. Len(deals) : deals'[i] = deals[i]
  BY <1>1, <1>3 DEF Day!Deal
<1> QED
  BY <1>2, <1>3 DEF Passive, FeedMoves

\* A save within the day counts on, whatever the lane read and when.
LEMMA SaveIsCountOn ==
  ASSUME IInv, FInv, DInv, NEW l \in Lanes, SavesLedger(l), perf[l].day = ledger.day
  PROVE  Day!CountOn
<1>1. /\ deals' = deals /\ pc[l] = "saving" /\ ledger' = perf[l] /\ base' = base
  BY DEF SavesLedger, broker
<1> DEFINE n == perf[l].last
<1>2. /\ deals \in Seq(Deal) /\ Len(deals) \in Nat /\ base \in Nat /\ ledger.last \in Nat
      /\ listed \in Nat /\ listed <= Len(deals)
      /\ n \in Nat /\ n <= listed /\ n >= ledger.last /\ FeedOf(perf[l])
      /\ perf[l].trades = EntriesIn(deals, ledger.day, n)
  BY <1>1 DEF IInv, Shape, LedgerShape, AheadOfFile, FInv, Types, SaveIsFeed, DInv, TradesToSave
<1>3. /\ IsFiniteSet(base + 1 .. n) /\ base + 1 .. n \subseteq Int
      /\ \A i \in base + 1 .. n : deals[i].net \in Int
  BY <1>2, DealNets
<1>4. /\ Day!Earned(base + 1 .. n) = Net(deals, base + 1 .. n)
      /\ Day!RunOfLosses(base + 1 .. n) = Streak(deals, 0, base + 1 .. n)
      /\ Day!EntriesOf(ledger.day, n) = EntriesIn(deals, ledger.day, n)
  BY <1>3, SameRun, DayEarns, DayEntries
<1>5. n \in ledger.last .. Len(deals)
  BY <1>2
<1>6. /\ ledger'.day = ledger.day /\ ledger'.last = n
      /\ ledger'.pnl = Day!Earned(base + 1 .. n)
      /\ ledger'.streak = Day!RunOfLosses(base + 1 .. n)
      /\ ledger'.trades = Day!EntriesOf(ledger.day, n)
  BY <1>1, <1>2, <1>4 DEF FeedOf
<1> HIDE DEF n
<1> QED
  BY <1>1, <1>5, <1>6 DEF Day!CountOn

\* A save of another day opens it behind the last deal counted.
LEMMA SaveIsNewDay ==
  ASSUME IInv, FInv, DInv, NEW l \in Lanes, SavesLedger(l), perf[l].day # ledger.day
  PROVE  Day!NewDay
<1>1. /\ deals' = deals /\ pc[l] = "saving" /\ ledger' = perf[l] /\ base' = perf[l].last
  BY DEF SavesLedger, broker
<1>2. /\ perf[l].last = ledger.last /\ perf[l].pnl = 0 /\ perf[l].streak = 0
      /\ perf[l].day \in Nat
  BY <1>1 DEF IInv, Shape, LedgerShape, FInv, SaveIsFeed, DInv, TradesToSave
<1>3. PICK n \in ledger.last .. Len(deals) : perf[l].trades = EntriesIn(deals, perf[l].day, n)
  <2>1. PICK n \in ledger.last .. listed : perf[l].trades = EntriesIn(deals, perf[l].day, n)
    BY <1>1 DEF DInv, TradesToSave
  <2>2. n \in ledger.last .. Len(deals)
    BY <2>1 DEF IInv, Shape, LedgerShape
  <2> QED
    BY <2>1, <2>2
<1>4. perf[l].trades = Day!EntriesOf(perf[l].day, n)
  BY <1>3, DayEntries
<1> QED
  BY <1>1, <1>2, <1>4 DEF Day!NewDay

LEMMA StepIsDay ==
  ASSUME IInv, FInv, DInv, [Next]_vars
  PROVE  [Day!Next]_<<deals, Day!file>>
<1>1. Shape
  BY DEF IInv
<1>2. ASSUME NEW l \in Lanes, NEW n, ReadsHistory(l, n)
      PROVE  UNCHANGED <<deals, Day!file>>
  BY <1>2 DEF ReadsHistory, files, Day!file
<1>3. ASSUME NEW l \in Lanes, SavesLedger(l)
      PROVE  Day!Next
  BY <1>3, SaveIsCountOn, SaveIsNewDay DEF Day!Next
<1>4. ASSUME Passive
      PROVE  [Day!Next]_<<deals, Day!file>>
  BY <1>1, <1>4, PassiveIsDeal DEF Day!Next
<1> QED
  BY <1>2, <1>3, <1>4, StepCases

-----------------------------------------------------------------------------
(* What the lanes can do together.                                         *)

\* Sets of at most k elements, one for each l, together have at most k for each.
LEMMA UnionBound ==
  ASSUME NEW L, IsFiniteSet(L), NEW S, NEW F \in [L -> SUBSET S], NEW k \in Nat,
         \A l \in L : IsFiniteSet(F[l]) /\ Cardinality(F[l]) <= k
  PROVE  LET all == UNION {F[l] : l \in L}
         IN  IsFiniteSet(all) /\ Cardinality(all) <= k * Cardinality(L)
<1> DEFINE U(T) == UNION {F[l] : l \in T}
           Good(T) == IsFiniteSet(U(T)) /\ Cardinality(U(T)) <= k * Cardinality(T)
           Bad == {T \in SUBSET L : ~Good(T)}
<1> SUFFICES ASSUME Bad # {} PROVE FALSE
  OBVIOUS
<1> Bad \in SUBSET SUBSET L
  OBVIOUS
<1>0. \A T \in SUBSET L : T \in Bad <=> ~Good(T)
  OBVIOUS
<1> HIDE DEF Bad
<1>1. PICK T \in Bad : \A V \in Bad : V \subseteq T => V = T
  BY SmallestSubset
<1>2. T \subseteq L /\ IsFiniteSet(T) /\ ~Good(T)
  BY <1>0, FS_Subset
<1>3. T # {}
  <2> SUFFICES ASSUME T = {} PROVE FALSE
    OBVIOUS
  <2>1. U(T) = {}
    OBVIOUS
  <2>2. IsFiniteSet(U(T)) /\ Cardinality(U(T)) = 0 /\ Cardinality(T) = 0
    BY <2>1, FS_EmptySet
  <2>3. k * 0 = 0
    OBVIOUS
  <2> QED
    BY <1>2, <2>2, <2>3
<1>4. PICK l \in T : TRUE
  BY <1>3
<1> DEFINE R == T \ {l}
<1>5. R \in SUBSET L /\ IsFiniteSet(R) /\ Cardinality(T) = Cardinality(R) + 1
  <2>1. R \subseteq L /\ IsFiniteSet(R) /\ T = R \cup {l} /\ l \notin R
    BY <1>2, <1>4, FS_Subset
  <2> QED
    BY <2>1, FS_AddElement
<1>6. Good(R)
  <2>1. R # T /\ R \subseteq T
    BY <1>4
  <2> QED
    BY <1>0, <1>1, <1>5, <2>1
<1>7. U(T) = U(R) \cup F[l]
  BY <1>4
<1>8. IsFiniteSet(F[l]) /\ Cardinality(F[l]) <= k
  BY <1>2, <1>4
<1> HIDE DEF U
<1>9. /\ IsFiniteSet(U(T))
      /\ Cardinality(U(T)) = Cardinality(U(R)) + Cardinality(F[l]) - Cardinality(U(R) \cap F[l])
  <2>1. IsFiniteSet(U(R))
    BY <1>6
  <2>2. /\ IsFiniteSet(U(R) \cup F[l])
        /\ Cardinality(U(R) \cup F[l])
             = Cardinality(U(R)) + Cardinality(F[l]) - Cardinality(U(R) \cap F[l])
    BY <1>8, <2>1, FS_Union
  <2> QED
    BY <1>7, <2>2
<1>10. /\ Cardinality(U(R)) \in Nat /\ Cardinality(F[l]) \in Nat
       /\ Cardinality(U(R) \cap F[l]) \in Nat /\ Cardinality(R) \in Nat
  <2>1. IsFiniteSet(U(R) \cap F[l])
    BY <1>8, FS_Subset
  <2> QED
    BY <1>5, <1>6, <1>8, <2>1, FS_CardinalityType
<1>11. k * (Cardinality(R) + 1) = k * Cardinality(R) + k
  BY <1>10
<1>12. k * Cardinality(R) \in Nat
  BY <1>10
<1>13. Cardinality(U(T)) <= k * Cardinality(T)
  BY <1>5, <1>6, <1>8, <1>9, <1>10, <1>11, <1>12
<1> QED
  BY <1>2, <1>9, <1>13

\* Positions that their lane saw executed.
SeenPositions == {p \in book : ~p.late}

\* The entries that a lane sent and saw executed on a day, in a pass that had
\* missed none of its own of the day.
SeenEntriesOf(l, day) == {i \in OwnEntries(l, day) : deals[i].seeing}

\* ... that any lane did.
SeenEntries(day) == UNION {SeenEntriesOf(l, day) : l \in Lanes}

LEMMA SeenIsOwned ==
  ASSUME IInv
  PROVE  Cardinality(SeenPositions) <= MaxOpenPositions * Cardinality(Lanes)
<1> DEFINE F == [l \in Lanes |-> Own(l)]
<1>1. F \in [Lanes -> SUBSET book] /\ \A l \in Lanes : F[l] = Own(l)
  BY DEF Own
<1>2. \A l \in Lanes : IsFiniteSet(F[l]) /\ Cardinality(F[l]) <= MaxOpenPositions
  BY <1>1, OwnFinite DEF IInv, OnePositionPerLane
<1>3. SeenPositions = UNION {F[l] : l \in Lanes}
  <2>1. \A p \in book : p.lane \in Lanes
    BY DEF IInv, Shape, Position
  <2>2. \A p \in SeenPositions : p \in F[p.lane] /\ p.lane \in Lanes
    BY <1>1, <2>1 DEF SeenPositions, Own
  <2>3. \A l \in Lanes : F[l] \subseteq SeenPositions
    BY <1>1 DEF SeenPositions, Own
  <2> HIDE DEF F
  <2> QED
    BY <2>2, <2>3
<1> HIDE DEF F
<1> QED
  BY <1>1, <1>2, <1>3, UnionBound, LanesAssumption, LimitsAssumption

LEMMA SeenEntriesAreCapped ==
  ASSUME IInv, NEW l \in Lanes, NEW day \in Nat
  PROVE  /\ IsFiniteSet(SeenEntriesOf(l, day))
         /\ Cardinality(SeenEntriesOf(l, day)) <= MaxDailyTrades
<1> DEFINE seen == SeenEntriesOf(l, day)
           own  == OwnEntries(l, day)
<1>1. IsFiniteSet(own) /\ own \subseteq Int /\ seen \subseteq own
  <2>1. Shape /\ own \subseteq 1 .. Len(deals)
    BY DEF IInv, OwnEntries
  <2> QED
    BY <2>1, EntriesFinite DEF SeenEntriesOf
<1>2. IsFiniteSet(seen) /\ seen \subseteq Int /\ Cardinality(seen) \in Nat
  BY <1>1, FS_Subset, FS_CardinalityType
<1>3. CASE seen = {}
  BY <1>2, <1>3, FS_EmptySet, LimitsAssumption
<1>4. CASE seen # {}
  <2> DEFINE m == Max(seen)
  <2>1. m \in seen /\ \A j \in seen : m >= j
    BY <1>2, <1>4, LargestOf
  <2> HIDE DEF m
  <2>2. m \in own /\ deals[m].seeing
    BY <2>1 DEF SeenEntriesOf
  <2>3. Cardinality(UpTo(l, day, m)) <= MaxDailyTrades
    BY <2>2 DEF IInv, CapOfEveryDay, CapOf
  <2>4. seen \subseteq UpTo(l, day, m) /\ UpTo(l, day, m) \subseteq own
    BY <1>1, <1>2, <2>1 DEF UpTo
  <2>5. /\ IsFiniteSet(UpTo(l, day, m)) /\ Cardinality(UpTo(l, day, m)) \in Nat
        /\ Cardinality(seen) <= Cardinality(UpTo(l, day, m))
    BY <1>1, <2>4, FS_Subset, FS_CardinalityType
  <2> HIDE DEF seen
  <2> QED
    BY <1>2, <2>3, <2>5, LimitsAssumption DEF seen
<1> QED
  BY <1>3, <1>4

LEMMA SeenEntriesAreOwned ==
  ASSUME IInv, NEW day \in Nat
  PROVE  Cardinality(SeenEntries(day)) <= MaxDailyTrades * Cardinality(Lanes)
<1> DEFINE F == [l \in Lanes |-> SeenEntriesOf(l, day)]
<1>1. F \in [Lanes -> SUBSET (1 .. Len(deals))] /\ \A l \in Lanes : F[l] = SeenEntriesOf(l, day)
  BY DEF SeenEntriesOf, OwnEntries
<1>2. \A l \in Lanes : IsFiniteSet(F[l]) /\ Cardinality(F[l]) <= MaxDailyTrades
  BY <1>1, SeenEntriesAreCapped
<1>3. SeenEntries(day) = UNION {F[l] : l \in Lanes}
  BY <1>1 DEF SeenEntries
<1> HIDE DEF F
<1> QED
  BY <1>1, <1>2, <1>3, UnionBound, LanesAssumption, LimitsAssumption

-----------------------------------------------------------------------------
(* Which saves turn the ledger back.                                       *)

\* The ledger is not ahead of the calendar, and a pass saves the day it took.
DayInv == ledger.day <= today /\ \A l \in Lanes : pc[l] = "saving" => perf[l].day = at[l]

LEMMA InitDay == Init => DayInv
  BY DEF Init, NoLedger, DayInv

LEMMA StepDay ==
  ASSUME IInv, DayInv, [Next]_vars
  PROVE  DayInv' /\ (ledger'.day >= ledger.day \/ \E l \in Lanes : pc[l] = "saving" /\ at[l] < today)
<1>1. /\ Shape /\ ledger.day \in Nat /\ today \in Nat
      /\ pc \in [Lanes -> Places] /\ at \in [Lanes -> Nat]
      /\ DOMAIN perf = Lanes
  BY DEF IInv, Shape, LedgerShape
<1>2. ASSUME NEW l \in Lanes, SavesLedger(l)
      PROVE  DayInv' /\ (ledger'.day >= ledger.day \/ (pc[l] = "saving" /\ at[l] < today))
  <2>1. /\ pc[l] = "saving" /\ ledger' = perf[l] /\ pc' = [pc EXCEPT ![l] = "gates"]
        /\ UNCHANGED <<today, at, perf>>
    BY <1>2 DEF SavesLedger, days
  <2>2. perf[l].day = at[l] /\ at[l] <= today /\ at[l] \in Nat
    BY <1>1, <2>1 DEF DayInv, IInv, DaysAgree
  <2>3. DayInv'
    BY <1>1, <2>1, <2>2 DEF DayInv
  <2> QED
    BY <1>1, <2>1, <2>2, <2>3 DEF DayInv
<1>3. ASSUME NEW l \in Lanes, NEW n, ReadsHistory(l, n)
      PROVE  DayInv' /\ ledger' = ledger
  <2> DEFINE new == ComputePerformanceState(ledger, at[l], n)
  <2>1. /\ pc' = [pc EXCEPT ![l] = "saving"] /\ perf' = [perf EXCEPT ![l] = new]
        /\ UNCHANGED <<today, at, ledger>>
    BY <1>3 DEF ReadsHistory, days, files
  <2>2. new.day = at[l]
    <3>1. n \in Nat
      BY <1>1, <1>3 DEF ReadsHistory, Shape
    <3> QED
      BY <1>1, <3>1, CountedEntries, Computed DEF Shape
  <2> HIDE DEF new
  <2>3. \A m \in Lanes : IF m = l THEN perf'[m] = new ELSE perf'[m] = perf[m] /\ pc'[m] = pc[m]
    BY <1>1, <2>1 DEF IInv, Shape
  <2> QED
    BY <2>1, <2>2, <2>3 DEF DayInv
<1>4. ASSUME NEW l \in Lanes, Starts(l) \/ \E reply : CountsPositions(l, reply)
      PROVE  DayInv' /\ ledger' = ledger
  <2>1. /\ UNCHANGED <<today, ledger, perf>>
        /\ pc'[l] # "saving" /\ \A m \in Lanes : m # l => pc'[m] = pc[m] /\ at'[m] = at[m]
    BY <1>1, <1>4 DEF Starts, CountsPositions, days, files
  <2> QED
    BY <2>1 DEF DayInv
<1>5. ASSUME NEW l \in Lanes, LeavesRefused(l) \/ \E fate : SendsOrder(l, fate)
      PROVE  DayInv' /\ ledger' = ledger
  <2>1. UNCHANGED <<today, ledger>> /\ Forgets(l)
    BY <1>5 DEF LeavesRefused, SendsOrder, days, files
  <2>2. /\ pc'[l] = "out"
        /\ \A m \in Lanes : m # l => pc'[m] = pc[m] /\ at'[m] = at[m] /\ perf'[m] = perf[m]
    BY <1>1, <2>1, Forgotten
  <2> QED
    BY <2>1, <2>2 DEF DayInv
<1>6. CASE \/ \E o \in late : ExecutesLate(o)
           \/ \E p \in book, r \in Results : Closes(p, r)
           \/ BrokerMidnight \/ Midnight
           \/ UNCHANGED vars
  <2>1. /\ UNCHANGED <<ledger, pc, at, perf>> /\ (today' = today \/ today' = today + 1)
    BY <1>6 DEF ExecutesLate, Closes, BrokerMidnight, Midnight, vars, days, files
  <2> QED
    BY <1>1, <2>1 DEF DayInv
<1> QED
  BY <1>1, <1>2, <1>3, <1>4, <1>5, <1>6 DEF Next, LaneStep

-----------------------------------------------------------------------------
(* The results.                                                            *)

\* What is on file, and what a lane in the locked section is about to save,
\* are what the feed says of the deals since their day began.
THEOREM FeedInvariance == Spec => [](IInv /\ FInv)
<1>1. QED
  BY InitInv, InitFeed, StepInv, StepFeed, PTL DEF Spec

\* Two lanes, late executions and midnights keep every field in its type: the
\* passage never leaves a lane with half a performance state.
THEOREM TypeCorrect == Spec => []TypeOK
<1>1. IInv /\ FInv => TypeOK
  BY DEF IInv, Shape, FInv, Types, TypeOK
<1>2. QED
  BY <1>1, FeedInvariance, PTL

\* However many deals a day has, in whatever order the lanes read and save, the
\* result and the streak on file are the feed's: no deal is counted twice and
\* none is left out (compute_performance_state under the performance_state lock).
THEOREM LedgerIsTheFeed == Spec => []LedgerMatchesFeed
<1>1. FInv => LedgerMatchesFeed
  BY SameSums DEF FInv, FileIsFeed, FeedOf, LedgerMatchesFeed
<1>2. QED
  BY <1>1, FeedInvariance, PTL

\* Any number of lanes that read, compute and save in pieces, over a feed that
\* grows in between, keep one ledger that is brought up to date in one step each
\* time, and counting on from the file amounts to reading the whole day again.
THEOREM LanesImplementDayLedger == Spec => ImplementsDayLedger
<1>1. Init => Day!Init
  BY InitIsDay
<1>2. IInv /\ FInv /\ DInv /\ [Next]_vars => [Day!Next]_<<deals, Day!file>>
  BY StepIsDay
<1>3. Spec => []DInv
  BY InitTrades, StepTrades, FeedInvariance, PTL DEF Spec
<1>4. QED
  BY <1>1, <1>2, <1>3, FeedInvariance, PTL DEF Spec, ImplementsDayLedger, Day!Spec

\* The cap is a lane's, and that is all it is: no more positions are open that
\* a lane saw executed than MaxOpenPositions for each lane; and no more were
\* opened on a day of UTC than MaxDailyTrades for each lane, of those that it sent
\* with every earlier one of its own in the history and stamped with the day.
THEOREM LanesTogether ==
  Spec => [](/\ Cardinality(SeenPositions) <= MaxOpenPositions * Cardinality(Lanes)
             /\ \A day \in Nat :
                  Cardinality(SeenEntries(day)) <= MaxDailyTrades * Cardinality(Lanes))
<1> DEFINE Bound == /\ Cardinality(SeenPositions) <= MaxOpenPositions * Cardinality(Lanes)
                    /\ \A day \in Nat :
                         Cardinality(SeenEntries(day)) <= MaxDailyTrades * Cardinality(Lanes)
<1>1. IInv => Bound
  BY SeenIsOwned, SeenEntriesAreOwned
<1> QED
  BY <1>1, Invariance, PTL

\* Only a pass that began before midnight puts the ledger back to an earlier
\* day: no other interleaving of reads, saves and failures does.
THEOREM OnlyALatePassTurnsBack ==
  Spec => [][ledger'.day >= ledger.day \/ \E l \in Lanes : pc[l] = "saving" /\ at[l] < today]_vars
<1>1. IInv /\ DayInv /\ [Next]_vars =>
        /\ DayInv'
        /\ [ledger'.day >= ledger.day \/ \E l \in Lanes : pc[l] = "saving" /\ at[l] < today]_vars
  BY StepDay
<1> QED
  BY InitDay, <1>1, Invariance, PTL DEF Spec

\* "Cannot overwrite a newer risk ledger" is true as long as every pass in the
\* locked section is of today.
THEOREM PassesOfTodayNeverTurnBack ==
  Spec /\ [](\A l \in Lanes : pc[l] = "saving" => at[l] = today) => LedgerNeverGoesBack
<1> DEFINE OfToday == \A l \in Lanes : pc[l] = "saving" => at[l] = today
<1>1. IInv /\ DayInv /\ [Next]_vars => DayInv'
  BY StepDay
<1>2. IInv /\ DayInv /\ OfToday /\ [Next]_vars => [ledger'.day >= ledger.day]_vars
  <2> SUFFICES ASSUME IInv, DayInv, OfToday, Next PROVE ledger'.day >= ledger.day
    OBVIOUS
  <2>1. ~ \E l \in Lanes : pc[l] = "saving" /\ at[l] < today
    BY DEF IInv, Shape
  <2> QED
    BY <2>1, StepDay
<1> QED
  BY InitDay, <1>1, <1>2, Invariance, PTL DEF Spec, LedgerNeverGoesBack
=============================================================================
