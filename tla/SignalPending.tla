---------------------------- MODULE SignalPending ----------------------------
(***************************************************************************)
(* Limit orders of the signal lane (engines/signal_pending.py): a vetted   *)
(* signal whose entry is not reached yet is parked at the broker, and the  *)
(* signal daemon watches it on every pass of its loop until it is filled,  *)
(* expired, or withdrawn because of a halt or a closed market.             *)
(*                                                                         *)
(* The watch list is a file, the orders are the broker's.  Every poller    *)
(* writes the file: the daemon when it parks and when it watches, a manual *)
(* poller (signal_monitor.py, a process of its own) when it parks; each    *)
(* loads it, talks to the broker and saves what it made of it, without a   *)
(* lock.  Add a death, lost replies, and a bridge client that returns its  *)
(* failures as replies.  Orders expire in the order of their tickets.      *)
(* What the daemon tells of an order (filled or vanished, from the deal    *)
(* history) changes no state and is left out.                              *)
(***************************************************************************)
EXTENDS Integers, FiniteSets

CONSTANTS
  Pollers,     \* the daemon and the manual runs
  Daemon,
  Levels,      \* a side and an entry price
  PendingMax,  \* HERMES_PENDING_MAX
  MaxOrders    \* bound: limit orders that reach the broker in one behaviour

ASSUME PollersAssumption    == Daemon \in Pollers
ASSUME PendingMaxAssumption == PendingMax \in Nat \ {0}
ASSUME MaxOrdersAssumption  == MaxOrders \in Nat

VARIABLES
  resting,  \* our limit orders at the broker
  sent,     \* ticket of the newest one
  aged,     \* ticket of the newest one whose time to live is over
  trading,  \* is_market_open(), and kill_switch_state.json["halted"]
  items,    \* signal_pending.json: the watch list
  pc,       \* where each poller is
  mine,     \* the list it has loaded, and perhaps added to
  live,     \* the daemon's watch: orders of the list that the broker listed
  todo,     \* ... orders of this pass that are still to be handled
  keep,     \* ... and those that stay on the list
  \* Observations, read by no action:
  excused,  \* orders a failure has taken out of the daemon's sight
  blind     \* orders whose sender checked a list that lacked another one

vars == <<resting, sent, aged, trading, items, pc, mine, live, todo, keep,
          excused, blind>>
world == <<resting, sent, aged, trading>>
watch == <<live, todo, keep>>

Order == [id : 1 .. MaxOrders, level : Levels]

Places == {"up", "sending", "parking", "judging", "withdrawing", "down"}

TypeOK ==
  /\ resting \subseteq Order /\ items \subseteq Order
  /\ sent \in 0 .. MaxOrders /\ aged \in 0 .. MaxOrders
  /\ trading \in {"on", "halted", "closed"}
  /\ pc \in [Pollers -> Places]
  /\ mine \in [Pollers -> SUBSET Order]
  /\ live \subseteq Order /\ todo \subseteq Order /\ keep \subseteq Order
  /\ excused \subseteq Order /\ blind \subseteq Order

Init ==
  /\ resting = {} /\ sent = 0 /\ aged = 0
  /\ trading = "on"
  /\ items = {}
  /\ pc = [p \in Pollers |-> "up"]
  /\ mine = [p \in Pollers |-> {}]
  /\ live = {} /\ todo = {} /\ keep = {}
  /\ excused = {} /\ blind = {}

Goes(p, place, list) ==
  /\ pc' = [pc EXCEPT ![p] = place]
  /\ mine' = [mine EXCEPT ![p] = list]

\* The watch is over and what it read is gone.
ForgetsWatch == live' = {} /\ todo' = {} /\ keep' = {}

\* The orders that another poller has put on the list since p loaded it: a
\* save of p forgets them.
Unseen(p) == items \ mine[p]

-----------------------------------------------------------------------------
(* place_signal_limit, in any poller                                       *)

\* Deviations: no look at the level; the cap counts the orders of one level.
FitsAnyLevel(list, level) == Cardinality(list) < PendingMax
FitsByLevel(list, level)  == FitsAnyLevel({o \in list : o.level = level}, level)

\* No order at this level yet, and room for one more.
Fits(list, level) ==
  /\ \A o \in list : o.level # level
  /\ Cardinality(list) < PendingMax

\* A list that has no room for any order ends the pass here.
LoadsList(p) ==
  /\ pc[p] = "up" /\ trading # "closed"
  /\ sent < MaxOrders /\ \E level \in Levels : Fits(items, level)
  /\ Goes(p, "sending", items)
  /\ UNCHANGED world /\ UNCHANGED watch /\ UNCHANGED <<items, excused, blind>>

\* p does not know of an order that is on the list, or about to be saved on it.
SendsBlind(p) ==
  Unseen(p) # {} \/ \E q \in Pollers \ {p} : pc[q] = "parking"

\* Deviation: an order without a ticket is accepted.
WithoutTicket(level) == [id |-> 0, level |-> level]

NewOrder(level) == [id |-> sent + 1, level |-> level]

\* POST /api/pending.  An order whose answer is lost is refused for the caller.
ParksOrder(p, level, reply) ==
  /\ pc[p] = "sending"
  /\ Fits(mine[p], level)
  /\ sent < MaxOrders
  /\ sent' = sent + 1
  /\ LET o == NewOrder(level)
     IN /\ resting' = resting \cup {o}
        /\ blind' = IF SendsBlind(p) THEN blind \cup {o} ELSE blind
        /\ \/ reply = "accepted" /\ Goes(p, "parking", mine[p] \cup {o})
              /\ UNCHANGED excused
           \/ reply = "unanswered" /\ Goes(p, "up", {})
              /\ excused' = excused \cup {o}
  /\ UNCHANGED <<aged, trading, items>> /\ UNCHANGED watch

\* A duplicate, the cap, or the broker's refusal.
GivesUp(p) ==
  /\ pc[p] = "sending"
  /\ Goes(p, "up", {})
  /\ UNCHANGED world /\ UNCHANGED watch /\ UNCHANGED <<items, excused, blind>>

SavesParked(p) ==
  /\ pc[p] = "parking"
  /\ items' = mine[p]
  /\ excused' = excused \cup (Unseen(p) \cap resting)
  /\ Goes(p, "up", {})
  /\ UNCHANGED world /\ UNCHANGED watch /\ UNCHANGED blind

-----------------------------------------------------------------------------
(* watch_pending, in the daemon                                            *)

\* A halt, or the close of the market: everything is to be cancelled.
StandsDown == trading # "on"

Withdraws ==
  /\ pc[Daemon] = "up" /\ StandsDown /\ items # {}
  /\ Goes(Daemon, "withdrawing", items)
  /\ todo' = items
  /\ UNCHANGED world /\ UNCHANGED <<items, live, keep, excused, blind>>

\* Deviation: a reply that cannot be walked lists nothing.
ListedOrNone(reply) == reply \in {"listed", "nothing", "HTTP error"}

\* GET /api/pending: a timeout, or a terminal that is not connected, lists
\* nothing; the body of an HTTP error cannot be walked, which ends the pass.
Walkable(reply) == reply \in {"listed", "nothing"}

Listed(reply) == IF reply = "listed" THEN resting ELSE {}

ReadsOrders(reply) ==
  /\ pc[Daemon] = "up" /\ ~StandsDown /\ items # {}
  /\ Walkable(reply)
  /\ Goes(Daemon, "judging", items)
  /\ todo' = items
  /\ live' = items \cap Listed(reply)
  /\ excused' = IF reply = "nothing" THEN excused \cup (items \cap resting) ELSE excused
  /\ UNCHANGED world /\ UNCHANGED <<items, keep, blind>>

\* POST /api/cancel: done (gone already counts), or refused; nobody looks.
CancelQuiet(o, reply) ==
  \/ reply = "done" /\ resting' = resting \ {o} /\ excused' = excused \ {o} /\ blind' = blind \ {o}
  \/ reply = "refused" /\ excused' = excused \cup ({o} \cap resting) /\ UNCHANGED <<resting, blind>>

\* Deviation: nothing expires.
NeverExpired(o) == FALSE

Expired(o) == o.id <= aged

\* The list is walked in the order of the tickets.
IsNext(o) == o \in todo /\ \A p \in todo : o.id <= p.id

Judges(o, reply) ==
  /\ pc[Daemon] = "judging" /\ IsNext(o)
  /\ todo' = todo \ {o}
  /\ \/ o \in live /\ Expired(o) /\ CancelQuiet(o, reply) /\ UNCHANGED keep
     \/ o \in live /\ ~Expired(o) /\ keep' = keep \cup {o} /\ UNCHANGED <<resting, excused, blind>>
     \/ o \notin live /\ UNCHANGED <<resting, excused, blind, keep>>
  /\ UNCHANGED <<sent, aged, trading, items, pc, mine, live>>

Cancels(o, reply) ==
  /\ pc[Daemon] = "withdrawing" /\ IsNext(o)
  /\ todo' = todo \ {o}
  /\ CancelQuiet(o, reply)
  /\ UNCHANGED <<sent, aged, trading, items, pc, mine, live, keep>>

\* What was not kept is dropped: all of it when standing down.
SavesWatched ==
  /\ pc[Daemon] \in {"judging", "withdrawing"} /\ todo = {}
  /\ items' = keep
  /\ excused' = excused \cup (Unseen(Daemon) \cap resting)
  /\ Goes(Daemon, "up", {}) /\ ForgetsWatch
  /\ UNCHANGED world /\ UNCHANGED blind

-----------------------------------------------------------------------------
(* The processes, the broker, the clock and the other processes            *)

\* The death of a poller, or an exception that ends its pass.
Dies(p) ==
  /\ pc[p] # "down"
  /\ excused' = IF pc[p] = "parking" THEN excused \cup ((mine[p] \ items) \cap resting)
                ELSE excused
  /\ Goes(p, IF p = Daemon THEN "down" ELSE "up", {})
  /\ IF p = Daemon THEN ForgetsWatch ELSE UNCHANGED watch
  /\ UNCHANGED world /\ UNCHANGED <<items, blind>>

Restarts ==
  /\ pc[Daemon] = "down"
  /\ pc' = [pc EXCEPT ![Daemon] = "up"]
  /\ UNCHANGED world /\ UNCHANGED watch /\ UNCHANGED <<items, mine, excused, blind>>

\* Filled, or cancelled at the broker's side.
LeavesBroker(o) ==
  /\ o \in resting
  /\ resting' = resting \ {o}
  /\ excused' = excused \ {o} /\ blind' = blind \ {o}
  /\ UNCHANGED <<sent, aged, trading, items, pc, mine>> /\ UNCHANGED watch

Ages ==
  /\ aged < sent
  /\ aged' = aged + 1
  /\ UNCHANGED <<resting, sent, trading, items, pc, mine, excused, blind>>
  /\ UNCHANGED watch

TradingChanges ==
  /\ trading' \in {"on", "halted", "closed"}
  /\ UNCHANGED <<resting, sent, aged, items, pc, mine, excused, blind>>
  /\ UNCHANGED watch

PollerStep(p) ==
  \/ LoadsList(p)
  \/ \E level \in Levels, reply \in {"accepted", "unanswered"} : ParksOrder(p, level, reply)
  \/ GivesUp(p)
  \/ SavesParked(p)
  \/ Dies(p)

Next ==
  \/ \E p \in Pollers : PollerStep(p)
  \/ Withdraws
  \/ \E reply \in {"listed", "nothing", "HTTP error"} : ReadsOrders(reply)
  \/ \E o \in todo, reply \in {"done", "refused"} : Judges(o, reply)
  \/ \E o \in todo, reply \in {"done", "refused"} : Cancels(o, reply)
  \/ SavesWatched
  \/ Restarts
  \/ \E o \in resting : LeavesBroker(o)
  \/ Ages
  \/ TradingChanges

Spec == Init /\ [][Next]_vars

\* A pass of the daemon goes on: every call in it returns or times out.
DaemonGoesOn ==
  \/ GivesUp(Daemon)
  \/ SavesParked(Daemon)
  \/ \E o \in todo, reply \in {"done", "refused"} : Judges(o, reply) \/ Cancels(o, reply)
  \/ SavesWatched
  \/ Restarts

\* systemd restarts the daemon, which does not die for ever; its loop comes to
\* the watch again and again, between the orders it parks, and the bridge lists
\* the orders now and then.  A manual run that has sent an order saves or dies.
DaemonFairness ==
  /\ <>[][~Dies(Daemon)]_vars
  /\ WF_vars(DaemonGoesOn)
  /\ SF_vars(Withdraws \/ ReadsOrders("listed"))
  /\ \A p \in Pollers \ {Daemon} : WF_vars(SavesParked(p))

FairSpec == Spec /\ DaemonFairness

-----------------------------------------------------------------------------
(* What rests at the broker is watched: on the list, or about to be saved   *)
(* on it by the poller that sent it.  Five failures take it out of sight:   *)
(* a lost answer, a death between the order and the save, an order list     *)
(* that did not come, a refused cancel, and a save over a list that another *)
(* poller has changed since it was loaded.                                  *)
AboutToBeSaved == UNION {mine[p] : p \in {q \in Pollers : pc[q] = "parking"}}

RestingIsWatched == resting \subseteq items \cup excused \cup AboutToBeSaved

(* "At most HERMES_PENDING_MAX pending orders may live at once", and "a     *)
(* channel repeating the same level must not stack two limit orders at the  *)
(* same price": true of the orders in sight but those sent on a list that   *)
(* another poller had outgrown.                                             *)
InSight == resting \ excused

AtMostPendingMax == Cardinality(InSight \ blind) <= PendingMax

NoStackedLimits ==
  \A o \in InSight \ blind, p \in InSight : p.id < o.id => o.level # p.level

(* An order whose time is over, or that rests while trading is halted or    *)
(* the market closed, is withdrawn - unless it goes out of sight, or the    *)
(* reason goes away.                                                        *)
DueToGo(i) == \E o \in InSight : o.id = i /\ (i <= aged \/ StandsDown)

DueIsWithdrawn == \A i \in 1 .. MaxOrders : DueToGo(i) ~> ~DueToGo(i)

(* "Order no longer active: filled, or cancelled/expired at broker side";   *)
(* "transient bridge error: do nothing this tick": an order leaves the      *)
(* watch list only when it has left the broker.                             *)
DroppedIsGone == [][\A o \in items \ items' : o \notin resting]_vars
=============================================================================
