--------------------------- MODULE SignalPolling ---------------------------
(***************************************************************************)
(* The signal lane from Telegram to its orders (engines/signal_listener.py *)
(* under signal_daemon.py and the manual signal_monitor.py): a poller      *)
(* fetches the updates after the saved offset, executes the operator's     *)
(* commands among them, saves the offset, decides all the signals of the   *)
(* batch, each behind the kill switch, and only then sends the orders.     *)
(*                                                                         *)
(* Commands are executed BEFORE the offset is saved, signals are decided   *)
(* after it: a pass that breaks off repeats the former, loses the latter.  *)
(*                                                                         *)
(* The gates that only refuse a signal (chat, age, parser, score, spread,  *)
(* position cap ...) are the freedom to refuse.  A fetch that gets no      *)
(* answer, or no lock within two seconds, changes nothing.                 *)
(***************************************************************************)
EXTENDS KillSwitch

CONSTANTS
  Pollers,  \* processes that run run_signal_check
  Daemon,   \* the one of them that systemd keeps alive
  Master,   \* hermes_runtime.cycle, which checks the switch as well
  MaxPosts  \* bound: updates that arrive in one behaviour

ASSUME PollersAssumption  == Daemon \in Pollers /\ Pollers \subseteq Checkers
ASSUME MasterAssumption   == Master \in Checkers \ Pollers
ASSUME MaxPostsAssumption == MaxPosts \in Nat

Kinds    == {"signal", "halt", "resume"}
Commands == Kinds \ {"signal"}

VARIABLES
  feed,     \* the updates Telegram has, oldest first: update_id is the index
  offset,   \* listener_state.json["last_update_id"]
  lock,     \* who holds the telegram_updates lock
  next,     \* the update each poller serves next ...
  upto,     \* ... and the last one of its batch
  todo,     \* signals of the batch that are to be decided
  good,     \* those of them that may be ordered
  \* Observations, read by no action:
  settled,  \* commands executed, signals refused or ordered
  lost,     \* signals whose pass broke off
  word,     \* the operator's command that was executed last
  gap       \* pollers whose pass has seen a moment without a halt in force

batch    == <<offset, lock, next, upto>>
noted    == <<settled, lost, word>>
vars     == <<feed, offset, lock, next, upto, todo, good, settled, lost, word,
              gap, switch, seen>>

Updates == 1 .. MaxPosts

TypeOK ==
  /\ SwitchType
  /\ feed \in Seq(Kinds) /\ Len(feed) <= MaxPosts
  /\ offset \in 0 .. Len(feed)
  /\ lock \subseteq Pollers
  /\ next \in [Pollers -> 0 .. MaxPosts + 1] /\ upto \in [Pollers -> 0 .. MaxPosts]
  /\ todo \in [Pollers -> SUBSET Updates] /\ good \in [Pollers -> SUBSET Updates]
  /\ settled \subseteq Updates /\ lost \subseteq Updates
  /\ word \in 0 .. MaxPosts
  /\ gap \subseteq Pollers

Init ==
  /\ SwitchInit
  /\ feed = << >> /\ offset = 0
  /\ lock = {}
  /\ next = [p \in Pollers |-> 0] /\ upto = [p \in Pollers |-> 0]
  /\ todo = [p \in Pollers |-> {}] /\ good = [p \in Pollers |-> {}]
  /\ settled = {} /\ lost = {} /\ word = 0
  /\ gap = Pollers

\* Every step that may touch the switch.
Watched == gap' = IF switch' = "halted" THEN gap ELSE Pollers

IsFirst(u, S) == u \in S /\ \A v \in S : u <= v

\* The signals a poller has taken over with the offset.
InHand(p) == IF p \in lock THEN {} ELSE todo[p] \cup good[p]

-----------------------------------------------------------------------------
(* fetch_new_messages, under the lock                                      *)

Posts(kind) ==
  /\ Len(feed) < MaxPosts
  /\ feed' = Append(feed, kind)
  /\ UNCHANGED <<todo, good, gap>> /\ UNCHANGED batch /\ UNCHANGED noted
  /\ UNCHANGED switchVars

\* Deviation: two pollers at once.
Unlocked(holders) == TRUE

LockFree(holders) == holders = {}

\* Deviation: one past the update to ask for.
UpdateAfterNext == offset + 2

NextUpdate == offset + 1

Fetches(p) ==
  /\ p \notin lock /\ LockFree(lock)
  /\ InHand(p) = {} /\ seen[p] = "nothing"
  /\ lock' = lock \cup {p}
  /\ next' = [next EXCEPT ![p] = NextUpdate]
  /\ upto' = [upto EXCEPT ![p] = Len(feed)]
  /\ gap' = IF switch = "halted" THEN gap \ {p} ELSE gap
  /\ UNCHANGED <<feed, offset, todo, good>> /\ UNCHANGED noted
  /\ UNCHANGED switchVars

\* A command of the operator is executed here and now; a signal waits.
ServesCommand(p) ==
  /\ p \in lock /\ next[p] <= upto[p]
  /\ feed[next[p]] \in Commands
  /\ Obeys(feed[next[p]])
  /\ word' = next[p]
  /\ settled' = settled \cup {next[p]}
  /\ next' = [next EXCEPT ![p] = @ + 1]
  /\ Watched
  /\ UNCHANGED <<feed, offset, lock, upto, todo, good, lost>>

CollectsSignal(p) ==
  /\ p \in lock /\ next[p] <= upto[p]
  /\ feed[next[p]] = "signal"
  /\ todo' = [todo EXCEPT ![p] = @ \cup {next[p]}]
  /\ next' = [next EXCEPT ![p] = @ + 1]
  /\ UNCHANGED <<feed, offset, lock, upto, good, gap>> /\ UNCHANGED noted
  /\ UNCHANGED switchVars

\* Deviation: everything that has arrived counts as read.
NewestUpdate(p) == Len(feed)

\* Deviation: the first update that has not been served.
NextToServe(p) == next[p]

NewestServed(p) == upto[p]

SavesOffset(p) ==
  /\ p \in lock /\ next[p] > upto[p]
  /\ offset' = NewestServed(p)
  /\ lock' = lock \ {p}
  /\ next' = [next EXCEPT ![p] = 0] /\ upto' = [upto EXCEPT ![p] = 0]
  /\ UNCHANGED <<feed, todo, good, gap>> /\ UNCHANGED noted
  /\ UNCHANGED switchVars

-----------------------------------------------------------------------------
(* check_signals, then the orders of run_signal_check                      *)

\* The signals are taken in the order of the batch.
Decides(p, u) ==
  /\ p \notin lock /\ IsFirst(u, todo[p])
  /\ todo' = [todo EXCEPT ![p] = @ \ {u}]

Settles(u) ==
  /\ settled' = settled \cup {u}
  /\ UNCHANGED <<feed, lost, word>> /\ UNCHANGED batch

\* By any gate before the kill switch, or by a halt.
Refuses(p, u) ==
  /\ Decides(p, u) /\ seen[p] = "nothing"
  /\ Settles(u)
  /\ UNCHANGED <<good, gap>> /\ UNCHANGED switchVars

ReadsSwitch(p) ==
  /\ p \notin lock /\ todo[p] # {}
  /\ LoadsSwitch(p)
  /\ UNCHANGED <<feed, todo, good, gap>> /\ UNCHANGED batch /\ UNCHANGED noted

ClearsSwitch(p) ==
  /\ ClearsExpired(p)
  /\ Watched
  /\ UNCHANGED <<feed, todo, good>> /\ UNCHANGED batch /\ UNCHANGED noted

\* The account trips, or a later gate refuses.
RefusesAfterCheck(p, u) ==
  /\ Decides(p, u)
  /\ Trips(p) \/ FindsAllClear(p)
  /\ Watched
  /\ Settles(u)
  /\ UNCHANGED good

\* Deviation: trade_allowed is TRUE whatever the check says.
AllowedAnyway(p) == seen[p] = "nothing" /\ UNCHANGED switchVars

TradeAllowed(p) == FindsAllClear(p)

Approves(p, u) ==
  /\ Decides(p, u)
  /\ TradeAllowed(p)
  /\ Watched
  /\ good' = [good EXCEPT ![p] = @ \cup {u}]
  /\ UNCHANGED feed /\ UNCHANGED batch /\ UNCHANGED noted

\* Sent, or refused by the gates of the entry passage (module EntryGate).
Orders(p, u) ==
  /\ p \notin lock /\ todo[p] = {} /\ IsFirst(u, good[p])
  /\ Settles(u)
  /\ good' = [good EXCEPT ![p] = @ \ {u}]
  /\ UNCHANGED <<todo, gap>> /\ UNCHANGED switchVars

\* The process dies and is started again, or an exception ends its pass.  (In
\* a pass that has fetched nothing, that is no different from its ending.)
BreaksOff(p) ==
  /\ IF p \in lock THEN upto[p] > offset ELSE InHand(p) # {}
  /\ lost' = lost \cup InHand(p)
  /\ lock' = lock \ {p}
  /\ next' = [next EXCEPT ![p] = 0] /\ upto' = [upto EXCEPT ![p] = 0]
  /\ todo' = [todo EXCEPT ![p] = {}] /\ good' = [good EXCEPT ![p] = {}]
  /\ AbandonsCheck(p)
  /\ UNCHANGED <<feed, offset, settled, word, gap, switch>>

-----------------------------------------------------------------------------
(* The master's own check, and the clock                                   *)

MasterChecks ==
  /\ \/ LoadsSwitch(Master) /\ UNCHANGED gap
     \/ ClearsExpired(Master) /\ Watched
     \/ Trips(Master) /\ Watched
     \/ FindsAllClear(Master) /\ Watched
     \/ seen[Master] # "nothing" /\ AbandonsCheck(Master) /\ UNCHANGED <<switch, gap>>
  /\ UNCHANGED <<feed, todo, good>> /\ UNCHANGED batch /\ UNCHANGED noted

HaltRunsOut ==
  /\ CooldownEnds
  /\ Watched
  /\ UNCHANGED <<feed, todo, good>> /\ UNCHANGED batch /\ UNCHANGED noted

\* What a poller does once its fetch was answered, up to the end of its pass.
PassGoesOn(p) ==
  \/ ServesCommand(p) \/ CollectsSignal(p) \/ SavesOffset(p)
  \/ ReadsSwitch(p) \/ ClearsSwitch(p)
  \/ \E u \in Updates : Refuses(p, u) \/ RefusesAfterCheck(p, u)
                        \/ Approves(p, u) \/ Orders(p, u)

Next ==
  \/ \E kind \in Kinds : Posts(kind)
  \/ \E p \in Pollers : Fetches(p) \/ PassGoesOn(p) \/ BreaksOff(p)
  \/ MasterChecks
  \/ HaltRunsOut

Spec == Init /\ [][Next]_vars

\* systemd restarts the daemon, which does not break off for ever; it polls
\* every two seconds and tries for two seconds to get the lock; every call of
\* a pass returns or times out, and a manual poller ends or is ended.
PollingFairness ==
  /\ <>[][~BreaksOff(Daemon)]_vars
  /\ SF_vars(Fetches(Daemon))
  /\ WF_vars(PassGoesOn(Daemon))
  /\ \A p \in Pollers \ {Daemon} : WF_vars(PassGoesOn(p) \/ BreaksOff(p))

FairSpec == Spec /\ PollingFairness

-----------------------------------------------------------------------------
(* An update the saved offset has passed is a command that was executed, or *)
(* a signal that was settled, is in hand, or was lost with a pass that      *)
(* broke off: nothing else goes missing.                                    *)
AcknowledgedIsHandled ==
  \A u \in 1 .. offset : u \in settled \cup lost \cup UNION {InHand(p) : p \in Pollers}

(* The offset is saved after the commands, so a pass that breaks off leads  *)
(* to their repetition - but never of a command older than one that has     *)
(* been acknowledged: the last word is always the operator's newest         *)
(* acknowledged command, or one still newer.                                *)
OperatorHasTheLastWord == \A u \in 1 .. offset : feed[u] \in Commands => u <= word

(* "REAL account policy: kill-switch ... the hard-coded trade_allowed=True  *)
(* bypassed every safety gate for signals": a halt that lasts from the      *)
(* fetch on lets no signal of the batch through.                            *)
HaltHoldsThePass == \A p \in Pollers : good[p] # {} => p \in gap

(* A halt in force ends with its cooldown, by the operator's resume, or     *)
(* through the save of a check that had read the file before the halt: the  *)
(* lost update is the only other way.                                       *)
LiftsKnowingly ==
  \/ switch' = "expired"
  \/ \E p \in lock : next[p] <= upto[p] /\ next'[p] = next[p] + 1
                     /\ feed[next[p]] = "resume"
  \/ \E c \in Checkers : seen[c] \in {"clear", "expired"} /\ seen'[c] # seen[c]

HaltsEndKnowingly ==
  [][switch = "halted" /\ switch' # "halted" => LiftsKnowingly]_vars

(* The lock, the offset and the two lists implement an inbox that hands     *)
(* every signal out once, to one poller, in the order of arrival.           *)
Inbox == INSTANCE Inbox WITH place <- offset, hands <- [p \in Pollers |-> InHand(p)]

ImplementsInbox == Inbox!Spec

(* Every update is settled in the end, or was lost with a pass.             *)
UpdatesAreServed ==
  \A u \in Updates : u <= Len(feed) ~> u \in settled \cup lost
=============================================================================
