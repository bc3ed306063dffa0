------------------------------- MODULE Inbox --------------------------------
(***************************************************************************)
(* What the signal lane promises of its messages, whoever polls and        *)
(* whatever dies: updates are handed out in the order of their arrival,    *)
(* in one step, to one poller, and a signal that was handed out is never   *)
(* handed out again.                                                       *)
(***************************************************************************)
EXTENDS Integers, Sequences

CONSTANTS Pollers, Kinds

VARIABLES
  feed,   \* the updates that have arrived
  place,  \* how many of them have been handed out
  hands   \* signals in the hands of each poller

Signals(from, upto) == {u \in (from + 1) .. upto : feed[u] = "signal"}

Init == feed = << >> /\ place = 0 /\ hands = [p \in Pollers |-> {}]

Post ==
  /\ \E kind \in Kinds : feed' = Append(feed, kind)
  /\ UNCHANGED <<place, hands>>

HandOut(p) ==
  /\ hands[p] = {}
  /\ \E upto \in place .. Len(feed) :
       /\ place' = upto
       /\ hands' = [hands EXCEPT ![p] = Signals(place, upto)]
  /\ UNCHANGED feed

Resolve(p) ==
  /\ \E u \in hands[p] : hands' = [hands EXCEPT ![p] = @ \ {u}]
  /\ UNCHANGED <<feed, place>>

LetGo(p) ==
  /\ hands' = [hands EXCEPT ![p] = {}]
  /\ UNCHANGED <<feed, place>>

Next == Post \/ \E p \in Pollers : HandOut(p) \/ Resolve(p) \/ LetGo(p)

Spec == Init /\ [][Next]_<<feed, place, hands>>
=============================================================================
