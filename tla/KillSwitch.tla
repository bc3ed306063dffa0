----------------------------- MODULE KillSwitch -----------------------------
(***************************************************************************)
(* The kill switch (engines/kill_switch.py): one file that says whether    *)
(* trading is halted and until when.  The master's cycle and every pass of *)
(* the signal lane check it, and a check rewrites it; the operator's       *)
(* commands rewrite it too.  Each of them is a read, then a save of the    *)
(* whole file, and no lock holds between the two.                          *)
(*                                                                         *)
(* Whether the account trips one of the four limits is nondeterministic,   *)
(* and so is the moment at which a halt's cooldown is over.                *)
(***************************************************************************)
EXTENDS Integers, FiniteSets, Sequences

CONSTANT Checkers  \* the processes that call check_kill_switch

VARIABLES
  switch,  \* kill_switch_state.json: not halted, halted, or halted with the
           \* cooldown over, which the next check will find
  seen     \* what a check in progress has read from it

switchVars == <<switch, seen>>

States == {"clear", "halted", "expired"}

SwitchType ==
  /\ switch \in States
  /\ seen \in [Checkers -> {"nothing"} \cup States]

SwitchInit ==
  /\ switch = "clear"
  /\ seen = [c \in Checkers |-> "nothing"]

\* Deviation: a check that does not honour a halt it finds.
LoadedAnyway(state) == TRUE

\* A check goes on to the account only when no halt is in force.
GoesOn(state) == state # "halted"

\* check_kill_switch loads the file.  With a halt in force it returns halted
\* and writes nothing (also when its "now" is older than the cooldown's end):
\* then the state is as before, and the caller is refused.
LoadsSwitch(c) ==
  /\ seen[c] = "nothing"
  /\ GoesOn(switch)
  /\ seen' = [seen EXCEPT ![c] = switch]
  /\ UNCHANGED switch

\* The cooldown is over: the file is cleared before the account is looked at.
ClearsExpired(c) ==
  /\ seen[c] \notin {"nothing", "clear"}
  /\ switch' = "clear"
  /\ seen' = [seen EXCEPT ![c] = "clear"]

\* _activate_kill, when the account trips a limit ...
Trips(c) ==
  /\ seen[c] = "clear"
  /\ switch' = "halted"
  /\ seen' = [seen EXCEPT ![c] = "nothing"]

\* ... or all clear, which saves what was loaded.
FindsAllClear(c) ==
  /\ seen[c] = "clear"
  /\ switch' = "clear"
  /\ seen' = [seen EXCEPT ![c] = "nothing"]

\* A death in the middle of a check.
AbandonsCheck(c) == seen' = [seen EXCEPT ![c] = "nothing"]

\* force_halt, force_resume: nothing of what they load survives.
Obeys(command) ==
  /\ switch' = IF command = "halt" THEN "halted" ELSE "clear"
  /\ UNCHANGED seen

CooldownEnds ==
  /\ switch = "halted"
  /\ switch' = "expired"
  /\ UNCHANGED seen
=============================================================================
