----------------------------- MODULE MCEntryGate -----------------------------
(* The master and the signal daemon; closing a position loses the day's     *)
(* limit or wins a little.                                                  *)
EXTENDS EntryGate, TLC

CONSTANTS master, signal

MCLanes   == {master, signal}
MCResults == {-3, 2}
MCLosses  == {-3}

MCSymmetry == Permutations(MCLanes)
=============================================================================
