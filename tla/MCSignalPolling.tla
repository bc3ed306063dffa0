--------------------------- MODULE MCSignalPolling ---------------------------
(* Instances of SignalPolling for TLC: the daemon, a manual poller, and the *)
(* master.                                                                  *)
EXTENDS SignalPolling, TLC

CONSTANTS manual

MCPollers  == {Daemon, manual}
MCCheckers == {Daemon, manual, Master}
=============================================================================
