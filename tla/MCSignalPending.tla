--------------------------- MODULE MCSignalPending ---------------------------
(* Instances of SignalPending for TLC: the daemon and one manual poller.    *)
EXTENDS SignalPending

CONSTANTS manual, L1, L2

MCPollers == {Daemon, manual}
MCLevels == {L1, L2}

=============================================================================
