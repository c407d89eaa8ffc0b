----------------------------- MODULE MCWatchdog -----------------------------
(* An instance of Watchdog for TLC. *)
EXTENDS Watchdog

CONSTANTS p1, p2

Two == {p1, p2}

\* A diligent user; anybody while the program is not killed; anybody at all.
Users == {
    [diligent |-> TRUE, failing |-> {"open"}],
    [diligent |-> FALSE, failing |-> {"open", "ioctl"}],
    [diligent |-> FALSE, failing |-> {"open", "ioctl", "write", "kill"}] }
=============================================================================
