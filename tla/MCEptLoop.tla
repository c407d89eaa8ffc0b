----------------------------- MODULE MCEptLoop -----------------------------
(* Instances of EptLoop for TLC. *)
EXTENDS EptLoopDriver

AllFailures == Calls
OnlyWrite   == {"write"}

\* A sender that never starts, or whose message is lost, leaves the receiver
\* waiting (EptLoopBlocking): all other calls may fail.
SendersWork == Calls \ {"spawn", "write"}
=============================================================================
