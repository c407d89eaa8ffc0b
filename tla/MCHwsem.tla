------------------------------ MODULE MCHwsem ------------------------------
(* An instance of Hwsem for TLC. *)
EXTENDS Hwsem

CONSTANTS a, o, t, u

AllA == {a}
OneO == {o}
ThrT == {t}

\* Each locks under its own name and anything but an unlock may fail; or all lock
\* under the same name and anything may fail.
OwnOrSame == {
    [master  |-> [p \in {a, o, t} |-> p],
     failing |-> {"open", "lock", "spawn", "kill"}],
    [master  |-> [p \in {a, o, t} |-> u],
     failing |-> {"open", "lock", "unlock", "spawn", "kill"}] }
=============================================================================
