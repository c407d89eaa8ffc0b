------------------------------ MODULE MCExtSys ------------------------------
(* An instance of ExtSys for TLC. *)
EXTENDS ExtSys

CONSTANTS r1, t1

OneResetter == {r1}
OneTalker == {t1}

\* All goes well, but a test may be killed.
Well == [alone |-> TRUE, prompt |-> TRUE, verdicts |-> {"accept"}, failing |-> {"kill"}]

\* Tests at the same time, a slow control that may decline, and failures of all
\* but the call that takes a request back.
Ill == [alone |-> FALSE, prompt |-> FALSE, verdicts |-> {"accept", "decline"},
        failing |-> {"open", "ioctl", "release", "write", "read"}]

\* That call may fail as well, and tests may be killed.
Worst == [Ill EXCEPT !.failing = {"open", "ioctl", "drop", "release", "write", "read", "kill"}]

FromWellToWorst == {Well, Ill, Worst}
=============================================================================
