---------------------------- MODULE MCSeServices ----------------------------
(* An instance of SeServices for TLC: two processes at the same time.  They    *)
(* run the client with the struct, with any failure and SIGINT at any point.   *)
EXTENDS SeServices

CONSTANTS c1, c2

Two == {c1, c2}

Struct == {[layout |-> "struct", disturb |-> {"failure", "sigint"}, patient |-> FALSE]}
=============================================================================
