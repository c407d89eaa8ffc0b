----------------------------- MODULE MCSeAlone -----------------------------
(* An instance of SeServices for TLC: one process at a time.  It runs the     *)
(* client of the library, with any failure and SIGINT at any point; or the    *)
(* client with the struct, with SIGINT alone, and patiently.                  *)
EXTENDS SeServices

CONSTANT c1

One == {c1}

Alone == {[layout |-> "union", disturb |-> {"failure", "sigint"}, patient |-> FALSE],
          [layout |-> "struct", disturb |-> {"sigint"}, patient |-> TRUE]}
=============================================================================
