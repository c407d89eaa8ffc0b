--------------------------- MODULE EptLoopDriver ---------------------------
(***************************************************************************)
(* An in-loop program as the rpmsg driver sees it: with its threads, mutex *)
(* and handlers, EptLoop implements one program of RpmsgEndpoints, running *)
(* alone, once, on a system with a single number.                          *)
(***************************************************************************)
EXTENDS EptLoop

Program == [name |-> "m55_hp_mhu0", device |-> 0, handler |-> TRUE, early |-> TRUE,
            checked |-> FALSE]

\* Gone for the driver once the process has ended or its descriptor is closed.
Gone == proc # "running" \/ fd_ept = "closed"

PhaseOfMain ==
    IF Where("main") = "open_ctrl"       THEN "idle"
    ELSE IF Where("main") = "create_ept" THEN "create"
    ELSE IF Where("main") = "open_ept"   THEN "open"
    ELSE IF Where("main") = "signal"     THEN "signal"
    ELSE IF endpoint = "destroyed" \/ refusals > 0 THEN "close"
    ELSE IF pc["main"] \in {"destroy", "h_destroy"} THEN "destroy"
    ELSE "work"

Phase  == IF Gone THEN "idle" ELSE PhaseOfMain
Opened == IF fd_ept = "open" /\ ~Gone THEN 0 ELSE -1
Made   == IF Phase \in {"idle", "create"} THEN -1 ELSE 0
Owner  == IF endpoint = "live" \/ (endpoint = "destroyed" /\ ~Gone)
            THEN Program.name ELSE "free"
Destroyed == IF endpoint = "destroyed" /\ ~Gone THEN {0} ELSE {}
Abandoned == IF endpoint = "live" /\ (refusals > 0 \/ proc # "running") THEN {0} ELSE {}

Driver == INSTANCE RpmsgEndpoints WITH
    Programs  <- {Program},
    Last      <- 0,
    Ordered   <- FALSE,
    Failures  <- TRUE,
    phase     <- [p \in {Program} |-> Phase],
    fd_ept    <- [p \in {Program} |-> Opened],
    made      <- [p \in {Program} |-> Made],
    owner     <- [n \in {0} |-> Owner],
    destroyed <- Destroyed,
    abandoned <- Abandoned

\* Whatever the threads do and however often SIGINT strikes, what reaches the
\* driver is: create, open, a time of work, destroys that work or fail, close, in
\* this order; or an early end (the whole program, 78-125).
ImplementsProgram == Driver!Spec
=============================================================================
