--------------------------- MODULE HwsemSections ---------------------------
(***************************************************************************)
(* What the hardware semaphore tests promise each other: a process holds   *)
(* at most one semaphore at a time, each semaphore for one uninterrupted   *)
(* stay, and no two processes hold the same one.  A process that ends      *)
(* early may stay for ever.                                                *)
(***************************************************************************)
CONSTANTS Procs, Sems

VARIABLE stay   \* for each process and semaphore: "before", "in" or "after"

Init == stay = [p \in Procs |-> [s \in Sems |-> "before"]]

Move(p, s, to) == stay' = [stay EXCEPT ![p] = [@ EXCEPT ![s] = to]]

Enter(p, s) ==
    /\ stay[p][s] = "before"
    /\ \A q \in Procs : stay[q][s] # "in"
    /\ \A t \in Sems : stay[p][t] # "in"
    /\ Move(p, s, "in")

Leave(p, s) == stay[p][s] = "in" /\ Move(p, s, "after")

\* The process passes by without having got the semaphore.
Skip(p, s) == stay[p][s] = "before" /\ Move(p, s, "after")

Next == \E p \in Procs, s \in Sems : Enter(p, s) \/ Leave(p, s) \/ Skip(p, s)

Spec == Init /\ [][Next]_stay
=============================================================================
