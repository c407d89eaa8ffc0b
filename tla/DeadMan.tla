------------------------------ MODULE DeadMan ------------------------------
(***************************************************************************)
(* What a watchdog program promises: once somebody attends, the machine is *)
(* left alone only if the attendant says goodbye first.  An attendant that *)
(* disappears without it lets the watchdog fire, unless another comes.     *)
(***************************************************************************)
VARIABLES
    watch,  \* "off", "attended", "abandoned" or "fired"
    bye     \* the attendant has said goodbye

vars == <<watch, bye>>

Init == watch = "off" /\ bye = FALSE

Attend == watch \in {"off", "abandoned"} /\ watch' = "attended" /\ bye' = FALSE

Goodbye == watch = "attended" /\ ~bye /\ bye' = TRUE /\ UNCHANGED watch

Dismiss == watch = "attended" /\ bye /\ watch' = "off" /\ bye' = FALSE

Abandon == watch = "attended" /\ watch' = "abandoned" /\ bye' = FALSE

Fire == watch \in {"attended", "abandoned"} /\ watch' = "fired" /\ bye' = FALSE

FireAbandoned == watch = "abandoned" /\ Fire

Next == Attend \/ Goodbye \/ Dismiss \/ Abandon \/ Fire

Spec == Init /\ [][Next]_vars /\ WF_vars(FireAbandoned)
=============================================================================
