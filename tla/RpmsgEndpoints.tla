--------------------------- MODULE RpmsgEndpoints ---------------------------
(***************************************************************************)
(* All programs that talk over rpmsg, run again and again, one after the   *)
(* other or side by side.  Each creates an endpoint through                *)
(* /dev/rpmsg_ctrl0, and then opens a device whose number is written in    *)
(* its source, hoping that the kernel gave the endpoint just that number.  *)
(*                                                                         *)
(* External to src/ and modelled from how the programs use it: the rpmsg   *)
(* character driver, which gives a new endpoint the lowest free number and *)
(* takes it back once the endpoint is destroyed and no process has it      *)
(* open.  An endpoint outlives the process that created it.                *)
(***************************************************************************)
EXTENDS Integers

CONSTANTS
    Programs,   \* the programs in use: some of those described below
    Last,       \* numbers are 0..Last; the bound on endpoints that exist
    Ordered,    \* TRUE: a program is only started when its number is next
    Failures    \* TRUE: any call may fail, not only those that must

(* The programs: the remote end the endpoint is named after, the number of *)
(* the device opened, whether a SIGINT handler is registered, whether the  *)
(* work between set-up and clean-up may exit early, and whether a failing  *)
(* destroy ends the program instead of being reported only.                *)

hp_mhu0 == [name |-> "m55_hp_mhu0", device |-> 0, handler |-> TRUE, early |-> TRUE,
            checked |-> FALSE]
hp_mhu1 == [name |-> "m55_hp_mhu1", device |-> 1, handler |-> TRUE, early |-> TRUE,
            checked |-> FALSE]
he_mhu0 == [name |-> "m55_he_mhu0", device |-> 2, handler |-> TRUE, early |-> TRUE,
            checked |-> FALSE]
he_mhu1 == [name |-> "m55_he_mhu1", device |-> 3, handler |-> TRUE, early |-> TRUE,
            checked |-> FALSE]
se_mhu0 == [name |-> "se_mhu0", device |-> 4, handler |-> TRUE, early |-> TRUE,
            checked |-> FALSE]
se_mhu1 == [name |-> "se_mhu1", device |-> 5, handler |-> TRUE, early |-> TRUE,
            checked |-> FALSE]
services == [name |-> "se_mhu0", device |-> 0, handler |-> TRUE, early |-> TRUE,
            checked |-> FALSE]
lib_main == [name |-> "se_mhu0", device |-> 0, handler |-> FALSE, early |-> TRUE,
            checked |-> FALSE]
es0_mhu0 == [name |-> "es0mhu0", device |-> 0, handler |-> FALSE, early |-> FALSE,
            checked |-> TRUE]

AllPrograms == {hp_mhu0, hp_mhu1, he_mhu0, he_mhu1, se_mhu0, se_mhu1,
                services, lib_main, es0_mhu0}

ASSUME EndpointsAssumption ==
    /\ Programs \subseteq AllPrograms
    /\ Last \in Nat
    /\ \A p \in Programs : p.device <= Last
    /\ Ordered \in BOOLEAN /\ Failures \in BOOLEAN

Numbers == 0..Last
None    == -1
Names   == {p.name : p \in AllPrograms}

VARIABLES
    phase,      \* how far each program has come; "idle" if it does not run
    fd_ept,     \* the number each program has open, or None
    made,       \* the number its create ioctl was given in this run, or None
    owner,      \* the name each number's endpoint was created with, or "free"
    destroyed,  \* endpoints destroyed while still open
    abandoned   \* numbers of endpoints whose creator left early, or was
                \* refused their destruction (history)

vars == <<phase, fd_ept, made, owner, destroyed, abandoned>>

Phases == {"idle", "create", "open", "signal", "work", "destroy", "close"}

Init ==
    /\ phase = [p \in Programs |-> "idle"]
    /\ fd_ept = [p \in Programs |-> None]
    /\ made = [p \in Programs |-> None]
    /\ owner = [n \in Numbers |-> "free"]
    /\ destroyed = {} /\ abandoned = {}

-----------------------------------------------------------------------------
(* The driver. *)

LowestFree(n) == owner[n] = "free" /\ \A m \in Numbers : m < n => owner[m] # "free"

\* Program p's descriptor goes away; a destroyed endpoint's number with it, if
\* p was the last to have it open.
Released(p) ==
    {n \in destroyed : \A q \in Programs : fd_ept[q] = n => q = p}

Leave(p) ==
    /\ phase' = [phase EXCEPT ![p] = "idle"]
    /\ fd_ept' = [fd_ept EXCEPT ![p] = None]
    /\ made' = [made EXCEPT ![p] = None]
    /\ owner' = [n \in Numbers |-> IF n \in Released(p) THEN "free" ELSE owner[n]]
    /\ destroyed' = destroyed \ Released(p)

\* The process ends without having destroyed its endpoint.
LeaveEarly(p) ==
    /\ Leave(p)
    /\ abandoned' = abandoned \cup ({made[p]} \ ({None} \cup destroyed))

-----------------------------------------------------------------------------
(* One program. *)

\* Open of /dev/rpmsg_ctrl0 included: when it fails nothing has happened yet.
Start(p) ==
    /\ phase[p] = "idle"
    /\ Ordered => LowestFree(p.device) /\ \A q \in Programs : phase[q] # "create"
    /\ phase' = [phase EXCEPT ![p] = "create"]
    /\ UNCHANGED <<fd_ept, made, owner, destroyed, abandoned>>

Create(p) ==
    /\ phase[p] = "create"
    /\ \E n \in Numbers :
          /\ LowestFree(n)
          /\ owner' = [owner EXCEPT ![n] = p.name]
          /\ made' = [made EXCEPT ![p] = n]
          /\ abandoned' = abandoned \ {n}
    /\ phase' = [phase EXCEPT ![p] = "open"]
    /\ UNCHANGED <<fd_ept, destroyed>>

CreateFails(p) ==
    /\ phase[p] = "create"
    /\ Failures \/ \A n \in Numbers : owner[n] # "free"
    /\ LeaveEarly(p)

Exists(n) == owner[n] # "free" /\ n \notin destroyed

\* Mutant of Open: the device is opened whether or not it exists.
OpenUnchecked(p) ==
    /\ phase[p] = "open"
    /\ fd_ept' = [fd_ept EXCEPT ![p] = p.device]
    /\ phase' = [phase EXCEPT ![p] = IF p.handler THEN "signal" ELSE "work"]
    /\ UNCHANGED <<made, owner, destroyed, abandoned>>

Open(p) ==
    /\ phase[p] = "open"
    /\ Exists(p.device)
    /\ fd_ept' = [fd_ept EXCEPT ![p] = p.device]
    /\ phase' = [phase EXCEPT ![p] = IF p.handler THEN "signal" ELSE "work"]
    /\ UNCHANGED <<made, owner, destroyed, abandoned>>

OpenFails(p) ==
    /\ phase[p] = "open"
    /\ Failures \/ ~Exists(p.device)
    /\ LeaveEarly(p)

Signal(p) ==
    /\ phase[p] = "signal"
    /\ phase' = [phase EXCEPT ![p] = "work"]
    /\ UNCHANGED <<fd_ept, made, owner, destroyed, abandoned>>

\* Everything the program does with its endpoint: it may take any time.
Work(p) ==
    /\ phase[p] = "work"
    /\ phase' = [phase EXCEPT ![p] = "destroy"]
    /\ UNCHANGED <<fd_ept, made, owner, destroyed, abandoned>>

\* The SE clients exit as soon as a call of theirs fails; an in-loop program
\* may crash when it joins a thread that was never started.
WorkFails(p) ==
    /\ phase[p] = "work"
    /\ p.early /\ Failures
    /\ LeaveEarly(p)

\* From "close", the handler of another thread destroys once more.
Destroys(p) == phase[p] = "destroy" \/ (phase[p] = "close" /\ p.handler)

Destroy(p) ==
    /\ Destroys(p)
    /\ destroyed' = destroyed \cup {fd_ept[p]}
    /\ abandoned' = abandoned \ {fd_ept[p]}
    /\ phase' = [phase EXCEPT ![p] = "close"]
    /\ UNCHANGED <<fd_ept, made, owner>>

\* The endpoint stays behind, be the failure reported and the descriptor
\* closed, or the program ended at once.
DestroyFails(p) ==
    /\ Destroys(p)
    /\ Failures
    /\ IF p.checked
         THEN LeaveEarly(p)
         ELSE /\ phase' = [phase EXCEPT ![p] = "close"]
              /\ abandoned' = abandoned \cup ({fd_ept[p]} \ destroyed)
              /\ UNCHANGED <<fd_ept, made, owner, destroyed>>

Close(p) ==
    /\ phase[p] = "close"
    /\ Leave(p)
    /\ UNCHANGED abandoned

\* Mutants of Sigint: the handler is registered before the set-up; it closes
\* the endpoint without destroying it.
SigintRegisteredFirst(p) ==
    /\ phase[p] # "idle" /\ p.handler
    /\ phase' = [phase EXCEPT ![p] = "destroy"]
    /\ UNCHANGED <<fd_ept, made, owner, destroyed, abandoned>>
SigintOnlyCloses(p) ==
    /\ phase[p] = "work" /\ p.handler
    /\ phase' = [phase EXCEPT ![p] = "close"]
    /\ UNCHANGED <<fd_ept, made, owner, destroyed, abandoned>>

\* With a handler registered SIGINT leads to the same destroy and close as the
\* normal end, without one it ends the process.
Sigint(p) ==
    /\ phase[p] # "idle"
    /\ IF p.handler /\ phase[p] \in {"work", "destroy", "close"}
         THEN /\ phase' = [phase EXCEPT ![p] = "destroy"]
              /\ UNCHANGED <<fd_ept, made, owner, destroyed, abandoned>>
         ELSE LeaveEarly(p)

Next ==
    \E p \in Programs :
        \/ Start(p) \/ Create(p) \/ CreateFails(p) \/ Open(p) \/ OpenFails(p)
        \/ Signal(p) \/ Work(p) \/ WorkFails(p)
        \/ Destroy(p) \/ DestroyFails(p) \/ Close(p) \/ Sigint(p)

Spec == Init /\ [][Next]_vars

-----------------------------------------------------------------------------
(* Properties. *)

TypeOK ==
    /\ phase \in [Programs -> Phases]
    /\ fd_ept \in [Programs -> Numbers \cup {None}]
    /\ made \in [Programs -> Numbers \cup {None}]
    /\ owner \in [Numbers -> Names \cup {"free"}]
    /\ destroyed \subseteq Numbers
    /\ abandoned \subseteq Numbers

\* A program works on, and destroys, the endpoint it created in this run and
\* no other.  It holds if programs are started in order: nothing in the code
\* ensures it (he_mhu0: 84-92).
OwnEndpoint ==
    \A p \in Programs : fd_ept[p] # None =>
        fd_ept[p] = made[p] /\ owner[fd_ept[p]] = p.name

\* Every endpoint that exists belongs to a program that runs, or its creator
\* left before it could destroy it, in its set-up, by an early exit or by a
\* SIGINT nobody handled, or was refused the destroy (he_mhu0: 55-66, 84-121).
NoOtherStrays ==
    \A n \in Numbers : owner[n] # "free" =>
        n \in abandoned \/ \E p \in Programs : made[p] = n

\* "MHU0 TEST BETWEEN A32 and M55_HP cores" (hp_mhu0: 76): the messages of the
\* test go to the core it names.
TestsNamedCore ==
    \A p \in Programs : phase[p] = "work" => owner[fd_ept[p]] = p.name
=============================================================================
