------------------------ MODULE RpmsgEndpointsProofs ------------------------
(***************************************************************************)
(* Proofs about RpmsgEndpoints: programs started in order keep to their    *)
(* own endpoints and leave none behind, whichever of them run, whatever    *)
(* fails and however many numbers there are.                               *)
(***************************************************************************)
EXTENDS RpmsgEndpoints, TLAPS

\* What a program names, and that a device other than 0 tells which it is.
LEMMA Named ==
    ASSUME NEW p \in AllPrograms
    PROVE  /\ p.device \in 0..5 /\ p.name # "free" /\ p.handler \in BOOLEAN
           /\ p.device = 1 => p = hp_mhu1
           /\ p.device = 2 => p = he_mhu0
           /\ p.device = 3 => p = he_mhu1
           /\ p.device = 4 => p = se_mhu0
           /\ p.device = 5 => p = se_mhu1
<1>1. CASE p = hp_mhu0
  BY <1>1 DEF hp_mhu0
<1>2. CASE p = hp_mhu1
  BY <1>2 DEF hp_mhu1
<1>3. CASE p = he_mhu0
  BY <1>3 DEF he_mhu0
<1>4. CASE p = he_mhu1
  BY <1>4 DEF he_mhu1
<1>5. CASE p = se_mhu0
  BY <1>5 DEF se_mhu0
<1>6. CASE p = se_mhu1
  BY <1>6 DEF se_mhu1
<1>7. CASE p = services
  BY <1>7 DEF services
<1>8. CASE p = lib_main
  BY <1>8 DEF lib_main
<1>9. CASE p = es0_mhu0
  BY <1>9 DEF es0_mhu0
<1> QED
  BY <1>1, <1>2, <1>3, <1>4, <1>5, <1>6, <1>7, <1>8, <1>9 DEF AllPrograms

LEMMA Program ==
    ASSUME NEW p \in Programs
    PROVE  p.device \in Numbers /\ p.name \in Names /\ p.name # "free"
           /\ p.handler \in BOOLEAN
<1>1. p \in AllPrograms /\ p.device <= Last
  BY EndpointsAssumption
<1>2. p.name \in Names
  BY <1>1 DEF Names
<1> QED  BY <1>1, <1>2, Named, EndpointsAssumption DEF Numbers

\* Only device 0 is named by more than one program.
LEMMA Devices ==
    ASSUME NEW p \in Programs, NEW q \in Programs,
           p.device = q.device, p.device # 0
    PROVE  p = q
<1>1. p \in AllPrograms /\ q \in AllPrograms
  BY EndpointsAssumption
<1> QED  BY <1>1, Named

\* Numbers given out, by how far each program has come.
HoldInv ==
    \A p \in Programs :
        /\ made[p] = None <=> phase[p] \in {"idle", "create"}
        /\ fd_ept[p] = None <=> phase[p] \in {"idle", "create", "open"}
        /\ fd_ept[p] # None => fd_ept[p] = made[p]
        /\ made[p] # None => owner[made[p]] = p.name
        /\ phase[p] = "close" => made[p] \in destroyed \cup abandoned

DistinctInv ==
    \A p, q \in Programs : made[p] = made[q] /\ made[p] # None => p = q

DestroyedInv ==
    \A n \in destroyed : \E p \in Programs : fd_ept[p] = n

\* What starting in order gives: a program that got a number below its device
\* finds that device free, and nobody creates it meanwhile.
OrderInv ==
    \A p \in Programs :
        /\ phase[p] = "create" =>
               /\ owner[p.device] = "free"
               /\ \A q \in Programs : phase[q] = "create" => q = p
        /\ phase[p] = "open" /\ made[p] # p.device =>
               /\ made[p] < p.device
               /\ owner[p.device] = "free"
               /\ \A q \in Programs : phase[q] = "create" => q.device < p.device

Inv == TypeOK /\ HoldInv /\ DistinctInv /\ DestroyedInv /\ OrderInv /\ NoOtherStrays

\* What a program that leaves gives back: its own number, if it is destroyed.
LEMMA LeaveGives ==
    ASSUME Inv, NEW p \in Programs
    PROVE  Released(p) = {made[p]} \cap destroyed
<1> USE DEF Inv, TypeOK, None, Numbers
<1>1. ASSUME NEW n \in Released(p) PROVE n = made[p] /\ n \in destroyed
  <2>1. PICK q \in Programs : fd_ept[q] = n
    BY <1>1 DEF Released, DestroyedInv
  <2> QED  BY <1>1, <2>1 DEF Released, HoldInv
<1>2. ASSUME made[p] \in destroyed, NEW q \in Programs, fd_ept[q] = made[p] PROVE q = p
  BY <1>2 DEF HoldInv, DistinctInv
<1> QED  BY <1>1, <1>2 DEF Released

\* Leaving, by whatever way, keeps the invariant if an endpoint that was not
\* destroyed is recorded as abandoned.
LEMMA LeaveStep ==
    ASSUME Inv, NEW p \in Programs, Leave(p),
           abandoned' \subseteq Numbers, abandoned \subseteq abandoned',
           made[p] \in destroyed \cup abandoned' \cup {None}
    PROVE  Inv'
<1> USE DEF Inv
<1>1. Released(p) = {made[p]} \cap destroyed
  BY LeaveGives
<1>2. TypeOK'
  BY <1>1 DEF TypeOK, Leave, Phases
<1>3. HoldInv' /\ DistinctInv'
  BY <1>1, Program DEF TypeOK, HoldInv, DistinctInv, Leave, None, Numbers
<1>4. DestroyedInv'
  BY <1>1 DEF TypeOK, HoldInv, DestroyedInv, Leave, None, Numbers
<1>5. OrderInv'
  BY <1>1, Program DEF TypeOK, HoldInv, OrderInv, Leave, None, Numbers
<1>6. NoOtherStrays'
  BY <1>1 DEF TypeOK, HoldInv, NoOtherStrays, Leave, None, Numbers
<1> QED  BY <1>2, <1>3, <1>4, <1>5, <1>6

LEMMA LeaveEarlyStep ==
    ASSUME Inv, NEW p \in Programs, LeaveEarly(p) PROVE Inv'
BY LeaveStep DEF LeaveEarly, Inv, TypeOK, None, Numbers

\* While a program has its device open, it may go on, or back to destroy.
Holding == {"signal", "work", "destroy", "close"}

LEMMA HoldingStep ==
    ASSUME Inv, NEW p \in Programs, phase[p] \in Holding,
           NEW next \in Holding, phase' = [phase EXCEPT ![p] = next],
           destroyed' \in {destroyed, destroyed \cup {fd_ept[p]}},
           abandoned' \in {abandoned, abandoned \cup {fd_ept[p]}, abandoned \ {fd_ept[p]}},
           next = "close" => fd_ept[p] \in destroyed' \cup abandoned',
           UNCHANGED <<fd_ept, made, owner>>
    PROVE  Inv'
<1> USE DEF Inv, Holding, None, Numbers
<1>1. fd_ept[p] = made[p] /\ made[p] \in Numbers
  BY DEF TypeOK, HoldInv
<1>2. TypeOK'
  BY <1>1 DEF TypeOK, Phases
<1>3. /\ phase' \in [Programs -> Phases] /\ phase'[p] = next
      /\ \A q \in Programs : q # p => phase'[q] = phase[q]
  BY DEF TypeOK, Phases
<1>4. HoldInv' /\ DistinctInv' /\ DestroyedInv'
  BY <1>1, <1>3 DEF TypeOK, HoldInv, DistinctInv, DestroyedInv
<1>5. OrderInv'
  BY <1>3 DEF OrderInv
<1>6. NoOtherStrays'
  BY <1>1 DEF NoOtherStrays
<1> QED  BY <1>2, <1>4, <1>5, <1>6

LEMMA Step ==
    ASSUME Ordered, Inv, [Next]_vars PROVE Inv'
<1> USE EndpointsAssumption DEF Inv, None, Numbers
<1>1. ASSUME NEW p \in Programs, Start(p) PROVE Inv'
  <2>1. OrderInv'
    BY <1>1, Program, Devices DEF Start, LowestFree, OrderInv, TypeOK, HoldInv
  <2> QED
    BY <1>1, <2>1 DEF Start, TypeOK, Phases, HoldInv, DistinctInv, DestroyedInv, NoOtherStrays
<1>2. ASSUME NEW p \in Programs, Create(p) PROVE Inv'
  <2> PICK n \in Numbers :
         /\ LowestFree(n)
         /\ owner' = [owner EXCEPT ![n] = p.name]
         /\ made' = [made EXCEPT ![p] = n]
         /\ abandoned' = abandoned \ {n}
    BY <1>2 DEF Create
  <2>1. n <= p.device /\ phase[p] = "create" /\ phase' = [phase EXCEPT ![p] = "open"]
    BY <1>2, Program DEF Create, OrderInv, LowestFree
  <2>2. TypeOK'
    BY <1>2, Program DEF Create, TypeOK, Phases
  <2>3. HoldInv' /\ DistinctInv' /\ DestroyedInv'
    BY <1>2, <2>1, Program DEF Create, TypeOK, HoldInv, DistinctInv, DestroyedInv, LowestFree
  <2>4. OrderInv'
    BY <1>2, <2>1, Program DEF TypeOK, OrderInv
  <2>5. NoOtherStrays'
    BY <1>2, <2>1 DEF TypeOK, HoldInv, NoOtherStrays, LowestFree
  <2> QED  BY <2>2, <2>3, <2>4, <2>5
<1>3. ASSUME NEW p \in Programs, Open(p) PROVE Inv'
  <2>1. made[p] = p.device
    BY <1>3 DEF Open, Exists, OrderInv
  <2>2. /\ phase[p] = "open" /\ phase'[p] \in {"signal", "work"}
        /\ \A q \in Programs : q # p => phase'[q] = phase[q] /\ fd_ept'[q] = fd_ept[q]
        /\ fd_ept'[p] = p.device
        /\ phase' \in [Programs -> Phases]
    BY <1>3, Program DEF Open, TypeOK, Phases
  <2>3. TypeOK'
    BY <1>3, <2>2, Program DEF Open, TypeOK
  <2>4. UNCHANGED <<made, owner, destroyed, abandoned>>
    BY <1>3 DEF Open
  <2>5. HoldInv' /\ DistinctInv'
    BY <2>1, <2>2, <2>4, Program DEF TypeOK, HoldInv, DistinctInv
  <2>6. DestroyedInv' /\ NoOtherStrays'
    BY <1>3, <2>2, <2>4, Program DEF TypeOK, HoldInv, DestroyedInv, NoOtherStrays
  <2>7. OrderInv'
    BY <2>2, <2>4 DEF OrderInv
  <2> QED  BY <2>3, <2>5, <2>6, <2>7
<1>4. ASSUME NEW p \in Programs, Signal(p) \/ Work(p) PROVE Inv'
  <2>1. CASE Signal(p)
    BY <2>1, HoldingStep DEF Signal, Holding
  <2>2. CASE Work(p)
    BY <2>2, HoldingStep DEF Work, Holding
  <2> QED  BY <1>4, <2>1, <2>2
<1>5. ASSUME NEW p \in Programs, Destroy(p) PROVE Inv'
  BY <1>5, HoldingStep DEF Destroy, Destroys, Holding
<1>10. ASSUME NEW p \in Programs, DestroyFails(p) PROVE Inv'
  <2>1. CASE p.checked
    BY <1>10, <2>1, LeaveEarlyStep DEF DestroyFails
  <2>2. CASE ~p.checked
    <3>1. /\ phase[p] \in Holding /\ phase' = [phase EXCEPT ![p] = "close"]
          /\ abandoned' = abandoned \cup ({fd_ept[p]} \ destroyed)
          /\ UNCHANGED <<fd_ept, made, owner, destroyed>>
      BY <1>10, <2>2 DEF DestroyFails, Destroys, Holding
    <3> QED  BY <3>1, HoldingStep DEF Holding
  <2> QED  BY <2>1, <2>2
<1>6. ASSUME NEW p \in Programs, Close(p) PROVE Inv'
  BY <1>6, LeaveStep DEF Close, TypeOK, HoldInv
<1>7. ASSUME NEW p \in Programs, CreateFails(p) \/ OpenFails(p) \/ WorkFails(p) PROVE Inv'
  BY <1>7, LeaveEarlyStep DEF CreateFails, OpenFails, WorkFails
<1>8. ASSUME NEW p \in Programs, Sigint(p) PROVE Inv'
  <2>1. CASE LeaveEarly(p)
    BY <2>1, LeaveEarlyStep
  <2>2. CASE ~LeaveEarly(p)
    <3>1. /\ phase[p] \in Holding /\ phase' = [phase EXCEPT ![p] = "destroy"]
          /\ UNCHANGED <<fd_ept, made, owner, destroyed, abandoned>>
      BY <1>8, <2>2 DEF Sigint, Holding
    <3> QED  BY <3>1, HoldingStep DEF Holding
  <2> QED  BY <2>1, <2>2
<1>9. CASE UNCHANGED vars
  BY <1>9 DEF vars, TypeOK, HoldInv, DistinctInv, DestroyedInv, OrderInv, NoOtherStrays
<1> QED
  BY <1>1, <1>2, <1>3, <1>4, <1>5, <1>6, <1>7, <1>8, <1>9, <1>10 DEF Next

LEMMA InOrder ==
    ASSUME Ordered PROVE Spec => []Inv
<1>1. Init => Inv
  BY EndpointsAssumption, Program DEF Init, Inv, TypeOK, HoldInv, DistinctInv, DestroyedInv,
     OrderInv, NoOtherStrays, Phases, None, Numbers
<1>2. Inv /\ [Next]_vars => Inv'
  BY Step
<1>3. QED  BY <1>1, <1>2, PTL DEF Spec

\* Programs started in order work on, and destroy, their own endpoints only:
\* though a number may be freed between a start and its create, the device a
\* program opens is then missing rather than another program's.
THEOREM InOrderOwn ==
    ASSUME Ordered PROVE Spec => []OwnEndpoint
<1>1. Inv => OwnEndpoint
  BY DEF Inv, TypeOK, HoldInv, OwnEndpoint
<1>2. QED  BY <1>1, InOrder, PTL

\* Programs started in order leave an endpoint behind only by ending early, or
\* when its destruction is refused.
THEOREM InOrderClean ==
    ASSUME Ordered PROVE Spec => []NoOtherStrays
<1>1. Inv => NoOtherStrays
  BY DEF Inv
<1>2. QED  BY <1>1, InOrder, PTL

-----------------------------------------------------------------------------

\* In any order: a program has its own device open from its open to its close.
AnyInv ==
    /\ TypeOK
    /\ \A p \in Programs : phase[p] \in {"signal", "work", "destroy", "close"} =>
          fd_ept[p] = p.device

\* A descriptor that goes away.
LEMMA AnyLeave ==
    ASSUME AnyInv, NEW p \in Programs, Leave(p), abandoned' \subseteq Numbers
    PROVE  AnyInv'
  BY EndpointsAssumption DEF AnyInv, TypeOK, Leave, Phases, None

LEMMA AnyLeaveEarly ==
    ASSUME AnyInv, NEW p \in Programs, LeaveEarly(p) PROVE AnyInv'
  BY AnyLeave DEF AnyInv, TypeOK, LeaveEarly, None

\* The types hold in whatever order the programs are started.
THEOREM TypeCorrect == Spec => []TypeOK
<1>1. Init => AnyInv
  BY EndpointsAssumption, Program DEF Init, AnyInv, TypeOK, Phases
<1>2. AnyInv /\ [Next]_vars => AnyInv'
  <2> SUFFICES ASSUME AnyInv, [Next]_vars PROVE AnyInv'
    OBVIOUS
  <2> USE EndpointsAssumption DEF AnyInv, TypeOK, Phases
  <2>1. ASSUME NEW p \in Programs, Start(p) PROVE AnyInv'
    BY <2>1 DEF Start
  <2>2. ASSUME NEW p \in Programs, Create(p) PROVE AnyInv'
    BY <2>2, Program DEF Create
  <2>3. ASSUME NEW p \in Programs, Open(p) PROVE AnyInv'
    BY <2>3, Program DEF Open
  <2>4. ASSUME NEW p \in Programs, Signal(p) \/ Work(p) PROVE AnyInv'
    BY <2>4 DEF Signal, Work
  <2>5. ASSUME NEW p \in Programs, Destroy(p) PROVE AnyInv'
    BY <2>5, Program DEF Destroy, Destroys
  <2>10. ASSUME NEW p \in Programs, DestroyFails(p) PROVE AnyInv'
    <3>1. CASE p.checked
      BY <2>10, <3>1, AnyLeaveEarly DEF DestroyFails
    <3>2. CASE ~p.checked
      BY <2>10, <3>2, Program DEF DestroyFails, Destroys
    <3> QED  BY <3>1, <3>2
  <2>6. ASSUME NEW p \in Programs, Close(p) PROVE AnyInv'
    BY <2>6, AnyLeave DEF Close
  <2>7. ASSUME NEW p \in Programs, CreateFails(p) \/ OpenFails(p) \/ WorkFails(p) PROVE AnyInv'
    BY <2>7, AnyLeaveEarly DEF CreateFails, OpenFails, WorkFails
  <2>8. ASSUME NEW p \in Programs, Sigint(p) PROVE AnyInv'
    BY <2>8, AnyLeaveEarly DEF Sigint
  <2>9. CASE UNCHANGED vars
    BY <2>9 DEF vars
  <2> QED
    BY <2>1, <2>2, <2>3, <2>4, <2>5, <2>6, <2>7, <2>8, <2>9, <2>10 DEF Next
<1>3. AnyInv => TypeOK
  BY DEF AnyInv
<1> QED  BY <1>1, <1>2, <1>3, PTL DEF Spec
=============================================================================
