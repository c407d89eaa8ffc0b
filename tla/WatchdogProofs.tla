--------------------------- MODULE WatchdogProofs ---------------------------
(***************************************************************************)
(* Proofs about the watchdog control program (wdg_ctl.c), for any number   *)
(* of processes and any timeouts:                                          *)
(*   TypeCorrect     TypeOK is invariant;                                  *)
(*   QuitCorrect     a quit disarms the watchdog;                          *)
(*   InTime          if three steps of a diligent program fit into the     *)
(*                   timeout it sets, and one into the one the driver      *)
(*                   starts with, it is never reset;                       *)
(*   PromiseKept     every step is a step of DeadMan, or none.             *)
(***************************************************************************)
EXTENDS Watchdog, TLAPS

\* Beyond the types: an armed watchdog has time left, and whoever is about to
\* close the device has left the 'V' there, unless writes fail.
Inv ==
    /\ TypeOK
    /\ armed /\ up => left > 0
    /\ ~MayFail("write") => \A p \in Procs : pc[p] = "close" => magic

\* The least that is left to the timer at each point of a program that makes a
\* step every Pace ticks: it loses Pace with each call since the timer was loaded.
Budget ==
    [point \in Points |->
        IF point = "settimeout" THEN DEFAULT
        ELSE IF point \in {"gettimeout", "close"} THEN interval
        ELSE IF point = "getchar" THEN interval - Pace
        ELSE interval - 2 * Pace]

Served == setting.diligent /\ setting.failing \subseteq {"open"}

TimeInv ==
    Served =>
        /\ up
        /\ user = Nobody => ~armed
        /\ user # Nobody => pc[user] # "eof" /\ left >= Budget[pc[user]] - quiet

-----------------------------------------------------------------------------

\* Before the first open.
LEMMA InvInit == Init => Inv
<1> SUFFICES ASSUME Init PROVE Inv
  OBVIOUS
<1> USE WatchdogAssumption DEF Init
<1>1. left \in 0..Max2(DEFAULT, interval) /\ quiet \in 0..Pace
  BY DEF Max2
<1>2. pc \in [Procs -> Points] /\ \A p \in Procs : pc[p] = "off"
  BY DEF Points
<1>3. \A p \in Procs : pc[p] \notin {"off", "open"} <=> user = p
  BY <1>2
<1> QED  BY <1>1, <1>2, <1>3 DEF Inv, TypeOK

\* A step that moves one process and leaves the driver alone.
LEMMA MoveStep ==
    ASSUME Inv, NEW p \in Procs, NEW q \in Points,
           Goto(p, q), UNCHANGED device,
           pc[p] \in {"off", "open"} <=> q \in {"off", "open"},
           pc[p] # "close",
           q = "close" => MayFail("write")
    PROVE  Inv'
<1> USE WatchdogAssumption DEF Inv, TypeOK, Goto, device
<1>1. (setting \in Settings /\ pc \in [Procs -> Points] /\ user \in Procs \cup {Nobody}
       /\ left \in 0..Max2(DEFAULT, interval) /\ armed \in BOOLEAN /\ magic \in BOOLEAN
       /\ up \in BOOLEAN)'
  OBVIOUS
<1>2. quiet' \in 0..Pace
  OBVIOUS
<1>3. (\A r \in Procs : pc[r] \notin {"off", "open"} <=> user = r)'
  OBVIOUS
<1>4. (user # Nobody => armed)' /\ (magic => user # Nobody /\ pc[user] = "close")'
  <2>1. magic => user # Nobody /\ user # p
    OBVIOUS
  <2> QED  BY <2>1
<1>5. (armed /\ up => left > 0)'
  OBVIOUS
<1>6. (~MayFail("write") => \A r \in Procs : pc[r] = "close" => magic)'
  BY DEF MayFail
<1> QED  BY <1>1, <1>2, <1>3, <1>4, <1>5, <1>6

\* A call that loads the timer and leaves the process with the device open.
LEMMA LoadStep ==
    ASSUME Inv, NEW p \in Procs, NEW q \in Points \ {"off", "open"},
           pc[p] \notin {"off", "open"}, Goto(p, q), Load(interval),
           magic' \in BOOLEAN, magic' <=> q = "close"
    PROVE  Inv'
<1> USE WatchdogAssumption DEF Inv, TypeOK, Goto, Load, Max2
<1>1. user = p
  OBVIOUS
<1>2. (\A r \in Procs : pc[r] \notin {"off", "open"} <=> user = r)'
  OBVIOUS
<1>3. (~MayFail("write") => \A r \in Procs : pc[r] = "close" => magic)'
  BY <1>1, <1>2 DEF MayFail
<1>4. (user # Nobody => armed)' /\ (magic => user # Nobody /\ pc[user] = "close")'
  BY <1>1
<1>5. left' \in 0..Max2(DEFAULT, interval) /\ left' > 0
  OBVIOUS
<1>6. quiet' \in 0..Pace
  OBVIOUS
<1> QED  BY <1>1, <1>2, <1>3, <1>4, <1>5, <1>6

\* A process that ends, the kernel closing its device.
LEMMA ExitStep ==
    ASSUME Inv, NEW p \in Procs, user = p, Exit(p)
    PROVE  Inv'
<1> USE WatchdogAssumption DEF Inv, TypeOK, Exit, Release, Goto
<1>1. \A r \in Procs : pc'[r] \in {"off", "open"}
  BY DEF Points
<1>2. left' \in 0..Max2(DEFAULT, interval)
  BY DEF Max2
<1>3. pc' \in [Procs -> Points]
  BY DEF Points
<1>4. (\A r \in Procs : pc[r] \notin {"off", "open"} <=> user = r)'
  BY <1>1
<1>5. (user # Nobody => armed)' /\ (magic => user # Nobody /\ pc[user] = "close")'
  OBVIOUS
<1>6. (armed /\ up => left > 0)'
  OBVIOUS
<1>7. (~MayFail("write") => \A r \in Procs : pc[r] = "close" => magic)'
  BY <1>1
<1>8. armed' \in BOOLEAN /\ magic' \in BOOLEAN /\ up' \in BOOLEAN
  BY Zenon
<1>9. setting' \in Settings /\ user' \in Procs \cup {Nobody} /\ quiet' \in 0..Pace
  OBVIOUS
<1> QED  BY <1>2, <1>3, <1>4, <1>5, <1>6, <1>7, <1>8, <1>9

\* Every step moves one process, and loads, arms or releases the device, or not.
LEMMA InvStep ==
    ASSUME Inv, [Next]_vars PROVE Inv'
<1> USE DEF At
<1>1. ASSUME Tick PROVE Inv'
  <2> USE WatchdogAssumption DEF Inv, TypeOK
  <2>1. left' \in 0..Max2(DEFAULT, interval)
    BY <1>1 DEF Tick, Max2
  <2>2. quiet' \in 0..Pace
    BY <1>1 DEF Tick
  <2>3. CASE left > 1
    <3>1. up' = TRUE
      BY <1>1, <2>3, Zenon DEF Tick
    <3> QED  BY <2>1, <2>2, <2>3, <3>1, <1>1 DEF Tick, MayFail
  <2>4. CASE ~(left > 1)
    <3>0. (left > 1) = FALSE
      BY <2>4
    <3>1. up' = FALSE
      BY <1>1, <3>0, Zenon DEF Tick
    <3> QED  BY <2>1, <2>2, <3>1, <1>1 DEF Tick, MayFail
  <2> QED  BY <2>3, <2>4
<1>2. ASSUME NEW p \in Procs, ProcStep(p) \/ Environment(p) PROVE Inv'
  <2> USE WatchdogAssumption
  <2>0. pc \in [Procs -> Points] /\ magic \in BOOLEAN /\ (magic => user # Nobody /\ pc[user] = "close")
        /\ (\A r \in Procs : pc[r] \notin {"off", "open"} <=> user = r)
    BY DEF Inv, TypeOK
  <2>1. CASE Start(p)          BY <2>0, <2>1, MoveStep DEF Start, Points
  <2>2. CASE Open(p)
    <3>1. user' = p /\ armed' /\ ~magic' /\ left' = DEFAULT /\ quiet' = 0
          /\ pc' = [pc EXCEPT ![p] = "settimeout"] /\ UNCHANGED <<up, setting>>
      BY <2>2 DEF Open, Arm, Goto
    <3>2. user = Nobody
      BY <2>2 DEF Open
    <3>3. (\A r \in Procs : pc[r] \notin {"off", "open"} <=> user = r)'
      BY <2>0, <3>1, <3>2
    <3>4. left' \in 0..Max2(DEFAULT, interval) /\ left' > 0
      BY <3>1 DEF Max2
    <3>5. \A r \in Procs : pc'[r] # "close"
      BY <2>0, <3>1, <3>2
    <3>6. "settimeout" \in Points
      BY DEF Points
    <3>7. pc' \in [Procs -> Points] /\ setting' \in Settings /\ quiet' \in 0..Pace
      BY <2>0, <3>1, <3>6 DEF Inv, TypeOK
    <3>8. armed' = TRUE /\ magic' = FALSE /\ up' \in BOOLEAN
      BY <2>2, <3>1 DEF Open, Arm, Inv, TypeOK
    <3> QED  BY <3>1, <3>3, <3>4, <3>5, <3>7, <3>8 DEF Inv, TypeOK
  <2>3. CASE OpenFails(p)      BY <2>0, <2>3, MoveStep DEF OpenFails, Points
  <2>4. CASE SetTimeout(p)     BY <2>0, <2>4, LoadStep DEF SetTimeout, Points
  <2>5. CASE GetTimeout(p)     BY <2>0, <2>5, MoveStep DEF GetTimeout, Points
  <2>6. CASE TimeoutFails(p)   BY <2>0, <2>6, ExitStep DEF TimeoutFails
  <2>7. CASE Getchar(p)
    <3>1. PICK c \in DOMAIN After : Goto(p, After[c])
      BY <2>7 DEF Getchar, After
    <3>2. After[c] \in Points \ {"off", "open", "close"}
      BY DEF After, Points
    <3>3. pc[p] = "getchar" /\ UNCHANGED device
      BY <2>7 DEF Getchar
    <3> QED  BY <3>1, <3>2, <3>3, MoveStep
  <2>8. CASE GetcharAgain(p)   BY <2>0, <2>8, MoveStep DEF GetcharAgain, Points
  <2>9. CASE Kick(p)
    <3>1. Goto(p, "getchar") /\ Load(interval) /\ pc[p] \in {"write", "ioctl"}
      BY <2>9 DEF Kick, Write
    <3>2. ~magic'
      BY <2>0, <2>9 DEF Kick, Write
    <3>3. magic' \in BOOLEAN
      BY <2>0, <2>9 DEF Kick, Write
    <3> QED  BY <3>1, <3>2, <3>3, LoadStep DEF Points
  <2>10. CASE KickFails(p)     BY <2>0, <2>10, MoveStep DEF KickFails, Points
  <2>11. CASE Goodbye(p)
    <3>1. Goto(p, "close") /\ Load(interval) /\ pc[p] = "goodbye" /\ magic'
      BY <2>11 DEF Goodbye, Write
    <3>2. magic' \in BOOLEAN
      BY <2>11, Zenon DEF Goodbye, Write
    <3> QED  BY <3>1, <3>2, LoadStep DEF Points
  <2>12. CASE GoodbyeFails(p)
    BY <2>0, <2>12, MoveStep DEF GoodbyeFails, Points
  <2>13. CASE Close(p)         BY <2>0, <2>13, ExitStep DEF Close
  <2>14. CASE Kill(p)          BY <2>14, ExitStep DEF Kill
  <2> QED
    BY <1>2, <2>1, <2>2, <2>3, <2>4, <2>5, <2>6, <2>7, <2>8, <2>9, <2>10, <2>11, <2>12,
       <2>13, <2>14 DEF ProcStep, Environment
<1>3. ASSUME UNCHANGED vars PROVE Inv'
  BY <1>3 DEF vars, device, Inv, TypeOK, MayFail
<1> QED  BY <1>1, <1>2, <1>3 DEF Next

\* The types, and who has the device open (the whole program).
THEOREM TypeCorrect == Spec => []TypeOK
<1>1. Inv => TypeOK
  BY DEF Inv
<1> QED  BY InvInit, InvStep, <1>1, PTL DEF Spec

\* Every invariant theorem below starts from this one.
LEMMA Invariant == Spec => []Inv
  BY InvInit, InvStep, PTL DEF Spec

\* What a process leaves behind when it quits: every other step leaves the
\* process where it is or finds it elsewhere.
LEMMA QuitStep ==
    ASSUME Inv, [Next]_vars, NEW p \in Procs,
           At(p, "close"), pc'[p] = "off", ~MayFail("write")
    PROVE  ~armed'
<1> USE DEF At, Inv, TypeOK
<1>1. magic /\ user = p
  BY DEF MayFail
<1>2. CASE UNCHANGED vars \/ Tick
  BY <1>2 DEF vars, Tick
<1>3. ASSUME NEW q \in Procs, ProcStep(q) \/ Environment(q) PROVE ~armed'
  <2>1. CASE q = p
    <3>1. CASE Close(p) \/ Kill(p)
      BY <1>1, <3>1 DEF Close, Kill, Exit, Release
    <3> QED
      BY <1>3, <2>1, <3>1 DEF ProcStep, Environment, Open, SetTimeout, GetTimeout,
         GetcharAgain, Kick, Goodbye, OpenFails, Start, Getchar, TimeoutFails, KickFails,
         GoodbyeFails
  <2>2. CASE q # p
    <3>1. pc'[p] = pc[p] \/ q = user
      BY <1>3, <2>2 DEF ProcStep, Environment, Open, SetTimeout, GetTimeout,
         GetcharAgain, Kick, Goodbye, Close, OpenFails, Start, Getchar, TimeoutFails,
         KickFails, GoodbyeFails, Kill, Goto, Exit
    <3> QED  BY <1>1, <2>2, <3>1
  <2> QED  BY <2>1, <2>2
<1> QED  BY <1>2, <1>3 DEF Next

\* A quit disarms the watchdog whatever came before it (wdg_ctl.c: 93-102).
THEOREM QuitCorrect == Spec => QuitDisarms
<1>1. Inv /\ [Next]_vars =>
        \A p \in Procs :
          At(p, "close") /\ pc'[p] = "off" /\ ~MayFail("write") => ~armed'
  BY QuitStep
<1> QED  BY Invariant, <1>1, PTL DEF Spec, QuitDisarms

-----------------------------------------------------------------------------
(* Time. *)

\* The setting never changes.
LEMMA SettingStep == [Next]_vars => UNCHANGED setting
  BY DEF Next, Tick, ProcStep, Environment, Open, SetTimeout, GetTimeout, GetcharAgain, Kick,
     Goodbye, Close, OpenFails, Start, Getchar, TimeoutFails, KickFails, GoodbyeFails, Kill,
     Goto, Exit, vars

\* The budget is kept if steps come in time and the calls of a served program
\* succeed.
LEMMA TimeStep ==
    ASSUME Pace < DEFAULT, 3 * Pace < interval, Inv, TimeInv, [Next]_vars
    PROVE  TimeInv'
<1> SUFFICES ASSUME Served PROVE TimeInv'
  BY SettingStep DEF TimeInv, Served
<1> USE WatchdogAssumption
<1>0. /\ DEFAULT \in Nat /\ interval \in Nat /\ Pace \in Nat /\ left \in Nat /\ quiet \in Nat
      /\ quiet <= Pace /\ pc \in [Procs -> Points] /\ up
      /\ (\A p \in Procs : pc[p] \notin {"off", "open"} <=> user = p)
      /\ user \in Procs \cup {Nobody}
  BY DEF Inv, TypeOK, TimeInv, Max2
<1>1. user # Nobody => pc[user] # "eof" /\ left >= Budget[pc[user]] - quiet
  BY DEF TimeInv
<1>2. user = Nobody => ~armed
  BY DEF TimeInv
<1>3. ~MayFail("ioctl") /\ ~MayFail("write") /\ ~MayFail("kill")
  BY DEF Served, MayFail
<1>4. \A q \in Points : Budget[q] \in Int /\ Budget[q] > Pace
  BY <1>0 DEF Budget, Points
<1>5. CASE Tick
  <2>1. user # Nobody /\ quiet < Pace /\ quiet' = quiet + 1 /\ left' = left - 1
        /\ UNCHANGED <<setting, pc, user, armed>>
    BY <1>2, <1>5 DEF Tick, Served
  <2>2. Budget[pc[user]] \in Int /\ Budget[pc[user]] > Pace
    BY <1>0, <1>4, <2>1
  <2>3. (left > 1) = TRUE
    BY <1>0, <1>1, <2>1, <2>2
  <2>4. up'
    BY <1>5, <2>3, Zenon DEF Tick
  <2> QED  BY <1>0, <1>1, <2>1, <2>2, <2>4 DEF TimeInv
<1>6. ASSUME NEW p \in Procs, ProcStep(p) \/ Environment(p) PROVE TimeInv'
  <2> USE DEF At
  \* p has the device and keeps it, is given it, or gives it back.
  <2>1. ASSUME NEW q \in Points \ {"eof"}, Goto(p, q), user \in {p, Nobody}, user' = p,
               left' >= Budget[q]
        PROVE  TimeInv'
    <3>1. pc'[p] = q /\ quiet' = 0 /\ up' /\ user' # Nobody
      BY <1>0, <2>1 DEF Goto
    <3>2. Budget' = Budget
      BY DEF Budget
    <3> QED  BY <1>4, <2>1, <3>1, <3>2, <1>0 DEF TimeInv
  <2>2. ASSUME NEW q \in Points, Goto(p, q), user # p, UNCHANGED device
        PROVE  TimeInv'
    <3>1. user # Nobody => pc'[user] = pc[user] /\ quiet' = quiet
      BY <1>0, <2>2 DEF Goto
    <3>2. up' /\ left' = left /\ user' = user /\ armed' = armed
      BY <1>0, <2>2 DEF Goto, device
    <3> QED  BY <1>0, <1>1, <1>2, <3>1, <3>2 DEF TimeInv
  <2>3. ASSUME pc[p] = "close", Exit(p) PROVE TimeInv'
    <3>1. magic
      BY <1>3, <2>3 DEF Inv
    <3> QED  BY <1>0, <2>3, <3>1 DEF Exit, Release, Goto, TimeInv
  <2>4. pc[p] \in {"off", "open"} \/ user = p
    BY <1>0
  <2>5. user # p => pc[p] \in {"off", "open"}
    BY <1>0
  <2>6. CASE Start(p)
    BY <1>0, <2>2, <2>6 DEF Start, Points
  <2>7. CASE Open(p)
    <3>1. left' = Budget["settimeout"]
      BY <2>7 DEF Open, Arm, Budget, Points
    <3> QED  BY <1>0, <1>4, <2>1, <2>7, <3>1 DEF Open, Arm, Points
  <2>8. CASE OpenFails(p)
    BY <1>0, <2>2, <2>8 DEF OpenFails, Points
  <2>9. CASE SetTimeout(p)
    <3>1. left' = Budget["gettimeout"] /\ user = p
      BY <2>4, <2>9 DEF SetTimeout, Load, Budget, Points
    <3> QED  BY <1>0, <1>4, <2>1, <2>9, <3>1 DEF SetTimeout, Load, Points
  <2>10. CASE GetTimeout(p)
    <3>1. user = p /\ left >= interval - quiet
      BY <1>0, <1>1, <2>4, <2>10 DEF GetTimeout, Budget, Points
    <3>2. left' >= Budget["getchar"]
      BY <1>0, <2>10, <3>1 DEF GetTimeout, device, Budget, Points
    <3> QED  BY <2>1, <2>10, <3>1, <3>2 DEF GetTimeout, device, Points
  <2>11. CASE TimeoutFails(p)
    BY <1>3, <2>11 DEF TimeoutFails
  <2>12. CASE Getchar(p)
    <3>1. PICK c \in {"w", "i", "x"} : Goto(p, After[c])
      BY <2>12 DEF Getchar, Served
    <3>2. After[c] \in {"write", "ioctl", "goodbye"}
      BY DEF After
    <3>3. user = p /\ left >= interval - Pace - quiet
      BY <1>0, <1>1, <2>4, <2>12 DEF Getchar, Budget, Points
    <3>4. left' >= Budget[After[c]]
      BY <1>0, <2>12, <3>2, <3>3 DEF Getchar, device, Budget, Points
    <3> QED  BY <2>1, <2>12, <3>1, <3>2, <3>3, <3>4 DEF Getchar, device, Points
  <2>13. CASE GetcharAgain(p)
    BY <1>0, <1>1, <2>4, <2>13 DEF GetcharAgain
  <2>14. CASE Kick(p)
    <3>1. Goto(p, "getchar") /\ Load(interval) /\ user = p
      BY <2>4, <2>14 DEF Kick, Write
    <3>2. left' >= Budget["getchar"]
      BY <1>0, <3>1 DEF Load, Budget, Points
    <3> QED  BY <2>1, <3>1, <3>2 DEF Load, Points
  <2>15. CASE KickFails(p)
    BY <1>3, <2>15 DEF KickFails
  <2>16. CASE Goodbye(p)
    <3>1. Goto(p, "close") /\ Load(interval) /\ user = p
      BY <2>4, <2>16 DEF Goodbye, Write
    <3>2. left' >= Budget["close"]
      BY <1>0, <3>1 DEF Load, Budget, Points
    <3> QED  BY <2>1, <3>1, <3>2 DEF Load, Points
  <2>17. CASE GoodbyeFails(p)
    BY <1>3, <2>17 DEF GoodbyeFails
  <2>18. CASE Close(p)
    BY <2>3, <2>18 DEF Close
  <2>19. CASE Kill(p)
    BY <1>3, <2>19 DEF Kill
  <2> QED
    BY <1>6, <2>6, <2>7, <2>8, <2>9, <2>10, <2>11, <2>12, <2>13, <2>14, <2>15, <2>16,
       <2>17, <2>18, <2>19 DEF ProcStep, Environment
<1>7. CASE UNCHANGED vars
  BY <1>7 DEF vars, device, TimeInv, Served
<1> QED  BY <1>5, <1>6, <1>7 DEF Next

\* Somebody who is served in time is not reset, whatever the timeouts, as long
\* as three calls fit into the program's and one into the driver's: after the
\* timeout is set the program reads it, calls getchar and kicks (wdg_ctl.c: 45-99).
THEOREM InTime ==
    ASSUME Pace < DEFAULT, 3 * Pace < interval
    PROVE  Spec => []NeverReset
<1>1. Init => TimeInv
  BY DEF Init, TimeInv
<1>2. Inv /\ TimeInv /\ [Next]_vars => TimeInv'
  BY TimeStep
<1>3. TimeInv => NeverReset
  BY DEF TimeInv, NeverReset, Served
<1> QED  BY Invariant, <1>1, <1>2, <1>3, PTL DEF Spec

-----------------------------------------------------------------------------
(* The promise. *)

\* Every step of the program maps to a step of the promise, or to none.
LEMMA PromiseStep ==
    ASSUME Inv, Inv', [Next]_vars
    PROVE  [Promise!Next]_(Promise!vars)
<1> DEFINE watch == IF ~up THEN "fired" ELSE IF ~armed THEN "off"
                    ELSE IF user = Nobody THEN "abandoned" ELSE "attended"
           bye == up /\ user # Nobody /\ pc[user] \in {"goodbye", "close"}
<1> SUFFICES Promise!Next \/ (watch' = watch /\ bye' = bye)
  BY DEF Promise!vars
<1> USE WatchdogAssumption
<1>0. /\ pc \in [Procs -> Points]
      /\ (\A p \in Procs : pc[p] \notin {"off", "open"} <=> user = p)
      /\ user \in Procs \cup {Nobody} /\ (user # Nobody => armed)
  BY DEF Inv, TypeOK
<1>1. CASE Tick
  <2>1. up /\ armed /\ UNCHANGED <<pc, user, armed>>
    BY <1>1 DEF Tick
  <2>2. CASE up'
    BY <2>1, <2>2
  <2>3. CASE ~up'
    <3>1. watch \in {"attended", "abandoned"} /\ watch' = "fired" /\ bye' = FALSE
      BY <2>1, <2>3
    <3> QED  BY <3>1 DEF Promise!Next, Promise!Fire
  <2> QED  BY <2>2, <2>3
<1>2. ASSUME NEW p \in Procs, ProcStep(p) \/ Environment(p)
      PROVE  Promise!Next \/ (watch' = watch /\ bye' = bye)
  <2> USE DEF At
  <2>1. user # p => pc[p] \in {"off", "open"}
    BY <1>0
  \* The user's next call; somebody else's move.
  <2>2. ASSUME NEW q \in Points, Goto(p, q), up, user = p, user' = user, armed' = armed
        PROVE  watch' = watch /\ (bye' <=> q \in {"goodbye", "close"})
    BY <1>0, <2>2 DEF Goto
  <2>3. ASSUME NEW q \in Points, Goto(p, q), up, user # p, UNCHANGED device
        PROVE  watch' = watch /\ bye' = bye
    BY <1>0, <2>3 DEF Goto, device
  <2>4. ASSUME user = p, up, Exit(p), magic => pc[p] = "close"
        PROVE  Promise!Next
    <3>1. watch = "attended" /\ bye' = FALSE
      BY <1>0, <2>4 DEF Exit, Release, Goto
    <3>2. CASE magic
      <4>1. bye /\ watch' = "off"
        BY <1>0, <2>4, <3>2 DEF Exit, Release, Goto
      <4> QED  BY <3>1, <4>1 DEF Promise!Next, Promise!Dismiss
    <3>3. CASE ~magic
      <4>1. watch' = "abandoned"
        BY <1>0, <2>4, <3>3 DEF Exit, Release, Goto
      <4> QED  BY <3>1, <4>1 DEF Promise!Next, Promise!Abandon
    <3> QED  BY <3>2, <3>3
  <2>5. magic => user # Nobody /\ pc[user] = "close"
    BY DEF Inv, TypeOK
  <2>6. CASE Start(p) \/ OpenFails(p)
    BY <1>0, <2>3, <2>6 DEF Start, OpenFails, Points
  <2>7. CASE Open(p)
    <3>1. watch \in {"off", "abandoned"} /\ watch' = "attended" /\ bye' = FALSE
      BY <1>0, <2>7 DEF Open, Arm, Goto
    <3> QED  BY <3>1 DEF Promise!Next, Promise!Attend
  <2>8. CASE SetTimeout(p) \/ GetTimeout(p) \/ GetcharAgain(p) \/ Kick(p) \/ KickFails(p)
    <3>1. PICK q \in Points \ {"goodbye", "close"} :
            Goto(p, q) /\ up /\ user = p /\ user' = user /\ armed' = armed
      BY <2>1, <2>8 DEF SetTimeout, GetTimeout, GetcharAgain, Kick, KickFails, Load, Write,
         device, Points
    <3>2. bye = FALSE
      BY <2>1, <2>8 DEF SetTimeout, GetTimeout, GetcharAgain, Kick, KickFails
    <3>3. watch' = watch /\ bye' = FALSE
      BY <2>2, <3>1
    <3> QED  BY <3>2, <3>3
  <2>9. CASE Getchar(p)
    <3>1. PICK q \in Points \ {"close"} : Goto(p, q)
      BY <2>9 DEF Getchar, After, Points
    <3>2. watch = "attended" /\ bye = FALSE /\ watch' = watch /\ (bye' <=> q = "goodbye")
      BY <1>0, <2>1, <2>2, <2>9, <3>1 DEF Getchar, device
    <3> QED  BY <3>2 DEF Promise!Next, Promise!Goodbye
  <2>10. CASE Goodbye(p) \/ GoodbyeFails(p)
    <3>1. Goto(p, "close") /\ up /\ user = p /\ user' = user /\ armed' = armed
          /\ pc[p] = "goodbye"
      BY <2>1, <2>10 DEF Goodbye, GoodbyeFails, Load, Write, device
    <3> QED  BY <1>0, <2>2, <3>1 DEF Points
  <2>11. CASE TimeoutFails(p) \/ Close(p) \/ Kill(p)
    <3>1. user = p /\ up /\ Exit(p)
      BY <2>1, <2>11 DEF TimeoutFails, Close, Kill
    <3> QED  BY <2>4, <2>5, <3>1
  <2> QED
    BY <1>2, <2>6, <2>7, <2>8, <2>9, <2>10, <2>11 DEF ProcStep, Environment
<1>3. CASE UNCHANGED vars
  BY <1>3 DEF vars, device
<1> QED  BY <1>1, <1>2, <1>3 DEF Next

\* Safety of the refinement: the watchdog is left disarmed only after an 'x',
\* and otherwise somebody attends it, or it will fire (the whole program).
THEOREM PromiseKept == Spec => Promise!Init /\ [][Promise!Next]_(Promise!vars)
<1>1. Init => Promise!Init
  BY DEF Init, Promise!Init
<1>2. Inv /\ Inv' /\ [Next]_vars => [Promise!Next]_(Promise!vars)
  BY PromiseStep
<1> QED  BY Invariant, <1>1, <1>2, PTL DEF Spec
=============================================================================
