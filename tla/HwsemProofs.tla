---------------------------- MODULE HwsemProofs ----------------------------
(***************************************************************************)
(* Proofs about the hardware semaphore tests, for any number of processes  *)
(* of each kind, any number of semaphores and any settings:                *)
(*   TypeCorrect         TypeOK is invariant;                              *)
(*   UnlocksCorrect      unlocks pair with locks;                          *)
(*   NoCircle            nobody waits for a process that waits;            *)
(*   SectionsImplemented the tests implement HwsemSections.                *)
(* The invariants build on each other:                                     *)
(*   PlaceInv            how much each process holds at each of its points *)
(*   SemInv              owner and count of each semaphore                 *)
(*   OwnInv              the semaphore against its owner's own account, if *)
(*                       all lock under their own names                    *)
(*   HeldInv             a semaphore that is taken is some process's       *)
(***************************************************************************)
EXTENDS Hwsem, TLAPS, FiniteSetTheorems

\* Threads of p that got their lock.
Done(p, k) == IF worker[p][k] = "done" THEN 1 ELSE 0
Dones(p) == Done(p, 1) + Done(p, 2)

\* The tests that loop: held is their place in the locks and unlocks.
LoopPlace(p) ==
    /\ pc[p] \in {"open", "lock", "count", "unlock", "close"}
    /\ pc[p] \in {"open", "close"} => held[p] = 0
    /\ pc[p] = "lock" => held[p] \in 0..2
    /\ pc[p] = "count" => held[p] = 3
    /\ pc[p] = "unlock" => held[p] \in 1..3
    /\ state[p] = "done" => pc[p] = "close"
    /\ i[p] < Rounds(p)

\* The test with threads: held is the number of threads that got their lock
\* less the unlocks so far, of which there are at most two.
ThreadPlace(p) ==
    /\ pc[p] \in {"open", "spawn", "join", "count", "unlock"}
    /\ i[p] \in (IF pc[p] = "open" THEN {0} ELSE {1, 2})
    /\ pc[p] = "open" \/ (pc[p] = "spawn" /\ i[p] = 1) =>
          worker[p][1] = "none" /\ worker[p][2] = "none"
    /\ pc[p] = "spawn" => worker[p][2] = "none"
    /\ pc[p] = "join" /\ i[p] = 2 => worker[p][1] # "lock"
    /\ pc[p] \in {"count", "unlock"} => worker[p][1] # "lock" /\ worker[p][2] # "lock"
    /\ pc[p] # "unlock" => held[p] = Dones(p)
    /\ held[p] <= Dones(p)
    /\ held[p] >= Dones(p) - (IF state[p] = "done" THEN 2 ELSE i[p] - 1) \/ pc[p] # "unlock"
    /\ state[p] = "done" => pc[p] = "unlock" /\ i[p] = 2

PlaceInv ==
    /\ pc \in [Procs -> Points]
    /\ i \in [Procs -> Nat]
    /\ worker \in [Procs -> [Workers -> {"none", "lock", "done", "failed"}]]
    /\ state \in [Procs -> {"runs", "done", "failed"}]
    /\ held \in [Procs -> Int]
    /\ \A p \in Looping : LoopPlace(p)
    /\ \A p \in Threaded : ThreadPlace(p)

SemInv ==
    /\ setting \in Settings
    /\ owner \in [Sems -> Masters \cup {Free}]
    /\ count \in [Sems -> Nat]
    /\ \A s \in Sems : count[s] = 0 <=> owner[s] = Free

\* Whoever holds something holds it at the semaphore it works with, which knows.
Accounted(p) ==
    /\ held[p] >= 0
    /\ held[p] > 0 => owner[Sem(p)] = Master[p] /\ count[Sem(p)] = held[p]
    /\ \A s \in Sems : owner[s] = Master[p] => s = Sem(p) /\ held[p] > 0

OwnInv == Distinct => \A p \in Procs : Accounted(p)

\* A semaphore that is not free is somebody's.
HeldInv ==
    \A s \in Sems : owner[s] # Free => \E q \in Procs : owner[s] = Master[q]

\* Nothing is left by a process that ends regularly.
LeftInv ==
    Distinct /\ ~MayFail("unlock") =>
        \A p \in Threaded :
            /\ pc[p] = "unlock" /\ i[p] = 2 => held[p] <= 1
            /\ state[p] = "done" => held[p] = 0

-----------------------------------------------------------------------------

\* Every process is of one kind, and its semaphore is one.
LEMMA Kinds ==
    /\ Procs = Looping \cup Threaded
    /\ \A p \in Procs : p \in Looping <=> p \notin Threaded
    /\ \A p \in Looping : Rounds(p) \in 1..HWSEM_CNT
  BY HwsemAssumption DEF Procs, Looping, Rounds

\* Everybody works with one of the semaphores.
LEMMA SemsOf == ASSUME PlaceInv, NEW p \in Procs PROVE Sem(p) \in Sems
  BY HwsemAssumption, Kinds DEF PlaceInv, LoopPlace, Sem, Sems

\* What a process holds follows from its own code alone.
LEMMA PlaceStep == ASSUME PlaceInv, [Next]_vars PROVE PlaceInv'
<1> USE Kinds
<1> USE HwsemAssumption DEF PlaceInv, LoopPlace, ThreadPlace, Done, Dones, Points, Workers, At, Goto,
     Set, End, sems, Rounds
<1>1. ASSUME NEW p \in Procs, MainStep(p) \/ Failure(p), UNCHANGED setting PROVE PlaceInv'
  <2>1. CASE Open(p)  BY <1>1, <2>1 DEF Open
  <2>2. CASE OpenFails(p)  BY <1>1, <2>2 DEF OpenFails, Fails
  <2>3. CASE Kill(p)  BY <1>1, <2>3 DEF Kill, Fails
  <2>4. CASE ReadCount(p)  BY <1>1, <2>4 DEF ReadCount
  <2>5. CASE LoopLock(p)  BY <1>1, <2>5 DEF LoopLock, Lock, CanLock
  <2>6. CASE LoopLockFails(p)  BY <1>1, <2>6 DEF LoopLockFails, Fails
  <2>7. CASE LoopUnlock(p)  BY <1>1, <2>7 DEF LoopUnlock, Unlock, CanUnlock
  <2>8. CASE LoopUnlockFails(p)  BY <1>1, <2>8 DEF LoopUnlockFails, Fails
  <2>9. CASE Close(p)  BY <1>1, <2>9 DEF Close
  <2>10. CASE Spawn(p)  BY <1>1, <2>10 DEF Spawn, Second
  <2>11. CASE SpawnFails(p)  BY <1>1, <2>11 DEF SpawnFails, Second
  <2>12. CASE Join(p)  BY <1>1, <2>12 DEF Join, Second
  <2>13. CASE JoinCrashes(p)  BY <1>1, <2>13 DEF JoinCrashes, Fails
  <2>14. CASE MainUnlock(p)  BY <1>1, <2>14 DEF MainUnlock, Unlock, CanUnlock, AfterUnlock
  <2>15. CASE MainUnlockFails(p)  BY <1>1, <2>15 DEF MainUnlockFails, AfterUnlock, CanUnlock
  <2> QED
    BY <1>1, <2>1, <2>2, <2>3, <2>4, <2>5, <2>6, <2>7, <2>8, <2>9, <2>10, <2>11, <2>12, <2>13,
       <2>14, <2>15 DEF MainStep, Failure
<1>2. ASSUME NEW p \in Threaded, NEW k \in Workers, WorkerLock(p, k), UNCHANGED setting
      PROVE  PlaceInv'
  BY <1>2 DEF WorkerLock, WorkerEnds, Lock, CanLock
<1>3. ASSUME NEW p \in Threaded, NEW k \in Workers, WorkerLockFails(p, k), UNCHANGED setting
      PROVE  PlaceInv'
  BY <1>3 DEF WorkerLockFails, WorkerEnds
<1>4. CASE UNCHANGED vars  BY <1>4 DEF vars
<1> QED  BY <1>1, <1>2, <1>3, <1>4 DEF Next, Step

\* What a step does to the semaphores, in terms of the driver.
Quiet == UNCHANGED sems /\ \A q \in Procs : held[q] = 0 \/ Sem(q)' = Sem(q)
Locks(p) == Lock(p) /\ (\A q \in Procs : Sem(q)' = Sem(q))
Unlocks(p) == Unlock(p) /\ (\A q \in Procs : Sem(q)' = Sem(q))

Effect == UNCHANGED setting /\ (Quiet \/ \E p \in Procs : Locks(p) \/ Unlocks(p))

\* Every step locks once, unlocks once, or leaves the semaphores alone.
LEMMA Effects == ASSUME PlaceInv, [Next]_vars PROVE Effect
<1> USE Kinds
<1> USE HwsemAssumption DEF Effect, Quiet, Locks, Unlocks, PlaceInv, LoopPlace, sems, Sem, At, Set
<1>1. ASSUME NEW p \in Procs, MainStep(p) \/ Failure(p), UNCHANGED setting PROVE Effect
  <2>1. CASE Open(p)  BY <1>1, <2>1 DEF Open
  <2>2. CASE OpenFails(p)  BY <1>1, <2>2 DEF OpenFails, Fails
  <2>3. CASE Kill(p)  BY <1>1, <2>3 DEF Kill, Fails
  <2>4. CASE ReadCount(p)  BY <1>1, <2>4 DEF ReadCount
  <2>5. CASE LoopLock(p)  BY <1>1, <2>5 DEF LoopLock
  <2>6. CASE LoopLockFails(p)  BY <1>1, <2>6 DEF LoopLockFails, Fails
  <2>7. CASE LoopUnlock(p)  BY <1>1, <2>7 DEF LoopUnlock
  <2>8. CASE LoopUnlockFails(p)  BY <1>1, <2>8 DEF LoopUnlockFails, Fails
  <2>9. CASE Close(p)  BY <1>1, <2>9 DEF Close
  <2>10. CASE Spawn(p)  BY <1>1, <2>10 DEF Spawn, Second
  <2>11. CASE SpawnFails(p)  BY <1>1, <2>11 DEF SpawnFails, Second
  <2>12. CASE Join(p)  BY <1>1, <2>12 DEF Join, Second
  <2>13. CASE JoinCrashes(p)  BY <1>1, <2>13 DEF JoinCrashes, Fails
  <2>14. CASE MainUnlock(p)  BY <1>1, <2>14 DEF MainUnlock, AfterUnlock
  <2>15. CASE MainUnlockFails(p)  BY <1>1, <2>15 DEF MainUnlockFails, AfterUnlock, CanUnlock
  <2> QED
    BY <1>1, <2>1, <2>2, <2>3, <2>4, <2>5, <2>6, <2>7, <2>8, <2>9, <2>10, <2>11, <2>12, <2>13,
       <2>14, <2>15 DEF MainStep, Failure
<1>2. ASSUME NEW p \in Threaded, NEW k \in Workers, WorkerLock(p, k), UNCHANGED setting
      PROVE  Effect
  BY <1>2 DEF WorkerLock, WorkerEnds
<1>3. ASSUME NEW p \in Threaded, NEW k \in Workers, WorkerLockFails(p, k), UNCHANGED setting
      PROVE  Effect
  BY <1>3 DEF WorkerLockFails, WorkerEnds
<1>4. CASE UNCHANGED vars  BY <1>4 DEF vars
<1> QED  BY <1>1, <1>2, <1>3, <1>4 DEF Next, Step

\* A semaphore is owned exactly while it is counted.
LEMMA SemStep == ASSUME PlaceInv, SemInv, [Next]_vars PROVE SemInv'
<1>1. Effect
  BY Effects
<1>2. CASE Quiet
  BY <1>1, <1>2 DEF Effect, Quiet, SemInv, sems
<1>3. ASSUME NEW p \in Procs, Locks(p) \/ Unlocks(p) PROVE SemInv'
  <2>1. Sem(p) \in Sems /\ Master[p] \in Masters /\ Free \notin Masters
    BY SemsOf, HwsemAssumption DEF SemInv, Master, Masters
  <2>2. CASE Locks(p)
    BY <1>1, <2>1, <2>2 DEF Effect, Locks, Lock, SemInv
  <2>3. CASE Unlocks(p)
    BY <1>1, <2>1, <2>3 DEF Effect, Unlocks, Unlock, CanUnlock, SemInv
  <2> QED  BY <1>3, <2>2, <2>3
<1> QED  BY <1>1, <1>2, <1>3 DEF Effect

\* A lock or unlock changes the account of one process only, since no two share a
\* name.
LEMMA OwnStep == ASSUME PlaceInv, SemInv, OwnInv, [Next]_vars PROVE OwnInv'
<1>1. Effect
  BY Effects
<1> SUFFICES ASSUME Distinct PROVE \A q \in Procs : Accounted(q)'
  BY <1>1 DEF Effect, OwnInv, Distinct
<1>2. Master' = Master
  BY <1>1 DEF Effect, Master
<1>3. \A q \in Procs : Accounted(q) /\ Sem(q) \in Sems /\ Master[q] # Free
  BY SemsOf, HwsemAssumption DEF OwnInv, SemInv, Master, Masters
<1>4. \A p, q \in Procs : Master[p] = Master[q] => p = q
  BY DEF Distinct, OwnNames, Master
<1>5. held \in [Procs -> Int]
  BY DEF PlaceInv
<1>6. CASE Quiet
  BY <1>2, <1>3, <1>5, <1>6 DEF Quiet, Accounted, sems
<1>7. ASSUME NEW p \in Procs, Locks(p) PROVE \A q \in Procs : Accounted(q)'
  <2>1. /\ owner' = [owner EXCEPT ![Sem(p)] = Master[p]]
        /\ count' = [count EXCEPT ![Sem(p)] = @ + 1]
        /\ held' = [held EXCEPT ![p] = @ + 1]
        /\ owner[Sem(p)] \in {Free, Master[p]}
        /\ \A q \in Procs : Sem(q)' = Sem(q)
    BY <1>7 DEF Locks, Lock, CanLock
  <2>2. Accounted(p)'
    BY <1>2, <1>3, <1>5, <2>1 DEF Accounted, SemInv
  <2>3. ASSUME NEW q \in Procs, q # p PROVE Accounted(q)'
    BY <1>2, <1>3, <1>4, <1>5, <2>1, <2>3 DEF Accounted, SemInv
  <2> QED  BY <2>2, <2>3
<1>8. ASSUME NEW p \in Procs, Unlocks(p) PROVE \A q \in Procs : Accounted(q)'
  <2>1. /\ owner' = [owner EXCEPT ![Sem(p)] = IF count[Sem(p)] = 1 THEN Free ELSE @]
        /\ count' = [count EXCEPT ![Sem(p)] = @ - 1]
        /\ held' = [held EXCEPT ![p] = @ - 1]
        /\ owner[Sem(p)] = Master[p]
        /\ \A q \in Procs : Sem(q)' = Sem(q)
    BY <1>8 DEF Unlocks, Unlock, CanUnlock
  <2>2. Accounted(p)'
    BY <1>2, <1>3, <1>5, <2>1 DEF Accounted, SemInv
  <2>3. ASSUME NEW q \in Procs, q # p PROVE Accounted(q)'
    BY <1>2, <1>3, <1>4, <1>5, <2>1, <2>3 DEF Accounted, SemInv
  <2> QED  BY <2>2, <2>3
<1> QED  BY <1>1, <1>6, <1>7, <1>8 DEF Effect

\* Only a lock makes somebody the owner.
LEMMA HeldStep == ASSUME PlaceInv, SemInv, HeldInv, [Next]_vars PROVE HeldInv'
<1>1. Effect
  BY Effects
<1>2. Master' = Master
  BY <1>1 DEF Effect, Master
<1>3. CASE Quiet
  BY <1>2, <1>3 DEF Quiet, HeldInv, sems
<1>4. ASSUME NEW p \in Procs, Locks(p) PROVE HeldInv'
  <2>1. owner' = [owner EXCEPT ![Sem(p)] = Master[p]]
    BY <1>4 DEF Locks, Lock
  <2> QED  BY <1>2, <2>1 DEF HeldInv, SemInv
<1>5. ASSUME NEW p \in Procs, Unlocks(p) PROVE HeldInv'
  <2>1. owner' = [owner EXCEPT ![Sem(p)] = IF count[Sem(p)] = 1 THEN Free ELSE @]
    BY <1>5 DEF Unlocks, Unlock
  <2> QED  BY <1>2, <2>1 DEF HeldInv, SemInv
<1> QED  BY <1>1, <1>3, <1>4, <1>5 DEF Effect

\* The main of the threaded test unlocks as often as it can, up to twice.
LEMMA LeftStep == ASSUME PlaceInv, OwnInv, LeftInv, [Next]_vars PROVE LeftInv'
<1>0. UNCHANGED setting
  BY Effects DEF Effect
<1> SUFFICES ASSUME Distinct, ~MayFail("unlock"), NEW q \in Threaded
             PROVE  /\ (pc[q] = "unlock" /\ i[q] = 2 => held[q] <= 1)'
                    /\ (state[q] = "done" => held[q] = 0)'
  BY <1>0 DEF LeftInv, Distinct, MayFail
<1> DEFINE Good == /\ (pc[q] = "unlock" /\ i[q] = 2 => held[q] <= 1)'
                   /\ (state[q] = "done" => held[q] = 0)'
<1>1. /\ q \in Procs /\ Accounted(q) /\ ThreadPlace(q)
      /\ pc \in [Procs -> Points] /\ i \in [Procs -> Nat] /\ held \in [Procs -> Int]
      /\ state \in [Procs -> {"runs", "done", "failed"}]
      /\ (pc[q] = "unlock" /\ i[q] = 2 => held[q] <= 1)
      /\ (state[q] = "done" => held[q] = 0)
  BY Kinds DEF OwnInv, PlaceInv, LeftInv
<1>2. held[q] <= 2 /\ (held[q] > 0 <=> CanUnlock(q))
  BY <1>1, SemsOf DEF ThreadPlace, Dones, Done, Accounted, CanUnlock
<1>7. pc[q] = "unlock" => i[q] \in {1, 2}
  BY <1>1 DEF ThreadPlace
<1>3. PlaceInv'
  BY PlaceStep
<1> USE Kinds DEF At, Goto, Set, End
<1>4. ASSUME NEW p \in Procs, MainStep(p) \/ Failure(p) PROVE Good
  <2>1. CASE MainUnlock(p)
    <3>1. CASE p # q  BY <1>1, <2>1, <3>1 DEF MainUnlock, AfterUnlock, Unlock
    <3>2. CASE p = q
      <4>1. pc[q] = "unlock" /\ state[q] = "runs" /\ held[q] \in {1, 2} /\ held'[q] = held[q] - 1
        BY <1>1, <1>2, <2>1, <3>2 DEF MainUnlock, Unlock
      <4> QED  BY <1>1, <1>7, <2>1, <3>2, <4>1 DEF MainUnlock, AfterUnlock
    <3> QED  BY <3>1, <3>2
  <2>2. CASE MainUnlockFails(p)
    <3>1. CASE p # q  BY <1>1, <2>2, <3>1 DEF MainUnlockFails, AfterUnlock, sems
    <3>2. CASE p = q
      <4>1. pc[q] = "unlock" /\ state[q] = "runs" /\ held[q] <= 0 /\ held'[q] = held[q]
        BY <1>1, <1>2, <2>2, <3>2 DEF MainUnlockFails, sems
      <4>2. held[q] = 0
        BY <1>1, <4>1 DEF Accounted
      <4> QED  BY <1>1, <1>7, <2>2, <3>2, <4>1, <4>2 DEF MainUnlockFails, AfterUnlock
    <3> QED  BY <3>1, <3>2
  <2>3. CASE Open(p) \/ ReadCount(p) \/ Close(p)
    BY <1>1, <2>3 DEF Open, ReadCount, Close, sems
  <2>4. CASE Spawn(p) \/ SpawnFails(p) \/ Join(p)
    BY <1>1, <2>4 DEF Spawn, SpawnFails, Join, Second, sems
  <2>5. CASE LoopLock(p) \/ LoopUnlock(p)
    BY <1>1, <2>5 DEF LoopLock, Lock, LoopUnlock, Unlock
  <2>6. CASE OpenFails(p) \/ Kill(p) \/ LoopLockFails(p) \/ LoopUnlockFails(p) \/ JoinCrashes(p)
    BY <1>1, <2>6 DEF OpenFails, Kill, LoopLockFails, LoopUnlockFails, JoinCrashes, Fails, sems
  <2> QED  BY <1>4, <2>1, <2>2, <2>3, <2>4, <2>5, <2>6 DEF MainStep, Failure
<1>5. ASSUME NEW p \in Threaded, NEW k \in Workers, WorkerLock(p, k) \/ WorkerLockFails(p, k)
      PROVE  Good
  <2>1. pc[p] # "unlock" /\ state[p] = "runs" /\ UNCHANGED <<pc, i, state>>
    BY <1>5 DEF PlaceInv, ThreadPlace, WorkerLock, WorkerLockFails, WorkerEnds, Workers
  <2>2. p # q => held'[q] = held[q]
    BY <1>1, <1>5 DEF WorkerLock, WorkerLockFails, Lock, sems
  <2> QED  BY <1>1, <2>1, <2>2
<1>6. CASE UNCHANGED vars  BY <1>1, <1>6 DEF vars, sems
<1> QED  BY <1>4, <1>5, <1>6 DEF Next, Step

-----------------------------------------------------------------------------

\* All of it is inductive.
AllInv == PlaceInv /\ SemInv /\ OwnInv /\ HeldInv /\ LeftInv

\* Every theorem below starts from this one.
LEMMA Invariant == Spec => []AllInv
<1>1. Init => PlaceInv
  BY HwsemAssumption, Kinds DEF Init, PlaceInv, LoopPlace, ThreadPlace, Done, Dones, Points, Workers
<1>2. Init => SemInv
  BY HwsemAssumption DEF Init, SemInv
<1>3. Init => OwnInv
  <2> SUFFICES ASSUME Init, NEW p \in Procs PROVE Accounted(p)
    BY DEF OwnInv
  <2>1. Master[p] # Free
    BY HwsemAssumption DEF Init, Master, Masters
  <2> QED  BY <2>1 DEF Init, Accounted
<1>4. Init => LeftInv
  BY Kinds DEF Init, LeftInv
<1>5. Init => HeldInv
  BY DEF Init, HeldInv
<1>6. AllInv /\ [Next]_vars => AllInv'
  BY PlaceStep, SemStep, OwnStep, HeldStep, LeftStep DEF AllInv
<1> QED  BY <1>1, <1>2, <1>3, <1>4, <1>5, <1>6, PTL DEF Spec, AllInv

\* The types, and the count that a test reads (all three tests).
THEOREM TypeCorrect == Spec => []TypeOK
<1>1. AllInv => TypeOK
  <2> SUFFICES ASSUME AllInv PROVE TypeOK
    OBVIOUS
  <2> USE HwsemAssumption, Kinds DEF AllInv, PlaceInv, LoopPlace, ThreadPlace
  <2>1. i \in [Procs -> 0..HWSEM_CNT + 2]
    <3> SUFFICES ASSUME NEW p \in Procs PROVE i[p] \in 0..HWSEM_CNT + 2
      OBVIOUS
    <3>1. CASE p \in Looping
      BY <3>1
    <3>2. CASE p \in Threaded
      BY <3>2
    <3> QED  BY <3>1, <3>2
  <2>2. held \in [Procs -> -2..3]
    <3> SUFFICES ASSUME NEW p \in Procs PROVE held[p] \in -2..3
      OBVIOUS
    <3>1. CASE p \in Looping
      BY <3>1
    <3>2. CASE p \in Threaded
      <4>1. Dones(p) \in 0..2 /\ held[p] <= Dones(p)
        BY <3>2 DEF Dones, Done
      <4>2. held[p] >= Dones(p) - 2
        <5>1. CASE pc[p] = "unlock"   BY <3>2, <4>1, <5>1
        <5>2. CASE pc[p] # "unlock"  BY <3>2, <4>1, <5>2
        <5> QED  BY <5>1, <5>2
      <4>3. held[p] \in Int
        OBVIOUS
      <4> HIDE DEF Dones, AllInv, PlaceInv
      <4> QED  BY <4>1, <4>2, <4>3
    <3> QED  BY <3>1, <3>2
  <2>3. Distinct => \A p \in Procs : held[p] > 0 => count[Sem(p)] = held[p]
    BY DEF OwnInv, Accounted
  <2> QED  BY <2>1, <2>2, <2>3 DEF TypeOK, SemInv
<1> QED  BY Invariant, <1>1, PTL

\* Nobody unlocks more than it locked but for its threads without a lock, and a
\* regular end leaves nothing locked (pthreads: 62-75, test_all: 73-105).
THEOREM UnlocksCorrect == Spec => []UnlocksPair
<1>1. AllInv => UnlocksPair
  <2> SUFFICES ASSUME AllInv, NEW p \in Procs
               PROVE  /\ held[p] >= -Cardinality(Lockless(p))
                      /\ Distinct /\ ~MayFail("unlock") /\ state[p] = "done" => held[p] = 0
    BY DEF UnlocksPair
  <2> USE Kinds DEF AllInv, PlaceInv, LoopPlace, ThreadPlace
  <2>1. Lockless(p) \subseteq {1, 2} /\ IsFiniteSet({1, 2}) /\ IsFiniteSet(Lockless(p))
    <3>1. IsFiniteSet({1, 2})
      <4>1. IsFiniteSet({1})  BY FS_Singleton
      <4>2. IsFiniteSet({1} \cup {2})  BY <4>1, FS_AddElement
      <4>3. {1} \cup {2} = {1, 2}  OBVIOUS
      <4> QED  BY <4>2, <4>3
    <3>2. Lockless(p) \subseteq {1, 2}
      BY DEF Lockless, Workers
    <3> QED  BY <3>1, <3>2, FS_Subset
  <2>2. Cardinality({}) = 0 /\ Cardinality({1}) = 1 /\ Cardinality({2}) = 1
        /\ Cardinality({1, 2}) = 2
    <3> HIDE DEF AllInv, PlaceInv, LoopPlace, ThreadPlace
    <3>1. IsFiniteSet({1}) /\ Cardinality({1}) = 1 /\ Cardinality({2}) = 1
      BY FS_Singleton
    <3>2. Cardinality({1} \cup {2}) = Cardinality({1}) + 1
      <4>1. 2 \notin {1}  OBVIOUS
      <4> QED  BY <3>1, <4>1, FS_AddElement, Zenon
    <3>3. {1} \cup {2} = {1, 2}
      OBVIOUS
    <3>4. Cardinality({1, 2}) = 2
      <4>1. Cardinality({1} \cup {2}) = 2
        BY <3>1, <3>2
      <4> QED  BY <4>1, <3>3, Zenon
    <3>5. Cardinality({}) = 0
      BY FS_EmptySet, Zenon
    <3> QED  BY <3>1, <3>4, <3>5
  <2>3. CASE p \in Looping
    <3>1. held[p] >= 0
      BY <2>3
    <3>2. Cardinality(Lockless(p)) \in Nat
      BY <2>1, FS_CardinalityType
    <3> QED  BY <2>3, <3>1, <3>2
  <2>4. CASE p \in Threaded
    <3>1. ~MayFail("unlock") /\ Distinct /\ state[p] = "done" => held[p] = 0
      BY <2>4 DEF LeftInv
    <3>2. CASE pc[p] # "unlock"
      <4>1. held[p] >= 0
        BY <2>4, <3>2 DEF Dones, Done
      <4>2. Cardinality(Lockless(p)) \in Nat
        BY <2>1, FS_CardinalityType
      <4> QED  BY <2>4, <3>1, <4>1, <4>2
    <3>3. CASE pc[p] = "unlock"
      <4>1. Cardinality(Lockless(p)) = 2 - Dones(p)
        <5>1. \A k \in {1, 2} : k \in Lockless(p) <=> worker[p][k] # "done"
          BY <2>4, <3>3 DEF Lockless, Workers
        <5> QED
          <6>1. CASE worker[p][1] = "done" /\ worker[p][2] = "done"
            <7>1. Lockless(p) = {}  BY <2>1, <5>1, <6>1
            <7> QED  BY <2>2, <6>1, <7>1 DEF Dones, Done
          <6>2. CASE worker[p][1] = "done" /\ worker[p][2] # "done"
            <7>1. Lockless(p) = {2}  BY <2>1, <5>1, <6>2
            <7> QED  BY <2>2, <6>2, <7>1 DEF Dones, Done
          <6>3. CASE worker[p][1] # "done" /\ worker[p][2] = "done"
            <7>1. Lockless(p) = {1}  BY <2>1, <5>1, <6>3
            <7> QED  BY <2>2, <6>3, <7>1 DEF Dones, Done
          <6>4. CASE worker[p][1] # "done" /\ worker[p][2] # "done"
            <7>1. Lockless(p) = {1, 2}  BY <2>1, <5>1, <6>4
            <7> QED  BY <2>2, <6>4, <7>1 DEF Dones, Done
          <6> QED  BY <6>1, <6>2, <6>3, <6>4
      <4>2. held[p] >= Dones(p) - 2
        BY <2>4, <3>3 DEF Dones, Done
      <4>3. Dones(p) \in Int /\ held[p] \in Int
        BY DEF Dones, Done
      <4> QED  BY <3>1, <4>1, <4>2, <4>3
    <3> QED  BY <3>2, <3>3
  <2> QED  BY <2>3, <2>4
<1> QED  BY Invariant, <1>1, PTL

\* The safety half of EndsOrStuck: whoever finds its semaphore taken waits behind
\* a process that has it, and that one may lock and unlock it without waiting, or
\* has ended early or by a failing unlock.  So nobody waits for somebody who waits,
\* and no regular end keeps others waiting (test_all: 73-105, pthreads: 62-75).
WaitsBehindOne ==
    Distinct => \A p \in Procs : ~CanLock(p) =>
        \E q \in Procs \ {p} :
            /\ Sem(q) = Sem(p) /\ held[q] > 0 /\ CanLock(q) /\ CanUnlock(q)
            /\ state[q] = "done" => MayFail("unlock")

\* No circle of waiting processes, whatever fails (test_all: 73-105).
THEOREM NoCircle == Spec => []WaitsBehindOne
<1>1. ASSUME AllInv, Distinct, NEW p \in Procs, ~CanLock(p)
      PROVE  \E q \in Procs \ {p} :
                 /\ Sem(q) = Sem(p) /\ held[q] > 0 /\ CanLock(q) /\ CanUnlock(q)
                 /\ state[q] = "done" => MayFail("unlock")
  <2>1. Sem(p) \in Sems /\ owner[Sem(p)] # Free /\ owner[Sem(p)] # Master[p]
    BY <1>1, SemsOf DEF AllInv, CanLock
  <2>2. PICK q \in Procs : owner[Sem(p)] = Master[q]
    BY <1>1, <2>1 DEF AllInv, HeldInv
  <2>3. Accounted(q)
    BY <1>1 DEF AllInv, OwnInv
  <2>4. Sem(q) = Sem(p) /\ held[q] > 0
    BY <2>1, <2>2, <2>3 DEF Accounted
  <2>5. CanLock(q) /\ CanUnlock(q)
    BY <2>2, <2>4 DEF CanLock, CanUnlock
  <2>6. state[q] = "done" => MayFail("unlock")
    BY <1>1, <2>4, Kinds DEF AllInv, LeftInv, PlaceInv, LoopPlace
  <2> QED  BY <2>1, <2>2, <2>4, <2>5, <2>6
<1>2. AllInv => WaitsBehindOne
  BY <1>1 DEF WaitsBehindOne
<1> QED  BY Invariant, <1>2, PTL

-----------------------------------------------------------------------------
(* The refinement. *)

\* The refinement mapping, per process, and what makes it stay the same.
Stays(p) == [s \in Sems |-> IF Distinct THEN Stay(p, s) ELSE "before"]
stay == [p \in Procs |-> Stays(p)]
Same(p) == pc'[p] = pc[p] /\ i'[p] = i[p] /\ held'[p] = held[p]

\* Who does not move keeps its stays.
LEMMA SameStay ==
    ASSUME UNCHANGED setting, NEW p \in Procs, Same(p)
    PROVE  Stays(p)' = Stays(p)
  BY DEF Stays, Stay, Passed, Sem, Distinct, Same

\* A step that moves nobody but p.
LEMMA OneMove ==
    ASSUME UNCHANGED setting, NEW p \in Procs, \A q \in Procs : q # p => Same(q)
    PROVE  stay' = [stay EXCEPT ![p] = Stays(p)']
  BY SameStay DEF stay

\* A step that moves nobody.
LEMMA NoMove ==
    ASSUME UNCHANGED setting, NEW p \in Procs,
           \A q \in Procs : q # p => Same(q), Stays(p)' = Stays(p)
    PROVE  stay' = stay
  BY OneMove DEF stay

\* What the stays of p become if only the one at s changes.
LEMMA StaysExcept ==
    ASSUME NEW p, NEW s \in Sems, NEW to,
           \A t \in Sems : Stays(p)'[t] = IF t = s THEN to ELSE Stays(p)[t]
    PROVE  Stays(p)' = [Stays(p) EXCEPT ![s] = to]
  BY DEF Stays

\* The first lock enters; the semaphore was free, so nobody else is in.
LEMMA EnterStep ==
    ASSUME AllInv, UNCHANGED setting, NEW p \in Procs, Locks(p),
           pc[p] \notin {"unlock", "close"}, i'[p] = i[p],
           \A q \in Procs : q # p => Same(q)
    PROVE  Sections!Next \/ stay' = stay
<1> USE DEF AllInv
<1> DEFINE s == Sem(p)
<1>1. s \in Sems /\ s' = s /\ held \in [Procs -> Int] /\ held'[p] = held[p] + 1
  BY SemsOf DEF Locks, Lock, PlaceInv
<1>2. CASE ~Distinct
  <2>1. Stays(p)' = Stays(p)
    BY <1>2 DEF Stays, Distinct
  <2> QED  BY <2>1, NoMove
<1>3. CASE Distinct /\ held[p] > 0
  <2>1. Stays(p)' = Stays(p)
    BY <1>1, <1>3 DEF Stays, Stay, Passed, Distinct
  <2> QED  BY <2>1, NoMove
<1>4. CASE Distinct /\ held[p] = 0
  <2>1. \A q \in Procs : Accounted(q) /\ Master[q] # Free
    BY <1>4, HwsemAssumption DEF OwnInv, SemInv, Master, Masters
  <2>2. Stays(p)' = [Stays(p) EXCEPT ![s] = "in"]
    <3>1. \A t \in Sems : Stays(p)'[t] = IF t = s THEN "in" ELSE Stays(p)[t]
      BY <1>1, <1>4 DEF Stays, Stay, Passed, Distinct
    <3> QED  BY <1>1, <3>1, StaysExcept
  <2>3. stay' = [stay EXCEPT ![p] = [@ EXCEPT ![s] = "in"]]
    BY <1>1, <2>2, OneMove DEF stay
  <2>4. Stay(p, s) = "before" /\ \A t \in Sems : stay[p][t] # "in"
    <3>1. p \in Looping => i[p] = s /\ i[p] \in Nat
      BY Kinds DEF Sem, PlaceInv
    <3>2. ~Passed(p, s)
      BY <1>1, <3>1 DEF Passed
    <3> QED  BY <1>1, <1>4, <3>2 DEF stay, Stays, Stay
  <2>5. ASSUME NEW q \in Procs PROVE stay[q][s] # "in"
    <3>1. ~(s = Sem(q) /\ held[q] > 0)
      <4> SUFFICES ASSUME s = Sem(q), held[q] > 0 PROVE FALSE
        OBVIOUS
      <4>1. owner[s] = Master[q]
        BY <2>1 DEF Accounted
      <4>2. Master[q] = Master[p]
        BY <2>1, <4>1 DEF Locks, Lock, CanLock
      <4>3. q = p
        BY <1>4, <4>2 DEF Distinct, OwnNames, Master
      <4> QED  BY <1>4, <4>3
    <3> QED  BY <1>1, <3>1 DEF stay, Stays, Stay
  <2>6. Sections!Enter(p, s)
    BY <1>1, <1>4, <2>3, <2>4, <2>5 DEF Sections!Enter, Sections!Move, stay, Stays
  <2> QED  BY <1>1, <2>6 DEF Sections!Next
<1>5. held[p] >= 0 \/ ~Distinct
  BY DEF OwnInv, Accounted
<1> QED  BY <1>1, <1>2, <1>3, <1>4, <1>5

\* The last unlock leaves.
LEMMA LeaveStep ==
    ASSUME AllInv, UNCHANGED setting, NEW p \in Procs, Unlocks(p),
           p \in Looping => i'[p] = i[p],
           held[p] = 1 => pc'[p] \in {"unlock", "close"},
           \A q \in Procs : q # p => Same(q)
    PROVE  Sections!Next \/ stay' = stay
<1> USE DEF AllInv
<1> DEFINE s == Sem(p)
<1>1. s \in Sems /\ s' = s /\ held \in [Procs -> Int] /\ held'[p] = held[p] - 1
  BY SemsOf DEF Unlocks, Unlock, PlaceInv
<1>2. CASE ~Distinct
  <2>1. Stays(p)' = Stays(p)
    BY <1>2 DEF Stays, Distinct
  <2> QED  BY <2>1, NoMove
<1>3. CASE Distinct
  <2>1. held[p] > 0
    BY <1>1, <1>3 DEF OwnInv, Accounted, Unlocks, Unlock, CanUnlock
  <2>2. CASE held[p] > 1
    <3>1. Stays(p)' = Stays(p)
      BY <1>1, <1>3, <2>2 DEF Stays, Stay, Passed, Distinct
    <3> QED  BY <3>1, NoMove
  <2>3. CASE held[p] = 1
    <3>1. Stays(p)' = [Stays(p) EXCEPT ![s] = "after"]
      <4>1. \A t \in Sems : Stays(p)'[t] = IF t = s THEN "after" ELSE Stays(p)[t]
        BY <1>1, <1>3, <2>3 DEF Stays, Stay, Passed, Distinct
      <4> QED  BY <1>1, <4>1, StaysExcept
    <3>2. stay' = [stay EXCEPT ![p] = [@ EXCEPT ![s] = "after"]]
      BY <1>1, <3>1, OneMove DEF stay
    <3>3. stay[p][s] = "in"
      BY <1>1, <1>3, <2>3 DEF stay, Stays, Stay
    <3> QED
      BY <1>1, <3>2, <3>3 DEF Sections!Next, Sections!Leave, Sections!Move, stay, Stays
  <2> QED  BY <1>1, <2>1, <2>2, <2>3
<1> QED  BY <1>2, <1>3

\* Every step maps to a step of HwsemSections or to none.
LEMMA SectionsStep ==
    ASSUME AllInv, [Next]_vars PROVE Sections!Next \/ stay' = stay
<1>0. UNCHANGED setting
  BY Effects DEF Effect, AllInv
<1>1. pc \in [Procs -> Points] /\ i \in [Procs -> Nat] /\ held \in [Procs -> Int]
  BY DEF AllInv, PlaceInv
<1> USE <1>0, <1>1 DEF At, Goto, Set, End, sems, Same
<1>2. ASSUME NEW p \in Procs, MainStep(p) \/ Failure(p) PROVE Sections!Next \/ stay' = stay
  <2>1. \A q \in Procs : q # p => Same(q)
    BY <1>2 DEF MainStep, Failure, Open, OpenFails, Kill, ReadCount, LoopLock, LoopLockFails,
       LoopUnlock, LoopUnlockFails, Close, Spawn, SpawnFails, Join, JoinCrashes, MainUnlock,
       MainUnlockFails, Second, AfterUnlock, Fails, Lock, Unlock
  <2>2. CASE LoopLock(p)
    <3>1. Locks(p) /\ pc[p] = "lock" /\ i'[p] = i[p]
      BY <2>2 DEF LoopLock, Locks, Sem
    <3> QED  BY <2>1, <3>1, EnterStep
  <2>3. CASE LoopUnlock(p) \/ MainUnlock(p)
    <3>1. Unlocks(p)
      BY <2>3, Kinds DEF LoopUnlock, MainUnlock, AfterUnlock, Unlocks, Sem
    <3>2. (p \in Looping => i'[p] = i[p]) /\ (held[p] = 1 => pc'[p] \in {"unlock", "close"})
      BY <2>3, Kinds DEF LoopUnlock, MainUnlock, AfterUnlock
    <3> QED  BY <2>1, <3>1, <3>2, LeaveStep
  <2>4. CASE Open(p)
    <3>1. Stays(p)' = Stays(p)
      BY <2>4, Kinds DEF Open, Stays, Stay, Passed, Sem, Distinct
    <3> QED  BY <2>1, <3>1, NoMove
  <2>5. CASE Close(p)
    <3>1. p \in Looping /\ p \notin Threaded /\ held[p] = 0 /\ pc[p] = "close"
      BY <2>5, Kinds DEF Close, AllInv, PlaceInv, LoopPlace
    <3>2. held'[p] = 0 /\ \/ pc'[p] = "open" /\ i'[p] = i[p] + 1
                          \/ pc'[p] = "close" /\ i'[p] = i[p]
      BY <2>5, <3>1 DEF Close
    <3>3. Stays(p)' = Stays(p)
      BY <3>1, <3>2 DEF Stays, Stay, Passed, Sem, Sems, Distinct
    <3> QED  BY <2>1, <3>3, NoMove
  <2>6. CASE ReadCount(p)
    <3>1. CASE p \in Looping \/ held[p] > 0
      <4>1. held[p] > 0 /\ pc'[p] = "unlock" /\ held'[p] = held[p]
            /\ (p \notin Threaded => i'[p] = i[p])
        BY <2>6, <3>1, Kinds DEF ReadCount, AllInv, PlaceInv, LoopPlace
      <4>2. Stays(p)' = Stays(p)
        BY <4>1, Kinds DEF Stays, Stay, Passed, Sem, Distinct
      <4> QED  BY <2>1, <4>2, NoMove
    <3>2. CASE p \in Threaded /\ ~(held[p] > 0)
      <4>1. held'[p] = held[p] /\ pc[p] = "count" /\ pc'[p] = "unlock"
            /\ p \notin Looping /\ Sem(p) = 0 /\ Sem(p)' = 0 /\ 0 \in Sems
        BY <2>6, <3>2, Kinds, HwsemAssumption DEF ReadCount, Sem, Sems
      <4>2. held[p] = 0
        BY <3>2, <4>1 DEF AllInv, PlaceInv, ThreadPlace, Dones, Done
      <4>3. CASE ~Distinct
        <5>1. Stays(p)' = Stays(p)
          BY <4>3 DEF Stays, Distinct
        <5> QED  BY <2>1, <5>1, NoMove
      <4>4. CASE Distinct
        <5>1. Stays(p)' = [Stays(p) EXCEPT ![0] = "after"]
          BY <4>1, <4>2, <4>4 DEF Stays, Stay, Passed, Distinct
        <5>2. stay' = [stay EXCEPT ![p] = [@ EXCEPT ![0] = "after"]]
          BY <2>1, <4>1, <5>1, OneMove DEF stay
        <5>3. stay[p][0] = "before"
          BY <4>1, <4>2, <4>4 DEF stay, Stays, Stay, Passed
        <5> QED
          BY <4>1, <5>2, <5>3 DEF Sections!Next, Sections!Skip, Sections!Move, stay, Stays
      <4> QED  BY <4>3, <4>4
    <3> QED  BY <3>1, <3>2, Kinds
  <2>7. CASE Spawn(p) \/ SpawnFails(p) \/ Join(p)
    <3>1. p \in Threaded /\ p \notin Looping
      BY <2>7, Kinds DEF Spawn, SpawnFails, Join, AllInv, PlaceInv, LoopPlace
    <3>2. held'[p] = held[p] /\ pc[p] \notin {"unlock", "close"} /\ pc'[p] \notin {"unlock", "close"}
      BY <2>7 DEF Spawn, SpawnFails, Join, Second
    <3>3. Stays(p)' = Stays(p)
      BY <3>1, <3>2 DEF Stays, Stay, Passed, Sem, Distinct
    <3> QED  BY <2>1, <3>3, NoMove
  <2>8. CASE MainUnlockFails(p)
    <3>1. Stays(p)' = Stays(p)
      BY <2>8, Kinds DEF MainUnlockFails, AfterUnlock, Stays, Stay, Passed, Sem, Distinct
    <3> QED  BY <2>1, <3>1, NoMove
  <2>9. CASE OpenFails(p) \/ Kill(p) \/ LoopLockFails(p) \/ LoopUnlockFails(p) \/ JoinCrashes(p)
    <3>1. Same(p)
      BY <2>9 DEF OpenFails, Kill, LoopLockFails, LoopUnlockFails, JoinCrashes, Fails
    <3> QED  BY <2>1, <3>1, SameStay, NoMove
  <2> QED
    BY <1>2, <2>2, <2>3, <2>4, <2>5, <2>6, <2>7, <2>8, <2>9 DEF MainStep, Failure
<1>3. ASSUME NEW p \in Threaded, NEW k \in Workers, WorkerLock(p, k)
      PROVE  Sections!Next \/ stay' = stay
  <2>1. p \in Procs /\ Locks(p) /\ i'[p] = i[p]
    BY <1>3, Kinds DEF WorkerLock, WorkerEnds, Locks, Sem
  <2>2. pc[p] \notin {"unlock", "close"}
    BY <1>3 DEF WorkerLock, WorkerEnds, AllInv, PlaceInv, ThreadPlace, Workers
  <2>3. \A q \in Procs : q # p => Same(q)
    BY <1>3 DEF WorkerLock, WorkerEnds, Lock
  <2> QED  BY <2>1, <2>2, <2>3, EnterStep
<1>4. ASSUME NEW p \in Threaded, NEW k \in Workers, WorkerLockFails(p, k)
      PROVE  stay' = stay
  <2>1. p \in Procs /\ \A q \in Procs : Same(q)
    BY <1>4, Kinds DEF WorkerLockFails, WorkerEnds
  <2> QED  BY <2>1, SameStay, NoMove
<1>5. CASE UNCHANGED vars
  <2>1. \A q \in Procs : Same(q)
    BY <1>5 DEF vars
  <2> QED  BY <2>1, SameStay DEF stay
<1> QED  BY <1>2, <1>3, <1>4, <1>5 DEF Next, Step

\* If all lock under their own names, each process stays with one semaphore at a
\* time, once with each, and no two with the same one (all three tests).
THEOREM SectionsImplemented == Spec => ImplementsSections
<1>1. Init => Sections!Init
  <2> SUFFICES ASSUME Init, NEW p \in Procs, NEW s \in Sems PROVE Stay(p, s) = "before"
    BY DEF Sections!Init
  <2> QED  BY Kinds, HwsemAssumption DEF Init, Stay, Passed, Sem, Sems
<1>2. AllInv /\ [Next]_vars => Sections!Next \/ stay' = stay
  BY SectionsStep
<1>3. AllInv /\ [Next]_vars =>
        [Sections!Next]_([p \in Procs |-> [s \in Sems |-> IF Distinct THEN Stay(p, s) ELSE "before"]])
  BY <1>2 DEF stay, Stays
<1> QED  BY Invariant, <1>1, <1>3, PTL DEF Spec, ImplementsSections, Sections!Spec
=============================================================================
