------------------------------- MODULE Hwsem -------------------------------
(***************************************************************************)
(* The three tests of the hardware semaphores, each run by any number of   *)
(* processes at the same time.  Two lock a semaphore three times, read its *)
(* count, and unlock it three times, one semaphore after the other; the    *)
(* third starts two threads that lock semaphore 0, and its main unlocks    *)
(* it twice, whatever became of the threads.                               *)
(*                                                                         *)
(* External to src/ and modelled from how the tests use it: the hwsem      *)
(* driver.  A semaphore has an owner and a count; the owner locks it again *)
(* without blocking, others wait; only its owner can unlock it.  Nothing   *)
(* in src/ frees the semaphore of a process that ends.                     *)
(***************************************************************************)
EXTENDS Integers, FiniteSets

CONSTANTS
    All,        \* processes that run basic_lock_unlock_test_all.c
    One,        \* processes that run basic_lock_unlock_test_hwsem0.c
    Threaded,   \* processes that run pthreads_lock_unlock.c
    HWSEM_CNT,  \* number of semaphores; 16 in the code
    Settings    \* the settings to consider, one for each behaviour: records of
                \* master, the identity under which each process locks, and
                \* failing, what may go wrong

Looping == All \cup One
Procs   == Looping \cup Threaded
Sems    == 0..HWSEM_CNT - 1
Masters == {c.master[p] : c \in Settings, p \in Procs}
Free    == "free"
Workers == {1, 2}

ASSUME HwsemAssumption ==
    /\ All \cap One = {} /\ Looping \cap Threaded = {}
    /\ HWSEM_CNT \in Nat \ {0}
    /\ \A c \in Settings :
         /\ DOMAIN c.master = Procs
         /\ c.failing \subseteq {"open", "lock", "unlock", "spawn", "kill"}
    /\ Free \notin Masters

VARIABLES
    setting,    \* the setting of this behaviour; never changes
    pc,         \* the next call of each process (its main thread)
    i,          \* its loop counter; for a threaded one the thread or unlock
    worker,     \* threads: "none", "lock", "done" or "failed"
    state,      \* "runs", "done", or "failed" if it ended early
    owner,      \* owner of each semaphore
    count,      \* its count
    held        \* locks less unlocks of each process at its semaphore: its
                \* place in the three locks, and the j of the unlock loop

sems == <<owner, count, held>>
vars == <<setting, pc, i, worker, state, sems>>

Master == setting.master
MayFail(what) == what \in setting.failing

Points == {"open", "lock", "count", "unlock", "close", "spawn", "join"}

Init ==
    /\ setting \in Settings
    /\ pc = [p \in Procs |-> "open"]
    /\ i = [p \in Procs |-> 0]
    /\ worker = [p \in Procs |-> [k \in Workers |-> "none"]]
    /\ state = [p \in Procs |-> "runs"]
    /\ owner = [s \in Sems |-> Free]
    /\ count = [s \in Sems |-> 0]
    /\ held = [p \in Procs |-> 0]

Sem(p)   == IF p \in Threaded THEN 0 ELSE i[p]
Rounds(p) == IF p \in All THEN HWSEM_CNT ELSE 1
At(p, point) == state[p] = "runs" /\ pc[p] = point
Goto(p, point) == pc' = [pc EXCEPT ![p] = point]
Set(p, n) == i' = [i EXCEPT ![p] = n]
End(p, how) == state' = [state EXCEPT ![p] = how]

\* The process exits at once; the kernel ends its threads.
Fails(p) == End(p, "failed") /\ UNCHANGED <<pc, i, worker, sems>>

-----------------------------------------------------------------------------
(* The driver. *)

CanLock(p) == owner[Sem(p)] \in {Free, Master[p]}

Lock(p) ==
    /\ CanLock(p)
    /\ owner' = [owner EXCEPT ![Sem(p)] = Master[p]]
    /\ count' = [count EXCEPT ![Sem(p)] = @ + 1]
    /\ held' = [held EXCEPT ![p] = @ + 1]

CanUnlock(p) == owner[Sem(p)] = Master[p]

Unlock(p) ==
    /\ CanUnlock(p)
    /\ owner' = [owner EXCEPT ![Sem(p)] = IF count[Sem(p)] = 1 THEN Free ELSE @]
    /\ count' = [count EXCEPT ![Sem(p)] = @ - 1]
    /\ held' = [held EXCEPT ![p] = @ - 1]

-----------------------------------------------------------------------------
(* All processes. *)

Open(p) ==
    /\ At(p, "open")
    /\ IF p \in Threaded THEN Goto(p, "spawn") /\ Set(p, 1)
                         ELSE Goto(p, "lock") /\ UNCHANGED i
    /\ UNCHANGED <<worker, state, sems>>

OpenFails(p) == At(p, "open") /\ MayFail("open") /\ Fails(p)

Kill(p) == state[p] = "runs" /\ MayFail("kill") /\ Fails(p)

\* Reading the count changes nothing.
ReadCount(p) ==
    /\ At(p, "count")
    /\ Goto(p, "unlock")
    /\ IF p \in Threaded THEN Set(p, 1) ELSE UNCHANGED i
    /\ UNCHANGED <<worker, state, sems>>

-----------------------------------------------------------------------------
(* The tests that loop. *)

LoopLock(p) ==
    /\ p \in Looping /\ At(p, "lock")
    /\ Lock(p)
    /\ Goto(p, IF held[p] = 2 THEN "count" ELSE "lock")
    /\ UNCHANGED <<i, worker, state>>

LoopLockFails(p) ==
    /\ p \in Looping /\ At(p, "lock")
    /\ MayFail("lock") /\ Fails(p)

\* Mutants of LoopUnlock: one unlock too few, or too many.
LoopUnlockLong(p) ==
    /\ p \in Looping /\ At(p, "unlock")
    /\ Unlock(p)
    /\ Goto(p, IF held[p] = 0 THEN "close" ELSE "unlock")
    /\ UNCHANGED <<i, worker, state>>
LoopUnlockShort(p) ==
    /\ p \in Looping /\ At(p, "unlock")
    /\ Unlock(p)
    /\ Goto(p, IF held[p] = 2 THEN "close" ELSE "unlock")
    /\ UNCHANGED <<i, worker, state>>

LoopUnlock(p) ==
    /\ p \in Looping /\ At(p, "unlock")
    /\ Unlock(p)
    /\ Goto(p, IF held[p] = 1 THEN "close" ELSE "unlock")
    /\ UNCHANGED <<i, worker, state>>

LoopUnlockFails(p) ==
    /\ p \in Looping /\ At(p, "unlock")
    /\ MayFail("unlock") \/ ~CanUnlock(p)
    /\ Fails(p)

\* Mutant of Close: one round too many, past the end of hwsemFd.
CloseLate(p) ==
    /\ p \in Looping /\ At(p, "close")
    /\ IF i[p] < Rounds(p)
         THEN Goto(p, "open") /\ Set(p, i[p] + 1) /\ UNCHANGED state
         ELSE End(p, "done") /\ UNCHANGED <<pc, i>>
    /\ UNCHANGED <<worker, sems>>

\* The count is read again, the device closed; on to the next semaphore.
Close(p) ==
    /\ p \in Looping /\ At(p, "close")
    /\ IF i[p] + 1 < Rounds(p)
         THEN Goto(p, "open") /\ Set(p, i[p] + 1) /\ UNCHANGED state
         ELSE End(p, "done") /\ UNCHANGED <<pc, i>>
    /\ UNCHANGED <<worker, sems>>

-----------------------------------------------------------------------------
(* The test with threads. *)

\* On to the second thread (or unlock), or from the second to what follows.
Second(p, point) ==
    IF i[p] = 1 THEN Set(p, 2) /\ UNCHANGED pc
                ELSE Set(p, 1) /\ Goto(p, point)

Spawn(p) ==
    /\ At(p, "spawn")
    /\ worker' = [worker EXCEPT ![p] = [@ EXCEPT ![i[p]] = "lock"]]
    /\ Second(p, "join")
    /\ UNCHANGED <<state, sems>>

\* The result is only printed at the end.
SpawnFails(p) ==
    /\ At(p, "spawn") /\ MayFail("spawn")
    /\ Second(p, "join")
    /\ UNCHANGED <<worker, state, sems>>

\* Mutant of Join: main does not wait for the second thread.
JoinFirstOnly(p) ==
    /\ At(p, "join")
    /\ worker[p][1] # "lock"
    /\ Second(p, "count")
    /\ UNCHANGED <<worker, state, sems>>

\* Joining a thread that was never created is undefined: it may return.
Join(p) ==
    /\ At(p, "join")
    /\ worker[p][i[p]] # "lock"
    /\ Second(p, "count")
    /\ UNCHANGED <<worker, state, sems>>

JoinCrashes(p) == At(p, "join") /\ worker[p][i[p]] = "none" /\ Fails(p)

WorkerEnds(p, k, how) ==
    /\ state[p] = "runs" /\ worker[p][k] = "lock"
    /\ worker' = [worker EXCEPT ![p] = [@ EXCEPT ![k] = how]]
    /\ UNCHANGED <<pc, i, state>>

WorkerLock(p, k) == WorkerEnds(p, k, "done") /\ Lock(p)

WorkerLockFails(p, k) ==
    WorkerEnds(p, k, "failed") /\ MayFail("lock") /\ UNCHANGED sems

\* After the second unlock the process exits.
AfterUnlock(p) ==
    /\ IF i[p] = 1 THEN Set(p, 2) /\ UNCHANGED state
                   ELSE End(p, "done") /\ UNCHANGED i
    /\ UNCHANGED <<pc, worker>>

\* Mutant of MainUnlock: one unlock for both threads.
MainUnlockOnce(p) ==
    /\ p \in Threaded /\ At(p, "unlock")
    /\ Unlock(p)
    /\ End(p, "done")
    /\ UNCHANGED <<pc, i, worker>>

MainUnlock(p) ==
    /\ p \in Threaded /\ At(p, "unlock")
    /\ Unlock(p)
    /\ AfterUnlock(p)

\* The result is ignored.
MainUnlockFails(p) ==
    /\ p \in Threaded /\ At(p, "unlock")
    /\ MayFail("unlock") \/ ~CanUnlock(p)
    /\ AfterUnlock(p)
    /\ UNCHANGED sems

-----------------------------------------------------------------------------

\* What a process does when it is scheduled and no call fails that need not.
MainStep(p) ==
    \/ Open(p) \/ LoopLock(p) \/ ReadCount(p) \/ LoopUnlock(p) \/ Close(p)
    \/ Spawn(p) \/ Join(p) \/ MainUnlock(p)
    \/ ~CanUnlock(p) /\ (LoopUnlockFails(p) \/ MainUnlockFails(p))

Failure(p) ==
    \/ OpenFails(p) \/ Kill(p) \/ LoopLockFails(p) \/ LoopUnlockFails(p)
    \/ SpawnFails(p) \/ JoinCrashes(p) \/ MainUnlockFails(p)

Step ==
    \/ \E p \in Procs : MainStep(p) \/ Failure(p)
    \/ \E p \in Threaded, k \in Workers : WorkerLock(p, k) \/ WorkerLockFails(p, k)

Next == Step /\ UNCHANGED setting

\* The kernel schedules every process and thread, and wakes those that wait
\* for a semaphore that is free.
Fairness ==
    /\ \A p \in Procs : WF_vars(MainStep(p) /\ UNCHANGED setting)
    /\ \A p \in Threaded, k \in Workers : WF_vars(WorkerLock(p, k) /\ UNCHANGED setting)

Spec == Init /\ [][Next]_vars
FairSpec == Spec /\ Fairness

-----------------------------------------------------------------------------
(* Properties. *)

\* Each process locks under an identity of its own.
OwnNames == {c \in Settings : \A p, q \in Procs : c.master[p] = c.master[q] => p = q}
Distinct == setting \in OwnNames

\* The shape of the state; a semaphore is owned exactly while it is counted, if
\* all lock under their own names as often as its owner has locked it, which is
\* what a test reads (test_all: 97); and no test leaves its array of HWSEM_CNT
\* descriptors (test_all: 63-65).
TypeOK ==
    /\ setting \in Settings
    /\ pc \in [Procs -> Points]
    /\ i \in [Procs -> 0..HWSEM_CNT + 2]
    /\ worker \in [Procs -> [Workers -> {"none", "lock", "done", "failed"}]]
    /\ state \in [Procs -> {"runs", "done", "failed"}]
    /\ owner \in [Sems -> Masters \cup {Free}]
    /\ count \in [Sems -> Nat]
    /\ held \in [Procs -> -2..3]
    /\ \A s \in Sems : count[s] = 0 <=> owner[s] = Free
    /\ Distinct => \A p \in Procs : held[p] > 0 => count[Sem(p)] = held[p]
    /\ \A p \in Looping : i[p] < Rounds(p)

\* Unlocks pair with locks.  Even if all processes lock under one identity, and
\* the semaphores cannot tell them apart, nobody gives back what another has
\* locked, but for the unlocks of threads that got no lock (pthreads: 69-70).
\* And if they lock under their own, and no unlock fails, a process that comes to
\* its regular end leaves nothing locked, also if a thread never was or got no
\* lock (pthreads: 62-75).
Lockless(p) == {k \in Workers : p \in Threaded /\ worker[p][k] \in {"none", "failed"}}
UnlocksPair ==
    \A p \in Procs :
        /\ held[p] >= -Cardinality(Lockless(p))
        /\ Distinct /\ ~MayFail("unlock") /\ state[p] = "done" => held[p] = 0

\* Whatever fails, nobody waits for ever but behind a process that ended
\* without unlocking (test_all: 73-105).
StuckBehind(p) ==
    \E q \in Procs : state[q] # "runs" /\ held[q] > 0 /\ Sem(q) = Sem(p)
EndsOrStuck ==
    \A p \in Procs : state[p] = "runs" ~> (state[p] # "runs" \/ StuckBehind(p))

-----------------------------------------------------------------------------
(* What the processes promise each other, if they lock under their own names. *)

Passed(p, s) ==
    \/ p \in Looping /\ s < i[p]
    \/ s = Sem(p) /\ held[p] = 0 /\ pc[p] \in {"unlock", "close"}

Stay(p, s) ==
    IF s = Sem(p) /\ held[p] > 0 THEN "in"
    ELSE IF Passed(p, s) THEN "after" ELSE "before"

Sections == INSTANCE HwsemSections WITH
    stay <- [p \in Procs |-> [s \in Sems |-> IF Distinct THEN Stay(p, s) ELSE "before"]]

\* Each process stays with one semaphore at a time and for one uninterrupted
\* time with each, and two never stay with the same one (all three tests).
ImplementsSections == Sections!Spec
=============================================================================
