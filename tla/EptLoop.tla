------------------------------ MODULE EptLoop ------------------------------
(***************************************************************************)
(* One "in-loop" MHU test program (testcases/mhu/pthread_*_inloop.c): the  *)
(* main thread creates and opens an rpmsg endpoint, starts a sender and a  *)
(* receiver that share the endpoint under mutex1, joins them and cleans    *)
(* up; a SIGINT handler cleans up and exits from wherever its thread is.   *)
(*                                                                         *)
(* The six programs differ only in the endpoint they name, which has no    *)
(* bearing on what happens inside one process.  Source lines below are     *)
(* those of pthread_m55_he_mhu0_inloop.c.                                  *)
(*                                                                         *)
(* External to src/ and modelled from how the programs use them: the rpmsg *)
(* driver (a blocking read that returns one queued word, an endpoint that  *)
(* refuses reads and writes once destroyed or closed), the remote core     *)
(* that answers, and time.                                                 *)
(***************************************************************************)
EXTENDS Integers

CONSTANTS
    Iterations, \* ITERATIONS (10 in the code): rounds of each loop
    Replies,    \* words the remote core queues for one delivered message
    Failing,    \* which calls may return an error
    Paced       \* TRUE: the work of a thread takes no time next to sleep(1)

Calls == {"open_ctrl", "create_ept", "open_ept", "spawn", "write", "read", "destroy_ept"}

ASSUME EptLoopAssumption ==
    /\ Iterations \in Nat \ {0}
    /\ Replies \in Nat
    /\ Failing \subseteq Calls
    /\ Paced \in BOOLEAN

VARIABLES
    proc,       \* the process: running, or how it ended
    pc,         \* control point of each thread
    frame,      \* where the handler interrupted each thread ("none": it did not)
    fd,         \* descriptor of /dev/rpmsg_ctrl0
    fd_ept,     \* descriptor of the endpoint device
    endpoint,   \* the endpoint in the kernel; it outlives the process
    destroys,   \* destroy ioctls that reached the endpoint (history)
    refusals,   \* destroy ioctls that failed on the open descriptor (history)
    mutex1,     \* owner of the mutex, or "free"
    timer,      \* seconds each worker thread still has to sleep
    snd_count, rec_count,
    data,       \* receiver's variable: the last word read, 0 before any
    shown,      \* the values printed as first and second data (history)
    missed,     \* reads that failed (history)
    delivered,  \* messages the remote core got from the sender (history)
    owed,       \* words the remote core has still to answer
    queued      \* words waiting in the endpoint's receive queue

procVars == <<proc, pc, frame>>
fdVars   == <<fd, fd_ept, endpoint, destroys, refusals>>
readVars == <<data, shown, missed>>
loopVars == <<timer, snd_count, rec_count, readVars>>
wireVars == <<delivered, owed, queued>>
vars     == <<procVars, fdVars, mutex1, loopVars, wireVars>>

Workers == {"send", "recv"}
Threads == {"main"} \cup Workers

Setup   == {"open_ctrl", "create_ept", "open_ept", "signal"}
Cleanup == {"destroy", "close_ept", "close_ctrl", "exit"}
Handler == {"h_destroy", "h_close_ept", "h_close_ctrl", "h_exit"}
MainPoints == Setup \cup Cleanup \cup Handler
                 \cup {"spawn_send", "spawn_recv", "join_send", "join_recv"}
SendPoints == {"none", "loop", "write", "unlock", "done"}
RecvPoints == {"none", "start", "loop", "read1", "read2", "unlock", "count", "done"}

At(t, point)   == proc = "running" /\ pc[t] = point
Goto(t, point) == pc' = [pc EXCEPT ![t] = point]

\* Where a thread's own code stands, be its handler running or not.
Where(t) == IF frame[t] = "none" THEN pc[t] ELSE frame[t]

\* A read or a write can only work on an open descriptor of a live endpoint.
Usable == fd_ept = "open" /\ endpoint = "live"

Init ==
    /\ proc = "running"
    /\ pc = [t \in Threads |-> IF t = "main" THEN "open_ctrl" ELSE "none"]
    /\ frame = [t \in Threads |-> "none"]
    /\ fd = "unset" /\ fd_ept = "unset"
    /\ endpoint = "absent" /\ destroys = 0 /\ refusals = 0
    /\ mutex1 = "free"
    /\ timer = [t \in Workers |-> 0]
    /\ snd_count = 0 /\ rec_count = 0
    /\ data = 0 /\ shown = <<0, 0>> /\ missed = 0
    /\ delivered = 0 /\ owed = 0 /\ queued = 0

-----------------------------------------------------------------------------
(* Main: set-up.  A failed set-up step ends the process; main closes the   *)
(* control descriptor, but a created endpoint stays behind in the kernel.  *)

MainOpenCtrl ==
    /\ At("main", "open_ctrl")
    /\ \/ fd' = "open" /\ Goto("main", "create_ept") /\ UNCHANGED proc
       \/ "open_ctrl" \in Failing /\ proc' = "failed" /\ UNCHANGED <<fd, pc>>
    /\ UNCHANGED <<frame, fd_ept, endpoint, destroys, refusals, mutex1, loopVars, wireVars>>

MainCreateEpt ==
    /\ At("main", "create_ept")
    /\ \/ endpoint' = "live" /\ Goto("main", "open_ept") /\ UNCHANGED <<proc, fd>>
       \/ /\ "create_ept" \in Failing
          /\ fd' = "closed" /\ proc' = "failed" /\ UNCHANGED <<endpoint, pc>>
    /\ UNCHANGED <<frame, fd_ept, destroys, refusals, mutex1, loopVars, wireVars>>

MainOpenEpt ==
    /\ At("main", "open_ept")
    /\ \/ fd_ept' = "open" /\ Goto("main", "signal") /\ UNCHANGED <<proc, fd>>
       \/ /\ "open_ept" \in Failing
          /\ fd' = "closed" /\ proc' = "failed" /\ UNCHANGED <<fd_ept, pc>>
    /\ UNCHANGED <<frame, endpoint, destroys, refusals, mutex1, loopVars, wireVars>>

MainSignal ==
    /\ At("main", "signal")
    /\ Goto("main", "spawn_send")
    /\ UNCHANGED <<proc, frame, fdVars, mutex1, loopVars, wireVars>>

\* pthread_create's result is only printed, at the very end: main goes on
\* as if the thread had started.
Spawn(t, first, point, next) ==
    /\ At("main", point)
    /\ \/ pc' = [pc EXCEPT !["main"] = next, ![t] = first]
       \/ "spawn" \in Failing /\ Goto("main", next)
    /\ UNCHANGED <<proc, frame, fdVars, mutex1, loopVars, wireVars>>

MainSpawnSend == Spawn("send", "loop", "spawn_send", "spawn_recv")
MainSpawnRecv == Spawn("recv", "start", "spawn_recv", "join_send")

\* Joining a thread that was never started reads an uninitialized pthread_t:
\* the call returns at once or crashes the process.
Join(t, point, next) ==
    /\ At("main", point)
    /\ \/ pc[t] \in {"none", "done"} /\ Goto("main", next) /\ UNCHANGED proc
       \/ pc[t] = "none" /\ proc' = "crashed" /\ UNCHANGED pc
    /\ UNCHANGED <<frame, fdVars, mutex1, loopVars, wireVars>>

\* Mutant of MainJoinRecv: the second join is missing.
MainJoinRecvMissing ==
    /\ At("main", "join_recv")
    /\ Goto("main", "destroy")
    /\ UNCHANGED <<proc, frame, fdVars, mutex1, loopVars, wireVars>>

MainJoinSend == Join("send", "join_send", "join_recv")
MainJoinRecv == Join("recv", "join_recv", "destroy")

-----------------------------------------------------------------------------
(* Clean-up, by main or by a handler: the same calls in the same order.    *)

\* A failed destroy is only reported; it fails for certain on a closed
\* descriptor.
DestroyEpt(t, point, next) ==
    /\ At(t, point)
    /\ Goto(t, next)
    /\ \/ /\ fd_ept = "open"
          /\ endpoint' = "destroyed" /\ destroys' = destroys + 1
          /\ UNCHANGED refusals
       \/ /\ fd_ept # "open" \/ "destroy_ept" \in Failing
          /\ refusals' = IF fd_ept = "open" THEN refusals + 1 ELSE refusals
          /\ UNCHANGED <<endpoint, destroys>>
    /\ UNCHANGED <<proc, frame, fd, fd_ept, mutex1, loopVars, wireVars>>

CloseEpt(t, point, next) ==
    /\ At(t, point)
    /\ Goto(t, next)
    /\ fd_ept' = "closed"
    /\ UNCHANGED <<proc, frame, fd, endpoint, destroys, refusals, mutex1, loopVars, wireVars>>

CloseCtrl(t, point, next) ==
    /\ At(t, point)
    /\ Goto(t, next)
    /\ fd' = "closed"
    /\ UNCHANGED <<proc, frame, fd_ept, endpoint, destroys, refusals, mutex1, loopVars, wireVars>>

Exit(t, point) ==
    /\ At(t, point)
    /\ proc' = "exited"
    /\ UNCHANGED <<pc, frame, fdVars, mutex1, loopVars, wireVars>>

\* Mutant of MainCloseEpt: the control descriptor is closed instead.
MainCloseEptWrongFd == CloseCtrl("main", "close_ept", "close_ctrl")

\* Mutants of HandlerDestroy: the endpoint is closed before it is destroyed;
\* the handler takes the mutex first.
HandlerDestroyClosed(t) == CloseEpt(t, "h_destroy", "h_close_ept")
HandlerDestroyLocked(t) == mutex1 = "free" /\ DestroyEpt(t, "h_destroy", "h_close_ept")

MainDestroy   == DestroyEpt("main", "destroy", "close_ept")
MainCloseEpt  == CloseEpt("main", "close_ept", "close_ctrl")
MainCloseCtrl == CloseCtrl("main", "close_ctrl", "exit")
MainExit      == Exit("main", "exit")

HandlerDestroy(t)   == DestroyEpt(t, "h_destroy", "h_close_ept")
HandlerCloseEpt(t)  == CloseEpt(t, "h_close_ept", "h_close_ctrl")
HandlerCloseCtrl(t) == CloseCtrl(t, "h_close_ctrl", "h_exit")
HandlerExit(t)      == Exit(t, "h_exit")

\* The handler runs on top of thread t, which never resumes: it ends in exit.
Interrupt(t) ==
    /\ pc[t] \notin Handler \cup {"none", "done"}
    /\ Goto(t, "h_destroy")
    /\ frame' = [frame EXCEPT ![t] = pc[t]]
    /\ UNCHANGED proc

\* SIGINT: fatal until main has registered the handler.  From then on the
\* kernel picks the main thread, and only while the signal is masked there,
\* that is while main runs the handler, another thread.
Sigint ==
    /\ proc = "running"
    /\ \/ pc["main"] \in Setup /\ proc' = "killed" /\ UNCHANGED <<pc, frame>>
       \/ pc["main"] \notin Setup /\ Interrupt("main")
       \/ pc["main"] \in Handler /\ \E t \in Workers : Interrupt(t)
    /\ UNCHANGED <<fdVars, mutex1, loopVars, wireVars>>

-----------------------------------------------------------------------------
(* Sender.  Its loop counter always equals snd_count at the loop head, as  *)
(* the receiver's equals rec_count.                                        *)

\* Mutant of SendLock: the loop has no bound.
SendLockUnbounded ==
    /\ At("send", "loop") /\ timer["send"] = 0
    /\ mutex1 = "free"
    /\ mutex1' = "send"
    /\ Goto("send", "write")
    /\ UNCHANGED <<proc, frame, fdVars, loopVars, wireVars>>

SendLock ==
    /\ At("send", "loop") /\ timer["send"] = 0
    /\ snd_count < Iterations
    /\ mutex1 = "free"
    /\ mutex1' = "send"
    /\ Goto("send", "write")
    /\ UNCHANGED <<proc, frame, fdVars, loopVars, wireVars>>

\* A failed write is reported and otherwise treated like a successful one.
SendWrite ==
    /\ At("send", "write")
    /\ Goto("send", "unlock")
    /\ \/ Usable /\ delivered' = delivered + 1 /\ owed' = owed + Replies
       \/ (~Usable \/ "write" \in Failing) /\ UNCHANGED <<delivered, owed>>
    /\ UNCHANGED <<proc, frame, fdVars, mutex1, loopVars, queued>>

\* Counts the attempt, unlocks and goes to sleep.
SendUnlock ==
    /\ At("send", "unlock")
    /\ Goto("send", "loop")
    /\ snd_count' = snd_count + 1
    /\ mutex1' = "free"
    /\ timer' = [timer EXCEPT !["send"] = 1]
    /\ UNCHANGED <<proc, frame, fdVars, rec_count, readVars, wireVars>>

SendReturn ==
    /\ At("send", "loop") /\ timer["send"] = 0
    /\ snd_count = Iterations
    /\ Goto("send", "done")
    /\ UNCHANGED <<proc, frame, fdVars, mutex1, loopVars, wireVars>>

-----------------------------------------------------------------------------
(* Receiver.  It holds mutex1 across both reads, and the endpoint was      *)
(* opened without O_NONBLOCK: a read of an empty queue waits.              *)

\* Mutant of RecvStart: no sleep before the first round.
RecvStartAtOnce ==
    /\ At("recv", "start")
    /\ Goto("recv", "loop")
    /\ UNCHANGED <<proc, frame, fdVars, mutex1, loopVars, wireVars>>

RecvStart ==
    /\ At("recv", "start")
    /\ Goto("recv", "loop")
    /\ timer' = [timer EXCEPT !["recv"] = 1]
    /\ UNCHANGED <<proc, frame, fdVars, mutex1, snd_count, rec_count, readVars, wireVars>>

RecvLock ==
    /\ At("recv", "loop") /\ timer["recv"] = 0
    /\ rec_count < Iterations
    /\ mutex1 = "free"
    /\ mutex1' = "recv"
    /\ Goto("recv", "read1")
    /\ UNCHANGED <<proc, frame, fdVars, loopVars, wireVars>>

\* A read may fail at any time; it leaves data as it was, and data is printed
\* anyway.  A read that already waits is served even if a handler closes its
\* descriptor.  Words are numbered in the order the remote core queues them.
Read(point, next, nth) ==
    /\ At("recv", point)
    /\ Goto("recv", next)
    /\ \/ /\ endpoint = "live" /\ queued > 0
          /\ queued' = queued - 1 /\ data' = data + 1 /\ UNCHANGED missed
       \/ /\ ~Usable \/ "read" \in Failing
          /\ missed' = missed + 1 /\ UNCHANGED <<queued, data>>
    /\ shown' = [shown EXCEPT ![nth] = data']
    /\ UNCHANGED <<proc, frame, fdVars, mutex1, timer, snd_count, rec_count,
                   delivered, owed>>

\* Mutant of RecvRead1: one read a round, as if a message were one word.
RecvReadOnce == Read("read1", "unlock", 1)

RecvRead1 == Read("read1", "read2", 1)
RecvRead2 == Read("read2", "unlock", 2)

\* Mutant of RecvUnlock: the mutex is not released.
RecvUnlockMissing ==
    /\ At("recv", "unlock")
    /\ Goto("recv", "count")
    /\ UNCHANGED <<proc, frame, fdVars, mutex1, loopVars, wireVars>>

RecvUnlock ==
    /\ At("recv", "unlock")
    /\ Goto("recv", "count")
    /\ mutex1' = "free"
    /\ UNCHANGED <<proc, frame, fdVars, loopVars, wireVars>>

RecvCount ==
    /\ At("recv", "count")
    /\ Goto("recv", "loop")
    /\ rec_count' = rec_count + 1
    /\ timer' = [timer EXCEPT !["recv"] = 1]
    /\ UNCHANGED <<proc, frame, fdVars, mutex1, snd_count, readVars, wireVars>>

RecvReturn ==
    /\ At("recv", "loop") /\ timer["recv"] = 0
    /\ rec_count = Iterations
    /\ Goto("recv", "done")
    /\ UNCHANGED <<proc, frame, fdVars, mutex1, loopVars, wireVars>>

-----------------------------------------------------------------------------
(* Environment: the remote core and time.                                  *)

\* The remote core answers one owed word; a destroyed endpoint drops it.
Answer ==
    /\ proc = "running"
    /\ owed > 0
    /\ owed' = owed - 1
    /\ queued' = IF endpoint = "live" THEN queued + 1 ELSE queued
    /\ UNCHANGED <<procVars, fdVars, mutex1, loopVars, delivered>>

SendReady ==
    \/ pc["send"] \in {"write", "unlock"}
    \/ /\ pc["send"] = "loop" /\ timer["send"] = 0
       /\ snd_count < Iterations => mutex1 = "free"

RecvReady ==
    \/ pc["recv"] \in {"start", "unlock", "count"}
    \/ pc["recv"] \in {"read1", "read2"} /\ (Usable => queued > 0)
    \/ /\ pc["recv"] = "loop" /\ timer["recv"] = 0
       /\ rec_count < Iterations => mutex1 = "free"

MainReady ==
    CASE pc["main"] = "join_send" -> pc["send"] \in {"none", "done"}
      [] pc["main"] = "join_recv" -> pc["recv"] \in {"none", "done"}
      [] OTHER -> TRUE

\* A second passes.  If Paced, only once every thread sleeps or is blocked.
Tick ==
    /\ proc = "running"
    /\ \E t \in Workers : timer[t] > 0
    /\ Paced => ~SendReady /\ ~RecvReady /\ ~MainReady
    /\ timer' = [t \in Workers |-> 0]
    /\ UNCHANGED <<procVars, fdVars, mutex1, snd_count, rec_count, readVars, wireVars>>

Terminated == proc # "running" /\ UNCHANGED vars

-----------------------------------------------------------------------------

MainStep ==
    \/ MainOpenCtrl \/ MainCreateEpt \/ MainOpenEpt \/ MainSignal
    \/ MainSpawnSend \/ MainSpawnRecv \/ MainJoinSend \/ MainJoinRecv
    \/ MainDestroy \/ MainCloseEpt \/ MainCloseCtrl \/ MainExit

HandlerStep(t) ==
    HandlerDestroy(t) \/ HandlerCloseEpt(t) \/ HandlerCloseCtrl(t) \/ HandlerExit(t)

SendStep == SendLock \/ SendWrite \/ SendUnlock \/ SendReturn

RecvStep ==
    \/ RecvStart \/ RecvLock \/ RecvRead1 \/ RecvRead2
    \/ RecvUnlock \/ RecvCount \/ RecvReturn

Next ==
    \/ MainStep \/ SendStep \/ RecvStep
    \/ \E t \in Threads : HandlerStep(t)
    \/ Sigint \/ Answer \/ Tick \/ Terminated

\* The scheduler runs every runnable thread, the remote core answers and time
\* passes; nothing makes anybody press ^C.  A read that waits on a usable
\* endpoint is not bound to fail: only an answer makes it return for certain.
RecvReturns == RecvStep /\ (missed' # missed => ~Usable)
Fairness ==
    /\ WF_vars(MainStep) /\ WF_vars(SendStep) /\ WF_vars(RecvReturns)
    /\ \A t \in Threads : WF_vars(HandlerStep(t))
    /\ WF_vars(Answer) /\ WF_vars(Tick)

Spec == Init /\ [][Next]_vars
FairSpec == Spec /\ Fairness

-----------------------------------------------------------------------------
(* Properties.                                                             *)

TypeOK ==
    /\ proc \in {"running", "exited", "failed", "killed", "crashed"}
    /\ pc \in [Threads -> MainPoints \cup SendPoints \cup RecvPoints]
    /\ frame \in [Threads -> MainPoints \cup SendPoints \cup RecvPoints]
    /\ Where("main") \in MainPoints \ Handler
    /\ Where("send") \in SendPoints
    /\ Where("recv") \in RecvPoints
    /\ \A t \in Threads : frame[t] # "none" <=> pc[t] \in Handler
    /\ fd \in {"unset", "open", "closed"}
    /\ fd_ept \in {"unset", "open", "closed"}
    /\ endpoint \in {"absent", "live", "destroyed"}
    /\ destroys \in Nat
    /\ refusals \in Nat
    /\ mutex1 \in Workers \cup {"free"}
    /\ timer \in [Workers -> 0..1]
    /\ snd_count \in 0..Iterations
    /\ rec_count \in 0..Iterations
    /\ data \in Nat
    /\ shown \in Nat \X Nat
    /\ missed \in Nat
    /\ delivered \in Nat
    /\ owed \in Nat
    /\ queued \in Nat

\* The receiver never waits, with mutex1 in its hands, for a word nobody will
\* ever send: the sender would need that mutex to provoke one.  (he_mhu0:
\* 144-145 against 173-181; only sleep(1) keeps the two loops in step.)
NeverStarved ==
    (At("recv", "read1") \/ At("recv", "read2")) /\ Usable => queued + owed > 0

\* As long as no read has failed and the endpoint is there, both words the
\* receiver prints in round k answer the sender's k-th delivered message: no
\* round mixes two messages, repeats a word or prints the uninitialized
\* variable.  From a failed read on, every round is late by exactly the words
\* that were missed: the code never catches up, and never loses one (174-187).
AnswerOf(word) == ((word - 1) \div Replies) + 1
PairedWords ==
    Usable /\ pc["recv"] \in {"unlock", "count"} =>
        /\ missed = 0 =>
               \A nth \in 1..2 : shown[nth] > 0 /\ AnswerOf(shown[nth]) = rec_count + 1
        /\ shown[2] + missed = 2 * (rec_count + 1)

\* No thread finds the endpoint destroyed or closed under it unless SIGINT
\* was handled: main destroys it after both threads are gone (108-121).
JoinBeforeCleanup ==
    frame["main"] = "none" /\ (endpoint = "destroyed" \/ fd_ept = "closed") =>
        \A t \in Workers : pc[t] \in {"none", "done"}

\* Once the handler is registered, no end of the process, at any point of
\* main, leaves a descriptor open, or the endpoint behind in the kernel unless
\* a destroy was refused; only the crash of a join on a thread that never
\* started does (55-66, 102-124).
NoLeakOnceHandled ==
    proc # "running" /\ pc["main"] \notin Setup /\ proc # "crashed"
        => /\ fd = "closed" /\ fd_ept = "closed"
           /\ endpoint = "destroyed" \/ refusals > 0

\* The destroy ioctl reaches the endpoint a second time only if SIGINT hit
\* main between its own destroy and its close, or hit a worker while main was
\* in the handler (58-62, 116-120).
SingleDestroy ==
    destroys > 1 => frame["main"] = "close_ept" \/ \E t \in Workers : frame[t] # "none"

\* Left alone, the program ends.
Finishes == <>(proc # "running")

\* ^C always works: the handler waits for nobody, not even for a receiver
\* stuck in read with the mutex (55-66).
SigintEnds == (frame["main"] # "none") ~> (proc # "running")

\* "No data available" (176-178, 182-184): a read of an empty queue comes back.
EmptyReadReturns ==
    (At("recv", "read1") /\ queued = 0) ~> ~(At("recv", "read1") /\ queued = 0)
=============================================================================
