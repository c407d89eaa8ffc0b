--------------------------- MODULE EptLoopProofs ---------------------------
(***************************************************************************)
(* Proofs about EptLoop, for every number of iterations, every set of      *)
(* failing calls and both paces of time, unless a theorem says otherwise.  *)
(* The last section shows that EptLoop implements one program of           *)
(* RpmsgEndpoints: every step of main, of the threads and of the handlers  *)
(* is a step of that program, or leaves what the driver sees as it was.    *)
(*                                                                         *)
(*   TypeInv   types and loop counters                                     *)
(*   LifeInv   + which threads live, what is open, who destroyed what      *)
(*   WordInv   + the mutex and the words the receiver has read             *)
(*   PacedInv  + the sender stays ahead of the receiver (Paced, no failing *)
(*             spawn or write)                                             *)
(***************************************************************************)
EXTENDS EptLoopDriver, TLAPS

\* Where each thread's own code stands, with or without a handler on top.
Main == Where("main")
Send == Where("send")
Recv == Where("recv")

\* Loop counters stay below their bound inside a round, and a thread sleeps
\* only between rounds.
CountInv ==
    /\ Send \in {"write", "unlock"} => snd_count < Iterations
    /\ Send = "done" => snd_count = Iterations
    /\ Recv \in {"read1", "read2", "unlock", "count"} => rec_count < Iterations
    /\ timer["send"] = 1 => Send = "loop"
    /\ timer["recv"] = 1 => Recv = "loop"

\* A handler starts on main, and a worker lives between its creation and join.
ThreadInv ==
    /\ frame["main"] \notin Setup
    /\ \A t \in Workers : frame[t] # "none" => frame["main"] # "none"
    /\ Main \in Setup \cup {"spawn_send"} => Send = "none"
    /\ Main \in Setup \cup {"spawn_send", "spawn_recv"} => Recv = "none"
    /\ Main \in Cleanup \cup {"join_recv"} => Send \in {"none", "done"}
    /\ Main \in Cleanup => Recv \in {"none", "done"}

TypeInv == TypeOK /\ CountInv /\ ThreadInv

\* Types and counters are inductive.
LEMMA TypeStep ==
    ASSUME TypeInv, [Next]_vars PROVE TypeInv'
<1> USE EptLoopAssumption DEF TypeInv, TypeOK, CountInv, ThreadInv,
     MainPoints, SendPoints,
     RecvPoints, Setup, Cleanup, Handler, Workers, Threads, At, Goto, Where, Main, Send,
     Recv, wireVars, fdVars, loopVars, readVars, procVars
<1>1. CASE MainStep
  <2>1. CASE MainOpenCtrl   BY <2>1 DEF MainOpenCtrl
  <2>2. CASE MainCreateEpt  BY <2>2 DEF MainCreateEpt
  <2>3. CASE MainOpenEpt    BY <2>3 DEF MainOpenEpt
  <2>4. CASE MainSignal     BY <2>4 DEF MainSignal
  <2>5. CASE MainSpawnSend  BY <2>5 DEF MainSpawnSend, Spawn
  <2>6. CASE MainSpawnRecv  BY <2>6 DEF MainSpawnRecv, Spawn
  <2>7. CASE MainJoinSend   BY <2>7 DEF MainJoinSend, Join
  <2>8. CASE MainJoinRecv   BY <2>8 DEF MainJoinRecv, Join
  <2>9. CASE MainDestroy    BY <2>9 DEF MainDestroy, DestroyEpt
  <2>10. CASE MainCloseEpt  BY <2>10 DEF MainCloseEpt, CloseEpt
  <2>11. CASE MainCloseCtrl BY <2>11 DEF MainCloseCtrl, CloseCtrl
  <2>12. CASE MainExit      BY <2>12 DEF MainExit, Exit
  <2> QED
    BY <1>1, <2>1, <2>2, <2>3, <2>4, <2>5, <2>6, <2>7, <2>8, <2>9, <2>10, <2>11, <2>12
    DEF MainStep
<1>2. CASE SendStep
  <2>1. CASE SendLock    BY <2>1 DEF SendLock
  <2>2. CASE SendWrite   BY <2>2 DEF SendWrite
  <2>3. CASE SendUnlock  BY <2>3 DEF SendUnlock
  <2>4. CASE SendReturn  BY <2>4 DEF SendReturn
  <2> QED  BY <1>2, <2>1, <2>2, <2>3, <2>4 DEF SendStep
<1>3. CASE RecvStep
  <2>1. CASE RecvStart   BY <2>1 DEF RecvStart
  <2>2. CASE RecvLock    BY <2>2 DEF RecvLock
  <2>3. CASE RecvRead1   BY <2>3 DEF RecvRead1, Read
  <2>4. CASE RecvRead2   BY <2>4 DEF RecvRead2, Read
  <2>5. CASE RecvUnlock  BY <2>5 DEF RecvUnlock
  <2>6. CASE RecvCount   BY <2>6 DEF RecvCount
  <2>7. CASE RecvReturn  BY <2>7 DEF RecvReturn
  <2> QED  BY <1>3, <2>1, <2>2, <2>3, <2>4, <2>5, <2>6, <2>7 DEF RecvStep
<1>4. ASSUME NEW t \in Threads, HandlerStep(t) PROVE TypeInv'
  <2>1. CASE HandlerDestroy(t)    BY <2>1 DEF HandlerDestroy, DestroyEpt
  <2>2. CASE HandlerCloseEpt(t)   BY <2>2 DEF HandlerCloseEpt, CloseEpt
  <2>3. CASE HandlerCloseCtrl(t)  BY <2>3 DEF HandlerCloseCtrl, CloseCtrl
  <2>4. CASE HandlerExit(t)       BY <2>4 DEF HandlerExit, Exit
  <2> QED  BY <1>4, <2>1, <2>2, <2>3, <2>4 DEF HandlerStep
<1>5. CASE Sigint  BY <1>5 DEF Sigint, Interrupt
<1>6. CASE Answer  BY <1>6 DEF Answer
<1>7. CASE Tick    BY <1>7 DEF Tick, SendReady, RecvReady, MainReady
<1>8. CASE UNCHANGED vars  BY <1>8 DEF vars
<1> QED
  BY <1>1, <1>2, <1>3, <1>4, <1>5, <1>6, <1>7, <1>8 DEF Next, Terminated

\* The type invariant holds, with each loop counter within ITERATIONS and the
\* handler on top of exactly the interrupted threads (the whole program).
THEOREM TypeCorrect == Spec => []TypeOK
<1>1. Init => TypeInv
  BY EptLoopAssumption DEF Init, TypeInv, TypeOK, CountInv, ThreadInv, MainPoints, SendPoints,
     RecvPoints, Setup, Cleanup, Handler, Workers, Threads, Where, Main, Send, Recv
<1>2. TypeInv /\ [Next]_vars => TypeInv'
  BY TypeStep
<1>3. QED  BY <1>1, <1>2, PTL DEF Spec, TypeInv

-----------------------------------------------------------------------------
(* Lifecycle of the threads and of the endpoint. *)

Opening == {"open_ctrl", "create_ept", "open_ept"}

\* Somebody has destroyed the endpoint, or was refused it.
Tried == endpoint = "destroyed" \/ refusals > 0

\* What stands open, by how far main and every running handler have come.
ResourceInv ==
    /\ Main \in Opening => fd_ept = "unset"
    /\ Main \in Setup => ~Tried
    /\ Main \in {"open_ctrl", "create_ept"} => endpoint = "absent"
    /\ Main \notin Opening => fd_ept # "unset"
    /\ Main \notin {"open_ctrl", "create_ept"} => endpoint # "absent"
    /\ fd_ept = "closed" => Tried
    /\ frame["main"] = "none" /\ Tried =>
           Main \in {"close_ept", "close_ctrl", "exit"}
    /\ \A t \in Threads :
          /\ pc[t] \in {"close_ept", "h_close_ept"} => Tried
          /\ pc[t] \in {"close_ctrl", "exit", "h_close_ctrl", "h_exit"} => fd_ept = "closed"
          /\ pc[t] \in {"exit", "h_exit"} => fd = "closed"
    /\ Main \in {"close_ctrl", "exit"} => fd_ept = "closed"

\* How the process ended, by what it left behind.
EndInv ==
    /\ proc = "exited" => Tried /\ fd = "closed" /\ fd_ept = "closed"
    /\ proc \in {"failed", "killed"} => pc["main"] \in Setup

\* Until a worker runs the handler or SIGINT hits main between its destroy
\* and its close, the endpoint is destroyed at most once.
DestroyInv ==
    /\ frame["main"] = "none" => destroys = (IF endpoint = "destroyed" THEN 1 ELSE 0)
    /\ frame["main"] # "close_ept" /\ (\A t \in Workers : frame[t] = "none") =>
           /\ destroys <= 1
           /\ pc["main"] = "h_destroy" /\ fd_ept = "open" => destroys = 0

LifeInv == TypeInv /\ ResourceInv /\ EndInv /\ DestroyInv

LifeRest == ResourceInv /\ EndInv /\ DestroyInv

\* The lifecycle invariant is inductive, given the types.
LEMMA LifeStep ==
    ASSUME LifeInv, [Next]_vars PROVE LifeRest'
<1> USE EptLoopAssumption DEF LifeInv, LifeRest, TypeInv, TypeOK, CountInv,
     ThreadInv, ResourceInv, EndInv, DestroyInv, Tried, Opening,
     MainPoints, SendPoints,
     RecvPoints, Setup, Cleanup, Handler, Workers, Threads, At, Goto, Where, Main, Send,
     Recv, wireVars, fdVars, loopVars, readVars, procVars
<1>T. TypeInv /\ TypeInv'  BY TypeStep DEF LifeInv
<1>1. CASE MainStep
  <2>1. CASE MainOpenCtrl   BY <1>T, <2>1 DEF MainOpenCtrl
  <2>2. CASE MainCreateEpt  BY <1>T, <2>2 DEF MainCreateEpt
  <2>3. CASE MainOpenEpt
    <3>1. pc["main"] = "open_ept" /\ frame["main"] = "none" /\ frame' = frame
      BY <2>3 DEF MainOpenEpt
    <3>2. \A t \in Threads : pc[t] \in {"open_ept", "none"} /\ frame[t] = "none"
      BY <3>1
    <3>3. fd_ept = "unset" /\ endpoint = "live" /\ destroys = 0
      BY <3>1
    <3>4. CASE proc' = proc
      BY <1>T, <2>3, <3>1, <3>2, <3>3, <3>4 DEF MainOpenEpt
    <3>5. CASE proc' = "failed" /\ UNCHANGED <<fd_ept, pc>>
      BY <1>T, <2>3, <3>1, <3>2, <3>3, <3>5 DEF MainOpenEpt
    <3> QED  BY <2>3, <3>4, <3>5 DEF MainOpenEpt
  <2>4. CASE MainSignal     BY <1>T, <2>4 DEF MainSignal
  <2>5. CASE MainSpawnSend  BY <1>T, <2>5 DEF MainSpawnSend, Spawn
  <2>6. CASE MainSpawnRecv  BY <1>T, <2>6 DEF MainSpawnRecv, Spawn
  <2>7. CASE MainJoinSend   BY <1>T, <2>7 DEF MainJoinSend, Join
  <2>8. CASE MainJoinRecv   BY <1>T, <2>8 DEF MainJoinRecv, Join
  <2>9. CASE MainDestroy    BY <1>T, <2>9 DEF MainDestroy, DestroyEpt
  <2>10. CASE MainCloseEpt  BY <1>T, <2>10 DEF MainCloseEpt, CloseEpt
  <2>11. CASE MainCloseCtrl BY <1>T, <2>11 DEF MainCloseCtrl, CloseCtrl
  <2>12. CASE MainExit      BY <1>T, <2>12 DEF MainExit, Exit
  <2> QED
    BY <1>1, <2>1, <2>2, <2>3, <2>4, <2>5, <2>6, <2>7, <2>8, <2>9, <2>10, <2>11, <2>12
    DEF MainStep
<1>2. CASE SendStep
  <2>1. CASE SendLock    BY <1>T, <2>1 DEF SendLock
  <2>2. CASE SendWrite   BY <1>T, <2>2 DEF SendWrite
  <2>3. CASE SendUnlock  BY <1>T, <2>3 DEF SendUnlock
  <2>4. CASE SendReturn  BY <1>T, <2>4 DEF SendReturn
  <2> QED  BY <1>2, <2>1, <2>2, <2>3, <2>4 DEF SendStep
<1>3. CASE RecvStep
  <2>1. CASE RecvStart   BY <1>T, <2>1 DEF RecvStart
  <2>2. CASE RecvLock    BY <1>T, <2>2 DEF RecvLock
  <2>3. CASE RecvRead1   BY <1>T, <2>3 DEF RecvRead1, Read
  <2>4. CASE RecvRead2   BY <1>T, <2>4 DEF RecvRead2, Read
  <2>5. CASE RecvUnlock  BY <1>T, <2>5 DEF RecvUnlock
  <2>6. CASE RecvCount   BY <1>T, <2>6 DEF RecvCount
  <2>7. CASE RecvReturn  BY <1>T, <2>7 DEF RecvReturn
  <2> QED  BY <1>3, <2>1, <2>2, <2>3, <2>4, <2>5, <2>6, <2>7 DEF RecvStep
<1>4. ASSUME NEW t \in Threads, HandlerStep(t) PROVE LifeRest'
  <2>1. CASE HandlerDestroy(t)    BY <1>T, <2>1 DEF HandlerDestroy, DestroyEpt
  <2>2. CASE HandlerCloseEpt(t)   BY <1>T, <2>2 DEF HandlerCloseEpt, CloseEpt
  <2>3. CASE HandlerCloseCtrl(t)  BY <1>T, <2>3 DEF HandlerCloseCtrl, CloseCtrl
  <2>4. CASE HandlerExit(t)       BY <1>T, <2>4 DEF HandlerExit, Exit
  <2> QED  BY <1>4, <2>1, <2>2, <2>3, <2>4 DEF HandlerStep
<1>5. CASE Sigint  BY <1>T, <1>5 DEF Sigint, Interrupt
<1>6. CASE Answer  BY <1>T, <1>6 DEF Answer
<1>7. CASE Tick    BY <1>T, <1>7 DEF Tick, SendReady, RecvReady, MainReady
<1>8. CASE UNCHANGED vars  BY <1>T, <1>8 DEF vars
<1> QED
  BY <1>1, <1>2, <1>3, <1>4, <1>5, <1>6, <1>7, <1>8 DEF Next, Terminated

LEMMA LifeCorrect == Spec => []LifeInv
<1>1. Init => LifeInv
  BY EptLoopAssumption DEF Init, LifeInv, TypeInv, TypeOK, CountInv, ThreadInv, ResourceInv,
     EndInv, DestroyInv, Tried, Opening, MainPoints, SendPoints, RecvPoints, Setup, Cleanup,
     Handler, Workers, Threads, Where, Main, Send, Recv
<1>2. LifeInv /\ [Next]_vars => LifeInv'
  BY TypeStep, LifeStep DEF LifeInv, LifeRest
<1>3. QED  BY <1>1, <1>2, PTL DEF Spec

\* Main destroys and closes the endpoint only when both threads are gone: it
\* disappears under a running thread only through SIGINT (108-121).
THEOREM JoinedFirst == Spec => []JoinBeforeCleanup
<1>1. LifeInv => JoinBeforeCleanup
  BY DEF LifeInv, TypeInv, TypeOK, ThreadInv, ResourceInv, Tried, JoinBeforeCleanup, Cleanup, Where,
     Main, Send, Recv, Workers, Threads
<1>2. QED  BY <1>1, LifeCorrect, PTL

\* Once the handler is registered, every way out but a crash in pthread_join
\* closes both descriptors, and leaves the endpoint behind only if a destroy was
\* refused, whichever thread or handler gets to exit (55-66, 102-124).
THEOREM NothingLeft == Spec => []NoLeakOnceHandled
<1>1. LifeInv => NoLeakOnceHandled
  BY DEF LifeInv, TypeInv, TypeOK, EndInv, Tried, NoLeakOnceHandled
<1>2. QED  BY <1>1, LifeCorrect, PTL

\* A second destroy needs SIGINT between main's destroy and close, or a second
\* SIGINT while main runs the handler (58-62, 116-120).
THEOREM DestroyedOnce == Spec => []SingleDestroy
<1>1. LifeInv => SingleDestroy
  BY DEF LifeInv, TypeInv, TypeOK, DestroyInv, SingleDestroy, Workers, Threads
<1>2. QED  BY <1>1, LifeCorrect, PTL

-----------------------------------------------------------------------------
(* The words the receiver reads. *)

MutexInv ==
    /\ mutex1 = "send" <=> Send \in {"write", "unlock"}
    /\ mutex1 = "recv" <=> Recv \in {"read1", "read2", "unlock"}

\* While the endpoint is there, every word read is the next one, and a failed
\* read stands for one word that comes later.
Intact == endpoint # "destroyed" /\ fd_ept # "closed"
DataInv ==
    Intact =>
    /\ Recv \in {"none", "start", "loop", "read1", "done"} => data + missed = 2 * rec_count
    /\ Recv = "read2" => data + missed = 2 * rec_count + 1 /\ shown[1] = data
    /\ Recv \in {"unlock", "count"} =>
           /\ data + missed = 2 * rec_count + 2 /\ shown[2] = data
           /\ missed = 0 => shown[1] = data - 1

WordInv == LifeInv /\ MutexInv /\ DataInv


\* A read of an endpoint that is there takes the next word of its queue, or
\* fails and is counted.
ReadWorks == data' = data + 1 /\ missed' = missed /\ queued > 0 /\ queued' = queued - 1
ReadFails == data' = data /\ missed' = missed + 1 /\ queued' = queued

LEMMA ReadTakes ==
    ASSUME LifeInv, RecvRead1 \/ RecvRead2
    PROVE  /\ Intact' = Intact /\ (ReadWorks \/ ReadFails)
           /\ data \in Nat /\ missed \in Nat
BY DEF LifeInv, TypeInv, TypeOK, RecvRead1, RecvRead2, Read, Intact, fdVars, ReadWorks, ReadFails

\* The mutex and the words are inductive, given the lifecycle.
LEMMA WordStep ==
    ASSUME WordInv, [Next]_vars PROVE MutexInv' /\ DataInv'
<1> USE EptLoopAssumption DEF WordInv, LifeInv, TypeInv, TypeOK, CountInv,
     ThreadInv, ResourceInv, MutexInv, DataInv, Intact, Usable,
     MainPoints, SendPoints,
     RecvPoints, Setup, Cleanup, Handler, Workers, Threads, At, Goto, Where, Main, Send,
     Recv, wireVars, fdVars, loopVars, readVars, procVars
<1>T. LifeInv /\ LifeInv'  BY TypeStep, LifeStep DEF WordInv, LifeInv, LifeRest
<1>1. CASE MainStep
  <2>1. CASE MainOpenCtrl   BY <1>T, <2>1 DEF MainOpenCtrl
  <2>2. CASE MainCreateEpt  BY <1>T, <2>2 DEF MainCreateEpt
  <2>3. CASE MainOpenEpt    BY <1>T, <2>3 DEF MainOpenEpt
  <2>4. CASE MainSignal     BY <1>T, <2>4 DEF MainSignal
  <2>5. CASE MainSpawnSend  BY <1>T, <2>5 DEF MainSpawnSend, Spawn
  <2>6. CASE MainSpawnRecv  BY <1>T, <2>6 DEF MainSpawnRecv, Spawn
  <2>7. CASE MainJoinSend   BY <1>T, <2>7 DEF MainJoinSend, Join
  <2>8. CASE MainJoinRecv   BY <1>T, <2>8 DEF MainJoinRecv, Join
  <2>9. CASE MainDestroy    BY <1>T, <2>9 DEF MainDestroy, DestroyEpt
  <2>10. CASE MainCloseEpt  BY <1>T, <2>10 DEF MainCloseEpt, CloseEpt
  <2>11. CASE MainCloseCtrl BY <1>T, <2>11 DEF MainCloseCtrl, CloseCtrl
  <2>12. CASE MainExit      BY <1>T, <2>12 DEF MainExit, Exit
  <2> QED
    BY <1>1, <2>1, <2>2, <2>3, <2>4, <2>5, <2>6, <2>7, <2>8, <2>9, <2>10, <2>11, <2>12
    DEF MainStep
<1>2. CASE SendStep
  <2>1. CASE SendLock    BY <1>T, <2>1 DEF SendLock
  <2>2. CASE SendWrite   BY <1>T, <2>2 DEF SendWrite
  <2>3. CASE SendUnlock  BY <1>T, <2>3 DEF SendUnlock
  <2>4. CASE SendReturn  BY <1>T, <2>4 DEF SendReturn
  <2> QED  BY <1>2, <2>1, <2>2, <2>3, <2>4 DEF SendStep
<1>3. CASE RecvStep
  <2>1. CASE RecvStart   BY <1>T, <2>1 DEF RecvStart
  <2>2. CASE RecvLock    BY <1>T, <2>2 DEF RecvLock
  <2>3. CASE RecvRead1
    <3>1. shown' = <<data', shown[2]>>
      BY <2>3 DEF RecvRead1, Read
    <3>2. MutexInv'
      BY <1>T, <2>3 DEF RecvRead1, Read
    <3>3. Recv = "read1" /\ Recv' = "read2" /\ rec_count' = rec_count /\ Intact' = Intact
      BY <1>T, <2>3 DEF RecvRead1, Read
    <3>4. /\ \/ data' = data + 1 /\ missed' = missed
             \/ data' = data /\ missed' = missed + 1
          /\ data \in Nat /\ missed \in Nat
      <4>1. LifeInv /\ (RecvRead1 \/ RecvRead2)
        BY <1>T, <2>3
      <4> HIDE DEF WordInv, LifeInv, TypeInv, Intact
      <4> QED  BY <4>1, ReadTakes DEF ReadWorks, ReadFails
    <3>5. DataInv'
      <4> HIDE DEF Recv, Intact
      <4> QED  BY <3>1, <3>3, <3>4 DEF DataInv
    <3> QED  BY <3>2, <3>5
  <2>4. CASE RecvRead2
    <3>1. shown' = <<shown[1], data'>>
      BY <2>4 DEF RecvRead2, Read
    <3>2. MutexInv'
      BY <1>T, <2>4 DEF RecvRead2, Read
    <3>3. Recv = "read2" /\ Recv' = "unlock" /\ rec_count' = rec_count /\ Intact' = Intact
      BY <1>T, <2>4 DEF RecvRead2, Read
    <3>4. /\ \/ data' = data + 1 /\ missed' = missed
             \/ data' = data /\ missed' = missed + 1
          /\ data \in Nat /\ missed \in Nat
      <4>1. LifeInv /\ (RecvRead1 \/ RecvRead2)
        BY <1>T, <2>4
      <4> HIDE DEF WordInv, LifeInv, TypeInv, Intact
      <4> QED  BY <4>1, ReadTakes DEF ReadWorks, ReadFails
    <3>5. DataInv'
      <4> HIDE DEF Recv, Intact
      <4> QED  BY <3>1, <3>3, <3>4 DEF DataInv
    <3> QED  BY <3>2, <3>5
  <2>5. CASE RecvUnlock  BY <1>T, <2>5 DEF RecvUnlock
  <2>6. CASE RecvCount   BY <1>T, <2>6 DEF RecvCount
  <2>7. CASE RecvReturn  BY <1>T, <2>7 DEF RecvReturn
  <2> QED  BY <1>3, <2>1, <2>2, <2>3, <2>4, <2>5, <2>6, <2>7 DEF RecvStep
<1>4. ASSUME NEW t \in Threads, HandlerStep(t) PROVE MutexInv' /\ DataInv'
  <2>1. CASE HandlerDestroy(t)    BY <1>T, <2>1 DEF HandlerDestroy, DestroyEpt
  <2>2. CASE HandlerCloseEpt(t)   BY <1>T, <2>2 DEF HandlerCloseEpt, CloseEpt
  <2>3. CASE HandlerCloseCtrl(t)  BY <1>T, <2>3 DEF HandlerCloseCtrl, CloseCtrl
  <2>4. CASE HandlerExit(t)       BY <1>T, <2>4 DEF HandlerExit, Exit
  <2> QED  BY <1>4, <2>1, <2>2, <2>3, <2>4 DEF HandlerStep
<1>5. CASE Sigint  BY <1>T, <1>5 DEF Sigint, Interrupt
<1>6. CASE Answer  BY <1>T, <1>6 DEF Answer
<1>7. CASE Tick    BY <1>T, <1>7 DEF Tick, SendReady, RecvReady, MainReady
<1>8. CASE UNCHANGED vars  BY <1>T, <1>8 DEF vars
<1> QED
  BY <1>1, <1>2, <1>3, <1>4, <1>5, <1>6, <1>7, <1>8 DEF Next, Terminated

LEMMA WordCorrect == Spec => []WordInv
<1>1. Init => MutexInv /\ DataInv
  BY DEF Init, MutexInv, DataInv, Intact, Where, Send, Recv, Threads, Workers
<1>2. WordInv /\ [Next]_vars => MutexInv' /\ DataInv'
  BY WordStep
<1>3. QED  BY <1>1, <1>2, LifeCorrect, PTL DEF Spec, WordInv

LEMMA Halves ==
    ASSUME NEW k \in Nat PROVE (2 * k) \div 2 = k /\ (2 * k + 1) \div 2 = k
OBVIOUS

\* When the remote core answers every message with two words, and whatever
\* fails: until a read fails a round prints the two words of its own message,
\* and from then on each round is late by the number of failed reads (174-187).
THEOREM WordsPaired ==
    ASSUME Replies = 2 PROVE Spec => []PairedWords
<1>1. WordInv => PairedWords
  <2> SUFFICES ASSUME WordInv, Usable, pc["recv"] \in {"unlock", "count"}
               PROVE  /\ missed = 0 => \A nth \in 1..2 :
                             shown[nth] > 0 /\ AnswerOf(shown[nth]) = rec_count + 1
                      /\ shown[2] + missed = 2 * (rec_count + 1)
    BY DEF PairedWords
  <2>1. Recv = pc["recv"] /\ rec_count \in Nat /\ data \in Nat /\ missed \in Nat
    BY DEF WordInv, LifeInv, TypeInv, TypeOK, Recv, Where, Handler, Threads, Workers
  <2>2. Intact
    BY DEF Usable, Intact
  <2>3. /\ data + missed = 2 * rec_count + 2 /\ shown[2] = data
        /\ missed = 0 => shown[1] = data - 1
    BY <2>1, <2>2 DEF WordInv, DataInv
  <2>4. ASSUME missed = 0, NEW nth \in 1..2
        PROVE  shown[nth] > 0 /\ AnswerOf(shown[nth]) = rec_count + 1
    <3>1. shown[1] = 2 * rec_count + 1 /\ shown[2] = 2 * rec_count + 2
      BY <2>1, <2>3, <2>4
    <3>2. CASE nth = 1
      BY <2>1, <3>1, <3>2, Halves DEF AnswerOf
    <3>3. CASE nth = 2
      BY <2>1, <3>1, <3>3, Halves DEF AnswerOf
    <3> QED  BY <2>4, <3>2, <3>3
  <2> QED  BY <2>1, <2>3, <2>4
<1>2. QED  BY <1>1, WordCorrect, PTL

-----------------------------------------------------------------------------
(* The receiver is never starved. *)

\* With no failing spawn, main leaves no worker unstarted.
StartedInv ==
    /\ Main \notin Setup \cup {"spawn_send"} => Send # "none"
    /\ Main \notin Setup \cup {"spawn_send", "spawn_recv"} => Recv # "none"

\* The sender has written in this second; the receiver will read in it.
Posted == Send = "unlock" \/ (Send = "loop" /\ timer["send"] = 1)
Reading ==
    \/ Recv \in {"read1", "read2", "unlock", "count"}
    \/ Recv = "loop" /\ timer["recv"] = 0 /\ rec_count < Iterations
Waiting == Recv \in {"none", "start"} \/ (Recv = "loop" /\ timer["recv"] = 1)

\* The sender stays a message ahead of the receiver, and a second one ahead
\* once it has written in the current second.
FlowInv ==
    Intact =>
    /\ Main \in Setup => owed = 0
    /\ delivered = snd_count + (IF Send = "unlock" THEN 1 ELSE 0)
    /\ data + queued + owed = Replies * delivered
    /\ Reading => delivered >= rec_count + 1 /\ (Posted => delivered >= rec_count + 2)
    /\ Waiting => delivered >= rec_count /\ (Posted => delivered >= rec_count + 1)

PacedInv == WordInv /\ StartedInv /\ FlowInv

PacingAssumption ==
    Paced /\ Replies >= 2 /\ Failing \cap {"spawn", "write"} = {}

\* The sender stays ahead, step by step.
LEMMA PacedStep ==
    ASSUME PacingAssumption, PacedInv, [Next]_vars PROVE StartedInv' /\ FlowInv'
<1> USE EptLoopAssumption DEF PacedInv, WordInv, LifeInv, TypeInv, TypeOK, CountInv, ThreadInv,
     ResourceInv, MutexInv, DataInv, StartedInv, FlowInv, Intact, Posted, Reading,
     Waiting, Usable, Opening, PacingAssumption,
     MainPoints, SendPoints,
     RecvPoints, Setup, Cleanup, Handler, Workers, Threads, At, Goto, Where, Main, Send,
     Recv, wireVars, fdVars, loopVars, readVars, procVars
<1>T. WordInv /\ WordInv'  BY TypeStep, LifeStep, WordStep DEF PacedInv, WordInv, LifeInv, LifeRest
<1>1. CASE MainStep
  <2>1. CASE MainOpenCtrl   BY <1>T, <2>1 DEF MainOpenCtrl
  <2>2. CASE MainCreateEpt  BY <1>T, <2>2 DEF MainCreateEpt
  <2>3. CASE MainOpenEpt    BY <1>T, <2>3 DEF MainOpenEpt
  <2>4. CASE MainSignal     BY <1>T, <2>4 DEF MainSignal
  <2>5. CASE MainSpawnSend  BY <1>T, <2>5 DEF MainSpawnSend, Spawn
  <2>6. CASE MainSpawnRecv  BY <1>T, <2>6 DEF MainSpawnRecv, Spawn
  <2>7. CASE MainJoinSend   BY <1>T, <2>7 DEF MainJoinSend, Join
  <2>8. CASE MainJoinRecv   BY <1>T, <2>8 DEF MainJoinRecv, Join
  <2>9. CASE MainDestroy    BY <1>T, <2>9 DEF MainDestroy, DestroyEpt
  <2>10. CASE MainCloseEpt  BY <1>T, <2>10 DEF MainCloseEpt, CloseEpt
  <2>11. CASE MainCloseCtrl BY <1>T, <2>11 DEF MainCloseCtrl, CloseCtrl
  <2>12. CASE MainExit      BY <1>T, <2>12 DEF MainExit, Exit
  <2> QED
    BY <1>1, <2>1, <2>2, <2>3, <2>4, <2>5, <2>6, <2>7, <2>8, <2>9, <2>10, <2>11, <2>12
    DEF MainStep
<1>2. CASE SendStep
  <2>1. CASE SendLock    BY <1>T, <2>1 DEF SendLock
  <2>2. CASE SendWrite   BY <1>T, <2>2 DEF SendWrite
  <2>3. CASE SendUnlock  BY <1>T, <2>3 DEF SendUnlock
  <2>4. CASE SendReturn  BY <1>T, <2>4 DEF SendReturn
  <2> QED  BY <1>2, <2>1, <2>2, <2>3, <2>4 DEF SendStep
<1>3. CASE RecvStep
  <2>1. CASE RecvStart   BY <1>T, <2>1 DEF RecvStart
  <2>2. CASE RecvLock    BY <1>T, <2>2 DEF RecvLock
  <2>3. CASE RecvRead1
    <3>1. StartedInv'
      BY <1>T, <2>3 DEF RecvRead1, Read
    <3>2. /\ Intact' = Intact
          /\ data' + queued' = data + queued
      BY <2>3, ReadTakes DEF ReadWorks, ReadFails
    <3>3. /\ Main' = Main /\ Send' = Send
          /\ delivered' = delivered /\ owed' = owed /\ Posted' = Posted
          /\ Reading /\ rec_count' = rec_count /\ ~Waiting'
      BY <1>T, <2>3 DEF RecvRead1, Read
    <3>4. FlowInv'
      <4> HIDE DEF Main, Send, Recv, Intact, Posted, Reading, Waiting
      <4>1. snd_count' = snd_count /\ data \in Nat /\ queued \in Nat /\ owed \in Nat
        BY <2>3 DEF RecvRead1, Read
      <4> QED  BY <3>2, <3>3, <4>1 DEF FlowInv
    <3> QED  BY <3>1, <3>4
  <2>4. CASE RecvRead2
    <3>1. StartedInv'
      BY <1>T, <2>4 DEF RecvRead2, Read
    <3>2. /\ Intact' = Intact
          /\ data' + queued' = data + queued
      BY <2>4, ReadTakes DEF ReadWorks, ReadFails
    <3>3. /\ Main' = Main /\ Send' = Send
          /\ delivered' = delivered /\ owed' = owed /\ Posted' = Posted
          /\ Reading /\ rec_count' = rec_count /\ ~Waiting'
      BY <1>T, <2>4 DEF RecvRead2, Read
    <3>4. FlowInv'
      <4> HIDE DEF Main, Send, Recv, Intact, Posted, Reading, Waiting
      <4>1. snd_count' = snd_count /\ data \in Nat /\ queued \in Nat /\ owed \in Nat
        BY <2>4 DEF RecvRead2, Read
      <4> QED  BY <3>2, <3>3, <4>1 DEF FlowInv
    <3> QED  BY <3>1, <3>4
  <2>5. CASE RecvUnlock  BY <1>T, <2>5 DEF RecvUnlock
  <2>6. CASE RecvCount   BY <1>T, <2>6 DEF RecvCount
  <2>7. CASE RecvReturn  BY <1>T, <2>7 DEF RecvReturn
  <2> QED  BY <1>3, <2>1, <2>2, <2>3, <2>4, <2>5, <2>6, <2>7 DEF RecvStep
<1>4. ASSUME NEW t \in Threads, HandlerStep(t) PROVE StartedInv' /\ FlowInv'
  <2>1. CASE HandlerDestroy(t)    BY <1>T, <2>1 DEF HandlerDestroy, DestroyEpt
  <2>2. CASE HandlerCloseEpt(t)   BY <1>T, <2>2 DEF HandlerCloseEpt, CloseEpt
  <2>3. CASE HandlerCloseCtrl(t)  BY <1>T, <2>3 DEF HandlerCloseCtrl, CloseCtrl
  <2>4. CASE HandlerExit(t)       BY <1>T, <2>4 DEF HandlerExit, Exit
  <2> QED  BY <1>4, <2>1, <2>2, <2>3, <2>4 DEF HandlerStep
<1>5. CASE Sigint  BY <1>T, <1>5 DEF Sigint, Interrupt
<1>6. CASE Answer  BY <1>T, <1>6 DEF Answer
<1>7. CASE Tick    BY <1>T, <1>7 DEF Tick, SendReady, RecvReady, MainReady
<1>8. CASE UNCHANGED vars  BY <1>T, <1>8 DEF vars
<1> QED
  BY <1>1, <1>2, <1>3, <1>4, <1>5, <1>6, <1>7, <1>8 DEF Next, Terminated

\* Under that pacing the receiver never waits, mutex in hand, for a word that
\* nobody will ever send (144-145 against 173-181).
THEOREM Unstarved ==
    ASSUME PacingAssumption PROVE Spec => []NeverStarved
<1>1. Init => StartedInv /\ FlowInv
  BY EptLoopAssumption DEF Init, StartedInv, FlowInv, Intact, Posted, Reading, Waiting, Where,
     Main, Send, Recv, Threads, Workers, Setup
<1>2. PacedInv /\ [Next]_vars => StartedInv' /\ FlowInv'
  BY PacedStep
<1>3. PacedInv => NeverStarved
  <2> SUFFICES ASSUME PacedInv, pc["recv"] \in {"read1", "read2"}, Usable
               PROVE  queued + owed > 0
    BY DEF NeverStarved, At
  <2> USE DEF PacedInv, WordInv, LifeInv, TypeInv, TypeOK
  <2>1. Recv = pc["recv"] /\ rec_count \in Nat /\ delivered \in Nat
    BY DEF Recv, Where, Handler, Threads, Workers
  <2>2. /\ data + queued + owed = Replies * delivered
        /\ delivered >= rec_count + 1
        /\ data <= 2 * rec_count + 1
    BY <2>1 DEF FlowInv, DataInv, Reading, Intact, Usable
  <2>3. Replies * delivered >= 2 * delivered
    BY <2>1, EptLoopAssumption DEF PacingAssumption
  <2> QED  BY <2>1, <2>2, <2>3, EptLoopAssumption
<1>4. QED  BY <1>1, <1>2, <1>3, WordCorrect, PTL DEF Spec, PacedInv

-----------------------------------------------------------------------------
(* What the driver sees. *)

Seen == <<Phase, Opened, Made, Owner, Destroyed, Abandoned>>

\* The steps of RpmsgEndpoints, in terms of what the driver sees.
LEMMA Stutters ==
    ASSUME UNCHANGED Seen PROVE UNCHANGED Driver!vars
BY DEF Seen, Driver!vars

LEMMA OneNumber == Driver!Numbers = {0}
BY DEF Driver!Numbers

LEMMA Starts ==
    ASSUME Phase = "idle", Phase' = "create",
           UNCHANGED <<Opened, Made, Owner, Destroyed, Abandoned>>
    PROVE  Driver!Next
BY DEF Driver!Next, Driver!Start

LEMMA Creates ==
    ASSUME Phase = "create", Owner = "free",
           Phase' = "open", Made' = 0, Owner' = Program.name,
           Abandoned' = Abandoned \ {0}, UNCHANGED <<Opened, Destroyed>>
    PROVE  Driver!Next
<1>1. Driver!LowestFree(0)
  BY OneNumber DEF Driver!LowestFree
<1>2. Driver!Create(Program)
  BY <1>1, OneNumber DEF Driver!Create
<1> QED  BY <1>2 DEF Driver!Next

LEMMA Opens ==
    ASSUME Phase = "open", Owner # "free", Destroyed = {},
           Phase' = "signal", Opened' = 0,
           UNCHANGED <<Made, Owner, Destroyed, Abandoned>>
    PROVE  Driver!Next
BY DEF Driver!Next, Driver!Open, Driver!Exists, Program

\* On from signal, work or destroy.
LEMMA Advances ==
    ASSUME <<Phase, Phase'>> \in {<<"signal", "work">>, <<"work", "destroy">>},
           UNCHANGED <<Opened, Made, Owner, Destroyed, Abandoned>>
    PROVE  Driver!Next
BY DEF Driver!Next, Driver!Signal, Driver!Work

LEMMA DestroyWorks ==
    ASSUME Phase \in {"destroy", "close"}, Phase' = "close",
           Destroyed' = Destroyed \cup {Opened}, Abandoned' = Abandoned \ {Opened},
           UNCHANGED <<Opened, Made, Owner>>
    PROVE  Driver!Next
BY DEF Driver!Next, Driver!Destroy, Driver!Destroys, Program

LEMMA DestroyRefused ==
    ASSUME Phase = "destroy", Phase' = "close",
           Abandoned' = Abandoned \cup ({Opened} \ Destroyed),
           UNCHANGED <<Opened, Made, Owner, Destroyed>>
    PROVE  Driver!Next
BY DEF Driver!Next, Driver!DestroyFails, Driver!Destroys, Program

LEMMA Closes ==
    ASSUME Phase = "close", Opened = 0, Destroyed \in {{}, {0}},
           Phase' = "idle", Opened' = -1, Made' = -1, Destroyed' = {},
           Owner' = (IF 0 \in Destroyed THEN "free" ELSE Owner),
           UNCHANGED Abandoned
    PROVE  Driver!Next
<1>1. Driver!Released(Program) = Destroyed
  BY DEF Driver!Released
<1>2. Driver!Leave(Program)
  BY <1>1, OneNumber DEF Driver!Leave, Driver!None
<1> QED  BY <1>2 DEF Driver!Next, Driver!Close

LEMMA LeavesEarly ==
    ASSUME Phase \in {"create", "open", "signal", "work"}, Destroyed = {},
           Phase' = "idle", Opened' = -1, Made' = -1, UNCHANGED <<Owner, Destroyed>>,
           Abandoned' = Abandoned \cup ({Made} \ {-1})
    PROVE  Driver!Next
<1>1. Driver!Released(Program) = {}
  BY DEF Driver!Released
<1>2. Driver!Leave(Program)
  BY <1>1, OneNumber DEF Driver!Leave, Driver!None
<1>3. Driver!LeaveEarly(Program)
  BY <1>2 DEF Driver!LeaveEarly, Driver!None
<1> QED
  BY <1>3 DEF Driver!Next, Driver!CreateFails, Driver!OpenFails, Driver!WorkFails,
     Driver!Sigint, Program

-----------------------------------------------------------------------------

LEMMA DriverStep ==
    ASSUME LifeInv, LifeInv', [Next]_vars
    PROVE  Driver!Next \/ UNCHANGED Driver!vars
<1> USE DEF LifeInv, TypeInv, TypeOK, ThreadInv, ResourceInv, Tried, Opening, Setup, Cleanup,
     Handler, MainPoints, SendPoints, RecvPoints, Workers, Threads, At, Goto, Where,
     Main, Send, Recv, procVars, fdVars, Gone, PhaseOfMain, Phase, Opened, Made, Owner,
     Destroyed, Abandoned, Program
<1>1. CASE MainOpenCtrl
  <2>1. CASE proc' = proc
    BY <1>1, <2>1, Starts DEF MainOpenCtrl
  <2>2. CASE proc' # proc
    BY <1>1, <2>2, Stutters DEF MainOpenCtrl, Seen
  <2> QED  BY <2>1, <2>2
<1>2. CASE MainCreateEpt
  <2>1. CASE proc' = proc
    BY <1>2, <2>1, Creates DEF MainCreateEpt
  <2>2. CASE proc' # proc
    BY <1>2, <2>2, LeavesEarly DEF MainCreateEpt
  <2> QED  BY <2>1, <2>2
<1>3. CASE MainOpenEpt
  <2>1. CASE proc' = proc
    BY <1>3, <2>1, Opens DEF MainOpenEpt
  <2>2. CASE proc' # proc
    BY <1>3, <2>2, LeavesEarly DEF MainOpenEpt
  <2> QED  BY <2>1, <2>2
<1>4. CASE MainSignal
  BY <1>4, Advances DEF MainSignal
<1>5. CASE MainSpawnSend \/ MainSpawnRecv
  BY <1>5, Stutters DEF MainSpawnSend, MainSpawnRecv, Spawn, Seen
<1>6. CASE MainJoinSend \/ MainJoinRecv
  <2>1. CASE proc' # proc
    BY <1>6, <2>1, LeavesEarly DEF MainJoinSend, MainJoinRecv, Join
  <2>2. CASE proc' = proc /\ MainJoinSend
    BY <2>2, Stutters DEF MainJoinSend, Join, Seen
  <2>3. CASE proc' = proc /\ MainJoinRecv
    BY <2>3, Advances DEF MainJoinRecv, Join
  <2> QED  BY <1>6, <2>1, <2>2, <2>3
<1>7. ASSUME NEW t \in Threads, NEW point \in {"destroy", "h_destroy"},
             NEW next \in {"close_ept", "h_close_ept"}, DestroyEpt(t, point, next),
             t = "main" \/ point = "h_destroy"
      PROVE  Driver!Next \/ UNCHANGED Driver!vars
  <2>1. CASE fd_ept = "open" /\ endpoint = "live" /\ endpoint' = "destroyed"
    BY <1>7, <2>1, DestroyWorks DEF DestroyEpt
  <2>2. CASE fd_ept = "open" /\ endpoint' = "live" /\ refusals = 0
    BY <1>7, <2>2, DestroyRefused DEF DestroyEpt
  <2>3. CASE fd_ept # "open" \/ endpoint = "destroyed" \/ (endpoint' = "live" /\ refusals > 0)
    BY <1>7, <2>3, Stutters DEF DestroyEpt, Seen
  <2>4. endpoint \in {"live", "destroyed"}
    BY <1>7 DEF DestroyEpt
  <2> QED  BY <1>7, <2>1, <2>2, <2>3, <2>4 DEF DestroyEpt
<1>8. ASSUME NEW t \in Threads, NEW point \in {"close_ept", "h_close_ept"},
             NEW next \in {"close_ctrl", "h_close_ctrl"}, CloseEpt(t, point, next)
      PROVE  Driver!Next \/ UNCHANGED Driver!vars
  <2>1. CASE fd_ept = "open"
    BY <1>8, <2>1, Closes DEF CloseEpt
  <2>2. CASE fd_ept # "open"
    BY <1>8, <2>2, Stutters DEF CloseEpt, Seen
  <2> QED  BY <2>1, <2>2
<1>9. ASSUME NEW t \in Threads, NEW point \in {"close_ctrl", "h_close_ctrl"},
             NEW next \in {"exit", "h_exit"}, CloseCtrl(t, point, next)
      PROVE  Driver!Next \/ UNCHANGED Driver!vars
  BY <1>9, Stutters DEF CloseCtrl, Seen
<1>10. ASSUME NEW t \in Threads, NEW point \in {"exit", "h_exit"}, Exit(t, point)
       PROVE  Driver!Next \/ UNCHANGED Driver!vars
  BY <1>10, Stutters DEF Exit, Seen
<1>11. CASE SendStep
  BY <1>11, Stutters DEF SendStep, SendLock, SendWrite, SendUnlock, SendReturn, Seen
<1>12. CASE RecvStep
  BY <1>12, Stutters DEF RecvStep, RecvStart, RecvLock, RecvRead1, RecvRead2, Read,
     RecvUnlock, RecvCount, RecvReturn, Seen
<1>13. CASE Sigint
  <2>1. CASE proc' = "killed"
    <3>1. CASE pc["main"] = "open_ctrl"
      BY <1>13, <2>1, <3>1, Stutters DEF Sigint, Interrupt, Seen
    <3>2. CASE pc["main"] # "open_ctrl"
      BY <1>13, <2>1, <3>2, LeavesEarly DEF Sigint, Interrupt
    <3> QED  BY <3>1, <3>2
  <2>2. CASE proc' = proc /\ Interrupt("main")
    <3>1. CASE Phase = "work"
      BY <1>13, <2>2, <3>1, Advances DEF Sigint, Interrupt
    <3>2. CASE Phase # "work"
      BY <1>13, <2>2, <3>2, Stutters DEF Sigint, Interrupt, Seen
    <3> QED  BY <3>1, <3>2
  <2>3. ASSUME proc' = proc, NEW t \in Workers, Interrupt(t)
        PROVE  UNCHANGED Driver!vars
    BY <1>13, <2>3, Stutters DEF Sigint, Interrupt, Seen
  <2> QED  BY <1>13, <2>1, <2>2, <2>3 DEF Sigint, Interrupt
<1>14. CASE Answer \/ Tick \/ UNCHANGED vars
  BY <1>14, Stutters DEF Answer, Tick, vars, Seen, wireVars, loopVars
<1> QED
  BY <1>1, <1>2, <1>3, <1>4, <1>5, <1>6, <1>7, <1>8, <1>9, <1>10, <1>11, <1>12, <1>13,
     <1>14
  DEF Next, MainStep, MainDestroy, MainCloseEpt, MainCloseCtrl, MainExit, HandlerStep,
     HandlerDestroy, HandlerCloseEpt, HandlerCloseCtrl, HandlerExit, Terminated

\* Whatever the threads do, whatever fails and wherever SIGINT strikes, the
\* driver sees one program of RpmsgEndpoints (the whole program, 78-125).
THEOREM Implements == Spec => ImplementsProgram
<1>1. Init => Driver!Init
  BY OneNumber DEF Init, Driver!Init, Driver!None, Gone, Phase, PhaseOfMain, Opened, Made,
     Owner, Destroyed, Abandoned, Where, Threads, Workers
<1>2. LifeInv /\ LifeInv' /\ [Next]_vars => [Driver!Next]_(Driver!vars)
  BY DriverStep
<1>3. QED  BY <1>1, <1>2, LifeCorrect, PTL DEF Spec, ImplementsProgram, Driver!Spec

=============================================================================
