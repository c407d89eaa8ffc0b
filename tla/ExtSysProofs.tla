---------------------------- MODULE ExtSysProofs ----------------------------
(***************************************************************************)
(* Proofs about the external system test application                       *)
(* (test-app_es0_mhu0.c), for any number of tests of both kinds:           *)
(*   TypeCorrect  TypeOK is invariant;                                     *)
(*   DoneCorrect  "reset done" is printed only after a reset;              *)
(*   DropCorrect  no request outlives the handshakes;                      *)
(*   AnswerFresh  in favourable circumstances the answer is to the command *)
(*                of this run, from an ES reset for it, unless a killed    *)
(*                run left something behind;                               *)
(*   AnswerComes  there the MHU test never waits for it in vain.           *)
(***************************************************************************)
EXTENDS ExtSys, TLAPS

\* Until it closes the device a test has no result, and only the MHU test goes
\* on from there.
TypeInv ==
    /\ TypeOK
    /\ \A p \in Procs :
         /\ pc[p] \in {"create", "open_ept", "open", "request", "release"} \cup Handshake =>
              code[p] = NONE
         /\ pc[p] \in {"create", "open_ept", "write", "read", "destroy"} => p \in Talkers

\* A test that runs while the ES is held in reset knows it; so does one that
\* has found its request accepted.
ResetInv ==
    /\ \A p \in Procs : st = COMPLETE /\ ~At(p, "off") => reset[p]
    /\ \A p \in Procs : accepted[p] => reset[p]

\* A standing request is somebody's who will take it back.
DropInv ==
    ~May("kill") /\ ~May("drop") /\ req => \E p \in Procs : pc[p] \in {"status", "drop"}

\* In favourable circumstances one test runs, nothing is declined, and the test
\* has its reset when it has looked at the status.
FreshInv ==
    Favourable =>
        /\ \A p, q \in Procs : ~At(p, "off") /\ ~At(q, "off") => p = q
        /\ st # ABORTED
        /\ \A p \in Procs : At(p, "status") => req
        /\ \A p \in Procs :
             pc[p] \notin {"off", "create", "open_ept", "open", "request", "status"} => reset[p]
        /\ \A p \in Talkers : printed[p] = "own" => reset[p]

\* /dev/rpmsg0 is there for the MHU test that runs, and unless the test found
\* something there nothing but its own command or answer is ever about.
Empty == inbox = {} /\ outbox = <<>>

LiveInv ==
    Favourable =>
        /\ rpmsg0 # "destroyed"
        /\ \A p \in Talkers : pc[p] \notin {"off", "create"} => rpmsg0 = "live"

QueueInv ==
    Favourable =>
        /\ \A p \in Talkers \ leftover :
             /\ pc[p] \notin {"off", "create", "open_ept", "read"} => Empty
             /\ At(p, "read") =>
                  \/ inbox \subseteq {p} /\ outbox = <<>>
                  \/ inbox = {} /\ outbox = <<p>>
             /\ printed[p] # "other"
        /\ killed = {} /\ (\A p \in Talkers : pc[p] \in {"off", "create", "open_ept"}) => Empty
        /\ leftover # {} => killed # {}

\* There the handshake goes through: the request is accepted before it is taken
\* back, the status clears before the wait is disabled, and from then on nobody
\* resets the ES again until the test ends.
AwaitInv ==
    Favourable =>
        \A p \in Procs :
            /\ At(p, "drop") => req /\ st = COMPLETE /\ accepted[p]
            /\ At(p, "confirm") => ~req /\ accepted[p]
            /\ pc[p] \in {"release", "close", "write", "read"} => ~req /\ st = IDLE
            /\ pc[p] \in {"close", "write"} => cpu # "waiting"
            /\ At(p, "read") => cpu = "running" /\ (outbox # <<>> \/ p \in inbox)

-----------------------------------------------------------------------------

\* Before anything runs.
LEMMA TypeInit == Init => TypeInv
<1> SUFFICES ASSUME Init PROVE TypeInv
  OBVIOUS
<1>1. \A p \in Procs : pc[p] = "off"
  BY DEF Init
<1>2. outbox \in Seq(Talkers \cup {OLD})
  BY DEF Init
<1>3. TypeOK
  BY <1>1, <1>2 DEF Init, TypeOK, Points, At, NONE, IDLE
<1> QED  BY <1>1, <1>3 DEF TypeInv, Handshake

\* One call keeps the types if each variable it assigns keeps its own.
LEMMA TypeStep == ASSUME TypeInv, [Next]_vars PROVE TypeInv'
<1> USE ExtSysAssumption DEF TypeInv, TypeOK, Handshake, Points, At, Goto, Off, Result, Return,
     May, NONE, IDLE, ABORTED, COMPLETE, ERROR, control, es, ept
<1>1. CASE EsStep /\ UNCHANGED setting
  <2>1. CASE Accept   BY <1>1, <2>1 DEF Accept
  <2>2. CASE Decline  BY <1>1, <2>2 DEF Decline
  <2>3. CASE Settle   BY <1>1, <2>3 DEF Settle
  <2>4. CASE Boot     BY <1>1, <2>4 DEF Boot
  <2>5. ASSUME NEW p \in Talkers \cup {OLD}, Answer(p) PROVE TypeInv'
    BY <1>1, <2>5 DEF Answer
  <2> QED  BY <1>1, <2>1, <2>2, <2>3, <2>4, <2>5 DEF EsStep
<1>2. ASSUME NEW p \in Procs, Start(p) \/ ProcStep(p) \/ Failure(p), UNCHANGED setting
      PROVE  TypeInv'
  <2>1. CASE Start(p)       BY <1>2, <2>1 DEF Start, Renamed, Procs
  <2>2. CASE Open(p)        BY <1>2, <2>2 DEF Open
  <2>3. CASE Request(p)     BY <1>2, <2>3 DEF Request
  <2>4. CASE ReadStatus(p)  BY <1>2, <2>4 DEF ReadStatus
  <2>5. CASE Drop(p)        BY <1>2, <2>5 DEF Drop
  <2>6. CASE Confirm(p)     BY <1>2, <2>6 DEF Confirm
  <2>7. CASE Release(p)     BY <1>2, <2>7 DEF Release
  <2>8. CASE Close(p)       BY <1>2, <2>8 DEF Close
  <2>9. CASE Create(p)      BY <1>2, <2>9 DEF Create
  <2>10. CASE Write(p)      BY <1>2, <2>10 DEF Write
  <2>11. CASE Read(p)       BY <1>2, <2>11 DEF Read
  <2>12. CASE Destroy(p)    BY <1>2, <2>12 DEF Destroy, Destroyed
  <2>13. CASE OpenFails(p)     BY <1>2, <2>13 DEF OpenFails
  <2>14. CASE RequestFails(p)  BY <1>2, <2>14 DEF RequestFails
  <2>15. CASE DropFails(p)     BY <1>2, <2>15 DEF DropFails
  <2>16. CASE ReleaseFails(p)  BY <1>2, <2>16 DEF ReleaseFails
  <2>17. CASE CloseFails(p)    BY <1>2, <2>17 DEF CloseFails
  <2>18. CASE CreateFails(p)   BY <1>2, <2>18 DEF CreateFails
  <2>19. CASE ReadFails(p)     BY <1>2, <2>19 DEF ReadFails
  <2>20. CASE DestroyFails(p)
    <3>1. rpmsg0' \in {"free", "live", "destroyed"} /\ outbox' \in Seq(Talkers \cup {OLD})
      <4>1. CASE Destroyed(p)  BY <4>1 DEF Destroyed
      <4>2. CASE ~Destroyed(p)  BY <2>20, <4>2 DEF DestroyFails
      <4> QED  BY <4>1, <4>2
    <3>2. UNCHANGED <<cpu, inbox, leftover, killed>>
      BY <2>20 DEF DestroyFails, Destroyed
    <3> QED  BY <1>2, <2>20, <3>1, <3>2 DEF DestroyFails
  <2>21. CASE Kill(p)          BY <1>2, <2>21 DEF Kill
  <2>22. CASE OpenEpt(p)       BY <1>2, <2>22 DEF OpenEpt
  <2>23. CASE OpenEptFails(p)  BY <1>2, <2>23 DEF OpenEptFails
  <2> QED
    BY <1>2, <2>1, <2>2, <2>3, <2>4, <2>5, <2>6, <2>7, <2>8, <2>9, <2>10, <2>11, <2>12,
       <2>13, <2>14, <2>15, <2>16, <2>17, <2>18, <2>19, <2>20, <2>21, <2>22, <2>23
    DEF ProcStep, Failure
<1>3. CASE UNCHANGED vars  BY <1>3 DEF vars
<1> QED  BY <1>1, <1>2, <1>3 DEF Next, Step

\* The types, and what a test that disables the wait has behind it (110-122).
THEOREM TypeCorrect == Spec => []TypeOK
<1>1. TypeInv => TypeOK
  BY DEF TypeInv
<1> QED  BY TypeInit, TypeStep, <1>1, PTL DEF Spec

-----------------------------------------------------------------------------

\* Only an accepted request moves the status to COMPLETE, and it tells all.
LEMMA ResetStep == ASSUME TypeInv, ResetInv, [Next]_vars PROVE ResetInv'
<1> USE ExtSysAssumption DEF TypeInv, TypeOK, ResetInv, At, Goto, Off, Result, Return, Points,
     IDLE, ABORTED, COMPLETE, ERROR, Status, control, es, ept
<1>1. CASE EsStep /\ UNCHANGED setting
  <2>1. CASE Accept   BY <1>1, <2>1 DEF Accept
  <2>2. CASE Decline  BY <1>1, <2>2 DEF Decline
  <2>3. CASE Settle   BY <1>1, <2>3 DEF Settle
  <2>4. CASE Boot     BY <1>1, <2>4 DEF Boot
  <2>5. ASSUME NEW p \in Talkers \cup {OLD}, Answer(p) PROVE ResetInv'
    BY <1>1, <2>5 DEF Answer
  <2> QED  BY <1>1, <2>1, <2>2, <2>3, <2>4, <2>5 DEF EsStep
<1>2. ASSUME NEW p \in Procs, Start(p) \/ ProcStep(p) \/ Failure(p), UNCHANGED setting
      PROVE  ResetInv'
  <2>1. CASE Start(p)  BY <1>2, <2>1 DEF Start, Renamed
  <2>2. CASE Open(p)  BY <1>2, <2>2 DEF Open
  <2>3. CASE Request(p)  BY <1>2, <2>3 DEF Request
  <2>4. CASE ReadStatus(p)  BY <1>2, <2>4 DEF ReadStatus
  <2>5. CASE Drop(p)  BY <1>2, <2>5 DEF Drop
  <2>6. CASE Confirm(p)  BY <1>2, <2>6 DEF Confirm
  <2>7. CASE Release(p)  BY <1>2, <2>7 DEF Release
  <2>8. CASE Close(p)  BY <1>2, <2>8 DEF Close
  <2>9. CASE Create(p)  BY <1>2, <2>9 DEF Create
  <2>10. CASE Write(p)  BY <1>2, <2>10 DEF Write
  <2>11. CASE Read(p)  BY <1>2, <2>11 DEF Read
  <2>12. CASE Destroy(p)  BY <1>2, <2>12 DEF Destroy, Destroyed
  <2>13. CASE OpenFails(p)  BY <1>2, <2>13 DEF OpenFails
  <2>14. CASE RequestFails(p)  BY <1>2, <2>14 DEF RequestFails
  <2>15. CASE DropFails(p)  BY <1>2, <2>15 DEF DropFails
  <2>16. CASE ReleaseFails(p)  BY <1>2, <2>16 DEF ReleaseFails
  <2>17. CASE CloseFails(p)  BY <1>2, <2>17 DEF CloseFails
  <2>18. CASE CreateFails(p)  BY <1>2, <2>18 DEF CreateFails
  <2>19. CASE ReadFails(p)  BY <1>2, <2>19 DEF ReadFails
  <2>20. CASE DestroyFails(p)  BY <1>2, <2>20 DEF DestroyFails, Destroyed
  <2>21. CASE Kill(p)  BY <1>2, <2>21 DEF Kill
  <2>22. CASE OpenEpt(p)       BY <1>2, <2>22 DEF OpenEpt
  <2>23. CASE OpenEptFails(p)  BY <1>2, <2>23 DEF OpenEptFails
  <2> QED
    BY <1>2, <2>1, <2>2, <2>3, <2>4, <2>5, <2>6, <2>7, <2>8, <2>9, <2>10, <2>11, <2>12,
       <2>13, <2>14, <2>15, <2>16, <2>17, <2>18, <2>19, <2>20, <2>21, <2>22, <2>23
    DEF ProcStep, Failure
<1>3. CASE UNCHANGED vars  BY <1>3 DEF vars, control, es, ept
<1> QED  BY <1>1, <1>2, <1>3 DEF Next, Step

\* "External System 0 reset done" is printed only by a run during which the ES
\* was in reset (110-122).
THEOREM DoneCorrect == Spec => []DoneMeansReset
<1>1. Init => ResetInv
  BY DEF Init, ResetInv, At
<1>2. ResetInv => DoneMeansReset
  BY DEF ResetInv, DoneMeansReset
<1> QED  BY TypeInit, TypeStep, ResetStep, <1>1, <1>2, PTL DEF Spec

-----------------------------------------------------------------------------

\* Whoever sets the request passes both points before it leaves the handshake.
LEMMA DropStep == ASSUME TypeInv, DropInv, [Next]_vars PROVE DropInv'
<1> USE ExtSysAssumption DEF TypeInv, TypeOK, DropInv, At, Goto, Off, Result, Return, Points, May,
     control, es, ept
<1>1. CASE EsStep /\ UNCHANGED setting
  <2>1. CASE Accept   BY <1>1, <2>1 DEF Accept
  <2>2. CASE Decline  BY <1>1, <2>2 DEF Decline
  <2>3. CASE Settle   BY <1>1, <2>3 DEF Settle
  <2>4. CASE Boot     BY <1>1, <2>4 DEF Boot
  <2>5. ASSUME NEW p \in Talkers \cup {OLD}, Answer(p) PROVE DropInv'
    BY <1>1, <2>5 DEF Answer
  <2> QED  BY <1>1, <2>1, <2>2, <2>3, <2>4, <2>5 DEF EsStep
<1>2. ASSUME NEW p \in Procs, Start(p) \/ ProcStep(p) \/ Failure(p), UNCHANGED setting
      PROVE  DropInv'
  <2>1. CASE Start(p)  BY <1>2, <2>1 DEF Start, Renamed
  <2>2. CASE Open(p)  BY <1>2, <2>2 DEF Open
  <2>3. CASE Request(p)  BY <1>2, <2>3 DEF Request
  <2>4. CASE ReadStatus(p)  BY <1>2, <2>4 DEF ReadStatus
  <2>5. CASE Drop(p)  BY <1>2, <2>5 DEF Drop
  <2>6. CASE Confirm(p)  BY <1>2, <2>6 DEF Confirm
  <2>7. CASE Release(p)  BY <1>2, <2>7 DEF Release
  <2>8. CASE Close(p)  BY <1>2, <2>8 DEF Close
  <2>9. CASE Create(p)  BY <1>2, <2>9 DEF Create
  <2>10. CASE Write(p)  BY <1>2, <2>10 DEF Write
  <2>11. CASE Read(p)  BY <1>2, <2>11 DEF Read
  <2>12. CASE Destroy(p)  BY <1>2, <2>12 DEF Destroy, Destroyed
  <2>13. CASE OpenFails(p)  BY <1>2, <2>13 DEF OpenFails
  <2>14. CASE RequestFails(p)  BY <1>2, <2>14 DEF RequestFails
  <2>15. CASE DropFails(p)  BY <1>2, <2>15 DEF DropFails
  <2>16. CASE ReleaseFails(p)  BY <1>2, <2>16 DEF ReleaseFails
  <2>17. CASE CloseFails(p)  BY <1>2, <2>17 DEF CloseFails
  <2>18. CASE CreateFails(p)  BY <1>2, <2>18 DEF CreateFails
  <2>19. CASE ReadFails(p)  BY <1>2, <2>19 DEF ReadFails
  <2>20. CASE DestroyFails(p)  BY <1>2, <2>20 DEF DestroyFails, Destroyed
  <2>21. CASE Kill(p)  BY <1>2, <2>21 DEF Kill
  <2>22. CASE OpenEpt(p)       BY <1>2, <2>22 DEF OpenEpt
  <2>23. CASE OpenEptFails(p)  BY <1>2, <2>23 DEF OpenEptFails
  <2> QED
    BY <1>2, <2>1, <2>2, <2>3, <2>4, <2>5, <2>6, <2>7, <2>8, <2>9, <2>10, <2>11, <2>12,
       <2>13, <2>14, <2>15, <2>16, <2>17, <2>18, <2>19, <2>20, <2>21, <2>22, <2>23
    DEF ProcStep, Failure
<1>3. CASE UNCHANGED vars  BY <1>3 DEF vars, control, es, ept
<1> QED  BY <1>1, <1>2, <1>3 DEF Next, Step

\* No request outlives the handshakes (111, 127).
THEOREM DropCorrect == Spec => []RequestDropped
<1>1. Init => DropInv
  BY DEF Init, DropInv
<1>2. DropInv => RequestDropped
  BY DEF DropInv, RequestDropped, Handshake
<1> QED  BY TypeInit, TypeStep, DropStep, <1>1, <1>2, PTL DEF Spec

-----------------------------------------------------------------------------

\* One test at a time, and its request stands when it looks at the status.
LEMMA FreshStep == ASSUME TypeInv, ResetInv, FreshInv, [Next]_vars PROVE FreshInv'
<1> USE ExtSysAssumption DEF TypeInv, TypeOK, ResetInv, FreshInv, Favourable, At, Goto, Off,
     Result, Return, Points, May, Settled, IDLE, ABORTED, COMPLETE, control, es, ept, Procs
<1>1. CASE EsStep /\ UNCHANGED setting
  <2>1. CASE Accept   BY <1>1, <2>1 DEF Accept
  <2>2. CASE Decline  BY <1>1, <2>2 DEF Decline
  <2>3. CASE Settle   BY <1>1, <2>3 DEF Settle
  <2>4. CASE Boot     BY <1>1, <2>4 DEF Boot
  <2>5. ASSUME NEW p \in Talkers \cup {OLD}, Answer(p) PROVE FreshInv'
    BY <1>1, <2>5 DEF Answer
  <2> QED  BY <1>1, <2>1, <2>2, <2>3, <2>4, <2>5 DEF EsStep
<1>2. ASSUME NEW p \in Procs, Start(p) \/ ProcStep(p) \/ Failure(p), UNCHANGED setting
      PROVE  FreshInv'
  <2>1. CASE Start(p)  BY <1>2, <2>1 DEF Start, Renamed
  <2>2. CASE Open(p)  BY <1>2, <2>2 DEF Open
  <2>3. CASE Request(p)  BY <1>2, <2>3 DEF Request
  <2>4. CASE ReadStatus(p)  BY <1>2, <2>4 DEF ReadStatus
  <2>5. CASE Drop(p)  BY <1>2, <2>5 DEF Drop
  <2>6. CASE Confirm(p)  BY <1>2, <2>6 DEF Confirm
  <2>7. CASE Release(p)  BY <1>2, <2>7 DEF Release
  <2>8. CASE Close(p)  BY <1>2, <2>8 DEF Close
  <2>9. CASE Create(p)  BY <1>2, <2>9 DEF Create
  <2>10. CASE Write(p)  BY <1>2, <2>10 DEF Write
  <2>11. CASE Read(p)  BY <1>2, <2>11 DEF Read
  <2>12. CASE Destroy(p)  BY <1>2, <2>12 DEF Destroy, Destroyed
  <2>13. CASE OpenFails(p)  BY <1>2, <2>13 DEF OpenFails
  <2>14. CASE RequestFails(p)  BY <1>2, <2>14 DEF RequestFails
  <2>15. CASE DropFails(p)  BY <1>2, <2>15 DEF DropFails
  <2>16. CASE ReleaseFails(p)  BY <1>2, <2>16 DEF ReleaseFails
  <2>17. CASE CloseFails(p)  BY <1>2, <2>17 DEF CloseFails
  <2>18. CASE CreateFails(p)  BY <1>2, <2>18 DEF CreateFails
  <2>19. CASE ReadFails(p)  BY <1>2, <2>19 DEF ReadFails
  <2>20. CASE DestroyFails(p)  BY <1>2, <2>20 DEF DestroyFails, Destroyed
  <2>21. CASE Kill(p)  BY <1>2, <2>21 DEF Kill
  <2>22. CASE OpenEpt(p)       BY <1>2, <2>22 DEF OpenEpt
  <2>23. CASE OpenEptFails(p)  BY <1>2, <2>23 DEF OpenEptFails
  <2> QED
    BY <1>2, <2>1, <2>2, <2>3, <2>4, <2>5, <2>6, <2>7, <2>8, <2>9, <2>10, <2>11, <2>12,
       <2>13, <2>14, <2>15, <2>16, <2>17, <2>18, <2>19, <2>20, <2>21, <2>22, <2>23
    DEF ProcStep, Failure
<1>3. CASE UNCHANGED vars  BY <1>3 DEF vars, control, es, ept
<1> QED  BY <1>1, <1>2, <1>3 DEF Next, Step

\* The device is there from its creation to the end of the test.
LEMMA LiveStep == ASSUME TypeInv, FreshInv, LiveInv, [Next]_vars PROVE LiveInv'
<1> USE ExtSysAssumption DEF TypeInv, TypeOK, FreshInv, LiveInv, Favourable, At, Goto, Off,
     Result, Return, Points, May, control, es, ept, OtherUsers, Procs
<1>1. CASE EsStep /\ UNCHANGED setting
  <2>1. CASE Accept   BY <1>1, <2>1 DEF Accept
  <2>2. CASE Decline  BY <1>1, <2>2 DEF Decline
  <2>3. CASE Settle   BY <1>1, <2>3 DEF Settle
  <2>4. CASE Boot     BY <1>1, <2>4 DEF Boot
  <2>5. ASSUME NEW p \in Talkers \cup {OLD}, Answer(p) PROVE LiveInv'
    BY <1>1, <2>5 DEF Answer
  <2> QED  BY <1>1, <2>1, <2>2, <2>3, <2>4, <2>5 DEF EsStep
<1>2. ASSUME NEW p \in Procs, Start(p) \/ ProcStep(p) \/ Failure(p), UNCHANGED setting
      PROVE  LiveInv'
  <2>1. CASE Start(p)  BY <1>2, <2>1 DEF Start, Renamed
  <2>2. CASE Open(p)  BY <1>2, <2>2 DEF Open
  <2>3. CASE Request(p)  BY <1>2, <2>3 DEF Request
  <2>4. CASE ReadStatus(p)  BY <1>2, <2>4 DEF ReadStatus
  <2>5. CASE Drop(p)  BY <1>2, <2>5 DEF Drop
  <2>6. CASE Confirm(p)  BY <1>2, <2>6 DEF Confirm
  <2>7. CASE Release(p)  BY <1>2, <2>7 DEF Release
  <2>8. CASE Close(p)  BY <1>2, <2>8 DEF Close
  <2>9. CASE Create(p)  BY <1>2, <2>9 DEF Create
  <2>10. CASE Write(p)  BY <1>2, <2>10 DEF Write
  <2>11. CASE Read(p)  BY <1>2, <2>11 DEF Read
  <2>12. CASE Destroy(p)  BY <1>2, <2>12 DEF Destroy, Destroyed
  <2>13. CASE OpenFails(p)  BY <1>2, <2>13 DEF OpenFails
  <2>14. CASE RequestFails(p)  BY <1>2, <2>14 DEF RequestFails
  <2>15. CASE DropFails(p)  BY <1>2, <2>15 DEF DropFails
  <2>16. CASE ReleaseFails(p)  BY <1>2, <2>16 DEF ReleaseFails
  <2>17. CASE CloseFails(p)  BY <1>2, <2>17 DEF CloseFails
  <2>18. CASE CreateFails(p)  BY <1>2, <2>18 DEF CreateFails
  <2>19. CASE ReadFails(p)  BY <1>2, <2>19 DEF ReadFails
  <2>20. CASE DestroyFails(p)  BY <1>2, <2>20 DEF DestroyFails, Destroyed
  <2>21. CASE Kill(p)  BY <1>2, <2>21 DEF Kill
  <2>22. CASE OpenEpt(p)       BY <1>2, <2>22 DEF OpenEpt
  <2>23. CASE OpenEptFails(p)  BY <1>2, <2>23 DEF OpenEptFails
  <2> QED
    BY <1>2, <2>1, <2>2, <2>3, <2>4, <2>5, <2>6, <2>7, <2>8, <2>9, <2>10, <2>11, <2>12,
       <2>13, <2>14, <2>15, <2>16, <2>17, <2>18, <2>19, <2>20, <2>21, <2>22, <2>23
    DEF ProcStep, Failure
<1>3. CASE UNCHANGED vars  BY <1>3 DEF vars, control, es, ept
<1> QED  BY <1>1, <1>2, <1>3 DEF Next, Step

\* Commands and answers come one at a time, and what is left is a killed test's.
LEMMA QueueStep == ASSUME TypeInv, FreshInv, LiveInv, QueueInv, [Next]_vars PROVE QueueInv'
<1> USE ExtSysAssumption DEF TypeInv, TypeOK, FreshInv, LiveInv, QueueInv, Empty, Favourable, At,
     Goto, Off, Result, Return, Points, May, control, es, ept, Procs
<1>1. CASE EsStep /\ UNCHANGED setting
  <2>1. CASE Accept   BY <1>1, <2>1 DEF Accept
  <2>2. CASE Decline  BY <1>1, <2>2 DEF Decline
  <2>3. CASE Settle   BY <1>1, <2>3 DEF Settle
  <2>4. CASE Boot     BY <1>1, <2>4 DEF Boot
  <2>5. ASSUME NEW p \in Talkers \cup {OLD}, Answer(p) PROVE QueueInv'
    <3>1. inbox # {} /\ inbox' \subseteq inbox /\ p \in inbox /\ p \notin inbox'
      BY <2>5 DEF Answer
    <3>2. UNCHANGED <<pc, printed, leftover, killed>> /\ outbox' \in {outbox, Append(outbox, p)}
      BY <2>5 DEF Answer
    <3>3. ASSUME NEW q \in Talkers \ leftover, At(q, "read"), Favourable
          PROVE  inbox' = {} /\ outbox' \in {<<>>, <<q>>}
      <4>1. inbox \subseteq {q} /\ outbox = <<>>
        BY <3>1, <3>3
      <4>2. Append(<<>>, q) = <<q>>
        OBVIOUS
      <4> QED  BY <3>1, <3>2, <4>1, <4>2
    <3> QED  BY <1>1, <3>1, <3>2, <3>3
  <2> QED  BY <1>1, <2>1, <2>2, <2>3, <2>4, <2>5 DEF EsStep
<1>2. ASSUME NEW p \in Procs, Start(p) \/ ProcStep(p) \/ Failure(p), UNCHANGED setting
      PROVE  QueueInv'
  <2>1. CASE Start(p)  BY <1>2, <2>1 DEF Start, Renamed
  <2>2. CASE Open(p)  BY <1>2, <2>2 DEF Open
  <2>3. CASE Request(p)  BY <1>2, <2>3 DEF Request
  <2>4. CASE ReadStatus(p)  BY <1>2, <2>4 DEF ReadStatus
  <2>5. CASE Drop(p)  BY <1>2, <2>5 DEF Drop
  <2>6. CASE Confirm(p)  BY <1>2, <2>6 DEF Confirm
  <2>7. CASE Release(p)  BY <1>2, <2>7 DEF Release
  <2>8. CASE Close(p)  BY <1>2, <2>8 DEF Close
  <2>9. CASE Create(p)  BY <1>2, <2>9 DEF Create
  <2>10. CASE Write(p)  BY <1>2, <2>10 DEF Write
  <2>11. CASE Read(p)  BY <1>2, <2>11 DEF Read
  <2>12. CASE Destroy(p)  BY <1>2, <2>12 DEF Destroy, Destroyed
  <2>13. CASE OpenFails(p)  BY <1>2, <2>13 DEF OpenFails
  <2>14. CASE RequestFails(p)  BY <1>2, <2>14 DEF RequestFails
  <2>15. CASE DropFails(p)  BY <1>2, <2>15 DEF DropFails
  <2>16. CASE ReleaseFails(p)  BY <1>2, <2>16 DEF ReleaseFails
  <2>17. CASE CloseFails(p)  BY <1>2, <2>17 DEF CloseFails
  <2>18. CASE CreateFails(p)  BY <1>2, <2>18 DEF CreateFails
  <2>19. CASE ReadFails(p)  BY <1>2, <2>19 DEF ReadFails
  <2>20. CASE DestroyFails(p)  BY <1>2, <2>20 DEF DestroyFails, Destroyed
  <2>21. CASE Kill(p)  BY <1>2, <2>21 DEF Kill
  <2>22. CASE OpenEpt(p)       BY <1>2, <2>22 DEF OpenEpt
  <2>23. CASE OpenEptFails(p)  BY <1>2, <2>23 DEF OpenEptFails
  <2> QED
    BY <1>2, <2>1, <2>2, <2>3, <2>4, <2>5, <2>6, <2>7, <2>8, <2>9, <2>10, <2>11, <2>12,
       <2>13, <2>14, <2>15, <2>16, <2>17, <2>18, <2>19, <2>20, <2>21, <2>22, <2>23
    DEF ProcStep, Failure
<1>3. CASE UNCHANGED vars  BY <1>3 DEF vars, control, es, ept
<1> QED  BY <1>1, <1>2, <1>3 DEF Next, Step

\* The answer is to this run's command and comes from an ES that was reset for
\* this very run, unless a killed test left something behind (154-185).
THEOREM AnswerFresh == Spec => []FreshAnswer
<1>1. Init => ResetInv /\ FreshInv
  BY DEF Init, ResetInv, FreshInv, Favourable, At, Procs, IDLE, ABORTED
<1>2. Init => LiveInv /\ QueueInv
  BY DEF Init, LiveInv, QueueInv, Empty, Favourable, At, Procs
<1>3. FreshInv /\ QueueInv => FreshAnswer
  BY DEF FreshInv, QueueInv, FreshAnswer
<1> QED
  BY TypeInit, TypeStep, ResetStep, FreshStep, LiveStep, QueueStep, <1>1, <1>2, <1>3, PTL DEF Spec

-----------------------------------------------------------------------------

\* What one call of the only test that runs means for its answer.
LEMMA AwaitStep == ASSUME TypeInv, FreshInv, LiveInv, AwaitInv, [Next]_vars PROVE AwaitInv'
<1> USE ExtSysAssumption DEF TypeInv, TypeOK, FreshInv, LiveInv, AwaitInv, Favourable, At, Goto,
     Off, Result, Return, Points, May, Settled, IDLE, ABORTED, COMPLETE, Status, control, es, ept, Procs
<1>1. CASE EsStep /\ UNCHANGED setting
  <2>1. CASE Accept   BY <1>1, <2>1 DEF Accept
  <2>2. CASE Decline  BY <1>1, <2>2 DEF Decline
  <2>3. CASE Settle   BY <1>1, <2>3 DEF Settle
  <2>4. CASE Boot     BY <1>1, <2>4 DEF Boot
  <2>5. ASSUME NEW p \in Talkers \cup {OLD}, Answer(p) PROVE AwaitInv'
    BY <1>1, <2>5 DEF Answer
  <2> QED  BY <1>1, <2>1, <2>2, <2>3, <2>4, <2>5 DEF EsStep
<1>2. ASSUME NEW p \in Procs, Start(p) \/ ProcStep(p) \/ Failure(p), UNCHANGED setting
      PROVE  AwaitInv'
  <2>1. CASE Start(p)  BY <1>2, <2>1 DEF Start, Renamed
  <2>2. CASE Open(p)  BY <1>2, <2>2 DEF Open
  <2>3. CASE Request(p)  BY <1>2, <2>3 DEF Request
  <2>4. CASE ReadStatus(p)  BY <1>2, <2>4 DEF ReadStatus
  <2>5. CASE Drop(p)  BY <1>2, <2>5 DEF Drop
  <2>6. CASE Confirm(p)  BY <1>2, <2>6 DEF Confirm
  <2>7. CASE Release(p)  BY <1>2, <2>7 DEF Release
  <2>8. CASE Close(p)  BY <1>2, <2>8 DEF Close
  <2>9. CASE Create(p)  BY <1>2, <2>9 DEF Create
  <2>10. CASE Write(p)  BY <1>2, <2>10 DEF Write
  <2>11. CASE Read(p)  BY <1>2, <2>11 DEF Read
  <2>12. CASE Destroy(p)  BY <1>2, <2>12 DEF Destroy, Destroyed
  <2>13. CASE OpenFails(p)  BY <1>2, <2>13 DEF OpenFails
  <2>14. CASE RequestFails(p)  BY <1>2, <2>14 DEF RequestFails
  <2>15. CASE DropFails(p)  BY <1>2, <2>15 DEF DropFails
  <2>16. CASE ReleaseFails(p)  BY <1>2, <2>16 DEF ReleaseFails
  <2>17. CASE CloseFails(p)  BY <1>2, <2>17 DEF CloseFails
  <2>18. CASE CreateFails(p)  BY <1>2, <2>18 DEF CreateFails
  <2>19. CASE ReadFails(p)  BY <1>2, <2>19 DEF ReadFails
  <2>20. CASE DestroyFails(p)  BY <1>2, <2>20 DEF DestroyFails, Destroyed
  <2>21. CASE Kill(p)  BY <1>2, <2>21 DEF Kill
  <2>22. CASE OpenEpt(p)       BY <1>2, <2>22 DEF OpenEpt
  <2>23. CASE OpenEptFails(p)  BY <1>2, <2>23 DEF OpenEptFails
  <2> QED
    BY <1>2, <2>1, <2>2, <2>3, <2>4, <2>5, <2>6, <2>7, <2>8, <2>9, <2>10, <2>11, <2>12,
       <2>13, <2>14, <2>15, <2>16, <2>17, <2>18, <2>19, <2>20, <2>21, <2>22, <2>23
    DEF ProcStep, Failure
<1>3. CASE UNCHANGED vars  BY <1>3 DEF vars, control, es, ept
<1> QED  BY <1>1, <1>2, <1>3 DEF Next, Step

\* The safety half of TalkerEnds: the MHU test never waits for an answer that
\* nobody will give.  The ES runs and has the command, or some answer waits, in
\* spite of tests that were killed anywhere before (159-181).
AnswerDue ==
    Favourable => \A p \in Talkers :
        At(p, "read") => rpmsg0 = "live" /\ (outbox # <<>> \/ (p \in inbox /\ cpu = "running"))

\* The blocking read of the MHU test always has an answer to wait for (180).
THEOREM AnswerComes == Spec => []AnswerDue
<1>1. Init => ResetInv /\ FreshInv /\ LiveInv /\ AwaitInv
  BY DEF Init, ResetInv, FreshInv, LiveInv, AwaitInv, Favourable, At, Procs, IDLE, ABORTED
<1>2. LiveInv /\ AwaitInv => AnswerDue
  BY DEF LiveInv, AwaitInv, AnswerDue, At, Procs
<1> QED
  BY TypeInit, TypeStep, ResetStep, FreshStep, LiveStep, AwaitStep, <1>1, <1>2, PTL DEF Spec
=============================================================================
