------------------------------- MODULE ExtSys -------------------------------
(***************************************************************************)
(* The external system test application (test-app_es0_mhu0.c).  One of its *)
(* tests takes the external system (ES) through a reset; the other does    *)
(* the same, without looking at the result, and then sends the ES a        *)
(* command and waits for its answer.  Processes run either test, again and *)
(* again, one after the other or at the same time.                         *)
(*                                                                         *)
(* External to src/ and modelled from how the tests use them: the reset    *)
(* control of the ES, which answers a request with a status, and the ES,   *)
(* which after a reset waits until the wait of its CPU is disabled, boots, *)
(* and answers commands it receives while it runs; and the rpmsg driver of *)
(* RpmsgEndpoints, here its number 0 only: an endpoint, and what waits in  *)
(* it, outlives the process that made it unless it is destroyed.           *)
(***************************************************************************)
EXTENDS Integers, Sequences

CONSTANTS
    Resetters,  \* processes that run the reset test
    Talkers,    \* processes that run the MHU test
    OLD,        \* stands for a run that has ended
    Backlog,    \* bound: the MHU test is not started with so many answers waiting
    Settings    \* the settings to consider, one for each behaviour: records of
                \*   alone     tests are started one after the other only
                \*   prompt    the reset control answers in 100 us, and the ES
                \*             boots in a second
                \*   verdicts  the control's answers to a request
                \*   failing   what may go wrong

Procs == Resetters \cup Talkers

ASSUME ExtSysAssumption ==
    /\ Resetters \cap Talkers = {}
    /\ OLD \notin Talkers
    /\ Backlog \in Nat
    /\ Settings \subseteq
         [alone : BOOLEAN, prompt : BOOLEAN,
          verdicts : SUBSET {"accept", "decline"} \ {{}},
          failing : SUBSET {"open", "ioctl", "drop", "release", "write", "read", "kill"}]

VARIABLES
    setting,    \* the setting of this behaviour; never changes
    pc,         \* the next call of each process; "off" while it does not run
    accepted,   \* in es_reset_test: the branch the process is in
    code,       \* its status, then its result and that of the run
    printed,    \* what the MHU test printed as received: what it "sent" itself, the
                \* answer to its "own" command or to some "other"
    req,        \* the reset request
    st,         \* status of the reset control, its bits of mask 0x7
    cpu,        \* the ES: "waiting", "booting" or "running"
    inbox,      \* whose commands the ES has; it has no buffer for two of a kind
    rpmsg0,     \* the endpoint /dev/rpmsg0: "live", "destroyed" but open, or "free"
    outbox,     \* whose commands the answers that wait in it belong to
    leftover,   \* talkers that found commands or answers there already (history)
    killed,     \* talkers that were ever killed (history)
    reset       \* whether the ES was in reset while the process ran (history)

control == <<req, st>>
ept == <<rpmsg0, outbox, leftover, killed>>
es == <<cpu, inbox, ept>>
vars == <<setting, pc, accepted, code, printed, control, es, reset>>

NONE == 2       \* no result yet, or killed

\* The status: no request, declined, accepted; the ioctl's -1, masked.
IDLE == 0
ABORTED == 2
COMPLETE == 4
ERROR == 7

Points == {"off", "create", "open_ept", "open", "request", "status", "drop", "confirm", "release",
           "close", "write", "read",
           "destroy"}
Handshake == {"status", "drop", "confirm"}

Init ==
    /\ setting \in Settings
    /\ pc = [p \in Procs |-> "off"]
    /\ accepted = [p \in Procs |-> FALSE]
    /\ code = [p \in Procs |-> NONE]
    /\ printed = [p \in Procs |-> "none"]
    /\ req = FALSE /\ st = IDLE
    /\ cpu = "waiting" /\ inbox = {}
    /\ rpmsg0 = "free" /\ outbox = <<>> /\ leftover = {} /\ killed = {}
    /\ reset = [p \in Procs |-> FALSE]

At(p, point) == pc[p] = point
Goto(p, point) == pc' = [pc EXCEPT ![p] = point]
Result(p, r) == code' = [code EXCEPT ![p] = r]
Off(p, r) == Goto(p, "off") /\ Result(p, r)
May(failure) == failure \in setting.failing

-----------------------------------------------------------------------------
(* The external system and its reset control. *)

Accept ==
    /\ req /\ st = IDLE /\ "accept" \in setting.verdicts
    /\ st' = COMPLETE /\ cpu' = "waiting" /\ inbox' = {}
    /\ reset' = [p \in Procs |-> reset[p] \/ ~At(p, "off")]
    /\ UNCHANGED <<pc, accepted, code, printed, req, ept>>

Decline ==
    /\ req /\ st = IDLE /\ "decline" \in setting.verdicts
    /\ st' = ABORTED
    /\ UNCHANGED <<pc, accepted, code, printed, req, es, reset>>

Settle ==
    /\ ~req /\ st # IDLE /\ st' = IDLE
    /\ UNCHANGED <<pc, accepted, code, printed, req, es, reset>>

\* Held in reset it does not boot.
Boot ==
    /\ cpu = "booting" /\ st # COMPLETE
    /\ cpu' = "running"
    /\ UNCHANGED <<pc, accepted, code, printed, control, inbox, ept, reset>>

\* The answer to one command goes to the endpoint that is there by then.
Answer(sender) ==
    /\ cpu = "running" /\ sender \in inbox
    /\ inbox' = inbox \ {sender}
    /\ outbox' = IF rpmsg0 = "live" THEN Append(outbox, sender) ELSE outbox
    /\ UNCHANGED <<pc, accepted, code, printed, control, cpu, rpmsg0, leftover, killed, reset>>

\* A prompt control has reacted when the usleep(100) is over.
Settled == setting.prompt => (req <=> st # IDLE)

\* What the status ioctl returns, masked.
Status == {st} \cup IF May("ioctl") THEN {ERROR} ELSE {}

-----------------------------------------------------------------------------
(* A test starts, or is killed. *)

\* What an earlier run of p has sent is not this run's.
Renamed(p, sender) == IF sender = p THEN OLD ELSE sender

Start(p) ==
    /\ At(p, "off") /\ (setting.alone => \A q \in Procs : At(q, "off"))
    /\ p \in Talkers => Len(outbox) < Backlog
    /\ Goto(p, IF p \in Talkers THEN "create" ELSE "open")
    /\ Result(p, NONE)
    /\ accepted' = [accepted EXCEPT ![p] = FALSE]
    /\ printed' = [printed EXCEPT ![p] = "none"]
    /\ reset' = [reset EXCEPT ![p] = st = COMPLETE]
    /\ inbox' = {Renamed(p, sender) : sender \in inbox}
    /\ outbox' = [k \in 1..Len(outbox) |-> Renamed(p, outbox[k])]
    /\ leftover' = leftover \ {p}
    /\ UNCHANGED <<control, cpu, rpmsg0, killed>>

\* Talkers but p that have the device open.
OtherUsers(p) == {q \in Talkers \ {p} : pc[q] \notin {"off", "create", "open_ept"}}

\* Neither test has a handler: the endpoint stays, with all that waits in it.
Kill(p) ==
    /\ ~At(p, "off") /\ May("kill")
    /\ Off(p, NONE)
    /\ rpmsg0' = IF rpmsg0 = "destroyed" /\ OtherUsers(p) = {} THEN "free" ELSE rpmsg0
    /\ killed' = killed \cup ({p} \cap Talkers)
    /\ UNCHANGED <<accepted, printed, control, cpu, inbox, outbox, leftover, reset>>

-----------------------------------------------------------------------------
(* es_reset_test. *)

\* The reset test ends with the result; the MHU test ignores it.
Return(p, r) == IF p \in Talkers THEN Goto(p, "write") /\ UNCHANGED code ELSE Off(p, r)

Open(p) ==
    /\ At(p, "open") /\ Goto(p, "request")
    /\ UNCHANGED <<accepted, code, printed, control, es, reset>>

OpenFails(p) ==
    /\ At(p, "open") /\ May("open") /\ Return(p, 1)
    /\ UNCHANGED <<accepted, printed, control, es, reset>>

\* Mutants of Request: an ES that runs is left alone, and the reset is not
\* requested at all, only looked for.
RequestUnlessRunning(p) ==
    /\ At(p, "request") /\ Goto(p, "status")
    /\ req' = (cpu # "running")
    /\ UNCHANGED <<accepted, code, printed, st, es, reset>>
RequestSkipped(p) ==
    /\ At(p, "request") /\ Goto(p, "status")
    /\ UNCHANGED <<accepted, code, printed, control, es, reset>>

Request(p) ==
    /\ At(p, "request") /\ Goto(p, "status")
    /\ req' = TRUE
    /\ UNCHANGED <<accepted, code, printed, st, es, reset>>

RequestFails(p) ==
    /\ At(p, "request") /\ May("ioctl") /\ Goto(p, "status")
    /\ UNCHANGED <<accepted, code, printed, control, es, reset>>

\* Mutant of ReadStatus: one bit of the status is tested, not the mask.
ReadStatusBit(p) ==
    /\ At(p, "status") /\ Settled
    /\ \E s \in Status : accepted' = [accepted EXCEPT ![p] = s \div 4 = 1]
    /\ Goto(p, "drop")
    /\ UNCHANGED <<code, printed, control, es, reset>>

ReadStatus(p) ==
    /\ At(p, "status") /\ Settled
    /\ \E s \in Status : accepted' = [accepted EXCEPT ![p] = s = COMPLETE]
    /\ Goto(p, "drop")
    /\ UNCHANGED <<code, printed, control, es, reset>>

\* Mutant of Drop: only an accepted request is taken back.
DropAccepted(p) ==
    /\ At(p, "drop") /\ Goto(p, "confirm")
    /\ req' = IF accepted[p] THEN FALSE ELSE req
    /\ UNCHANGED <<accepted, code, printed, st, es, reset>>

Drop(p) ==
    /\ At(p, "drop") /\ Goto(p, "confirm")
    /\ req' = FALSE
    /\ UNCHANGED <<accepted, code, printed, st, es, reset>>

DropFails(p) ==
    /\ At(p, "drop") /\ May("drop") /\ Goto(p, "confirm")
    /\ UNCHANGED <<accepted, code, printed, control, es, reset>>

\* Mutant of Confirm: a cleared status alone counts as a reset.
ConfirmIdle(p) ==
    /\ At(p, "confirm") /\ Settled
    /\ \E s \in Status :
          IF s # IDLE THEN Goto(p, "close") /\ Result(p, -1)
          ELSE Goto(p, "release") /\ UNCHANGED code
    /\ UNCHANGED <<accepted, printed, control, es, reset>>

\* A declined request whose status has cleared also gives 0.
Confirm(p) ==
    /\ At(p, "confirm") /\ Settled
    /\ \E s \in Status :
          IF s # IDLE THEN Goto(p, "close") /\ Result(p, -1)
          ELSE IF accepted[p] THEN Goto(p, "release") /\ UNCHANGED code
          ELSE Goto(p, "close") /\ Result(p, 0)
    /\ UNCHANGED <<accepted, printed, control, es, reset>>

Release(p) ==
    /\ At(p, "release") /\ Goto(p, "close") /\ Result(p, 0)
    /\ cpu' = IF cpu = "waiting" THEN "booting" ELSE cpu
    /\ UNCHANGED <<accepted, printed, control, inbox, ept, reset>>

\* The macro returns from the function; the device stays open.
ReleaseFails(p) ==
    /\ At(p, "release") /\ May("release") /\ Return(p, 1)
    /\ UNCHANGED <<accepted, printed, control, es, reset>>

Close(p) ==
    /\ At(p, "close") /\ Return(p, code[p])
    /\ UNCHANGED <<accepted, printed, control, es, reset>>

CloseFails(p) ==
    /\ At(p, "close") /\ May("open") /\ Return(p, 1)
    /\ UNCHANGED <<accepted, printed, control, es, reset>>

-----------------------------------------------------------------------------
(* es_mhu_test. *)

\* The new endpoint is /dev/rpmsg0 if there is none; else it has another number
\* and is never used.
Create(p) ==
    /\ At(p, "create") /\ Goto(p, "open_ept")
    /\ rpmsg0' = IF rpmsg0 = "free" THEN "live" ELSE rpmsg0
    /\ UNCHANGED <<accepted, code, printed, control, cpu, inbox, outbox, leftover, killed,
                   reset>>

CreateFails(p) ==
    /\ At(p, "create") /\ May("open") /\ Off(p, 1)
    /\ UNCHANGED <<accepted, printed, control, es, reset>>

OpenEpt(p) ==
    /\ At(p, "open_ept") /\ rpmsg0 = "live" /\ Goto(p, "open")
    /\ leftover' = IF inbox = {} /\ outbox = <<>> THEN leftover ELSE leftover \cup {p}
    /\ UNCHANGED <<accepted, code, printed, control, cpu, inbox, rpmsg0, outbox, killed, reset>>

OpenEptFails(p) ==
    /\ At(p, "open_ept") /\ (rpmsg0 # "live" \/ May("open")) /\ Off(p, 1)
    /\ UNCHANGED <<accepted, printed, control, es, reset>>

\* After a second a prompt ES has booted.  One that does not run may lose the
\* command; the result of the write is not looked at.
Write(p) ==
    /\ At(p, "write") /\ (setting.prompt => cpu # "booting")
    /\ Goto(p, "read")
    /\ \/ rpmsg0 = "live" /\ inbox' = inbox \cup {p}
       \/ (cpu # "running" \/ rpmsg0 # "live" \/ May("write")) /\ UNCHANGED inbox
    /\ UNCHANGED <<accepted, code, printed, control, cpu, ept, reset>>

\* Mutant of Read: nothing waits for the answer.
ReadAtOnce(p) ==
    /\ At(p, "read") /\ Goto(p, "destroy")
    /\ printed' = [printed EXCEPT ![p] = "sent"]
    /\ UNCHANGED <<accepted, code, control, es, reset>>

\* Whatever waits first is taken for the answer.
Read(p) ==
    /\ At(p, "read") /\ rpmsg0 = "live" /\ outbox # <<>>
    /\ Goto(p, "destroy")
    /\ printed' = [printed EXCEPT ![p] = IF Head(outbox) = p THEN "own" ELSE "other"]
    /\ outbox' = Tail(outbox)
    /\ UNCHANGED <<accepted, code, control, cpu, inbox, rpmsg0, leftover, killed, reset>>

\* The message that was sent is printed as the one received.
ReadFails(p) ==
    /\ At(p, "read") /\ (rpmsg0 # "live" \/ May("read"))
    /\ Goto(p, "destroy")
    /\ printed' = [printed EXCEPT ![p] = "sent"]
    /\ UNCHANGED <<accepted, code, control, es, reset>>

\* The endpoint goes, and the answers that wait in it; not the commands.
Destroyed(p) ==
    /\ rpmsg0' = IF OtherUsers(p) = {} THEN "free" ELSE "destroyed"
    /\ outbox' = <<>>
    /\ UNCHANGED <<cpu, inbox, leftover, killed>>

Destroy(p) ==
    /\ At(p, "destroy") /\ Off(p, 0)
    /\ Destroyed(p)
    /\ UNCHANGED <<accepted, printed, control, reset>>

\* The ioctl fails and nothing is destroyed, or one of the closes does later.
DestroyFails(p) ==
    /\ At(p, "destroy") /\ May("open") /\ Off(p, 1)
    /\ \/ /\ rpmsg0' = IF rpmsg0 = "destroyed" /\ OtherUsers(p) = {} THEN "free" ELSE rpmsg0
          /\ UNCHANGED <<cpu, inbox, outbox, leftover, killed>>
       \/ Destroyed(p)
    /\ UNCHANGED <<accepted, printed, control, reset>>

-----------------------------------------------------------------------------

ProcStep(p) ==
    \/ Open(p) \/ Request(p) \/ ReadStatus(p) \/ Drop(p) \/ Confirm(p)
    \/ Release(p) \/ Close(p)
    \/ Create(p) \/ OpenEpt(p) \/ Write(p) \/ Read(p) \/ Destroy(p)

Failure(p) ==
    \/ OpenFails(p) \/ RequestFails(p) \/ DropFails(p) \/ ReleaseFails(p) \/ CloseFails(p)
    \/ CreateFails(p) \/ OpenEptFails(p) \/ ReadFails(p) \/ DestroyFails(p) \/ Kill(p)

EsStep == Accept \/ Decline \/ Settle \/ Boot \/ \E sender \in Talkers \cup {OLD} : Answer(sender)

Step == EsStep \/ \E p \in Procs : Start(p) \/ ProcStep(p) \/ Failure(p)

Next == Step /\ UNCHANGED setting

\* The kernel schedules the tests, the ES and its control go on; nobody need
\* start a test, and no call need fail.
Fairness ==
    /\ WF_vars(EsStep /\ UNCHANGED setting)
    /\ \A p \in Procs : WF_vars(ProcStep(p) /\ UNCHANGED setting)

Spec == Init /\ [][Next]_vars
FairSpec == Spec /\ Fairness

-----------------------------------------------------------------------------
(* Properties. *)

\* The shape of the state; a test that is about to disable the wait of the CPU
\* has had its request accepted, and has no result yet (113-122).
TypeOK ==
    /\ setting \in Settings
    /\ pc \in [Procs -> Points]
    /\ accepted \in [Procs -> BOOLEAN] /\ reset \in [Procs -> BOOLEAN]
    /\ code \in [Procs -> {NONE, -1, 0, 1}]
    /\ printed \in [Procs -> {"none", "sent", "own", "other"}]
    /\ req \in BOOLEAN /\ st \in {IDLE, ABORTED, COMPLETE}
    /\ cpu \in {"waiting", "booting", "running"}
    /\ inbox \subseteq Talkers \cup {OLD}
    /\ rpmsg0 \in {"free", "live", "destroyed"} /\ outbox \in Seq(Talkers \cup {OLD})
    /\ leftover \subseteq Talkers /\ killed \subseteq Talkers
    /\ \A p \in Procs : At(p, "release") => accepted[p] /\ code[p] = NONE

\* "External System 0 reset done" is printed only by a run during which the ES
\* was in reset, whatever fails, and whoever else uses the control (110-122).
DoneMeansReset ==
    \A p \in Procs : accepted[p] /\ code[p] = 0 => reset[p]

\* While no test is in its handshake nobody holds the ES in reset, unless a test
\* was killed or could not take its request back: a test takes back also the
\* request of another that is declined (111, 127).
RequestDropped ==
    ~May("kill") /\ ~May("drop") /\ (\A p \in Procs : pc[p] \notin Handshake) => ~req

\* Tests run one after the other, the control is prompt and accepts, and nothing
\* fails, though a test may be killed.
Favourable ==
    /\ setting.alone /\ setting.prompt
    /\ setting.verdicts = {"accept"} /\ setting.failing \subseteq {"kill"}

\* Then the MHU test comes to its end, each time, even after tests that were
\* killed anywhere (141-189).
TalkerEnds == \A p \in Talkers : []<>(Favourable => At(p, "off"))

\* And what it prints is the answer to its own command, from an ES that was reset
\* for this very run, not from one that an earlier test left running; unless, when
\* it opened /dev/rpmsg0, the command or the answer of an earlier run was still
\* about.  Only a test that was killed leaves one (154-185).
FreshAnswer ==
    Favourable =>
        /\ \A p \in Talkers :
              /\ printed[p] = "own" => reset[p]
              /\ printed[p] = "other" => p \in leftover
        /\ leftover # {} => killed # {}
=============================================================================
