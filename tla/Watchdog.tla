------------------------------ MODULE Watchdog ------------------------------
(***************************************************************************)
(* The watchdog control program (wdg_ctl.c): it opens the watchdog, which  *)
(* arms it, sets its timeout, and then takes commands from its input:      *)
(* 'w' and 'i' kick the watchdog, 'x' quits, writing the magic 'V' before  *)
(* the device is closed.  Any number of processes run it, again and again. *)
(*                                                                         *)
(* External to src/ and modelled from how the program uses it, in the      *)
(* words of its comments (45, 95-101): the watchdog driver.  The device    *)
(* opens for one process at a time; open and a kick load the timer; a      *)
(* close disarms only if the last write was 'V', also the kernel's close   *)
(* of a process that ends.                                                 *)
(***************************************************************************)
EXTENDS Integers

CONSTANTS
    Procs,      \* processes that run the program
    DEFAULT,    \* timeout of the driver when it is opened, in ticks
    interval,   \* timeout the program sets; 500 seconds in the code
    Pace,       \* most ticks from a step of a diligent program to the next
    Settings    \* the settings to consider, one for each behaviour: records of
                \* diligent, whether the user types 'w', 'i' or 'x' in time and
                \* the program is scheduled in time, and failing, what may go wrong

Nobody == "nobody"

ASSUME WatchdogAssumption ==
    /\ DEFAULT \in Nat \ {0} /\ interval \in Nat \ {0} /\ Pace \in Nat
    /\ Settings \subseteq [diligent : BOOLEAN,
                           failing  : SUBSET {"open", "ioctl", "write", "kill"}]
    /\ Nobody \notin Procs

VARIABLES
    setting,    \* the setting of this behaviour; never changes
    pc,         \* the next call of each process; "off" while it does not run
    user,       \* the process that has the device open, or Nobody
    armed,      \* the watchdog counts
    left,       \* ticks left to it
    magic,      \* the last write was 'V'
    up,         \* FALSE once the watchdog has reset the machine
    quiet       \* ticks since a diligent user's last step

device == <<user, armed, left, magic>>
vars == <<setting, pc, device, up, quiet>>

MayFail(what) == what \in setting.failing

Points == {"off", "open", "settimeout", "gettimeout", "getchar", "eof",
           "write", "ioctl", "goodbye", "close"}
Max2(a, b) == IF a > b THEN a ELSE b

Init ==
    /\ setting \in Settings
    /\ pc = [p \in Procs |-> "off"]
    /\ user = Nobody /\ armed = FALSE /\ left = 0 /\ magic = FALSE
    /\ up = TRUE
    /\ quiet = 0

At(p, point) == up /\ pc[p] = point
Goto(p, point) ==
    /\ pc' = [pc EXCEPT ![p] = point]
    /\ quiet' = IF user \in {p, Nobody} THEN 0 ELSE quiet
    /\ UNCHANGED <<up, setting>>

-----------------------------------------------------------------------------
(* The driver. *)

Arm(p) == user' = p /\ armed' = TRUE /\ left' = DEFAULT /\ magic' = FALSE

Load(ticks) == left' = ticks /\ UNCHANGED <<user, armed>>

\* Every write kicks; only a 'V' leaves the magic behind.
Write(v) == Load(interval) /\ magic' = (v = "V")

Release ==
    /\ user' = Nobody
    /\ armed' = ~magic
    /\ left' = IF magic THEN 0 ELSE left
    /\ magic' = FALSE

-----------------------------------------------------------------------------
(* The program. *)

Start(p) == At(p, "off") /\ Goto(p, "open") /\ UNCHANGED device

Open(p) ==
    /\ At(p, "open") /\ user = Nobody
    /\ Arm(p)
    /\ Goto(p, "settimeout")

OpenFails(p) ==
    /\ At(p, "open")
    /\ user # Nobody \/ MayFail("open")
    /\ Goto(p, "off")
    /\ UNCHANGED device

\* An exit with the device open: the kernel closes it.
Exit(p) == Release /\ Goto(p, "off")

\* Mutant of SetTimeout: the timeout stays what the driver made it.
SetTimeoutSkipped(p) ==
    /\ At(p, "settimeout")
    /\ Goto(p, "gettimeout")
    /\ UNCHANGED device

SetTimeout(p) ==
    /\ At(p, "settimeout")
    /\ Load(interval) /\ UNCHANGED magic
    /\ Goto(p, "gettimeout")

\* Reading the timeout; enabling an armed watchdog and reading the time left
\* change nothing either, and their results are ignored.
GetTimeout(p) ==
    /\ At(p, "gettimeout")
    /\ Goto(p, "getchar")
    /\ UNCHANGED device

TimeoutFails(p) ==
    /\ At(p, "settimeout") \/ At(p, "gettimeout")
    /\ MayFail("ioctl")
    /\ Exit(p)

\* The command that getchar returns, "other" also for a newline.  At the end of the input it returns for
\* ever what the program takes for an unknown command.
After == [w |-> "write", i |-> "ioctl", x |-> "goodbye", other |-> "getchar", eof |-> "eof"]

Getchar(p) ==
    /\ At(p, "getchar")
    /\ \E c \in IF setting.diligent THEN {"w", "i", "x"} ELSE DOMAIN After :
         Goto(p, After[c])
    /\ UNCHANGED device

\* Mutant of GetcharAgain: the end of the input ends the loop.
GetcharStops(p) == At(p, "eof") /\ Goto(p, "goodbye") /\ UNCHANGED device

GetcharAgain(p) == At(p, "eof") /\ Goto(p, "eof") /\ UNCHANGED device

\* Mutants of Kick: 'i' does nothing, and a kick writes 'V'.
KickByWriteOnly(p) ==
    \/ At(p, "write") /\ Write("w") /\ Goto(p, "getchar")
    \/ At(p, "ioctl") /\ UNCHANGED device /\ Goto(p, "getchar")
KickWithV(p) ==
    \/ At(p, "write") /\ Write("V") /\ Goto(p, "getchar")
    \/ At(p, "ioctl") /\ Load(interval) /\ UNCHANGED magic /\ Goto(p, "getchar")

Kick(p) ==
    \/ At(p, "write") /\ Write("w") /\ Goto(p, "getchar")
    \/ At(p, "ioctl") /\ Load(interval) /\ UNCHANGED magic /\ Goto(p, "getchar")

\* No result is looked at: the program prints that it kicked.
KickFails(p) ==
    /\ \/ At(p, "write") /\ MayFail("write")
       \/ At(p, "ioctl") /\ MayFail("ioctl")
    /\ Goto(p, "getchar")
    /\ UNCHANGED device

\* Mutant of Goodbye: the watchdog is only kicked once more.
GoodbyeWithoutV(p) == At(p, "goodbye") /\ Write("w") /\ Goto(p, "close")

Goodbye(p) == At(p, "goodbye") /\ Write("V") /\ Goto(p, "close")

GoodbyeFails(p) ==
    /\ At(p, "goodbye") /\ MayFail("write")
    /\ Goto(p, "close")
    /\ UNCHANGED device

Close(p) == At(p, "close") /\ Exit(p)

Kill(p) ==
    /\ user = p /\ up /\ MayFail("kill")
    /\ Exit(p)

-----------------------------------------------------------------------------

\* One tick of the timer.  A diligent program makes a step at least every Pace
\* ticks while it has the device open.
Tick ==
    /\ up /\ armed
    /\ setting.diligent /\ user # Nobody => quiet < Pace
    /\ left' = left - 1
    /\ up' = (left > 1)
    /\ quiet' = IF setting.diligent /\ user # Nobody THEN quiet + 1 ELSE quiet
    /\ UNCHANGED <<setting, pc, user, armed, magic>>

\* The program runs, and no call fails that need not.
ProcStep(p) ==
    \/ Open(p) \/ SetTimeout(p) \/ GetTimeout(p) \/ GetcharAgain(p)
    \/ Kick(p) \/ Goodbye(p) \/ Close(p)
    \/ user # Nobody /\ OpenFails(p)

Environment(p) ==
    \/ Start(p) \/ Getchar(p) \/ OpenFails(p) \/ TimeoutFails(p)
    \/ KickFails(p) \/ GoodbyeFails(p) \/ Kill(p)

Next == Tick \/ \E p \in Procs : ProcStep(p) \/ Environment(p)

\* Time passes, and the kernel runs the program; nobody need type.
Fairness == WF_vars(Tick) /\ \A p \in Procs : WF_vars(ProcStep(p))

Spec == Init /\ [][Next]_vars /\ Fairness

-----------------------------------------------------------------------------
(* Properties. *)

\* The shape of the state; only the user is past its open, and while it is the
\* watchdog is armed, ready to be disarmed only after the 'V' (wdg_ctl.c: 45-102).
TypeOK ==
    /\ setting \in Settings
    /\ pc \in [Procs -> Points]
    /\ user \in Procs \cup {Nobody}
    /\ left \in 0..Max2(DEFAULT, interval)
    /\ armed \in BOOLEAN /\ magic \in BOOLEAN /\ up \in BOOLEAN
    /\ quiet \in 0..Pace
    /\ \A p \in Procs : pc[p] \notin {"off", "open"} <=> user = p
    /\ user # Nobody => armed
    /\ magic => user # Nobody /\ pc[user] = "close"

\* Somebody who keeps typing 'w' or 'i' until an 'x' is never reset, from the
\* open to the close, whoever else tries to open the device meanwhile.
NeverReset == setting.diligent /\ setting.failing \subseteq {"open"} => up

\* A quit disarms the watchdog, whatever was typed before it (93-102), if its
\* write does not fail.
QuitDisarms ==
    [][\A p \in Procs :
         At(p, "close") /\ pc'[p] = "off" /\ ~MayFail("write") => ~armed']_vars

\* A program at the end of its input spins without a kick until the machine is
\* reset, unless it is killed (75-93).
EofResets == \A p \in Procs : At(p, "eof") /\ ~MayFail("kill") ~> ~up

\* Watching as a promise: the watchdog is disarmed only if an 'x' was typed in
\* that run, and it resets the machine if the program disappears otherwise.
Promise == INSTANCE DeadMan WITH
    watch <- IF ~up THEN "fired" ELSE IF ~armed THEN "off"
             ELSE IF user = Nobody THEN "abandoned" ELSE "attended",
    bye <- up /\ user # Nobody /\ pc[user] \in {"goodbye", "close"}

ImplementsDeadMan == Promise!Spec
=============================================================================
