# A verification project for the Alif A32 Linux device-driver test cases

The repository holds small Linux programs that exercise the drivers of the Alif
A32 cores: rpmsg endpoints over the message handling units (MHU), the SE
services protocol, hardware semaphores, the watchdog, the external system, the
CRC accelerator and the CDC200 frame buffer.  Each program is short; what is hard
about them is what happens around them: two threads and a signal handler that
share one endpoint and one mutex, remote cores that answer late or not at all,
kernel objects that outlive the process that made them, error paths that leave
early.

Paths below are relative to `src/testcases/`.  "Lines" are source lines.

## 1. Inventory

| Component | State it keeps | Operations | Interaction |
|---|---|---|---|
| In-loop MHU programs, `mhu/pthread_*_inloop.c` (six clones) | control and endpoint descriptors, the kernel's endpoint, `mutex1`, `snd_count`, `rec_count`, the receiver's `data` | set-up, spawn, join, clean-up by main; lock-write-unlock-sleep by the sender; lock-read-read-unlock-sleep by the receiver; clean-up and exit by the SIGINT handler | threads share the endpoint under `mutex1`; a remote core answers each message; the handler runs on top of a thread |
| Endpoint numbering | the kernel's set of endpoints and their device numbers | create, open `/dev/rpmsgN`, destroy | all MHU programs share `/dev/rpmsg_ctrl0`; each names a fixed N |
| SE services client, `mhu/services_se_a32.c` | endpoint, `/dev/mem` mapping, a structure with one block per service | six services: fill the block, write its address, read an address back, compare | memory and endpoint shared with the secure enclave |
| SE services library, `mhu/lib/*` | the same, with all services in one union | the same, after clearing the block | the same memory at `0x0827F000` |
| SE wire formats, `mhu/include/*` | - | layouts and service numbers | used by both clients and the SE |
| Hardware semaphores, `hwsem/*` (three programs) | owner and count of 16 semaphores | lock, unlock, read count | processes contend for the same semaphores |
| Watchdog, `watchdog/wdg_ctl.c` | armed or not, time left | open, set timeout, kick, magic close | a keyboard loop against a timer |
| External system, `mhu/test-app_es0_mhu0.c` | reset request and status, endpoint | reset handshake, one message | polls the external system's reset status |
| CRC, `crc/test_crc.c` | two AF_ALG sockets | bind, accept, send, read | kernel computes |
| Frame buffer, `cdc200/fb_tux.c` | mapped screen memory | place and pack the picture | none |

What makes each correct, and what is hard about it:

* **In-loop programs.** The receiver holds `mutex1` over two blocking reads, so it
  must never start a round before the sender has provoked its two words: the only
  thing that ensures this is `sleep(1)` in both threads.  A round must print the
  two words of one message.  Main must not destroy the endpoint under a running
  thread; however the process ends, the endpoint must not stay in the kernel unless the
  driver refuses to destroy it, and it should be destroyed once.  ^C must work even when the receiver is stuck.
  Hard: three threads and up to three activations of the handler, any call failing.
* **Endpoint numbering.** A program must talk to the endpoint it created.  Hard: a
  leaked endpoint of an earlier program shifts all later numbers.
* **SE services.** A printed result must be the SE's answer to this request.  Hard:
  late answers of a previous run, the single address of the union, two processes
  on one memory block, error exits without clean-up.
* **Hardware semaphores.** Mutual exclusion between processes, the count returns
  to zero, no process waits for ever.  Hard: error exits with a count above zero.
* **Watchdog.** The machine resets only if nobody kicks; leaving through 'x'
  disarms.  Hard: end of input, exits after arming.
* **External system.** Success is reported only if the reset was accepted, and what the
  MHU test prints answers its own command.  Hard: a killed run leaves its endpoint, and
  the answer in it, to the next one.
* **Wire formats, CRC, frame buffer.** Data stays within the mapped area; every
  byte is sent and printed under its right name.

`PROJECT.json` lists every hazard with its line and the properties that cover it.

## 2. Modules and plan

| Module | Models | Abstract specification | Theorems in |
|---|---|---|---|
| `EptLoop` | one in-loop MHU program | a program of `RpmsgEndpoints`, through `EptLoopDriver` | `EptLoopProofs` |
| `RpmsgEndpoints` | the numbering of endpoints, nine programs | - | `RpmsgEndpointsProofs` |
| `SeServices` | both clients of the secure enclave, messages and failures | - | `SeServicesProofs` |
| `ServiceFormats`, `ServiceMemory` | the same clients, bytes in shared memory | - | `ServiceMemoryProofs` |
| `Hwsem` | the three hardware semaphore tests | `HwsemSections` | `HwsemProofs` |
| `Watchdog` | the watchdog program and the timer | `DeadMan` | `WatchdogProofs` |
| `ExtSys` | the external system test application | - | `ExtSysProofs` |
| `Framebuffer` | the framebuffer demo | - | `DeviceTestsProofs` |
| `CrcTest` | the CRC test | - | `DeviceTestsProofs` |

Each has an `MC...` module that instantiates it for TLC and one configuration for each
question, of the same name; `MCDeviceTests` is the instance of the last two, which share
nothing but the run.  Where the same properties are asked under different
circumstances (what may fail, how a semaphore identifies a process, which layout the
memory has), the circumstances are a variable `setting` (`format`, `xrgb`) that is
chosen at the start and never changes, so that one run covers them all and each property
names the circumstances it needs.  In `SeServices` this variable is called `program`.

Every safety invariant that a run checks is also proved, for every value of the constants,
and so are the three refinements, but for the liveness of `DeadMan`.  What TLC alone
checks is liveness; each section names its properties, and for most of them a theorem that
is the safety half of the argument (`Unstarved`, `AnswersBalance`, `NoCircle`, `AnswerComes`,
`FbStaysMapped`): nobody waits for what cannot come, and nothing faults.

Theorem modules: one per component, eight in all.  None of the modules proved about uses
recursion.

## 3. `EptLoop`: one in-loop MHU program

The six programs are clones that differ in names and device numbers; the model is
mapped to `mhu/pthread_m55_he_mhu0_inloop.c`.

**State and actions.**

| Code | Model |
|---|---|
| control flow of main, sender, receiver | `pc["main"]`, `pc["send"]`, `pc["recv"]` |
| handler on top of a thread | `frame[t]` holds where it was interrupted, `pc[t]` is a handler point |
| `fd`, `fd_m55_he_mhu0_ept` | `fd`, `fd_ept`: unset, open, closed |
| the endpoint the driver made | `endpoint`: absent, live, destroyed; it outlives `proc` |
| `mutex1` | its owner |
| `sleep(1)` | `timer[t] = 1`, reset by `Tick` |
| `snd_count`, `rec_count`, `data` | the same; a word is its number in the order of arrival |
| messages on the way | `delivered`, `owed` (answers due), `queued` (words to read) |
| history for properties | `destroys` and `refusals` (destroys that worked and that failed), `shown`, `missed` (reads that failed) |

Each action is one call of the code with what follows it up to the next call that
another thread or the handler can observe: `MainOpenCtrl`, `MainCreateEpt`,
`MainOpenEpt`, `MainSignal`, `MainSpawnSend/Recv`, `MainJoinSend/Recv`,
`MainDestroy`, `MainCloseEpt`, `MainCloseCtrl`, `MainExit`; the handler's four
`Handler...` calls on any thread; `SendLock`, `SendWrite`, `SendUnlock`,
`SendReturn`; `RecvStart` (the initial sleep), `RecvLock`, `RecvRead1/2`,
`RecvUnlock`, `RecvCount`, `RecvReturn`.

External, as the programs use them: `Answer` (the remote core queues the words it
owes, in any delay), `Tick` (time), `Usable` (the driver serves only an open
descriptor of a live endpoint), and the choice of the thread that takes SIGINT:
the main thread first, and while the signal is masked there, because main is in
the handler, another thread.  The signal is fatal before line 102.

Joining a `pthread_t` that `pthread_create` never set is undefined: the model lets
the call return or crash the process (`proc = "crashed"`).  A read may fail on any
endpoint, at any time; it leaves `data` as it was, which is printed anyway (175-185).
A destroy may be refused on an open descriptor; it is only reported, and the endpoint
stays behind (59-61, 117-119).

**Abstractions.** The values of the two words and everything printed; `errno` as
exit status; the failure of `close`, which is not looked at; the race of two threads
inside `exit` (the process ends either way).  A blocked `read` ends when the endpoint
is destroyed.

**Constants and bounds.** `Iterations` (10 in the code) is the bound of every
counter: 2 in `eptloop_paced` and `eptloop_blocking`, 1 in `eptloop_faults`.
Starvation needs two rounds (a sender one second ahead or not), and pairing of words
a second round for the words of two messages to meet; what `eptloop_faults` asks is
about set-up, clean-up and handlers, which lie outside the rounds, so that one round is
there for the handler to interrupt.  The theorems hold for every number.
`Replies = 2`: the receiver is written for two words a message.  `Failing` is the
set of calls that may fail (`SendersWork` all but the two without which the sender has
nothing to send, `AllFailures` all); `Paced` says that the work of a thread takes no time
next to a second (time passes only when all threads sleep or block).

**Fairness.** Weak fairness of each thread's own steps, of each thread's handler,
of `Answer` and of `Tick`: the kernel schedules runnable threads, the remote core
answers what it received, time passes.  A read that waits on a usable endpoint need not
fail (`RecvReturns`): liveness never counts on an error.  No fairness of `Sigint`.  The mutex needs
no strong fairness: with pacing, a thread that waits for it finds it free whenever
the other sleeps.

### Runs

| Run | Setting | Shows |
|---|---|---|
| `eptloop_paced` | every call but `pthread_create` and `write` may fail, paced, 2 rounds | `TypeOK`; `NeverStarved`: the receiver never waits, mutex in hand, for a word nobody will ever send; `PairedWords`: a round prints the two words of one message until a read fails, and from then on each round is late by exactly the words that were missed; `Finishes`: the program ends |
| `eptloop_faults` | every call may fail, any pace, 1 round | `JoinBeforeCleanup`: the endpoint disappears under a running thread only through SIGINT; `NoLeakOnceHandled`: no end of the process after line 102, except a crash in join, leaves a descriptor, nor the endpoint unless a destroy was refused; `SingleDestroy`: a second destroy needs SIGINT in one of two windows; `SigintEnds`: the handler always gets to exit; `ImplementsProgram`: see section 4 |
| `eptloop_blocking` | writes may fail, paced | **violation** of `EmptyReadReturns`, see below |

SIGINT may strike anywhere in all runs, again while a handler runs.  Every property
of a passing run has a mutant of the code's model that breaks it
(`...Missing`, `...Unbounded`, `...WrongFd` and so on, next to the action mutated).

### Finding

The receiver checks each read for `EAGAIN` and prints "No data available" (176-178,
182-184), but the endpoint is opened with `O_RDWR` alone (92), so an empty queue
makes `read` wait.  `eptloop_blocking` shows the consequence: after a failed
write, which the sender only reports (146-148), the receiver waits for ever with
`mutex1` in its hands, and main in `pthread_join` behind it.  The run has the
fairness above, so this is not a matter of scheduling.

### What is proved

`EptLoopProofs`, for every `Iterations`, every `Replies`, every set of failing
calls and both paces unless noted, from `EptLoopAssumption` alone:

* `TypeCorrect`: `TypeOK`.
* `JoinedFirst`, `NothingLeft`, `DestroyedOnce`: `JoinBeforeCleanup`,
  `NoLeakOnceHandled`, `SingleDestroy`.
* `WordsPaired`: `PairedWords`, if `Replies = 2`, reads that fail included.
* `Unstarved`: `NeverStarved`, if time is paced, `spawn` and `write` do not fail
  and `Replies >= 2`.

The invariants are layered, each inductive given the layers before it.
`TypeInv` adds to the types the range of the counters inside a round and which
threads can exist at each point of main; without the latter a spawn could
overwrite a running thread.  `LifeInv` adds what is open at each point of main and
of every running handler: a handler on a worker may finish while main's own handler
has not begun, so the facts are stated per thread.  `WordInv` adds who holds the
mutex and that, while the endpoint is intact, `data` and `missed` together are
`2 * rec_count` plus the reads of the current round.  `PacedInv` adds the argument about time: while the
receiver is asleep the sender has delivered at least as many messages as there were
rounds, and one more once it has written in the current second; when the receiver
may read, each bound is one higher.  Time passes only when the sender sleeps after a
write, is done, or waits for a receiver blocked in `read`, so each tick carries one
bound into the other.

Only model-checked: `Finishes` and `SigintEnds` (liveness).

## 4. `RpmsgEndpoints`: who talks to whose endpoint

Each program creates an endpoint and then opens a device whose number is written in
its source: 0 for `m55_hp_mhu0`, 1 for `m55_hp_mhu1`, 2 and 3 for the HE programs, 4
and 5 for the SE ones, and 0 again for both SE clients and the external system
test.  The driver's answer to the create ioctl does not say which number it gave.

A program is a record: the name it creates, the device it opens, whether it has a
SIGINT handler, whether its work may exit early, whether it ends at once when its
destroy is refused (`checked`).  `phase` follows its set-up and
clean-up: `Start`, `Create`, `Open`, `Signal`, `Work`, `Destroy`, `Close`, each
failing call (`CreateFails`, `OpenFails`, `WorkFails`, `DestroyFails`), and `Sigint`.
When the driver refuses a destroy the endpoint stays: the in-loop programs and the SE
clients report it and go on to close, the external system test returns 1 at once (185).  The work itself
is one step that takes any time.

External, as the programs use it: a new endpoint gets the lowest free number; a
destroyed endpoint keeps its number until no process has it open; an endpoint
outlives its creator.  For the single-threaded programs `Sigint` allows more
repetitions of destroy than the code does.

`Ordered` is the discipline of whoever runs the tests: a program is started only
when the number it names is the next to be given and no other create is under way.
Nothing in the code enforces it; the numbers in the sources make sense only with it.

| Run | Setting | Shows |
|---|---|---|
| `endpoints_ordered` | six programs, four of which name device 0; in order; any failure | `TypeOK`; `OwnEndpoint`: a program works on and destroys the endpoint it created; `NoOtherStrays`: an endpoint without a running creator was left by an early end or by a destroy that was refused |
| `endpoints_unordered` | HP and HE test, any order, nothing fails | **violation** of `TestsNamedCore` |

Bounds: numbers `0..3`, `Mixed` programs.  The number of runs is not bounded.  Four
programs that share a number, two with higher numbers, two without a handler and one
of these `checked` cover every way two programs can meet on a number; all four
numbers can be in use or leaked at once.  Deadlock is not checked in
`endpoints_ordered`: once a leak occupies a number, no program's number may be next.

Finding.  Started in another order, the HE test, whose `/dev/rpmsg2` does not exist
yet, leaves its endpoint behind as number 0, and the HP test, which announces a test
"BETWEEN A32 and M55_HP cores", talks to the HE core (`endpoints_unordered`).  In the
external system test a comment says that `/dev/rpmsg1` is created (151), where the
number given on a fresh system, and opened three lines below, is 0.

**Proved** (`RpmsgEndpointsProofs`), for any subset of the nine programs and any number
of endpoints: `TypeCorrect`, in any order; `InOrderOwn` (`OwnEndpoint`) and `InOrderClean` (`NoOtherStrays`), if
`Ordered`.  `OwnEndpoint` is not inductive: between a program's start and its create
a lower number may become free and be given to it.  `OrderInv` says that then its
device is still free, so that its open fails and it leaves without harm; a program
that names device 0 cannot be in that position.

### `EptLoopDriver`: the in-loop program refines it

`ImplementsProgram` is the specification of `RpmsgEndpoints` for one program, with a
mapping from the state of `EptLoop`: main's position up to the registration of the
handler, and after that what happened to the endpoint.  Threads, mutex, messages and
nested handlers are invisible to the driver; a handler that closes while another
one is still to destroy must not be visible either, and a destroy that was refused must
be.  `eptloop_faults` checks it with one iteration, `Implements` in `EptLoopProofs` proves it for every constant.
The proof uses `LifeInv`: it tells which steps of which thread may close or destroy.

## 5. `SeServices`: the clients of the secure enclave

| Code | Model |
|---|---|
| position in `main` and in a `service_...` function | `phase`, `service` |
| `rec_phy_addr` | `received` |
| physical addresses: `MHU_SERVICES_DATA_LOC + offset`, or the one address of the library | `Address(s)`: `s` or `1` |
| the mapped memory | `mem[a]`: the request and the response in block `a` |
| `/dev/rpmsg0` | `live`, `attached`, `answers` |
| the SE | `requests`, `se` |

`program.layout` says which program runs: `"struct"` is `services_se_a32.c`, with a block for every
service and a handler; `"union"` is the library, one block for all, cleared before
each request, no handler.
`program.disturb` says what may happen to it (failing calls, SIGINT) and `program.patient`
whether a next run waits until the SE is done with the last one; `Programs` is the set of
programs a run considers.  Services are numbered in the order they are called.  A
request or response is a token, its service and its run, so that a property can ask
whose answer is reported; the code cannot.

One call is `Fill`, `Write`, `Read`, `Report`, in this order, each of the calls to the
endpoint may fail and then ends the process (`WriteFails`, `ReadFails`).  `Report` uses
the response in the block if the address read is its own, and goes on in silence if
it is not.  `Start` is set-up, `Finish` clean-up, `Sigint` the handler or a kill.  In
the clean-up of either (`CleanUp`) the destroy may fail, which is reported only: then the
endpoint stays, with all that waits in it, as after an exit.

External: the SE takes addresses in the order they come, reads the request
(`SeTake`), and at any later time writes the response into the same block and sends
the address back (`SeRespond`).  The answer reaches the endpoint there is by then, or
none.  Processes that run side by side all have `/dev/rpmsg0` open: the endpoints
later ones create are never used.  A process is not started while a destroyed
endpoint is held open (its open would fail).

Abstractions: filling a block is one step (an SE that still works on a request of a
killed run might see it half filled); results and error codes; all processes of a run
use the same layout; the address of the mapping.

| Run | Setting | Shows |
|---|---|---|
| `se_alone` | one process, 3 services, 3 runs; either the library, any failure and SIGINT, or the struct client, SIGINT alone, where the next run waits until the SE is done | `Fresh`: until a run ends while it waits for an answer, what is reported is the response to this request; `Complete`: until then a finished run has reported every service; `HandlerClears`: the handler of the struct client takes the late answer away, nothing stale is ever reported |
| `se_shared` | struct client, two processes, 2 services, 3 runs in all, any failure and SIGINT, fairness | `TypeOK`; `OwnService`: a reported response is of the service asked; `Balanced`: every waiting client has an answer coming, and each run that ended while waiting leaves at most one too many; `RunsEnd`: no run hangs |

The conditions are what the code needs, not conveniences: without `unread = 0`,
`Fresh` fails for the library (a killed run's answer has the right address, because
there is only one, and the response is read before the SE wrote it); with the struct
layout the stray answer shifts every later one, so nothing is reported at all from then
on.  `Balanced` is what excludes that this shift also makes a client hang.

Bounds: three services give a first, a middle and a last call, three runs give an
interrupted run, the run that meets its answer and one after it.  Two processes suffice
for taking each other's answers.  Deadlock is not checked: `MaxRuns` ends the runs.

**Fairness** (`RunsEnd`): of each client's own steps (`Progress`) and of the SE's.  A
call must fail only if the endpoint is destroyed: were the fairness to cover the
failures that merely may happen, a client that waits in vain could count on a failing
`read`.  Weak fairness suffices although the clients compete for the answers: there are at
least as many coming as clients waiting, and a run makes finitely many calls.
Starting, failing in set-up and SIGINT are not fair.

**Proved** (`SeServicesProofs`), for any number of services and runs, any failures and
interrupts, and a finite number of processes or, in the second group, one:

* `TypeCorrect`; `StructOwn` (`OwnService`, struct layout), from `BlockInv`: an address on
  its way is of a block that was filled, and one that is answered or read is of a block
  that was answered, which then stays so for ever.
* `AnswersBalance` (`Balanced`), both layouts.  What is outstanding is what the SE has been
  sent, what it works on and the answers.  `BalanceInv` adds that without an endpoint
  nobody has a descriptor of it, so that an answer that is dropped was nobody's.  Each
  step changes both sides alike: a client joins (`Joins`), takes an answer, its own or
  another's (`Takes`), or gives up and leaves one too many (`GivesUp`).
* `AloneFresh` (`Fresh`) and `AloneComplete` (`Complete`), one process, both layouts.
  `AloneInv` says that as long as no run has ended while it waited, nothing is on its
  way (`QuietInv`), or exactly one request, one response in work or one answer, of the
  call the client waits in (`AwaitedInv`), and that the services before the current one
  have been reported (`CallInv`).
* `PatientClears` (`HandlerClears`), one process of the struct client, interrupted but not
  failing, and patient.  `PatientInv` allows a late answer between two runs as long as there
  is no endpoint for it to reach; the next run starts when it has gone.

Only model-checked: `RunsEnd` (liveness).

## 6. `ServiceFormats` and `ServiceMemory`: what is in the shared memory

`ServiceFormats` lays out the structures of `mhu/include/services_lib_protocol.h` as the
compiler does (members in order, each aligned to its size, the whole to its largest
member), the collection of both clients (25 structures side by side, or a union), and the
ids of `services_lib_public.h` the clients send.

`ServiceMemory` is one client at work, at byte addresses from `0x0827F000`: `Request` is
the filling of the structure (with the library its clearing first), at the place the
client sees through its mapping (`MapBase`, `OffsetInPage`); `Serve` is the SE, which
looks at the physical address, refuses what does not have the right id, may refuse
anything, and sets the error codes; `Report` is what the client prints.  A value is a
mark that says whose it is: `JUNK` (before the first call), `TEXT`, an id, `REFUSED`, or
the answer of one service.  `SeServices` has the rest: messages, failing calls, processes.

Abstractions: of each structure the cells that somebody reads or writes; the random
bytes as two words; the SE's second reading of a header field.

| Run | Setting | Shows |
|---|---|---|
| `service_memory` | both clients, pages of 4 and 64 KiB, any number of the six calls in any order | `TypeOK`: also that the collection fits the mapped pages, and that the loop over random bytes, whose bound is read back from shared memory, prints eight; `ReportsOwn`: the struct client prints the answer of this service or what was there before the first call, the library the answer of this very call or zero; `RequestFound`: the SE finds the request where it was sent |

The number of calls is not bounded; the state is, since a cell has few values.
Both clients print what they find whatever error code the SE has set: after a refused
call the struct client prints the answer of an earlier one, and both print "The UART write
is successful" (`services_lib.c` 149) for a refused write.

**Proved** (`ServiceMemoryProofs`), for any page sizes: `TypeCorrect`, `OwnReported`
(`ReportsOwn`) and `RequestsFound` (`RequestFound`).  Assumed is that a page has at least
4096 bytes, as on every Linux kernel: two smaller ones need not hold the collection.  The
provers cannot evaluate the fold that lays out a structure, so `LayoutAssumption` states
the offsets and sizes as numbers; no constant occurs in it, so that TLC settles it.
From these, structures side by side do not overlap, and a request touches neither the
answer nor the error code of its structure (`Places`).  `AnswerInv` says what may stand
where an answer is printed from, at each step of a call, and of the struct client also
between calls; `LengthInv` that the length of the random number is 8 while its call is
under way.  TLC has checked both as invariants of `service_memory`.

## 7. `Hwsem`: the hardware semaphore tests

Any number of processes run `basic_lock_unlock_test_all.c` (`All`),
`basic_lock_unlock_test_hwsem0.c` (`One`) or `pthreads_lock_unlock.c` (`Threaded`).

| Code | Model |
|---|---|
| position in `main` | `pc`, and `state`: runs, done, failed |
| `i` of the loop over semaphores; the thread or unlock main is at | `i` |
| `j` and the place among the three locks | `held`: locks less unlocks |
| the two threads | `worker`: none, lock, done, failed |
| the semaphore | `owner`, `count` |

Steps are the calls: `Open`, `LoopLock`, `ReadCount`, `LoopUnlock`, `Close`; `Spawn`, `Join`,
`WorkerLock`, `MainUnlock`; and the failure of each.  The sleeps are in the interleaving.

External: the driver.  A semaphore is free or owned; its owner may lock it again without
blocking, others wait, and only the owner unlocks.  By which identity the driver tells
its callers apart is not in this repository (`MASTER_ID`, test_all 40, is never passed to
it); so a setting says under which identity each process locks, and both extremes are
checked: each process its own, and all the same.  A join of a thread that was never
created may return or crash.  A process that ends early leaves its locks: nothing in
these programs returns them.

| Run | Setting | Shows |
|---|---|---|
| `hwsem` | one process of each test, two semaphores, kills and any failing call but an unlock under own names; any failing call under one name | `TypeOK`: also that the count read is what was locked; `UnlocksPair`: nobody unlocks more than it locked, but for threads that got no lock, and the regular end leaves nothing locked; `EndsOrStuck`: nobody waits for ever but behind a process that ended early; `ImplementsSections`: each process stays with each semaphore once, uninterrupted and alone |

`HwsemSections` is the abstract specification: for each process and semaphore before, in,
after.  Bounds: two semaphores make a first and a last round, semaphore 0 is contended by
all three tests.  **Fairness**: of the step of each main program and of each thread's
lock.  Weak fairness is enough, since each process asks for the semaphore a bounded
number of times and gives it back.  Deadlock is not checked: the programs end.

**Proved** (`HwsemProofs`), for any number of processes of each kind, any number of
semaphores and any settings: `TypeCorrect`, `UnlocksCorrect` (`UnlocksPair`) and
`SectionsImplemented` (`ImplementsSections`, the whole refinement, since `HwsemSections`
has no fairness).  `PlaceInv` says what a process holds at each of its points, from its
own code alone: a looping test its place in the three locks, a threaded one its threads
with a lock less its unlocks.  `Effects` then reduces every step to a lock, an unlock or
neither, and `OwnInv` keeps the driver's account of a semaphore equal to its owner's: if
all lock under their own names, a lock or unlock touches one process's account only.
Exclusion in the refinement follows from `OwnInv`, the single stay from `PlaceInv`.
`NoCircle` is the safety half of `EndsOrStuck`: with `HeldInv`, a semaphore that is taken is
some process's, which by `OwnInv` works with that very semaphore and so waits for nothing.
Only model-checked: `EndsOrStuck` itself (liveness).

Not guaranteed, and so not a property: main of the threaded test ignores the result of its
unlocks, so a failing one leaves the semaphore locked at a regular end (hence the
condition in `UnlocksPair`); and if all processes lock under one identity, its two unlocks
free the lock of another process when one of its own threads got none.

## 8. `Watchdog`: a keyboard against a timer

| Code | Model |
|---|---|
| position in `main` of `wdg_ctl.c` | `pc` of each process that runs it |
| the open device | `user`; it opens for one process at a time |
| the timer | `armed`, `left`; `magic` if the last write was 'V' |
| the machine | `up` |

Steps are the calls: `Open`, `SetTimeout`, `GetTimeout`, `Getchar`, `Kick`, `Goodbye`, `Close`,
their failures, and `GetcharAgain`, the spinning at the end of the input.  An exit, and a
kill, closes the device.  External, in the words of the program's comments (45, 95-101): the
driver (`Arm`, `Load`, `Write`, `Release`) and `Tick`.

| Run | Setting | Shows |
|---|---|---|
| `watchdog` | two processes; a diligent user, or any user while nobody is killed, or any user and any failure | `TypeOK`: also that 'V' is only ever the last write before the close; `NeverReset`: the diligent user is not reset, though the timer starts with the driver's timeout and another process tries to open the device; `QuitDisarms`; `EofResets`: at the end of input the program spins until the machine is reset; `ImplementsDeadMan` |

`DeadMan` is the abstract specification: once somebody attends, the machine is left alone
only after a goodbye in that very run, and who disappears otherwise lets it be reset,
unless somebody else attends.  Bounds: a timeout of 2 ticks at the open and 4 after it,
and one tick at most between two steps of a diligent program (`Pace`): between
setting the timeout and the first kick the program makes three calls, so 4 is the least
timeout that suffices, and 2 is what makes setting it matter.  **Fairness**: time passes,
and the kernel runs the program; nobody need type, quit or start.  Deadlock is not
checked: after a reset there is nothing.

**Proved** (`WatchdogProofs`), for any number of processes and any timeouts:

* `TypeCorrect` and `QuitCorrect` (`QuitDisarms`), from `Inv`: `TypeOK` is nearly inductive
  by itself, since it says who has the device open and where the 'V' may stand; `Inv` adds
  that an armed watchdog has time left and that who is about to close has left the 'V'.
* `InTime` (`NeverReset`), provided `Pace < DEFAULT` and `3 * Pace < interval`.  The
  property says nothing of time left; `TimeInv` gives each point of the program the least
  that must be left to the timer there (`Budget`), less the ticks since its last step.
  TLC's instance is the smallest that meets both conditions with a `Pace` of 1, and the
  prover needs them: with `2 * Pace < interval` the budget of the first kick is gone.
* `PromiseKept`: the safety part of `ImplementsDeadMan`.  That an abandoned watchdog fires
  needs the fairness of time and is only checked, as is `EofResets`.

The result of a kick is not looked at (78, 82): `NeverReset` needs that only opening fails.

## 9. `ExtSys`: the reset handshake

`test-app_es0_mhu0.c` either resets the external system (ES), or does so, without a look at
the result, and sends it a command and reads the answer.

| Code | Model |
|---|---|
| position in `es_reset_test`, `es_mhu_test` | `pc`, `accepted` (the branch taken) |
| `status`, the function's result, the exit status | `code` |
| `message` as printed | `printed` |
| the reset control | `req`, `st` (the bits under the mask 7) |
| the ES | `cpu`, `inbox` (whose commands it has) |
| `/dev/rpmsg0` and what waits in it | `rpmsg0`, `outbox` (to whose commands these are the answers) |
| history for properties | `leftover` (who found something there), `killed`, `reset` |

Steps are the ioctls and calls, each with its failure; a status ioctl that fails reads
as 7, as -1 does under the mask.  External: the control accepts or declines a request once, at any
time, and clears its status when the request is gone (`Accept`, `Decline`, `Settle`); an
accepted request holds the ES in reset; it boots when the wait of its CPU is disabled and
answers what it receives while it runs (`Boot`, `Answer`).  An endpoint stays until it is
destroyed, as in `RpmsgEndpoints`, of which this module has number 0 only: a test that is
killed, or that returns early, leaves `/dev/rpmsg0` and the answer in it, and the next
run, whose own endpoint gets another number, opens that one (151-154).  At its start the
commands and answers of its earlier runs become those of some run that is over (`Renamed`,
`OLD`).  The result of the write (172) is not looked at; it may fail.  `usleep(100)` and `sleep(1)`
have no model but in a prompt setting, where the control and the boot are in time.

| Run | Setting | Shows |
|---|---|---|
| `extsys` | a reset test and an MHU test, again and again: one after the other, prompt and accepting, with kills; at the same time, slow and declining, with failures; the same with kills and a request that cannot be taken back | `TypeOK`; `DoneMeansReset`: the branch that prints "reset done" and returns 0 is taken only if the ES was in reset while this run lasted, also if it was another's request; `RequestDropped`: no request outlives the handshakes, unless its taking back failed; `FreshAnswer` and `TalkerEnds`: in the first setting the MHU test ends, and what it prints is the answer to its own command, from an ES reset for this run, unless it found the command or answer of an earlier run there, which only a killed one leaves |

The runs of the tests are not bounded; `Backlog` bounds the answers that may wait when
the MHU test is started.  Two is enough: it lets a run find nothing, the command of a killed
run still with the ES, its answer, or an answer and a command, so that the run reads its
own answer, one that waited before, or one that comes later but first.  The single MHU test of the instance never finds its endpoint destroyed
under it, which tests at the same time can do; the theorems are for any number of them.
**Fairness**: of the tests' steps and of the ES
and its control; a test need not be started, and no call need fail.

**Proved** (`ExtSysProofs`), for any number of tests of both kinds and any settings:
`TypeCorrect`; `DoneCorrect` (`DoneMeansReset`), since whoever runs while the ES is held in
reset has seen it (`ResetInv`); `DropCorrect` (`RequestDropped`): a standing request means
that some test is between its request and taking it back (`DropInv`), though it need not
be the one that made it; `AnswerFresh` (`FreshAnswer`).  For the last, `LiveInv` says that in
the favourable setting `/dev/rpmsg0` is there from its creation to the end of the test, and
`QueueInv` that a run which found it empty has nothing but its own command or answer
about, that it reads that answer before it destroys, and so that what is left is
a killed run's.  `AnswerComes` is the safety half of
`TalkerEnds`: the blocking read of the MHU test never waits for an answer nobody will give.
`AwaitInv` follows the handshake in the favourable setting: accepted before it is taken
back, cleared before the wait is disabled, and no reset after that.  Only model-checked:
`TalkerEnds` itself (liveness).

Not guaranteed: after a killed run the answer printed may be that run's, of a command to
an ES that has been reset since, and the answer to the own command is then lost with the
endpoint; hence `leftover` in `FreshAnswer`.  With tests at the same time a reset accepted late can leave the CPU waiting,
and the blocking read of the MHU test (180) with it, which is why `TalkerEnds` is for
tests one after the other.  A reset test whose request was declined takes the request back
and returns the status then read (129, 137), which is 0, success, once the status has
cleared; only `accepted` tells the two successes apart, and `DoneMeansReset` speaks of
the one that prints "reset done".

## 10. `Framebuffer` and `CrcTest`

`Framebuffer` is `fb_tux.c` call by call and pixel by pixel: the two ioctls for the geometry,
the mapping (whole pages), the rows by `line_length` (83), the pixels in four bytes or
packed in two (72-95), the index into the picture.  A write past the mapping is a fault.
`tux_map` is a constant; `Suits` says that the screen is large enough and has the depth the
program was built for, which the code does not check.

`CrcTest` is `test_crc.c`: the three chains of comparisons over the eight types (48-66,
99-115, 154-170) as tables, the AF_ALG calls, each of which may fail, and the label.
The checks of write and read are `n < 0` (140, 147): either may come up short without a
failure, so that the digest of a part of the input, a part of the digest, or the zeros of an
output that was never filled are printed (`short` remembers which).
External: which CRC the kernel computes under which name (`Kernel`); the CRC itself is
known by its name and its data.

| Run | Setting | Shows |
|---|---|---|
| `device_tests` | both builds, a picture of 4 by 3 pixels on seven screens each; all types, a wrong one, none, two inputs | `TypeOK` of the framebuffer: the picture is read in step with the loops; `ShowsPicture`: at the end it is in the corner of the screen and nothing else was touched; `Ends`: without a fault, if the mapping holds the picture; `ResultIsAskedFor`: a printed CRC is of the type asked for, and of the whole input if neither write nor read came up short, none is printed after a failure, and its label tells the type |

`Ends` has a condition because "the size of the screen in bytes" (`fb_tux.c` 55-56) leaves
out the padding of lines: where the padding above the last row of the picture exceeds the
screen below it, the program writes past the mapping; one of the seven screens is such.
**Fairness**: the programs run.  Of the CRC test note that it prints the result of type
`crc32c-linux` (44) under the name `crc32-linux` (167); only the remark behind it tells the two
apart.  `ResultIsAskedFor` says so: a label tells the type, and every other label names it.
The program exits with 0 after every failure.

**Proved** (`DeviceTestsProofs`):

* `FbTypes` (`TypeOK` of the framebuffer) and `FbShows` (`ShowsPicture`), for any picture of
  any size and any screens it fits, both builds, any page size.  `FbInv` says where the
  next byte is read and the next pixel is written at each point of the loops, and that a
  byte of the mapping is what the picture has there if its pixel was drawn, and untouched
  otherwise.  It rests on `PixelPlace`: a byte of a pixel, found again by the quotient
  and the remainder of its place by the length of a line, is of that row and that pixel,
  since a line is not shorter than one of the picture; and on `Packed`: the bits are put
  together as they were taken apart.
* `FbStaysMapped`, the safety half of `Ends`: a screen that `Holds` the picture is never
  written past its mapping, because whole pages are no less than what was asked for
  (`MapsAll`) and the last row ends within it (`PixelMapped`).
* `CrcCorrect` (`ResultIsAskedFor`), for any arguments and inputs.  `CrcInv` says what each
  call has behind it, and what is left of it when a call came up short; the tables are
  compared entry by entry (`TablesMean`, `LabelTells`, `LabelNames`), which is where a slip between the three chains would show.

Only model-checked: `Ends` itself (liveness).

## 11. Not modelled

* Service ids and structures no client sends are in `ServiceFormats` with their layout only;
  the ids of the power, boot and update groups are left out, as are the macros `COMMAND`
  and `VALUE` of the external system test, which nothing uses.
* The handler of the struct client unmaps with size 0, because a local
  `mapped_size` hides the global one; the call fails and is only reported, and the exit
  that follows unmaps the area, so no state of the model depends on it.
* The CRC values are computed by the kernel, the picture in `cdc200/tux.h` is data, the
  build files have no run-time behaviour, and the argument checks of
  `test-app_es0_mhu0.c` choose between the two tests and a usage text.
* What a driver or the SE does is modelled from its use only, as each section says.
* Liveness, here as everywhere, is checked by TLC and not proved.
