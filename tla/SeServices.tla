----------------------------- MODULE SeServices -----------------------------
(***************************************************************************)
(* The two clients of the secure enclave's services: services_se_a32.c and *)
(* lib/ (main.c, services_lib.c, services_lib_rpmsg.c).  For one service   *)
(* after the other a client fills a block of shared memory, writes the     *)
(* block's address to the endpoint, reads an address back, and reports the *)
(* response in its block if that address is its own.                       *)
(*                                                                         *)
(* The first client has a block for every service, the library one block   *)
(* for all.  Neither says in its message which request it belongs to.      *)
(*                                                                         *)
(* External to src/ and modelled from how the clients use them: the        *)
(* enclave (SE), which serves addresses in the order they come, and the    *)
(* endpoint /dev/rpmsg0, which any number of processes may have open.      *)
(***************************************************************************)
EXTENDS Integers, Sequences, FiniteSets

CONSTANTS
    Clients,    \* processes; each may run the program again and again
    Programs,   \* the programs they may run, and how; see program
    Services,   \* number of services called; 6 in the code
    MaxRuns     \* bound on the runs of all clients together

ASSUME SeServicesAssumption ==
    /\ IsFiniteSet(Clients)
    /\ Programs \subseteq [layout : {"struct", "union"},
                           disturb : SUBSET {"failure", "sigint"}, patient : BOOLEAN]
    /\ Services \in Nat \ {0}
    /\ MaxRuns \in Nat

VARIABLES
    program,    \* what all clients run; it never changes.
                \*   layout: "struct" (services_se_a32.c) or "union" (lib/)
                \*   disturb: what may end a run early, "failure" of a call, "sigint"
                \*   patient: a run is started once the SE has served all others
    phase,      \* where each client stands; "idle" if it does not run
    service,    \* the service it calls, 1..Services
    run,        \* the number of its run
    received,   \* the address it has read last
    attached,   \* clients whose descriptor is that of the live endpoint
    live,       \* whether /dev/rpmsg0 is an endpoint that is not destroyed
    mem,        \* shared memory: the request and the response in each block
    requests,   \* addresses on their way to the SE
    answers,    \* addresses waiting to be read
    se,         \* the address and request the SE works on, if any
    runs,       \* runs started so far
    reported,   \* responses reported as successful (history)
    unread      \* runs that ended before they read their answer (history)

clientVars == <<phase, service, run, received>>
eptVars    == <<attached, live>>
seVars     == <<requests, se>>
history    == <<runs, reported, unread>>
vars       == <<program, clientVars, eptVars, mem, answers, seVars, history>>

Phases == {"idle", "setup", "fill", "write", "read", "report", "end"}
Calls  == 1..Services

(* A request or a response is known by its service and run; 0 is neither.  *)
Tokens  == [svc : 0..Services, run : Nat]
Nothing == [svc |-> 0, run |-> 0]
Idle    == [addr |-> 0, req |-> Nothing]
Token(c) == [svc |-> service[c], run |-> run[c]]

Address(s) == IF program.layout = "struct" THEN s ELSE 1
Own(c)     == Address(service[c])

Init ==
    /\ program \in Programs
    /\ phase = [c \in Clients |-> "idle"]
    /\ service = [c \in Clients |-> 1]
    /\ run = [c \in Clients |-> 0]
    /\ received = [c \in Clients |-> 0]
    /\ attached = {} /\ live = FALSE
    /\ mem = [a \in Calls |-> [req |-> Nothing, resp |-> Nothing]]
    /\ requests = <<>> /\ answers = <<>> /\ se = Idle
    /\ runs = 0 /\ reported = {} /\ unread = 0

Goto(c, p) == phase' = [phase EXCEPT ![c] = p]

-----------------------------------------------------------------------------
(* Start and end of a run. *)

\* Create and open.  While a destroyed endpoint is held open its number is not
\* free, and the open fails; an endpoint left behind, or used by another
\* client, is opened instead of the one created.
Start(c) ==
    /\ phase[c] = "idle" /\ runs < MaxRuns
    /\ live \/ \A d \in Clients : phase[d] = "idle"
    /\ program.patient => requests = <<>> /\ se = Idle
    /\ Goto(c, "setup")
    /\ service' = [service EXCEPT ![c] = 1]
    /\ runs' = runs + 1
    /\ run' = [run EXCEPT ![c] = runs + 1]
    /\ live' = TRUE /\ attached' = attached \cup {c}
    /\ UNCHANGED <<program, received, mem, answers, seVars, reported, unread>>

\* Registers the handler, if there is one, and maps the memory.
Setup(c) ==
    /\ phase[c] = "setup"
    /\ Goto(c, "fill")
    /\ UNCHANGED <<program, service, run, received, eptVars, mem, answers, seVars, history>>

Leave(c) ==
    /\ Goto(c, "idle")
    /\ unread' = IF phase[c] = "read" THEN unread + 1 ELSE unread
    /\ UNCHANGED <<program, service, run, received, mem, seVars, runs, reported>>

\* The process ends, its endpoint does not.
Abort(c) ==
    /\ Leave(c)
    /\ attached' = attached \ {c}
    /\ UNCHANGED <<live, answers>>

\* What waits in the endpoint goes with it.
Destroy(c) ==
    /\ Leave(c)
    /\ IF c \in attached
         THEN attached' = {} /\ live' = FALSE /\ answers' = <<>>
         ELSE UNCHANGED <<attached, live, answers>>

SetupFails(c) == phase[c] = "setup" /\ "failure" \in program.disturb /\ Abort(c)

\* A destroy that fails is only reported: the endpoint stays, and what waits in
\* it too.
CleanUp(c) == Destroy(c) \/ ("failure" \in program.disturb /\ Abort(c))

Finish(c) == phase[c] = "end" /\ CleanUp(c)

\* Mutant of Sigint: there is no handler.
SigintUnhandled(c) ==
    "sigint" \in program.disturb /\ phase[c] # "idle" /\ Abort(c)

\* The library registers no handler.
Sigint(c) ==
    /\ "sigint" \in program.disturb /\ phase[c] # "idle"
    /\ IF program.layout = "struct" /\ phase[c] # "setup" THEN CleanUp(c) ELSE Abort(c)

-----------------------------------------------------------------------------
(* One call. *)

StructFill(block, request) == [req |-> request, resp |-> block.resp]
UnionFill(block, request)  == [req |-> request, resp |-> Nothing]

Fill(c) ==
    /\ phase[c] = "fill"
    /\ Goto(c, "write")
    /\ mem' = [mem EXCEPT ![Own(c)] =
                  IF program.layout = "struct" THEN StructFill(@, Token(c))
                                       ELSE UnionFill(@, Token(c))]
    /\ UNCHANGED <<program, service, run, received, eptVars, answers, seVars, history>>

Write(c) ==
    /\ phase[c] = "write" /\ c \in attached
    /\ Goto(c, "read")
    /\ requests' = Append(requests, Own(c))
    /\ UNCHANGED <<program, service, run, received, eptVars, mem, answers, se, history>>

\* Mutant of WriteFails: a failed write is only reported.
WriteFailsOn(c) ==
    /\ phase[c] = "write"
    /\ "failure" \in program.disturb \/ c \notin attached
    /\ Goto(c, "read")
    /\ UNCHANGED <<program, service, run, received, eptVars, mem, answers, seVars, history>>

WriteFails(c) ==
    /\ phase[c] = "write"
    /\ "failure" \in program.disturb \/ c \notin attached
    /\ Abort(c)

\* Mutant of Read: the client does not wait for an answer.
ReadAtOnce(c) ==
    /\ phase[c] = "read" /\ c \in attached
    /\ Goto(c, "report")
    /\ received' = [received EXCEPT ![c] = Own(c)]
    /\ UNCHANGED <<program, service, run, eptVars, mem, answers, seVars, history>>

\* Mutant of Read: it takes all that waits, and uses the first.
ReadDrains(c) ==
    /\ phase[c] = "read" /\ c \in attached
    /\ answers # <<>>
    /\ Goto(c, "report")
    /\ received' = [received EXCEPT ![c] = Head(answers)]
    /\ answers' = <<>>
    /\ UNCHANGED <<program, service, run, eptVars, mem, seVars, history>>

Read(c) ==
    /\ phase[c] = "read" /\ c \in attached
    /\ answers # <<>>
    /\ Goto(c, "report")
    /\ received' = [received EXCEPT ![c] = Head(answers)]
    /\ answers' = Tail(answers)
    /\ UNCHANGED <<program, service, run, eptVars, mem, seVars, history>>

ReadFails(c) ==
    /\ phase[c] = "read"
    /\ "failure" \in program.disturb \/ c \notin attached
    /\ Abort(c)

\* Mutants of Proceed: one service too many, or too few.
ProceedBeyond(c) == Goto(c, "fill") /\ service' = [service EXCEPT ![c] = @ + 1]
ProceedShort(c) ==
    IF service[c] + 1 < Services
      THEN Goto(c, "fill") /\ service' = [service EXCEPT ![c] = @ + 1]
      ELSE Goto(c, "end") /\ UNCHANGED service

\* On to the next service, or to the end.
Proceed(c) ==
    IF service[c] < Services
      THEN Goto(c, "fill") /\ service' = [service EXCEPT ![c] = @ + 1]
      ELSE Goto(c, "end") /\ UNCHANGED service

Result(c) == [call |-> Token(c), resp |-> mem[Own(c)].resp]

\* Mutant of Report: the address is not compared.
ReportAny(c) ==
    /\ phase[c] = "report"
    /\ reported' = reported \cup {Result(c)}
    /\ Proceed(c)
    /\ UNCHANGED <<program, run, received, eptVars, mem, answers, seVars, runs, unread>>

\* Another address is passed over without a word.
Report(c) ==
    /\ phase[c] = "report"
    /\ reported' = IF received[c] = Own(c) THEN reported \cup {Result(c)} ELSE reported
    /\ Proceed(c)
    /\ UNCHANGED <<program, run, received, eptVars, mem, answers, seVars, runs, unread>>

-----------------------------------------------------------------------------
(* The SE: it reads the request, some time later it writes the response to *)
(* the same block and sends the address back.  The answer reaches whatever *)
(* endpoint there is by then.                                              *)

SeTake ==
    /\ se = Idle /\ requests # <<>>
    /\ se' = [addr |-> Head(requests), req |-> mem[Head(requests)].req]
    /\ requests' = Tail(requests)
    /\ UNCHANGED <<program, clientVars, eptVars, mem, answers, history>>

SeRespond ==
    /\ se # Idle
    /\ mem' = [mem EXCEPT ![se.addr] = [req |-> @.req, resp |-> se.req]]
    /\ answers' = IF live THEN Append(answers, se.addr) ELSE answers
    /\ se' = Idle
    /\ UNCHANGED <<program, clientVars, eptVars, requests, history>>

-----------------------------------------------------------------------------

ClientStep(c) ==
    \/ Setup(c) \/ Fill(c) \/ Write(c) \/ WriteFails(c)
    \/ Read(c) \/ ReadFails(c) \/ Report(c) \/ Finish(c)

Next ==
    \/ \E c \in Clients : Start(c) \/ SetupFails(c) \/ Sigint(c) \/ ClientStep(c)
    \/ SeTake \/ SeRespond

\* What a client does once it is scheduled: a call fails for certain only if
\* the endpoint is destroyed.
Progress(c) ==
    \/ Setup(c) \/ Fill(c) \/ Write(c) \/ Read(c) \/ Report(c) \/ Finish(c)
    \/ c \notin attached /\ (WriteFails(c) \/ ReadFails(c))

\* Clients are scheduled and the SE serves; nobody has to start a program, and
\* no call has to fail.
Fairness ==
    /\ \A c \in Clients : WF_vars(Progress(c))
    /\ WF_vars(SeTake \/ SeRespond)

Spec == Init /\ [][Next]_vars
FairSpec == Spec /\ Fairness

-----------------------------------------------------------------------------
(* Properties. *)

TypeOK ==
    /\ program \in Programs
    /\ phase \in [Clients -> Phases]
    /\ service \in [Clients -> Calls]
    /\ run \in [Clients -> Nat]
    /\ received \in [Clients -> 0..Services]
    /\ attached \subseteq Clients
    /\ live \in BOOLEAN
    /\ mem \in [Calls -> [req : Tokens, resp : Tokens]]
    /\ requests \in Seq(Calls) /\ answers \in Seq(Calls)
    /\ se \in {Idle} \cup [addr : Calls, req : Tokens]
    /\ runs \in Nat /\ unread \in Nat
    /\ reported \subseteq [call : Tokens, resp : Tokens]

\* With a block for every service a reported response was computed for that
\* service, be the answer late, another client's or one of a run that was
\* killed (services_se_a32.c: 203-208, 238-240).
OwnService ==
    program.layout = "struct" => \A r \in reported : r.resp.svc = r.call.svc

\* With one client, until a run first ends while it waits for an answer, what
\* is reported is the SE's response to this very request, even if all services
\* share a block and runs end anywhere else (services_lib.c: 22-35).
Fresh == unread = 0 => \A r \in reported : r.resp = r.call

\* Until then a run that comes to its end has reported every service
\* (main.c: 21-26).
Complete ==
    \A c \in Clients : unread = 0 /\ phase[c] = "end" =>
        \A s \in Calls : \E r \in reported : r.call = [svc |-> s, run |-> run[c]]

\* With one client whose handler destroys the endpoint, and patience before the
\* next run, SIGINT never makes a later run report anything but the response
\* to its own request (services_se_a32.c: 120-135).
HandlerClears ==
    program.layout = "struct" /\ program.patient /\ "failure" \notin program.disturb
        => \A r \in reported : r.resp = r.call

Waiting     == {c \in Clients : phase[c] = "read"}
Outstanding == Len(requests) + Len(answers) + (IF se = Idle THEN 0 ELSE 1)

\* Every client that waits has an answer coming, though clients take each
\* other's; and only a run that ended while it waited leaves one too many,
\* which shifts all later answers by one (services_lib.c: 22-32).
Balanced ==
    /\ Cardinality(Waiting \cap attached) <= Outstanding
    /\ Outstanding <= Cardinality(Waiting) + unread

\* No run hangs, every client comes to its end again and again, though clients
\* take each other's answers and destroy each other's endpoint: there is always
\* an answer to read (services_lib.c: 29).
RunsEnd == \A c \in Clients : []<>(phase[c] = "idle")
=============================================================================
