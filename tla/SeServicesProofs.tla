-------------------------- MODULE SeServicesProofs --------------------------
(***************************************************************************)
(* Proofs about SeServices, for any number of services and runs and        *)
(* whatever ends a run early.                                              *)
(***************************************************************************)
EXTENDS SeServices, SequenceTheorems, FiniteSetTheorems, TLAPS

LEMMA Constants ==
    /\ 1 \in Calls /\ 0 \notin Calls /\ Calls \subseteq Nat /\ Calls \subseteq 0..Services
    /\ Nothing \in Tokens
    /\ \A s \in Calls : Address(s) \in Calls
    /\ program.layout = "struct" => \A s \in Calls : Address(s) = s
BY SeServicesAssumption DEF Calls, Tokens, Nothing, Address

LEMMA Following ==
    ASSUME NEW s \in Calls, s < Services PROVE s + 1 \in Calls
BY SeServicesAssumption DEF Calls

LEMMA UpTo ==
    ASSUME NEW n \in Calls, NEW s \in Calls
    PROVE  /\ s <= n => s < n \/ s = n
           /\ s < n + 1 => s <= n
           /\ s < n => s <= n
           /\ ~(n < Services) => s <= n
BY SeServicesAssumption DEF Calls

LEMMA Owns ==
    ASSUME TypeOK, NEW c \in Clients
    PROVE  /\ service[c] \in Calls /\ Own(c) \in Calls
           /\ Token(c) \in Tokens /\ Token(c).svc = service[c]
BY Constants DEF TypeOK, Own, Token, Tokens

LEMMA SameProgram ==
    ASSUME [Next]_vars PROVE program' = program
BY DEF Next, ClientStep, Start, SetupFails, Sigint, Setup, Fill, Write, WriteFails, Read, ReadFails,
       Report, Finish, CleanUp, Abort, Destroy, Leave, SeTake, SeRespond, vars

-----------------------------------------------------------------------------
(* Types. *)

LEMMA Pops ==
    ASSUME NEW S, NEW q \in Seq(S), q # <<>>
    PROVE  Head(q) \in S /\ Tail(q) \in Seq(S)
BY HeadTailProperties

\* Leaving, with or without destroying the endpoint, keeps the types.
LEMMA LeaveTypes ==
    ASSUME TypeOK, NEW c \in Clients, Abort(c) \/ Destroy(c)
    PROVE  TypeOK'
<1>1. Leave(c) /\ attached' \subseteq attached /\ live' \in BOOLEAN /\ answers' \in Seq(Calls)
  <2>1. CASE Abort(c)
    BY <2>1 DEF Abort, TypeOK
  <2>2. CASE Destroy(c) /\ c \in attached
    BY <2>2, EmptySeq DEF Destroy, TypeOK
  <2>3. CASE Destroy(c) /\ c \notin attached
    BY <2>3 DEF Destroy, TypeOK
  <2> QED  BY <2>1, <2>2, <2>3
<1> QED  BY <1>1 DEF TypeOK, Leave, Goto, Phases, seVars

LEMMA TypeStep ==
    ASSUME TypeOK, [Next]_vars PROVE TypeOK'
<1> USE SeServicesAssumption, Constants DEF TypeOK, Goto, Phases, clientVars, eptVars, seVars,
        history
<1>1. ASSUME NEW c \in Clients, Start(c) PROVE TypeOK'
  BY <1>1 DEF Start
<1>2. ASSUME NEW c \in Clients, SetupFails(c) \/ Sigint(c) \/ WriteFails(c) \/ ReadFails(c)
                                \/ Finish(c)
      PROVE  TypeOK'
  BY <1>2, LeaveTypes DEF SetupFails, Sigint, WriteFails, ReadFails, Finish, CleanUp
<1>3. ASSUME NEW c \in Clients, Setup(c) PROVE TypeOK'
  BY <1>3 DEF Setup
<1>4. ASSUME NEW c \in Clients, Fill(c) PROVE TypeOK'
  BY <1>4, Owns DEF Fill, StructFill, UnionFill
<1>5. ASSUME NEW c \in Clients, Write(c) PROVE TypeOK'
  BY <1>5, Owns DEF Write
<1>6. ASSUME NEW c \in Clients, Read(c) PROVE TypeOK'
  BY <1>6, Pops DEF Read
<1>7. ASSUME NEW c \in Clients, Report(c) PROVE TypeOK'
  <2>1. Result(c) \in [call : Tokens, resp : Tokens]
    BY Owns DEF Result
  <2>2. service' \in [Clients -> Calls] /\ phase' \in [Clients -> Phases]
    <3>1. CASE service[c] < Services
      <4>1. service[c] + 1 \in Calls
        BY <3>1, Owns, Following
      <4> QED  BY <1>7, <3>1, <4>1 DEF Report, Proceed
    <3>2. CASE ~(service[c] < Services)
      BY <1>7, <3>2 DEF Report, Proceed
    <3> QED  BY <3>1, <3>2
  <2> QED  BY <1>7, <2>1, <2>2 DEF Report
<1>8. CASE SeTake
  <2>1. Head(requests) \in Calls /\ requests' \in Seq(Calls)
    BY <1>8, Pops DEF SeTake
  <2> QED  BY <1>8, <2>1 DEF SeTake
<1>9. CASE SeRespond
  <2>1. se.addr \in Calls /\ se.req \in Tokens
    BY <1>9 DEF SeRespond
  <2>2. mem' \in [Calls -> [req : Tokens, resp : Tokens]]
    BY <1>9, <2>1 DEF SeRespond
  <2>3. answers' \in Seq(Calls)
    BY <1>9, <2>1 DEF SeRespond
  <2> QED  BY <1>9, <2>1, <2>2, <2>3 DEF SeRespond
<1>10. CASE UNCHANGED vars
  BY <1>10 DEF vars
<1> QED
  BY <1>1, <1>2, <1>3, <1>4, <1>5, <1>6, <1>7, <1>8, <1>9, <1>10 DEF Next, ClientStep

\* The type invariant (both clients and the SE).
THEOREM TypeCorrect == Spec => []TypeOK
<1>1. Init => TypeOK
  <2> SUFFICES ASSUME Init PROVE TypeOK
    OBVIOUS
  <2>1. mem \in [Calls -> [req : Tokens, resp : Tokens]] /\ se = Idle
    BY Constants DEF Init
  <2>2. requests \in Seq(Calls) /\ answers \in Seq(Calls)
    BY DEF Init
  <2>3. received \in [Clients -> 0..Services]
    BY SeServicesAssumption DEF Init
  <2> QED  BY <2>1, <2>2, <2>3, Constants DEF Init, TypeOK, Phases
<1>2. QED  BY <1>1, TypeStep, PTL DEF Spec
-----------------------------------------------------------------------------
(* A block for every service. *)

Filled(a)   == mem[a].req.svc = a
Answered(a) == mem[a].resp.svc = a

\* A block once filled is filled for ever, and one once answered is answered
\* for ever: every address on its way, or read, is of such a block.
BlockInv ==
    /\ \A c \in Clients : phase[c] = "write" => Filled(service[c])
    /\ \A c \in Clients : phase[c] = "report" =>
           received[c] \in Calls /\ Answered(received[c])
    /\ \A i \in 1..Len(requests) : Filled(requests[i])
    /\ \A i \in 1..Len(answers) : Answered(answers[i])
    /\ se # Idle => se.req.svc = se.addr
    /\ OwnService

Persist ==
    /\ \A a \in Calls : Filled(a) => Filled(a)'
    /\ \A a \in Calls : Answered(a) => Answered(a)'

LEMMA BlockStep ==
    ASSUME program.layout = "struct", TypeOK, BlockInv, [Next]_vars PROVE BlockInv'
<1> USE DEF BlockInv, Goto, clientVars, eptVars, seVars, history, OwnService
<1>1. \A c \in Clients : service[c] \in Calls /\ Own(c) = service[c]
  BY Owns, Constants DEF Own
<1>2. ASSUME NEW c \in Clients, Start(c) PROVE BlockInv'
  BY <1>2 DEF Start, TypeOK, Filled, Answered
<1>3. ASSUME NEW c \in Clients, Abort(c) \/ Destroy(c) PROVE BlockInv'
  <2>1. /\ UNCHANGED <<mem, requests, se, reported, service, received>>
        /\ phase' = [phase EXCEPT ![c] = "idle"]
    BY <1>3 DEF Abort, Destroy, Leave
  <2>2. answers' = answers \/ answers' = <<>>
    BY <1>3 DEF Abort, Destroy
  <2> QED  BY <2>1, <2>2 DEF TypeOK, Filled, Answered
<1>4. ASSUME NEW c \in Clients, Setup(c) PROVE BlockInv'
  BY <1>4 DEF Setup, TypeOK, Filled, Answered
<1>5. ASSUME NEW c \in Clients, Fill(c) PROVE BlockInv'
  <2>1. mem' = [mem EXCEPT ![service[c]] = [req |-> Token(c), resp |-> @.resp]]
    BY <1>1, <1>5 DEF Fill, StructFill
  <2>2. Token(c).svc = service[c]
    BY DEF Token
  <2>3. Persist /\ Filled(service[c])'
    BY <1>1, <1>5, <2>1, <2>2 DEF Fill, TypeOK, Persist, Filled, Answered
  <2>4. /\ \A i \in 1..Len(requests) : requests[i] \in Calls
        /\ \A i \in 1..Len(answers) : answers[i] \in Calls
    BY ElementOfSeq DEF TypeOK
  <2> QED  BY <1>1, <1>5, <2>3, <2>4 DEF Fill, TypeOK, Persist
<1>6. ASSUME NEW c \in Clients, Write(c) PROVE BlockInv'
  <2>1. \A i \in 1..Len(requests') : Filled(requests'[i])
    BY <1>1, <1>6 DEF Write, TypeOK
  <2> QED  BY <1>6, <2>1 DEF Write, TypeOK, Filled, Answered
<1>7. ASSUME NEW c \in Clients, Read(c) PROVE BlockInv'
  <2>1. /\ Head(answers) \in Calls /\ Answered(Head(answers))
        /\ \A i \in 1..Len(answers') : Answered(answers'[i])
    BY <1>7, HeadTailProperties DEF Read, TypeOK
  <2> QED  BY <1>7, <2>1 DEF Read, TypeOK, Filled, Answered
<1>8. ASSUME NEW c \in Clients, Report(c) PROVE BlockInv'
  <2>1. received[c] = Own(c) => Result(c).resp.svc = Result(c).call.svc
    BY <1>1, <1>8 DEF Report, Result, Token, Answered
  <2>2. OwnService'
    BY <1>8, <2>1 DEF Report
  <2>3. \A d \in Clients : d # c => phase'[d] = phase[d] /\ service'[d] = service[d]
    BY <1>8 DEF Report, Proceed, TypeOK
  <2>4. phase'[c] \in {"fill", "end"}
    BY <1>8 DEF Report, Proceed, TypeOK
  <2> QED  BY <1>8, <2>2, <2>3, <2>4 DEF Report, Filled, Answered
<1>9. CASE SeTake
  <2>1. /\ Head(requests) \in Calls /\ Filled(Head(requests))
        /\ \A i \in 1..Len(requests') : Filled(requests'[i])
    BY <1>9, HeadTailProperties DEF SeTake, TypeOK
  <2>2. se'.req.svc = se'.addr
    BY <1>9, <2>1 DEF SeTake, Filled
  <2> QED  BY <1>9, <2>1, <2>2 DEF SeTake, Filled, Answered
<1>10. CASE SeRespond
  <2>1. se.addr \in Calls /\ se.req.svc = se.addr
    BY <1>10 DEF SeRespond, TypeOK
  <2>2. /\ \A a \in Calls : mem'[a].req = mem[a].req
        /\ \A a \in Calls : a # se.addr => mem'[a] = mem[a]
        /\ mem'[se.addr].resp = se.req
    BY <1>10, <2>1 DEF SeRespond, TypeOK
  <2>3. /\ \A i \in 1..Len(requests) : requests[i] \in Calls
        /\ \A i \in 1..Len(answers) : answers[i] \in Calls
    BY ElementOfSeq DEF TypeOK
  <2>4. \A a \in Calls : mem[a].resp.svc = a => mem'[a].resp.svc = a
    BY <2>1, <2>2
  <2>5. \A i \in 1..Len(answers') : mem'[answers'[i]].resp.svc = answers'[i]
    <3>1. answers' = answers \/ answers' = Append(answers, se.addr)
      BY <1>10 DEF SeRespond
    <3>2. \A i \in 1..Len(answers) : mem'[answers[i]].resp.svc = answers[i]
      BY <2>3, <2>4 DEF Answered
    <3>3. mem'[se.addr].resp.svc = se.addr /\ answers \in Seq(Calls)
      BY <2>1, <2>2 DEF TypeOK
    <3> QED  BY <2>1, <3>1, <3>2, <3>3
  <2> QED
    BY <1>1, <1>10, <2>2, <2>3, <2>4, <2>5 DEF SeRespond, Filled, Answered
<1>11. CASE UNCHANGED vars
  BY <1>11 DEF vars, Filled, Answered
<1> QED
  BY <1>2, <1>3, <1>4, <1>5, <1>6, <1>7, <1>8, <1>9, <1>10, <1>11
  DEF Next, ClientStep, SetupFails, Sigint, WriteFails, ReadFails, Finish, CleanUp

\* With a block for every service, whatever is reported was computed for that
\* service, for any number of clients, runs, failures and interrupts
\* (services_se_a32.c: 203-208, 238-240).
THEOREM StructOwn == Spec => []OwnService
<1> DEFINE Inv == program.layout = "struct" => BlockInv
<1>1. Init => Inv
  BY DEF Init, BlockInv, OwnService, Idle
<1>2. TypeOK /\ Inv /\ [Next]_vars => Inv'
  BY BlockStep, SameProgram
<1>3. Inv => OwnService
  BY DEF BlockInv, OwnService
<1> HIDE DEF Inv
<1>4. QED  BY <1>1, <1>2, <1>3, TypeCorrect, PTL DEF Spec

-----------------------------------------------------------------------------
(* One client. *)

\* Nothing is on its way, or exactly the answer the client waits for.
QuietInv == requests = <<>> /\ se = Idle /\ answers = <<>>

AwaitedInv(c) ==
    \/ requests = <<Own(c)>> /\ se = Idle /\ answers = <<>> /\ mem[Own(c)].req = Token(c)
    \/ requests = <<>> /\ se = [addr |-> Own(c), req |-> Token(c)] /\ answers = <<>>
    \/ requests = <<>> /\ se = Idle /\ answers = <<Own(c)>> /\ mem[Own(c)].resp = Token(c)

Done(s, c) == \E r \in reported : r.call = [svc |-> s, run |-> run[c]]

\* A run that was not disturbed by an answer to an earlier one: what is reported,
\* where the call in progress stands, and which services are behind it.
CallInv(c) ==
    /\ \A r \in reported : r.resp = r.call
    /\ phase[c] = "read" => AwaitedInv(c)
    /\ phase[c] \notin {"read", "idle"} => QuietInv
    /\ phase[c] = "write" => mem[Own(c)].req = Token(c)
    /\ phase[c] = "report" => received[c] = Own(c) /\ mem[Own(c)].resp = Token(c)
    /\ phase[c] # "idle" => \A s \in Calls : s < service[c] => Done(s, c)
    /\ phase[c] = "end" => \A s \in Calls : Done(s, c)

\* The client that runs has the endpoint.
HasEndpoint(c) == phase[c] # "idle" => attached = {c} /\ live

\* A step of a run that goes on.
GoesOn(c) == Setup(c) \/ Fill(c) \/ Write(c) \/ Read(c) \/ Report(c) \/ SeTake \/ SeRespond

LEMMA CallStep ==
    ASSUME NEW c \in Clients, TypeOK, HasEndpoint(c), CallInv(c), phase[c] # "idle", GoesOn(c)
    PROVE  CallInv(c)' /\ HasEndpoint(c)' /\ phase'[c] # "idle" /\ unread' = unread
<1> USE DEF CallInv, HasEndpoint, Goto, clientVars, eptVars, seVars, history
<1>0. /\ Own(c) \in Calls /\ Token(c) \in Tokens /\ Own(c) # 0 /\ Idle.addr = 0
      /\ service[c] \in Calls /\ run \in [Clients -> Nat]
  BY Owns, Constants DEF TypeOK, Idle
<1>1. CASE Setup(c)
  BY <1>1 DEF Setup, TypeOK, QuietInv, Done
<1>2. CASE Fill(c)
  <2>1. mem'[Own(c)].req = Token(c) /\ phase[c] = "fill" /\ phase'[c] = "write"
    BY <1>0, <1>2 DEF Fill, StructFill, UnionFill, TypeOK
  <2>2. Own(c)' = Own(c) /\ Token(c)' = Token(c)
    BY <1>2 DEF Fill, Own, Token, Address
  <2> QED  BY <1>2, <2>1, <2>2 DEF Fill, QuietInv, Done
<1>3. CASE Write(c)
  <2>1. phase[c] = "write" /\ phase'[c] = "read"
    BY <1>3 DEF Write, TypeOK
  <2>2. Own(c)' = Own(c) /\ Token(c)' = Token(c)
    BY <1>3 DEF Write, Own, Token, Address
  <2>3. requests = <<>> => requests' = <<Own(c)>>
    BY <1>3 DEF Write
  <2> QED  BY <1>3, <2>1, <2>2, <2>3 DEF Write, QuietInv, AwaitedInv, Done
<1>4. CASE Read(c)
  <2>1. phase[c] = "read" /\ phase'[c] = "report" /\ received'[c] = Head(answers)
    BY <1>4 DEF Read, TypeOK
  <2>2. Own(c)' = Own(c) /\ Token(c)' = Token(c)
    BY <1>4 DEF Read, Own, Token, Address
  <2>3. answers = <<Own(c)>> => Head(answers) = Own(c) /\ answers' = <<>>
    BY <1>4 DEF Read
  <2> QED  BY <1>4, <2>1, <2>2, <2>3 DEF Read, QuietInv, AwaitedInv, Done
<1>5. CASE Report(c)
  <2>1. phase[c] = "report" /\ phase'[c] \in {"fill", "end"} /\ run' = run
    BY <1>5 DEF Report, Proceed, TypeOK
  <2>2. Result(c).resp = Result(c).call /\ reported' = reported \cup {Result(c)}
    BY <1>5, <2>1 DEF Report, Result
  <2>3. \A s \in Calls : s <= service[c] => Done(s, c)'
    <3>1. Result(c).call = [svc |-> service[c], run |-> run'[c]]
      BY <2>1 DEF Result, Token
    <3>2. \A s \in Calls : s = service[c] => Done(s, c)'
      BY <2>2, <3>1 DEF Done
    <3>3. \A s \in Calls : s < service[c] => Done(s, c)'
      BY <2>1, <2>2 DEF Done
    <3> QED  BY <1>0, <3>2, <3>3, UpTo
  <2>4. CASE service[c] < Services
    <3>1. service'[c] = service[c] + 1 /\ phase'[c] = "fill"
      BY <1>5, <2>4 DEF Report, Proceed, TypeOK
    <3>2. \A s \in Calls : s < service'[c] => Done(s, c)'
      BY <1>0, <2>3, <3>1, UpTo
    <3> QED  BY <1>5, <2>1, <2>2, <3>1, <3>2 DEF Report, QuietInv
  <2>5. CASE ~(service[c] < Services)
    <3>1. service'[c] = service[c]
      BY <1>5, <2>5 DEF Report, Proceed
    <3>2. \A s \in Calls : Done(s, c)'
      BY <1>0, <2>3, <2>5, UpTo
    <3> QED  BY <1>5, <2>1, <2>2, <3>1, <3>2 DEF Report, QuietInv
  <2> QED  BY <2>4, <2>5
<1>6. CASE SeTake
  <2>1. Own(c)' = Own(c) /\ Token(c)' = Token(c)
    BY <1>6 DEF SeTake, Own, Token, Address
  <2>2. requests = <<Own(c)>> => Head(requests) = Own(c) /\ requests' = <<>>
    BY <1>6 DEF SeTake
  <2> QED  BY <1>6, <2>1, <2>2 DEF SeTake, QuietInv, AwaitedInv, Done
<1>7. CASE SeRespond
  <2>1. Own(c)' = Own(c) /\ Token(c)' = Token(c)
    BY <1>7 DEF SeRespond, Own, Token, Address
  <2>2. phase[c] = "read"
    BY <1>7 DEF SeRespond, QuietInv
  <2>3. se = [addr |-> Own(c), req |-> Token(c)] /\ requests = <<>> /\ answers = <<>>
    BY <1>7, <2>2 DEF SeRespond, AwaitedInv
  <2>4. answers' = <<Own(c)>>
    BY <1>7, <2>2, <2>3 DEF SeRespond
  <2>5. mem'[Own(c)].resp = Token(c)
    BY <1>0, <1>7, <2>3 DEF SeRespond, TypeOK
  <2>6. AwaitedInv(c)'
    BY <1>7, <2>1, <2>3, <2>4, <2>5 DEF SeRespond, AwaitedInv
  <2> QED  BY <1>7, <2>2, <2>6 DEF SeRespond, Done
<1> QED  BY <1>1, <1>2, <1>3, <1>4, <1>5, <1>6, <1>7 DEF GoesOn

\* A run begins, with all quiet.
LEMMA CallStarts ==
    ASSUME NEW c, Clients = {c}, TypeOK, Start(c), QuietInv, \A r \in reported : r.resp = r.call
    PROVE  CallInv(c)'
<1>1. phase'[c] = "setup" /\ service'[c] = 1
  BY DEF Start, Goto, TypeOK
<1>2. \A s \in Calls : ~(s < 1)
  BY SeServicesAssumption DEF Calls
<1> QED  BY <1>1, <1>2 DEF Start, CallInv, QuietInv, seVars

\* A run ends.
Ends(c) == Abort(c) \/ Destroy(c)

LEMMA CallEnds ==
    ASSUME NEW c \in Clients, TypeOK, CallInv(c), Ends(c)
    PROVE  /\ CallInv(c)' /\ HasEndpoint(c)' /\ phase'[c] = "idle"
           /\ UNCHANGED <<program, requests, se>>
           /\ answers' = answers \/ answers' = <<>>
<1>1. phase'[c] = "idle" /\ UNCHANGED <<program, requests, se, reported>>
  BY DEF Ends, Abort, Destroy, Leave, Goto, TypeOK, seVars
<1>2. answers' = answers \/ answers' = <<>>
  BY DEF Ends, Abort, Destroy
<1> QED  BY <1>1, <1>2 DEF CallInv, HasEndpoint

\* Every step of a single client, or of the SE.
LEMMA AloneSteps ==
    ASSUME NEW c, Clients = {c}, Next PROVE Start(c) \/ Ends(c) \/ GoesOn(c)
BY DEF Next, ClientStep, SetupFails, Sigint, WriteFails, ReadFails, Finish, CleanUp, Ends, GoesOn

\* As long as no run has ended while it waited.
AloneInv(c) ==
    /\ HasEndpoint(c)
    /\ unread = 0 => CallInv(c) /\ (phase[c] = "idle" => QuietInv)

LEMMA AloneStep ==
    ASSUME NEW c, Clients = {c}, TypeOK, AloneInv(c), [Next]_vars PROVE AloneInv(c)'
<1>0. c \in Clients /\ unread \in Nat
  BY DEF TypeOK
<1>1. CASE Start(c)
  <2>1. HasEndpoint(c)'
    BY <1>1 DEF Start, HasEndpoint, TypeOK
  <2>2. unread' = 0 => QuietInv /\ \A r \in reported : r.resp = r.call
    BY <1>1 DEF Start, AloneInv, CallInv
  <2>3. phase'[c] # "idle"
    BY <1>1 DEF Start, Goto, TypeOK
  <2> QED  BY <1>1, <2>1, <2>2, <2>3, CallStarts DEF AloneInv
<1>2. CASE Ends(c)
  <2>1. unread' = 0 => unread = 0 /\ phase[c] # "read"
    BY <1>0, <1>2 DEF Ends, Abort, Destroy, Leave
  <2>2. HasEndpoint(c)'
    BY <1>0, <1>2 DEF Ends, Abort, Destroy, Leave, Goto, HasEndpoint, TypeOK
  <2>3. ASSUME unread' = 0 PROVE CallInv(c)' /\ QuietInv'
    BY <1>0, <1>2, <2>1, <2>3, CallEnds DEF AloneInv, CallInv, QuietInv
  <2> QED  BY <2>2, <2>3 DEF AloneInv
<1>3. CASE GoesOn(c)
  <2>1. CASE unread = 0 /\ phase[c] # "idle"
    BY <1>0, <1>3, <2>1, CallStep DEF AloneInv
  <2>2. CASE unread = 0 /\ phase[c] = "idle"
    BY <1>3, <2>2 DEF GoesOn, Setup, Fill, Write, Read, Report, SeTake, SeRespond, AloneInv,
                      QuietInv
  <2>3. CASE unread # 0
    BY <1>0, <1>3, <2>3
    DEF GoesOn, Setup, Fill, Write, Read, Report, SeTake, SeRespond, AloneInv, HasEndpoint, Goto,
        Proceed, TypeOK, clientVars, eptVars, seVars, history
  <2> QED  BY <2>1, <2>2, <2>3
<1>4. CASE UNCHANGED vars
  BY <1>4 DEF vars, clientVars, eptVars, seVars, history, AloneInv, HasEndpoint, CallInv, QuietInv,
              AwaitedInv, Own, Token, Address, Done
<1> QED  BY <1>1, <1>2, <1>3, <1>4, AloneSteps

LEMMA AloneInvariant ==
    ASSUME NEW c, Clients = {c} PROVE Spec => []AloneInv(c)
<1>1. Init => AloneInv(c)
  BY DEF Init, AloneInv, HasEndpoint, CallInv, QuietInv
<1>2. TypeOK /\ AloneInv(c) /\ [Next]_vars => AloneInv(c)'
  BY AloneStep
<1>3. QED  BY <1>1, <1>2, TypeCorrect, PTL DEF Spec

\* With one client, what is reported is the response to this very request, for
\* both layouts, until a run first ends while it waits (services_lib.c: 22-35).
THEOREM AloneFresh ==
    ASSUME NEW c, Clients = {c} PROVE Spec => []Fresh
<1>1. AloneInv(c) => Fresh
  BY DEF AloneInv, CallInv, Fresh
<1>2. QED  BY <1>1, AloneInvariant, PTL

\* Until then a run that comes to its end has reported every service, for any
\* number of them (main.c: 21-26).
THEOREM AloneComplete ==
    ASSUME NEW c, Clients = {c} PROVE Spec => []Complete
<1>1. AloneInv(c) => Complete
  BY DEF AloneInv, CallInv, Complete, Done
<1>2. QED  BY <1>1, AloneInvariant, PTL

\* A handler that destroys the endpoint drops the answers that wait in it, and a
\* next run that waits for the SE finds all quiet.  Between the runs an answer may
\* still be on its way, but then there is no endpoint for it to reach.
Handled == program.layout = "struct" /\ program.patient /\ "failure" \notin program.disturb

PatientInv(c) ==
    /\ HasEndpoint(c) /\ CallInv(c)
    /\ phase[c] = "idle" => answers = <<>> /\ (live => requests = <<>> /\ se = Idle)

LEMMA PatientSteps ==
    ASSUME NEW c, Clients = {c}, Handled, HasEndpoint(c), Next
    PROVE  \/ Start(c) \/ GoesOn(c)
           \/ phase[c] = "setup" /\ Abort(c)
           \/ phase[c] # "idle" /\ Destroy(c)
BY DEF Next, ClientStep, SetupFails, Sigint, WriteFails, ReadFails, Finish, CleanUp, GoesOn, Handled,
       HasEndpoint

LEMMA PatientStep ==
    ASSUME NEW c, Clients = {c}, TypeOK, Handled, PatientInv(c), [Next]_vars
    PROVE  PatientInv(c)'
<1>0. c \in Clients
  OBVIOUS
<1>1. CASE Start(c)
  <2>1. QuietInv /\ \A r \in reported : r.resp = r.call
    BY <1>1 DEF Start, PatientInv, CallInv, QuietInv, Handled
  <2>2. HasEndpoint(c)' /\ phase'[c] # "idle"
    BY <1>1 DEF Start, Goto, PatientInv, HasEndpoint, TypeOK
  <2> QED  BY <1>1, <2>1, <2>2, CallStarts DEF PatientInv
<1>2. CASE GoesOn(c) /\ phase[c] # "idle"
  BY <1>0, <1>2, CallStep DEF PatientInv
<1>3. CASE GoesOn(c) /\ phase[c] = "idle"
  <2>1. SeTake \/ SeRespond
    BY <1>3 DEF GoesOn, Setup, Fill, Write, Read, Report
  <2>2. ~live
    BY <1>3, <2>1 DEF SeTake, SeRespond, PatientInv
  <2>3. /\ phase' = phase /\ live' = live /\ answers' = answers
        /\ reported' = reported /\ attached' = attached
    BY <2>1, <2>2 DEF SeTake, SeRespond, clientVars, eptVars, history
  <2> QED  BY <1>3, <2>2, <2>3 DEF PatientInv, HasEndpoint, CallInv
<1>4. CASE phase[c] = "setup" /\ Abort(c)
  <2>1. answers = <<>> /\ requests = <<>> /\ se = Idle
    BY <1>4 DEF PatientInv, CallInv, QuietInv
  <2> QED  BY <1>0, <1>4, <2>1, CallEnds DEF PatientInv, Ends
<1>5. CASE phase[c] # "idle" /\ Destroy(c)
  <2>1. answers' = <<>> /\ ~live'
    BY <1>5 DEF Destroy, PatientInv, HasEndpoint
  <2> QED  BY <1>0, <1>5, <2>1, CallEnds DEF PatientInv, Ends
<1>6. CASE UNCHANGED vars
  BY <1>6 DEF vars, clientVars, eptVars, seVars, history, PatientInv, HasEndpoint, CallInv,
              QuietInv, AwaitedInv, Own, Token, Address, Done
<1> QED  BY <1>1, <1>2, <1>3, <1>4, <1>5, <1>6, PatientSteps DEF PatientInv

\* With one client whose handler destroys the endpoint, and patience before the
\* next run, SIGINT never makes a run report anything but the response to its
\* own request, however many runs it ends and wherever (services_se_a32.c:
\* 120-135).
THEOREM PatientClears ==
    ASSUME NEW c, Clients = {c} PROVE Spec => []HandlerClears
<1> DEFINE Inv == Handled => PatientInv(c)
<1>1. Init => Inv
  BY DEF Init, PatientInv, HasEndpoint, CallInv
<1>2. TypeOK /\ Inv /\ [Next]_vars => Inv'
  BY PatientStep, SameProgram DEF Handled
<1>3. Inv => HandlerClears
  BY DEF HandlerClears, Handled, PatientInv, CallInv
<1> HIDE DEF Inv
<1>4. QED  BY <1>1, <1>2, <1>3, TypeCorrect, PTL DEF Spec

-----------------------------------------------------------------------------
(* Any number of clients: requests and answers balance. *)

Served == Waiting \cap attached     \* those that an answer can reach

LEMMA Counts ==
    ASSUME TypeOK
    PROVE  /\ IsFiniteSet(Waiting) /\ Cardinality(Waiting) \in Nat
           /\ IsFiniteSet(Served) /\ Cardinality(Served) \in Nat
           /\ Len(requests) \in Nat /\ Len(answers) \in Nat /\ unread \in Nat
<1>1. Waiting \in SUBSET Clients /\ Served \in SUBSET Clients
  BY DEF Waiting, Served
<1>2. IsFiniteSet(Waiting) /\ IsFiniteSet(Served)
  BY <1>1, FS_Subset, SeServicesAssumption
<1>3. Cardinality(Waiting) \in Nat /\ Cardinality(Served) \in Nat
  BY <1>2, FS_CardinalityType
<1>4. Len(requests) \in Nat /\ Len(answers) \in Nat /\ unread \in Nat
  BY LenProperties DEF TypeOK
<1> QED  BY <1>2, <1>3, <1>4

\* Without an endpoint nobody has a descriptor of it.
BalanceInv == (live \/ attached = {}) /\ Balanced

\* A client begins to wait: its request is on its way.
LEMMA Joins ==
    ASSUME TypeOK, BalanceInv, NEW c \in Clients, Write(c) PROVE BalanceInv'
<1>1. c \notin Waiting /\ Waiting' = Waiting \cup {c} /\ Served' = Served \cup {c}
  BY DEF Write, Goto, Waiting, Served, TypeOK, eptVars
<1>2. Cardinality(Waiting') = Cardinality(Waiting) + 1
  BY <1>1, Counts, FS_AddElement, Zenon
<1>3. c \notin Served
  BY <1>1 DEF Served
<1>4. Cardinality(Served') = Cardinality(Served) + 1
  BY <1>1, <1>3, Counts, FS_AddElement, Zenon
<1>5. Len(requests') = Len(requests) + 1 /\ UNCHANGED <<answers, se, unread, live, attached>>
  BY Owns DEF Write, TypeOK, eptVars, history
<1> QED
  BY <1>2, <1>4, <1>5, Counts DEF BalanceInv, Balanced, Outstanding, Served

\* It takes an answer, its own or another's.
LEMMA Takes ==
    ASSUME TypeOK, BalanceInv, NEW c \in Clients, Read(c) PROVE BalanceInv'
<1>1. c \in Waiting /\ Waiting' = Waiting \ {c} /\ Served' = Served \ {c}
  BY DEF Read, Goto, Waiting, Served, TypeOK, eptVars
<1>2. Cardinality(Waiting') = Cardinality(Waiting) - 1
  BY <1>1, Counts, FS_RemoveElement, Zenon
<1>3. c \in Served
  BY <1>1 DEF Served, Read
<1>4. Cardinality(Served') = Cardinality(Served) - 1
  BY <1>1, <1>3, Counts, FS_RemoveElement, Zenon
<1>5. Len(answers') = Len(answers) - 1 /\ UNCHANGED <<requests, se, unread, live, attached>>
  BY HeadTailProperties DEF Read, TypeOK, eptVars, seVars, history
<1> QED
  BY <1>2, <1>4, <1>5, Counts DEF BalanceInv, Balanced, Outstanding, Served

\* It gives up waiting, and the answer to it is one too many from then on.
LEMMA GivesUp ==
    ASSUME TypeOK, BalanceInv, NEW c \in Clients, Ends(c) PROVE BalanceInv'
<1>0. /\ phase' = [phase EXCEPT ![c] = "idle"] /\ UNCHANGED <<requests, se>>
      /\ attached' \subseteq attached
      /\ (live' = live /\ answers' = answers) \/ (attached' = {} /\ answers' = <<>>)
      /\ unread' = IF phase[c] = "read" THEN unread + 1 ELSE unread
  <2>1. /\ phase' = [phase EXCEPT ![c] = "idle"] /\ UNCHANGED <<requests, se>>
        /\ unread' = IF phase[c] = "read" THEN unread + 1 ELSE unread
    BY DEF Ends, Abort, Destroy, Leave, Goto, seVars
  <2>2. \/ attached' = attached \ {c} /\ live' = live /\ answers' = answers
        \/ attached' = {} /\ answers' = <<>>
        \/ attached' = attached /\ live' = live /\ answers' = answers
    BY DEF Ends, Abort, Destroy
  <2>3. attached' \subseteq attached
    <3>1. attached' = attached \ {c} \/ attached' = {} \/ attached' = attached
      BY <2>2, Zenon
    <3> QED  BY <3>1
  <2>4. (live' = live /\ answers' = answers) \/ (attached' = {} /\ answers' = <<>>)
    BY <2>2, Zenon
  <2> QED  BY <2>1, <2>3, <2>4, Zenon
<1>1. Waiting' = Waiting \ {c} /\ (c \in Waiting <=> phase[c] = "read")
  BY <1>0 DEF Waiting, TypeOK
<1>2. Cardinality(Waiting') = IF c \in Waiting THEN Cardinality(Waiting) - 1
                                               ELSE Cardinality(Waiting)
  BY <1>1, Counts, FS_RemoveElement, Zenon
<1>3. Cardinality(Waiting') + unread' = Cardinality(Waiting) + unread
  BY <1>0, <1>1, <1>2, Counts
<1>4. live' \/ attached' = {}
  BY <1>0 DEF BalanceInv
<1>5. CASE answers' = answers
  <2>1. Served' \in SUBSET Served
    BY <1>0, <1>1 DEF Served
  <2>2. Cardinality(Served') <= Cardinality(Served)
    BY <2>1, Counts, FS_Subset, Zenon
  <2>3. Cardinality(Served') \in Nat
    BY <2>1, Counts, FS_Subset, FS_CardinalityType, Zenon
  <2> QED
    BY <1>0, <1>3, <1>4, <1>5, <2>2, <2>3, Counts DEF BalanceInv, Balanced, Outstanding, Served
<1>6. CASE attached' = {} /\ answers' = <<>>
  <2>1. Cardinality(Served') = 0
    BY <1>6, FS_EmptySet DEF Served
  <2>2. Len(answers') = 0
    BY <1>6
  <2> QED
    BY <1>0, <1>3, <1>4, <2>1, <2>2, Counts DEF BalanceInv, Balanced, Outstanding, Served
<1> QED  BY <1>0, <1>5, <1>6

\* Who waits, and what there is to read, stay the same.
LEMMA StaysBalanced ==
    ASSUME TypeOK, BalanceInv, Waiting' = Waiting, Served' = Served, unread' = unread,
           Outstanding' = Outstanding, live' \/ attached' = {}
    PROVE  BalanceInv'
BY DEF BalanceInv, Balanced, Served

LEMMA BalanceStep ==
    ASSUME TypeOK, BalanceInv, [Next]_vars PROVE BalanceInv'
<1> USE DEF Goto, clientVars, eptVars, seVars, history
<1>1. ASSUME NEW c \in Clients, Start(c) PROVE BalanceInv'
  <2>1. Waiting' = Waiting /\ Served' = Served
    BY <1>1 DEF Start, Waiting, Served, TypeOK
  <2> QED  BY <1>1, <2>1, StaysBalanced DEF Start, Outstanding
<1>2. ASSUME NEW c \in Clients, Setup(c) \/ Fill(c) \/ Report(c) PROVE BalanceInv'
  <2>1. Waiting' = Waiting /\ UNCHANGED <<attached, live, unread, requests, answers, se>>
    BY <1>2 DEF Setup, Fill, Report, Proceed, Waiting, TypeOK
  <2> QED  BY <2>1, StaysBalanced DEF Outstanding, Served, BalanceInv
<1>3. CASE SeTake
  <2>1. Len(requests') = Len(requests) - 1 /\ se = Idle /\ se' # Idle
    BY <1>3, HeadTailProperties, Constants DEF SeTake, TypeOK, Idle
  <2>2. Outstanding' = Outstanding
    BY <1>3, <2>1, Counts DEF SeTake, Outstanding
  <2> QED  BY <1>3, <2>2, StaysBalanced DEF SeTake, Waiting, Served, BalanceInv
<1>4. CASE SeRespond
  <2>1. se.addr \in Calls /\ se # Idle /\ se' = Idle
    BY <1>4 DEF SeRespond, TypeOK
  <2>2. Waiting' = Waiting /\ UNCHANGED <<attached, live, unread, requests>>
    BY <1>4 DEF SeRespond, Waiting
  <2>3. CASE live
    <3>1. Len(answers') = Len(answers) + 1
      BY <1>4, <2>1, <2>3 DEF SeRespond, TypeOK
    <3>2. Outstanding' = Outstanding
      BY <2>1, <2>2, <3>1, Counts DEF Outstanding
    <3> QED  BY <2>2, <3>2, StaysBalanced DEF Served, BalanceInv
  <2>4. CASE ~live
    <3>1. answers' = answers /\ attached' = {}
      BY <1>4, <2>2, <2>4 DEF SeRespond, BalanceInv
    <3>2. Cardinality(Served') = 0
      BY <3>1, FS_EmptySet DEF Served
    <3>3. Outstanding' = Outstanding - 1 /\ Outstanding \in Nat /\ Outstanding' \in Nat
      BY <2>1, <2>2, <3>1, Counts DEF Outstanding
    <3> QED  BY <2>2, <3>1, <3>2, <3>3, Counts DEF BalanceInv, Balanced, Served
  <2> QED  BY <2>3, <2>4
<1>5. CASE UNCHANGED vars
  BY <1>5, StaysBalanced DEF vars, Waiting, Served, Outstanding, BalanceInv
<1> QED
  BY <1>1, <1>2, <1>3, <1>4, <1>5, Joins, Takes, GivesUp
  DEF Next, ClientStep, SetupFails, Sigint, WriteFails, ReadFails, Finish, CleanUp, Ends

\* Every client that waits has an answer coming, and only a run that ended while
\* it waited leaves one too many, for any number of clients that take each
\* other's answers and destroy each other's endpoint (services_lib.c: 22-32).
THEOREM AnswersBalance == Spec => []Balanced
<1>1. Init => BalanceInv
  <2> SUFFICES ASSUME Init PROVE BalanceInv
    OBVIOUS
  <2>1. Waiting = {} /\ Served = {}
    BY DEF Init, Waiting, Served
  <2>2. Cardinality(Waiting) = 0 /\ Cardinality(Served) = 0
    BY <2>1, FS_EmptySet
  <2>3. Outstanding = 0
    BY DEF Init, Outstanding
  <2> QED  BY <2>2, <2>3 DEF Init, BalanceInv, Balanced, Served
<1>2. TypeOK /\ BalanceInv /\ [Next]_vars => BalanceInv'
  BY BalanceStep
<1>3. BalanceInv => Balanced
  BY DEF BalanceInv
<1>4. QED  BY <1>1, <1>2, <1>3, TypeCorrect, PTL DEF Spec
=============================================================================
