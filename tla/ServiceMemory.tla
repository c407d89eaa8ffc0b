--------------------------- MODULE ServiceMemory ---------------------------
(***************************************************************************)
(* What the SE services clients exchange with the SE in shared memory: a   *)
(* call fills in the structure of its service, the SE answers in place, or *)
(* refuses and sets an error code, and the client prints what it finds.    *)
(* The client either has all structures side by side and fills in single   *)
(* fields (services_se_a32.c), or has them all at one place and clears the *)
(* one it is about to use (lib/services_lib.c).                            *)
(*                                                                         *)
(* Messages, failing calls and concurrency are in SeServices; here a call  *)
(* is a request, an answer and a report.  External to src/: the SE, which  *)
(* follows the same header files.                                          *)
(***************************************************************************)
EXTENDS ServiceFormats

CONSTANT PageSizes  \* page sizes the programs may run with

ASSUME ServiceMemoryAssumption == \A p \in PageSizes : p \in Nat /\ p >= 4096

MHU_SERVICES_DATA_LOC == 136835072      \* 0x0827F000

Calls == {"heartbeat", "rnd", "lcs", "version", "number", "uart"}

\* Structure, member of the collection, id and printed field of each call.
Members == [heartbeat |-> service_header_t, rnd |-> get_rnd_svc_t, lcs |-> get_lcs_svc_t,
            version |-> get_toc_version_svc_t, number |-> get_toc_number_svc_t,
            uart |-> uart_write_svc_t]
Place == [heartbeat |-> "service_header_t", rnd |-> "get_rnd", lcs |-> "get_lcs",
          version |-> "get_toc_version", number |-> "get_toc_number", uart |-> "uart_write"]
Id == [heartbeat |-> IdIn(MAINTENANCE, "HEARTBEAT"), rnd |-> IdIn(CRYPTOCELL, "GET_RND"),
       lcs |-> IdIn(CRYPTOCELL, "GET_LCS"), version |-> IdIn(SYSTEM_MGMT, "GET_TOC_VERSION"),
       number |-> IdIn(SYSTEM_MGMT, "GET_TOC_NUMBER"), uart |-> IdIn(APPLICATION, "UART_WRITE")]
Printed == [rnd |-> "resp_rnd", lcs |-> "resp_lcs", version |-> "resp_version",
            number |-> "resp_number_of_toc"]

\* Values: what was there before, the text, an error code, the SE's answers.
JUNK == 9001
TEXT == 9002
REFUSED == 9003
Answer == [rnd |-> 9011, lcs |-> 9012, version |-> 9013, number |-> 9014]

-----------------------------------------------------------------------------
(* Addresses, in bytes.  All fields used but the header's are words. *)

Formats == {"struct", "union"}

Offsets == [f \in Formats |-> [s \in Calls |->
    IF f = "struct" THEN OffsetOf(all_services_svc_t, Place[s]) ELSE 0]]
Fields == [s \in Calls |->
    [name \in {Members[s][k].name : k \in DOMAIN Members[s]} |-> OffsetOf(Members[s], name)]]
Sizes == [s \in Calls |-> SizeOf(Members[s])]
CollectionSize == [struct |-> SizeOf(all_services_svc_t), union |-> UnionSize]

\* The same as numbers.  No constant occurs in it, so that TLC's evaluation settles
\* it; proofs use it because the provers cannot evaluate a fold.
ASSUME LayoutAssumption ==
    /\ Offsets = [struct |-> [heartbeat |-> 0, rnd |-> 8, lcs |-> 1048, version |-> 1692,
                              number |-> 1708, uart |-> 1420],
                  union |-> [s \in Calls |-> 0]]
    /\ Sizes = [heartbeat |-> 8, rnd |-> 1040, lcs |-> 16, version |-> 16, number |-> 16,
                uart |-> 272]
    /\ CollectionSize = [struct |-> 1824, union |-> 1040]
    /\ Fields["rnd"]["send_rnd_length"] = 8 /\ Fields["rnd"]["resp_rnd"] = 12
    /\ Fields["rnd"]["resp_error_code"] = 1036
    /\ Fields["lcs"]["resp_lcs"] = 8 /\ Fields["lcs"]["resp_error_code"] = 12
    /\ Fields["version"]["resp_version"] = 8 /\ Fields["version"]["resp_error_code"] = 12
    /\ Fields["number"]["resp_number_of_toc"] = 8 /\ Fields["number"]["resp_error_code"] = 12
    /\ Fields["uart"]["string_length"] = 8 /\ Fields["uart"]["string_contents"] = 12
    /\ Fields["uart"]["resp_error_code"] = 268

\* Cells of a structure that somebody reads or writes.
CellsOf == [s \in Calls |->
    {0, 2, 4} \cup
    CASE s = "rnd" -> {Fields[s].send_rnd_length, Fields[s].resp_rnd,
                       Fields[s].resp_rnd + 4, Fields[s].resp_error_code}
      [] s = "uart" -> {Fields[s].string_length, Fields[s].resp_error_code}
                       \cup {Fields[s].string_contents + 4 * k : k \in 0..63}
      [] s = "heartbeat" -> {}
      [] OTHER -> {Fields[s][Printed[s]], Fields[s].resp_error_code}]
Cells == [f \in Formats |->
    UNION {{MHU_SERVICES_DATA_LOC + Offsets[f][s] + c : c \in CellsOf[s]} : s \in Calls}]

VARIABLES
    format,     \* the client: its structures side by side, or in one place
    page,       \* the page size
    mem,        \* the memory, at physical addresses
    call,       \* the call in progress, or the last one
    phase,      \* "idle", "sent" or "answered"
    granted,    \* whether the SE did what the last call asked for
    report      \* the values the last call printed

vars == <<format, page, mem, call, phase, granted, report>>

Init ==
    /\ format \in Formats /\ page \in PageSizes
    /\ mem = [c \in Cells[format] |-> JUNK]
    /\ call = "heartbeat" /\ phase = "idle" /\ granted = TRUE /\ report = << >>

\* Mutant of OffsetInPage: the mask is dropped.
OffsetUnmasked == MHU_SERVICES_DATA_LOC

\* The mapping starts at a page boundary; the client goes through it.
MappedSize == 2 * page
MapBase == MHU_SERVICES_DATA_LOC - (MHU_SERVICES_DATA_LOC % page)
OffsetInPage == MHU_SERVICES_DATA_LOC % page
Client(offset) == MapBase + OffsetInPage + offset

\* Where the structure of a call lies in the collection, and a member of it.
Offset(s) == Offsets[format][s]
Field(s, name) == Offset(s) + Fields[s][name]

ErrorCode(s) ==
    IF s = "heartbeat" THEN Offset(s) + 4 ELSE Field(s, "resp_error_code")

-----------------------------------------------------------------------------

\* Mutant of Cleared: only the header is cleared.
ClearedHeader(s) ==
    IF format = "union" THEN Client(0)..Client(Sizes.heartbeat - 1) ELSE {}

\* memset of the structure.
Cleared(s) ==
    IF format = "union" THEN Client(0)..Client(Sizes[s] - 1) ELSE {}

\* Mutants of Filled: the text is taken to be longer than its field, and the
\* length of the random number is not set.
FilledLong(s) ==
    IF s = "rnd" THEN {Client(Field(s, "send_rnd_length"))}
    ELSE IF s = "uart" THEN Client(Field(s, "string_contents"))..Client(Field(s, "string_contents") + 511)
    ELSE {}
FilledNoLength(s) ==
    IF s = "uart" THEN Client(Field(s, "string_contents"))..Client(Field(s, "string_contents") + 255) ELSE {}

\* The request: for a random number its length, 8; for the UART its text.
Filled(s) ==
    IF s = "rnd" THEN {Client(Field(s, "send_rnd_length"))}
    ELSE IF s = "uart" THEN Client(Field(s, "string_contents"))..Client(Field(s, "string_contents") + 255)
    ELSE {}

Request(s) ==
    /\ phase = "idle"
    /\ mem' = [c \in Cells[format] |->
                  IF c = Client(Offset(s)) THEN Id[s]
                  ELSE IF c \in Filled(s) THEN IF s = "rnd" THEN 8 ELSE TEXT
                  ELSE IF c \in Cleared(s) THEN 0
                  ELSE mem[c]]
    /\ call' = s /\ phase' = "sent" /\ report' = << >>
    /\ UNCHANGED <<format, page, granted>>

\* The SE: the cells it writes when it grants the request.
Answered(s) ==
    IF s = "rnd" THEN {Field(s, "resp_rnd"), Field(s, "resp_rnd") + 4}
    ELSE IF s \in DOMAIN Printed THEN {Field(s, Printed[s])} ELSE {}

\* It finds the structure at the physical address it is sent; what does not
\* have the id of the service it refuses, and it may refuse any request.
Serve ==
    /\ phase = "sent"
    /\ granted' \in {FALSE, mem[MHU_SERVICES_DATA_LOC + Offset(call)] = Id[call]}
    /\ mem' = [c \in Cells[format] |->
                  LET o == c - MHU_SERVICES_DATA_LOC IN
                  IF o = ErrorCode(call) THEN IF granted' THEN 0 ELSE REFUSED
                  ELSE IF granted' /\ o \in Answered(call) THEN Answer[call]
                  ELSE mem[c]]
    /\ phase' = "answered"
    /\ UNCHANGED <<format, page, call, report>>

\* What is printed, through the mapping: as many random bytes as the length in
\* memory says (shown as that number when it is not 8), one word, or nothing.
\* No error code is looked at.
Report ==
    /\ phase = "answered"
    /\ report' =
          IF call = "rnd"
          THEN IF mem[Client(Field(call, "send_rnd_length"))] = 8
               THEN [k \in 1..2 |-> mem[Client(Field(call, "resp_rnd") + 4 * (k - 1))]]
               ELSE <<mem[Client(Field(call, "send_rnd_length"))]>>
          ELSE IF call \in DOMAIN Printed
          THEN <<mem[Client(Field(call, Printed[call]))]>>
          ELSE << >>
    /\ phase' = "idle"
    /\ UNCHANGED <<format, page, mem, call, granted>>

Next == Serve \/ Report \/ \E s \in Calls : Request(s)

Spec == Init /\ [][Next]_vars

-----------------------------------------------------------------------------
(* Properties. *)

Values == {0, 8, JUNK, TEXT, REFUSED} \cup {Answer[s] : s \in DOMAIN Answer}
          \cup {Id[s] : s \in Calls}

\* The shape of the state; the whole collection lies in the mapped pages, whatever
\* the page size (services_se_a32.c: 178-198); and the loop that prints random
\* bytes, bounded by a length in shared memory, prints 8 of them (services_lib.c:
\* 59, 60).
TypeOK ==
    /\ format \in Formats /\ page \in PageSizes
    /\ OffsetInPage + CollectionSize[format] <= MappedSize
    /\ mem \in [Cells[format] -> Values]
    /\ call \in Calls /\ phase \in {"idle", "sent", "answered"} /\ granted \in BOOLEAN
    /\ report \in Seq(Values)
    /\ report # << >> => Len(report) = IF call = "rnd" THEN 2 ELSE 1

\* What a call prints is its own: the answer of its service, or what was there
\* before the first; never the request or the answer of another service, nor a
\* part of the text, although all share one memory (services_se_a32.c: 29-56,
\* 203-208).  With the library it is even the answer to this very call: a
\* refused one prints nothing that the SE ever wrote (services_lib.c: 42, 68, 89,
\* 110).
ReportsOwn ==
    \A k \in DOMAIN report :
        report[k] \in IF format = "struct" THEN {Answer[call], JUNK}
                      ELSE {IF granted THEN Answer[call] ELSE 0}

\* The SE finds the request where the client has put it, and with the library a
\* header that is clean otherwise.
RequestFound ==
    phase = "sent" =>
        /\ mem[MHU_SERVICES_DATA_LOC + Offset(call)] = Id[call]
        /\ call = "rnd" => mem[MHU_SERVICES_DATA_LOC + Field(call, "send_rnd_length")] = 8
        /\ call = "uart" => mem[MHU_SERVICES_DATA_LOC + Field(call, "string_contents")] = TEXT
        /\ format = "union" => \A o \in {2, 4} : mem[MHU_SERVICES_DATA_LOC + o] = 0
=============================================================================
