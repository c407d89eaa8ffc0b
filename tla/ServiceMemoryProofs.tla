------------------------ MODULE ServiceMemoryProofs ------------------------
(***************************************************************************)
(* Proofs about ServiceMemory, for every page size: where each call reads  *)
(* and writes, and what a call finds there, whatever calls there were      *)
(* before.                                                                 *)
(***************************************************************************)
EXTENDS ServiceMemory, SequenceTheorems, TLAPS

At(offset) == MHU_SERVICES_DATA_LOC + offset

\* The bytes of a call's structure.
Extent(s) == Offset(s)..Offset(s) + Sizes[s] - 1

Replied == DOMAIN Printed

-----------------------------------------------------------------------------
(* Places. *)

LEMMA Numbers ==
    /\ PageSizes \subseteq Nat /\ MHU_SERVICES_DATA_LOC \in Nat
    /\ \A f \in Formats, s \in Calls : Offsets[f][s] \in Nat
    /\ \A s \in Calls : Sizes[s] \in Nat /\ Sizes[s] >= 8
BY ServiceMemoryAssumption, LayoutAssumption DEF Formats, Calls, MHU_SERVICES_DATA_LOC

\* The client sees each byte where the SE does, whatever the page size.
LEMMA ClientAt ==
    ASSUME page \in PageSizes, NEW o \in Int PROVE Client(o) = At(o)
<1>1. page \in Nat /\ page > 0 /\ MHU_SERVICES_DATA_LOC \in Nat
  BY ServiceMemoryAssumption DEF MHU_SERVICES_DATA_LOC
<1>2. MHU_SERVICES_DATA_LOC % page \in Nat
  BY <1>1
<1> QED  BY <1>1, <1>2 DEF Client, MapBase, OffsetInPage, At

\* The whole collection is mapped.
LEMMA Fits ==
    ASSUME page \in PageSizes, format \in Formats
    PROVE  OffsetInPage + CollectionSize[format] <= MappedSize
<1>1. page \in Nat /\ page >= 4096 /\ MHU_SERVICES_DATA_LOC \in Nat
  BY ServiceMemoryAssumption DEF MHU_SERVICES_DATA_LOC
<1>2. MHU_SERVICES_DATA_LOC % page \in 0..page - 1
  BY <1>1
<1>3. CollectionSize[format] \in Nat /\ CollectionSize[format] <= 1824
  BY LayoutAssumption DEF Formats
<1> QED  BY <1>1, <1>2, <1>3 DEF OffsetInPage, MappedSize

\* Side by side, structures of different calls do not overlap.
LEMMA Apart ==
    ASSUME format = "struct", NEW s \in Calls, NEW t \in Calls, s # t,
           NEW a \in Extent(s), NEW b \in Extent(t)
    PROVE  a # b
BY LayoutAssumption DEF Extent, Offset, Calls

\* A call writes its request inside its structure, past the header but for the id,
\* and neither to where the SE puts the answer nor to its error code.
LEMMA Places ==
    ASSUME format \in Formats, page \in PageSizes, NEW s \in Calls
    PROVE  /\ Offset(s) \in Extent(s) /\ ErrorCode(s) \in Extent(s)
           /\ Answered(s) \subseteq Extent(s) /\ Extent(s) \subseteq Nat
           /\ \A c \in Filled(s) : c \in Int /\ c - At(0) \in Extent(s) /\ c - At(Offset(s)) >= 8
           /\ ErrorCode(s) # Offset(s)
           /\ \A o \in Answered(s) :
                  /\ o # ErrorCode(s) /\ o - Offset(s) >= 8 /\ At(o) \notin Filled(s)
<1>1. \A o \in Int : Client(o) = At(o)
  BY ClientAt
<1>2. Offset(s) \in Nat /\ Sizes[s] \in Nat /\ Sizes[s] >= 8 /\ MHU_SERVICES_DATA_LOC \in Nat
  BY Numbers DEF Offset
<1> USE DEF Extent, ErrorCode, Answered, Filled, At, Field
<1>3. CASE s = "heartbeat"
  BY <1>2, <1>3, LayoutAssumption DEF Printed
<1>4. CASE s = "rnd"
  BY <1>1, <1>2, <1>4, LayoutAssumption DEF Printed
<1>5. CASE s = "uart"
  BY <1>1, <1>2, <1>5, LayoutAssumption DEF Printed
<1>6. CASE s = "lcs"
  BY <1>2, <1>6, LayoutAssumption DEF Printed
<1>7. CASE s = "version"
  BY <1>2, <1>7, LayoutAssumption DEF Printed
<1>8. CASE s = "number"
  BY <1>2, <1>8, LayoutAssumption DEF Printed
<1> QED  BY <1>3, <1>4, <1>5, <1>6, <1>7, <1>8 DEF Calls

\* With the library a call clears all of the structure it is about to use.
LEMMA Clears ==
    ASSUME format = "union", page \in PageSizes, NEW s \in Calls
    PROVE  /\ Offset(s) = 0 /\ \A o \in Extent(s) : At(o) \in Cleared(s)
           /\ 2 \in Extent(s) /\ 4 \in Extent(s)
<1>1. Sizes[s] \in Nat /\ Sizes[s] >= 8 /\ MHU_SERVICES_DATA_LOC \in Nat
  BY Numbers
<1>2. Offset(s) = 0
  BY LayoutAssumption DEF Offset
<1>3. Client(0) = At(0) /\ Client(Sizes[s] - 1) = At(Sizes[s] - 1)
  BY <1>1, ClientAt
<1> QED  BY <1>1, <1>2, <1>3 DEF Cleared, Extent, At

\* Cells that the SE or the client reads.
LEMMA CellOf ==
    ASSUME format \in Formats, NEW s \in Calls, NEW k \in CellsOf[s], k \in Nat
    PROVE  At(Offset(s) + k) \in Cells[format]
<1>1. At(Offset(s) + k) = MHU_SERVICES_DATA_LOC + Offsets[format][s] + k
  BY Numbers DEF At, Offset
<1>2. Cells[format] = UNION {{MHU_SERVICES_DATA_LOC + Offsets[format][t] + c : c \in CellsOf[t]}
                               : t \in Calls}
  BY DEF Cells
<1> QED  BY <1>1, <1>2

LEMMA Known ==
    /\ \A s \in Calls : {0, 2, 4} \subseteq CellsOf[s]
    /\ {8, 12, 16} \subseteq CellsOf["rnd"] /\ 12 \in CellsOf["uart"]
    /\ \A s \in {"lcs", "version", "number"} : 8 \in CellsOf[s]
<1>1. \A s \in Calls : {0, 2, 4} \subseteq CellsOf[s]
  BY DEF CellsOf
<1>2. {8, 12, 16} \subseteq CellsOf["rnd"]
  BY LayoutAssumption DEF CellsOf, Calls
<1>3. 12 \in CellsOf["uart"]
  <2>1. CellsOf["uart"] = {0, 2, 4} \cup ({8, 268} \cup {12 + 4 * k : k \in 0..63})
    BY LayoutAssumption DEF CellsOf, Calls
  <2>2. 12 = 12 + 4 * 0 /\ 0 \in 0..63
    OBVIOUS
  <2> QED  BY <2>1, <2>2
<1>4. 8 \in CellsOf["lcs"] /\ 8 \in CellsOf["version"] /\ 8 \in CellsOf["number"]
  BY LayoutAssumption DEF CellsOf, Calls, Printed
<1> QED  BY <1>1, <1>2, <1>3, <1>4

LEMMA RndAndUart ==
    ASSUME format \in Formats
    PROVE  /\ Offset("rnd") \in Nat /\ Offset("uart") \in Nat
           /\ Field("rnd", "send_rnd_length") = Offset("rnd") + 8
           /\ Field("rnd", "resp_rnd") = Offset("rnd") + 12
           /\ ErrorCode("rnd") = Offset("rnd") + 1036
           /\ Answered("rnd") = {Offset("rnd") + 12, Offset("rnd") + 12 + 4}
           /\ Field("uart", "string_contents") = Offset("uart") + 12
<1>1. "rnd" \in Calls /\ "uart" \in Calls
  BY DEF Calls
<1>2. Offset("rnd") \in Nat /\ Offset("uart") \in Nat
  BY <1>1, Numbers DEF Offset
<1>3. Field("rnd", "send_rnd_length") = Offset("rnd") + 8
  BY LayoutAssumption DEF Field
<1>4. Field("rnd", "resp_rnd") = Offset("rnd") + 12
  BY LayoutAssumption DEF Field
<1>5. ErrorCode("rnd") = Offset("rnd") + 1036
  BY LayoutAssumption DEF Field, ErrorCode
<1>6. Field("uart", "string_contents") = Offset("uart") + 12
  BY LayoutAssumption DEF Field
<1>7. Answered("rnd") = {Offset("rnd") + 12, Offset("rnd") + 12 + 4}
  BY <1>4 DEF Answered
<1> QED  BY <1>2, <1>3, <1>4, <1>5, <1>6, <1>7

LEMMA Readable ==
    ASSUME format \in Formats, NEW s \in Calls
    PROVE  /\ At(Offset(s)) \in Cells[format]
           /\ format = "union" => At(2) \in Cells[format] /\ At(4) \in Cells[format]
           /\ \A o \in Answered(s) : At(o) \in Cells[format]
           /\ s = "rnd" => At(Field(s, "send_rnd_length")) \in Cells[format]
           /\ s = "uart" => At(Field(s, "string_contents")) \in Cells[format]
<1>1. Offset(s) \in Nat
  BY Numbers DEF Offset
<1>2. At(Offset(s)) \in Cells[format]
  BY <1>1, CellOf, Known
<1>3. ASSUME format = "union" PROVE At(2) \in Cells[format] /\ At(4) \in Cells[format]
  <2>1. Offset(s) = 0 /\ 0 + 2 = 2 /\ 0 + 4 = 4
    BY <1>3, LayoutAssumption DEF Offset
  <2> QED  BY <2>1, CellOf, Known
<1>4. CASE s = "rnd"
  <2>1. /\ Field(s, "send_rnd_length") = Offset(s) + 8 /\ Offset(s) + 12 + 4 = Offset(s) + 16
        /\ Answered(s) = {Offset(s) + 12, Offset(s) + 12 + 4}
    BY <1>1, <1>4, RndAndUart
  <2> QED  BY <1>2, <1>3, <1>4, <2>1, CellOf, Known
<1>5. CASE s = "uart"
  <2>1. Field(s, "string_contents") = Offset(s) + 12 /\ Answered(s) = {}
    BY <1>5, RndAndUart DEF Answered, Printed
  <2> QED  BY <1>2, <1>3, <1>5, <2>1, CellOf, Known
<1>6. CASE s \in {"lcs", "version", "number"}
  <2>1. Answered(s) = {Offset(s) + 8}
    BY <1>6, LayoutAssumption DEF Field, Answered, Printed
  <2> QED  BY <1>2, <1>3, <1>6, <2>1, CellOf, Known
<1>7. CASE s = "heartbeat"
  <2>1. Answered(s) = {}
    BY <1>7 DEF Answered, Printed
  <2> QED  BY <1>2, <1>3, <1>7, <2>1
<1> QED  BY <1>4, <1>5, <1>6, <1>7 DEF Calls

-----------------------------------------------------------------------------
(* What is there. *)

\* With the struct client the answer's place of a service never holds anything
\* else; with the library it holds this call's answer, or nothing.
AnswerInv ==
    /\ format = "struct" =>
           \A s \in Calls : \A o \in Answered(s) : mem[At(o)] \in {Answer[s], JUNK}
    /\ format = "union" /\ phase = "sent" => \A o \in Answered(call) : mem[At(o)] = 0
    /\ format = "union" /\ phase = "answered" =>
           \A o \in Answered(call) : mem[At(o)] = IF granted THEN Answer[call] ELSE 0

\* The length that bounds the loop is not overwritten before it is read.
LengthInv ==
    phase # "idle" /\ call = "rnd" => mem[At(Field(call, "send_rnd_length"))] = 8

Inv ==
    /\ TypeOK
    /\ phase # "idle" => report = << >>
    /\ AnswerInv /\ LengthInv /\ RequestFound /\ ReportsOwn

LEMMA SamePlaces ==
    ASSUME format' = format, page' = page
    PROVE  \A s \in Calls : Answered(s)' = Answered(s) /\ Offset(s)' = Offset(s)
                            /\ (\A n : Field(s, n)' = Field(s, n))
BY DEF Answered, Offset, Field

\* A call writes its id, its arguments and zeros inside its own structure alone.
LEMMA Requested ==
    ASSUME TypeOK, NEW s \in Calls, Request(s), NEW o \in Nat, At(o) \in Cells[format]
    PROVE  /\ o = Offset(s) => mem'[At(o)] = Id[s]
           /\ At(o) \in Filled(s) => mem'[At(o)] = IF s = "rnd" THEN 8 ELSE TEXT
           /\ o # Offset(s) /\ At(o) \notin Filled(s) => 
                 mem'[At(o)] = IF At(o) \in Cleared(s) THEN 0 ELSE mem[At(o)]
<1>1. Client(Offset(s)) = At(Offset(s)) /\ Offset(s) \in Nat
  BY ClientAt, Numbers DEF TypeOK, Offset
<1>2. At(o) = At(Offset(s)) <=> o = Offset(s)
  BY <1>1, Numbers DEF At
<1>3. At(Offset(s)) \notin Filled(s)
  BY <1>1, Numbers, Places DEF TypeOK, At
<1> QED  BY <1>1, <1>2, <1>3 DEF Request

\* Outside of its structure a call of the struct client changes nothing.
LEMMA Untouched ==
    ASSUME TypeOK, format = "struct", NEW s \in Calls, Request(s),
           NEW t \in Calls, NEW o \in Extent(t), At(o) \in Cells[format], t # s
    PROVE  mem'[At(o)] = mem[At(o)]
<1>1. o \in Nat /\ o \notin Extent(s) /\ Offset(s) \in Extent(s)
  BY Apart, Places DEF TypeOK
<1>2. At(o) \notin Filled(s)
  BY <1>1, Places, Numbers DEF TypeOK, At
<1>3. At(o) \notin Cleared(s)
  BY DEF Cleared
<1> QED  BY <1>1, <1>2, <1>3, Requested

-----------------------------------------------------------------------------
(* Types. *)

LEMMA RequestTypes ==
    ASSUME TypeOK, NEW s \in Calls, Request(s) PROVE TypeOK'
<1>1. mem' \in [Cells[format] -> Values]
  BY DEF Request, TypeOK, Values
<1>2. report' = << >> /\ << >> \in Seq(Values)
  BY DEF Request
<1> QED  BY <1>1, <1>2 DEF Request, TypeOK, OffsetInPage, MappedSize

LEMMA ServeTypes ==
    ASSUME TypeOK, Serve PROVE TypeOK'
<1>1. \A o \in Answered(call) : Answer[call] \in Values
  BY DEF Answered, Values, Answer, Printed, TypeOK, Calls
<1>2. mem' \in [Cells[format] -> Values]
  BY <1>1 DEF Serve, TypeOK, Values
<1>3. granted' \in BOOLEAN
  BY DEF Serve
<1> QED  BY <1>2, <1>3 DEF Serve, TypeOK, OffsetInPage, MappedSize

\* What a report prints, given the length that it finds: words of the answer.
LEMMA Reported ==
    ASSUME TypeOK, LengthInv, Report
    PROVE  /\ report' \in Seq(Values)
           /\ report' # << >> => Len(report') = IF call = "rnd" THEN 2 ELSE 1
           /\ \A k \in DOMAIN report' : \E o \in Answered(call) : report'[k] = mem[At(o)]
<1>1. \A o \in Answered(call) : At(o) \in Cells[format] /\ mem[At(o)] \in Values
  BY Readable DEF TypeOK
<1>2. \A name : Field(call, name) \in Nat => Client(Field(call, name)) = At(Field(call, name))
  BY ClientAt DEF TypeOK
<1>3. Offset(call) \in Nat
  BY Numbers DEF TypeOK, Offset
<1>4. CASE call = "rnd"
  <2>1. /\ Field(call, "send_rnd_length") \in Nat /\ Field(call, "resp_rnd") \in Nat
        /\ Answered(call) = {Field(call, "resp_rnd"), Field(call, "resp_rnd") + 4}
    BY <1>4, RndAndUart DEF TypeOK
  <2>2. mem[Client(Field(call, "send_rnd_length"))] = 8
    BY <1>2, <1>4, <2>1 DEF LengthInv, Report
  <2>3. /\ Client(Field(call, "resp_rnd") + 4 * (1 - 1)) = At(Field(call, "resp_rnd"))
        /\ Client(Field(call, "resp_rnd") + 4 * (2 - 1)) = At(Field(call, "resp_rnd") + 4)
    BY <2>1, ClientAt DEF TypeOK
  <2>4. report' = [k \in 1..2 |-> mem[Client(Field(call, "resp_rnd") + 4 * (k - 1))]]
    BY <1>4, <2>2 DEF Report
  <2>5. /\ DOMAIN report' = 1..2 /\ report'[1] = mem[At(Field(call, "resp_rnd"))]
        /\ report'[2] = mem[At(Field(call, "resp_rnd") + 4)]
    BY <2>3, <2>4
  <2>6. report' \in [1..2 -> Values]
    BY <1>1, <2>1, <2>4, <2>5
  <2>7. report' \in Seq(Values) /\ Len(report') = 2
    <3>1. Seq(Values) = UNION {[1..n -> Values] : n \in Nat}
      BY SeqDef
    <3>2. report' \in Seq(Values)
      BY <2>6, <3>1
    <3> QED  BY <2>5, <3>2, LenProperties
  <2> QED  BY <1>4, <2>1, <2>5, <2>7
<1>5. CASE call \in {"lcs", "version", "number"}
  <2>1. call \in DOMAIN Printed /\ call # "rnd"
    BY <1>5 DEF Printed
  <2>2. Field(call, Printed[call]) \in Nat /\ Answered(call) = {Field(call, Printed[call])}
    BY <1>3, <1>5, LayoutAssumption DEF Field, Answered, Printed
  <2>3. report' = <<mem[At(Field(call, Printed[call]))]>>
    BY <1>2, <2>1, <2>2 DEF Report
  <2> QED  BY <1>1, <2>1, <2>2, <2>3
<1>6. CASE call \in {"heartbeat", "uart"}
  <2>1. call \notin DOMAIN Printed /\ call # "rnd"
    BY <1>6 DEF Printed
  <2>2. report' = << >>
    BY <2>1 DEF Report
  <2> QED  BY <2>2
<1> QED  BY <1>4, <1>5, <1>6 DEF TypeOK, Calls

LEMMA ReportTypes ==
    ASSUME TypeOK, LengthInv, Report PROVE TypeOK'
BY Reported DEF Report, TypeOK, OffsetInPage, MappedSize

-----------------------------------------------------------------------------
(* Steps. *)

LEMMA RequestStep ==
    ASSUME Inv, NEW s \in Calls, Request(s) PROVE Inv'
<1> USE DEF Inv
<1>0. /\ TypeOK /\ TypeOK' /\ format \in Formats /\ page \in PageSizes
      /\ UNCHANGED <<format, page, granted>>
      /\ call' = s /\ phase' = "sent" /\ report' = << >>
  BY RequestTypes DEF Request, TypeOK
<1>1. \A t \in Calls : Answered(t)' = Answered(t) /\ Offset(t)' = Offset(t)
                       /\ (\A n : Field(t, n)' = Field(t, n))
  BY <1>0, SamePlaces
<1>2. mem'[At(Offset(s))] = Id[s]
  BY <1>0, Readable, Requested, Numbers DEF Offset
<1>3. s = "rnd" => mem'[At(Field(s, "send_rnd_length"))] = 8
  <2>1. ASSUME s = "rnd" PROVE Filled(s) = {At(Field(s, "send_rnd_length"))}
    <3>1. Client(Field(s, "send_rnd_length")) = At(Field(s, "send_rnd_length"))
      BY <1>0, <2>1, ClientAt, RndAndUart
    <3> QED  BY <2>1, <3>1 DEF Filled
  <2>2. ASSUME s = "rnd" PROVE Field(s, "send_rnd_length") \in Nat
    BY <1>0, <2>2, RndAndUart
  <2> QED  BY <1>0, <2>1, <2>2, Readable, Requested
<1>4. s = "uart" => mem'[At(Field(s, "string_contents"))] = TEXT
  <2>1. ASSUME s = "uart"
        PROVE  Field(s, "string_contents") \in Nat /\ At(Field(s, "string_contents")) \in Filled(s)
    <3>1. Field(s, "string_contents") \in Nat
      BY <1>0, <2>1, RndAndUart
    <3>2. /\ Client(Field(s, "string_contents")) = At(Field(s, "string_contents"))
          /\ Client(Field(s, "string_contents") + 255) = At(Field(s, "string_contents") + 255)
      BY <1>0, <3>1, ClientAt
    <3> QED  BY <2>1, <3>1, <3>2, Numbers DEF Filled, At
  <2> QED  BY <1>0, <2>1, Readable, Requested
<1>5. ASSUME format = "union", NEW o \in Extent(s), o # 0, At(o) \notin Filled(s),
             At(o) \in Cells[format]
      PROVE  mem'[At(o)] = 0
  BY <1>0, <1>5, Clears, Places, Requested
<1>6. ASSUME format = "union", NEW o \in {2, 4} PROVE mem'[At(o)] = 0
  <2>1. At(o) \notin Filled(s)
    BY <1>0, <1>6, Places, Clears, Numbers DEF At
  <2> QED  BY <1>0, <1>5, <1>6, <2>1, Clears, Readable
<1>7. ASSUME format = "union", NEW o \in Answered(s) PROVE mem'[At(o)] = 0
  BY <1>0, <1>5, <1>7, Places, Clears, Readable
<1>8. ASSUME format = "struct", NEW t \in Calls, NEW o \in Answered(t)
      PROVE  mem'[At(o)] \in {Answer[t], JUNK}
  <2>0. At(o) \in Cells[format] /\ o \in Extent(t) /\ mem[At(o)] \in {Answer[t], JUNK}
    BY <1>0, <1>8, Readable, Places DEF AnswerInv
  <2>1. CASE t # s
    BY <1>0, <1>8, <2>0, <2>1, Untouched
  <2>2. CASE t = s
    <3>1. o \in Nat /\ o # Offset(s) /\ At(o) \notin Filled(s) /\ At(o) \notin Cleared(s)
      BY <1>0, <1>8, <2>2, Places, Numbers DEF Cleared, Offset
    <3> QED  BY <1>0, <2>0, <3>1, Requested
  <2> QED  BY <2>1, <2>2
<1>9. AnswerInv'
  BY <1>0, <1>1, <1>7, <1>8 DEF AnswerInv, At
<1>10. LengthInv'
  BY <1>0, <1>1, <1>3 DEF LengthInv, At
<1>11. RequestFound'
  BY <1>0, <1>1, <1>2, <1>3, <1>4, <1>6 DEF RequestFound, At
<1> QED  BY <1>0, <1>9, <1>10, <1>11 DEF ReportsOwn

LEMMA ServeStep ==
    ASSUME Inv, Serve PROVE Inv'
<1> USE DEF Inv
<1>0. /\ TypeOK /\ TypeOK' /\ format \in Formats /\ page \in PageSizes /\ call \in Calls
      /\ UNCHANGED <<format, page, call, report>>
      /\ phase = "sent" /\ phase' = "answered" /\ report = << >>
  BY ServeTypes DEF Serve, TypeOK
<1>1. \A t \in Calls : Answered(t)' = Answered(t) /\ Offset(t)' = Offset(t)
                       /\ (\A n : Field(t, n)' = Field(t, n))
  BY <1>0, SamePlaces
<1>2. ASSUME NEW o \in Nat, At(o) \in Cells[format]
      PROVE  mem'[At(o)] = IF o = ErrorCode(call) THEN IF granted' THEN 0 ELSE REFUSED
                           ELSE IF granted' /\ o \in Answered(call) THEN Answer[call]
                           ELSE mem[At(o)]
  BY <1>2, Numbers DEF Serve, At
<1>3. ASSUME format = "union", NEW o \in Answered(call)
      PROVE  mem'[At(o)] = IF granted' THEN Answer[call] ELSE 0
  BY <1>0, <1>2, <1>3, Places, Readable DEF AnswerInv
<1>4. ASSUME format = "struct", NEW t \in Calls, NEW o \in Answered(t)
      PROVE  mem'[At(o)] \in {Answer[t], JUNK}
  <2>1. At(o) \in Cells[format] /\ o \in Extent(t) /\ o \in Nat /\ mem[At(o)] \in {Answer[t], JUNK}
    BY <1>0, <1>4, Readable, Places DEF AnswerInv
  <2>2. o # ErrorCode(call) /\ (o \in Answered(call) => t = call)
    BY <1>0, <1>4, <2>1, Places, Apart
  <2> QED  BY <1>2, <2>1, <2>2
<1>5. call = "rnd" => mem'[At(Field(call, "send_rnd_length"))] = 8
  <2> SUFFICES ASSUME call = "rnd" PROVE mem'[At(Field(call, "send_rnd_length"))] = 8
    OBVIOUS
  <2>1. /\ Field(call, "send_rnd_length") \in Nat
        /\ Field(call, "send_rnd_length") # ErrorCode(call)
        /\ Field(call, "send_rnd_length") \notin Answered(call)
    BY <1>0, RndAndUart
  <2> QED  BY <1>0, <1>2, <2>1, Readable DEF LengthInv
<1>6. AnswerInv'
  BY <1>0, <1>1, <1>3, <1>4 DEF AnswerInv, At
<1>7. LengthInv'
  BY <1>0, <1>1, <1>5 DEF LengthInv, At
<1> QED  BY <1>0, <1>6, <1>7 DEF RequestFound, ReportsOwn

LEMMA ReportStep ==
    ASSUME Inv, Report PROVE Inv'
<1> USE DEF Inv
<1>0. /\ TypeOK /\ TypeOK' /\ format \in Formats /\ page \in PageSizes /\ call \in Calls
      /\ UNCHANGED <<format, page, mem, call, granted>>
      /\ phase = "answered" /\ phase' = "idle"
  BY ReportTypes DEF Report, TypeOK
<1>1. \A t \in Calls : Answered(t)' = Answered(t)
  BY <1>0, SamePlaces
<1>2. \A k \in DOMAIN report' : \E o \in Answered(call) : report'[k] = mem[At(o)]
  BY Reported
<1>3. ReportsOwn'
  BY <1>0, <1>2 DEF ReportsOwn, AnswerInv, Formats
<1>4. AnswerInv'
  BY <1>0, <1>1 DEF AnswerInv, At
<1> QED  BY <1>0, <1>3, <1>4 DEF RequestFound, LengthInv

THEOREM Invariant == Spec => []Inv
<1>1. Init => Inv
  <2> SUFFICES ASSUME Init PROVE Inv
    OBVIOUS
  <2>1. OffsetInPage + CollectionSize[format] <= MappedSize
    BY Fits DEF Init
  <2>2. TypeOK
    BY <2>1, EmptySeq DEF Init, TypeOK, Values, Calls
  <2>3. AnswerInv
    BY Readable DEF Init, AnswerInv
  <2> QED  BY <2>2, <2>3 DEF Init, Inv, LengthInv, RequestFound, ReportsOwn
<1>2. Inv /\ [Next]_vars => Inv'
  <2>1. ASSUME Inv, UNCHANGED vars PROVE Inv'
    BY <2>1 DEF vars, Inv, TypeOK, AnswerInv, LengthInv, RequestFound, ReportsOwn, At, Field,
                Offset, Answered, OffsetInPage, MappedSize
  <2> QED  BY <2>1, RequestStep, ServeStep, ReportStep DEF Next
<1>3. QED  BY <1>1, <1>2, PTL DEF Spec

\* The shape of the state, that the collection is mapped, and that as many random
\* bytes are printed as there are, whatever the page size (services_se_a32.c:
\* 178-198, services_lib.c: 59, 60).
THEOREM TypeCorrect == Spec => []TypeOK
<1>1. Inv => TypeOK
  BY DEF Inv
<1>2. QED  BY <1>1, Invariant, PTL

\* What a call prints is its own, whatever calls there were before and whatever
\* the SE refused (services_se_a32.c: 29-56, 203-208; services_lib.c: 42, 68).
THEOREM OwnReported == Spec => []ReportsOwn
<1>1. Inv => ReportsOwn
  BY DEF Inv
<1>2. QED  BY <1>1, Invariant, PTL

\* The SE finds the request where the client has put it, whatever the page size
\* (services_se_a32.c: 178-208; services_lib.c: 22-35).
THEOREM RequestsFound == Spec => []RequestFound
<1>1. Inv => RequestFound
  BY DEF Inv
<1>2. QED  BY <1>1, Invariant, PTL
=============================================================================
