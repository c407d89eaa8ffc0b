------------------------------ MODULE CrcTest ------------------------------
(***************************************************************************)
(* The test of the CRC accelerator (test_crc.c): it takes the name of a    *)
(* CRC and an input, asks the kernel for the hash it associates with the   *)
(* name over an AF_ALG socket, and prints the digest it reads back.        *)
(*                                                                         *)
(* External to src/: the kernel's hashes, known by their names.            *)
(***************************************************************************)
EXTENDS Integers, Sequences

CONSTANTS
    Arguments,  \* what the user may give as the type; "" if too few arguments
    Inputs      \* what the user may give as the input string

VARIABLES
    pc,         \* the next call, or "end"
    name,       \* the type the user has given
    input,      \* the string the user has given
    crc_type,
    socket,     \* the hash the socket is bound to, and the data it was given
    output,     \* the digest, as what it is the digest of; ZERO at first
    label,      \* what is printed as the type; UNLABELLED at first
    short       \* the calls that did less than they were asked to (history)

vars == <<pc, name, input, crc_type, socket, output, label, short>>

NONE == "none"
ZERO == [hash |-> NONE, data |-> <<>>]
UNLABELLED == [type |-> NONE, note |-> NONE]

\* The order of the names is that of the numbers CRC_TYPE_CRC32 = 0 to
\* CRC_TYPE_CRC32C_LINUX = 7.
Names == <<"crc32", "crc32c", "crc16", "crc16-ccitt", "crc8", "crc32-alif-linux",
           "crc32-linux", "crc32c-linux">>
Valid == {Names[k] : k \in DOMAIN Names}
TypeOf(n) == (CHOOSE k \in DOMAIN Names : Names[k] = n) - 1

\* Mutant of SalgNames: the last two are exchanged.
SalgNamesSwapped == <<"alif-crc", "alif-crcc", "alif-crc16", "alif-crc16-ccitt", "alif-crc8",
                      "alif-crc-linux", "crc32c", "crc32">>

SalgNames == <<"alif-crc", "alif-crcc", "alif-crc16", "alif-crc16-ccitt", "alif-crc8",
               "alif-crc-linux", "crc32", "crc32c">>

\* What the kernel computes under these names: a CRC, in whose fashion, by whom.
Kernel == [salg \in {SalgNames[k] : k \in DOMAIN SalgNames} |->
    CASE salg = "alif-crc"         -> <<"crc32", "plain", "alif">>
      [] salg = "alif-crcc"        -> <<"crc32c", "plain", "alif">>
      [] salg = "alif-crc16"       -> <<"crc16", "plain", "alif">>
      [] salg = "alif-crc16-ccitt" -> <<"crc16-ccitt", "plain", "alif">>
      [] salg = "alif-crc8"        -> <<"crc8", "plain", "alif">>
      [] salg = "alif-crc-linux"   -> <<"crc32", "linux", "alif">>
      [] salg = "crc32"            -> <<"crc32", "linux", "linux">>
      [] salg = "crc32c"           -> <<"crc32c", "linux", "linux">>]

Label(type, note) == [type |-> type, note |-> note]

\* Mutant of Labels: a branch is missing, and its type ends in the last else.
LabelsMissing ==
    <<Label("crc32", ""), Label("crc32c", ""), Label("crc16", ""), Label("crc8", ""),
      Label("crc8", ""), Label("crc32-alif-linux", "alif"),
      Label("crc32-linux", "crc32"), Label("crc32-linux", "crc32c")>>

Labels ==
    <<Label("crc32", ""), Label("crc32c", ""), Label("crc16", ""), Label("crc16-ccitt", ""),
      Label("crc8", ""), Label("crc32-alif-linux", "alif"),
      Label("crc32-linux", "crc32"), Label("crc32-linux", "crc32c")>>

-----------------------------------------------------------------------------

Init ==
    /\ pc = "parse" /\ name \in Arguments /\ input \in Inputs
    /\ crc_type = 0
    /\ socket = ZERO /\ output = ZERO /\ label = UNLABELLED /\ short = {}

Goto(point) == pc' = point

\* A message and an exit, always with status 0.
Complain == Goto("end")

\* Mutant of ParseInput: an unknown type goes on as the one that is set at first.
ParseAnything ==
    /\ pc = "parse"
    /\ Goto("socket")
    /\ crc_type' = IF name \in Valid THEN TypeOf(name) ELSE crc_type
    /\ UNCHANGED <<name, input, socket, output, label, short>>

ParseInput ==
    /\ pc = "parse"
    /\ IF name \in Valid
         THEN Goto("socket") /\ crc_type' = TypeOf(name)
         ELSE Complain /\ UNCHANGED crc_type
    /\ UNCHANGED <<name, input, socket, output, label, short>>

Socket ==
    /\ pc = "socket" /\ Goto("bind")
    /\ UNCHANGED <<name, input, crc_type, socket, output, label, short>>

Bind ==
    /\ pc = "bind" /\ Goto("accept")
    /\ socket' = [socket EXCEPT !.hash = SalgNames[crc_type + 1]]
    /\ UNCHANGED <<name, input, crc_type, output, label, short>>

Accept ==
    /\ pc = "accept" /\ Goto("write")
    /\ UNCHANGED <<name, input, crc_type, socket, output, label, short>>

\* Mutant of Write: the terminating zero is sent too.
WriteWithZero ==
    /\ pc = "write" /\ Goto("read")
    /\ socket' = [socket EXCEPT !.data = <<input, "zero">>]
    /\ UNCHANGED <<name, input, crc_type, output, label, short>>

\* Only a negative result counts as a failure: less of the input may be taken
\* than was given, "cut" marks what is less than the whole.
Write ==
    /\ pc = "write" /\ Goto("read")
    /\ \/ socket' = [socket EXCEPT !.data = <<input>>] /\ UNCHANGED short
       \/ /\ input # ""
          /\ socket' = [socket EXCEPT !.data = <<input, "cut">>]
          /\ short' = short \cup {"write"}
    /\ UNCHANGED <<name, input, crc_type, output, label>>

\* Likewise the digest may come in part only, or not at all.
Read ==
    /\ pc = "read" /\ Goto("report")
    /\ \/ output' = socket /\ UNCHANGED short
       \/ /\ output' \in {output, [socket EXCEPT !.data = @ \o <<"cut">>]}
          /\ short' = short \cup {"read"}
    /\ UNCHANGED <<name, input, crc_type, socket, label>>

\* Mutant of CallFails: a failed read goes unnoticed.
ReadFailsUnnoticed ==
    /\ pc \in {"socket", "bind", "accept", "write", "read"}
    /\ IF pc = "read" THEN Goto("report") ELSE Complain
    /\ UNCHANGED <<name, input, crc_type, socket, output, label, short>>

CallFails ==
    /\ pc \in {"socket", "bind", "accept", "write", "read"}
    /\ Complain
    /\ UNCHANGED <<name, input, crc_type, socket, output, label, short>>

Report ==
    /\ pc = "report" /\ Goto("end")
    /\ label' = Labels[crc_type + 1]
    /\ UNCHANGED <<name, input, crc_type, socket, output, short>>

Next ==
    \/ ParseInput \/ Socket \/ Bind \/ Accept \/ Write \/ Read \/ CallFails \/ Report

Spec == Init /\ [][Next]_vars

-----------------------------------------------------------------------------
(* Properties. *)

\* What each type of the usage text stands for, by the comments (59, 62, 65).
Meaning(n) ==
    CASE n = "crc32-alif-linux" -> <<"crc32", "linux", "alif">>
      [] n = "crc32-linux"      -> <<"crc32", "linux", "linux">>
      [] n = "crc32c-linux"     -> <<"crc32c", "linux", "linux">>
      [] OTHER                  -> <<n, "plain", "alif">>

\* A result that is printed is a digest under the CRC that was asked for and,
\* if the kernel took all that was written and gave all that was read (138-150
\* notice negative results only), the digest of the whole input and no more;
\* none is printed when a call failed.  The label tells the types apart; that
\* of crc32c-linux has the name of another, so only the remark behind it does
\* (42-172).
ResultIsAskedFor ==
    label # UNLABELLED =>
        /\ short = {} => output.data = <<input>>
        /\ "read" \notin short => Kernel[output.hash] = Meaning(name)
        /\ {n \in Valid : Labels[TypeOf(n) + 1] = label} = {name}
        /\ label.type # name => name = "crc32c-linux"
=============================================================================
