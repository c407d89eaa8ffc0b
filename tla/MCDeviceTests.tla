--------------------------- MODULE MCDeviceTests ---------------------------
(* An instance for TLC of the two programs that have their device to          *)
(* themselves, either of which runs: the framebuffer demo, with a picture of  *)
(* 4 by 3 pixels, or the CRC test.                                            *)
EXTENDS Framebuffer

CONSTANTS Arguments, Inputs     \* of CrcTest

VARIABLES
    program,            \* "fb" or "crc"; never changes
    call, name, input, crc_type, socket, output, label, short    \* of CrcTest

crcVars == <<call, name, input, crc_type, socket, output, label, short>>
allVars == <<program, vars, crcVars>>

Crc == INSTANCE CrcTest WITH pc <- call

-----------------------------------------------------------------------------

\* All valid types, a wrong one, and none.
AllArguments == {"crc32", "crc32c", "crc16", "crc16-ccitt", "crc8", "crc32-alif-linux",
                 "crc32-linux", "crc32c-linux", "crc64", ""}
TwoInputs == {"", "text"}

\* All bytes differ from those next to them, and from pixel to pixel.
Picture == [n \in 0..47 |-> (37 * n + 11) % 256]

Geometry(xres, yres, bytes, line) ==
    [xres |-> xres, yres |-> yres, bits_per_pixel |-> 8 * bytes, line_length |-> line]

\* Just as large as the picture, larger, and with some padding to each line; the
\* padding of the last is more than its mapping holds.
AllScreens == UNION {
    { Geometry(4, 3, bytes, 4 * bytes), Geometry(6, 3, bytes, 6 * bytes),
      Geometry(4, 5, bytes, 4 * bytes), Geometry(7, 5, bytes, 7 * bytes),
      Geometry(4, 8, bytes, 6 * bytes), Geometry(5, 6, bytes, 8 * bytes),
      Geometry(4, 3, bytes, 8 * bytes) } : bytes \in {2, 4} }

-----------------------------------------------------------------------------

FbStep  == program = "fb" /\ Next /\ UNCHANGED <<program, crcVars>>
CrcStep == program = "crc" /\ Crc!Next /\ UNCHANGED <<program, vars>>

DeviceInit ==
    /\ program \in {"fb", "crc"} /\ Init /\ Crc!Init
    /\ program = "fb" => name = "" /\ input = ""
    /\ program = "crc" => screen = Geometry(4, 3, 4, 4 * 4)

DeviceSpec ==
    /\ DeviceInit /\ [][FbStep \/ CrcStep]_allVars
    /\ WF_allVars(FbStep) /\ WF_allVars(CrcStep)

\* Of the CRC test: a printed result is the digest that was asked for unless a
\* call was cut short, and its label tells which (test_crc.c: 42-172).
ResultIsAskedFor == Crc!ResultIsAskedFor
=============================================================================
