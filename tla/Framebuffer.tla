---------------------------- MODULE Framebuffer ----------------------------
(***************************************************************************)
(* The framebuffer demo (fb_tux.c): it asks the device for the geometry of *)
(* the screen, maps it, and copies a picture of blue, green, red and alpha *)
(* bytes to its upper left corner, pixel by pixel, as it is built with     *)
(* XRGB8888 or else in 16 bits a pixel.                                    *)
(***************************************************************************)
EXTENDS Integers

CONSTANTS
    W, H,       \* the picture: 166 by 196 in the code
    tux_map,    \* its bytes, 4 for each pixel
    Screens,    \* screens: xres, yres, bits_per_pixel, line_length
    PAGE        \* the kernel maps whole pages

ASSUME FramebufferAssumption ==
    /\ W \in Nat \ {0} /\ H \in Nat \ {0} /\ PAGE \in Nat \ {0}
    /\ tux_map \in [0..4 * W * H - 1 -> 0..255]
    /\ \A s \in Screens : /\ s.xres \in Nat /\ s.yres \in Nat
                          /\ s.bits_per_pixel \in Nat /\ s.line_length \in Nat

VARIABLES
    xrgb,       \* how the program was built: with XRGB8888 or not
    pc,         \* "open", "fixed", "variable", "map", "row", "pixel", "done" or "fault"
    code,       \* exit code
    screen,     \* the screen there is
    location,   \* where the next pixel goes
    index,      \* the next byte of the picture
    x, y,       \* the loop counters
    fb          \* what the program has put into the mapping; NONE elsewhere

vars == <<xrgb, pc, code, screen, location, index, x, y, fb>>

NONE == -1

Bytes == IF xrgb THEN 4 ELSE 2      \* bytes written for a pixel

\* A screen that is large enough and has the format the program is built for.
Suits(s) ==
    /\ s.xres >= W /\ s.yres >= H
    /\ s.bits_per_pixel = 8 * Bytes /\ s.line_length >= s.xres * Bytes

\* Mutant of ScreenSize: half the bytes of the screen.
ScreenSizeShort(s) == s.xres * s.yres * (s.bits_per_pixel \div 16)

ScreenSize(s) == (s.xres * s.yres * s.bits_per_pixel) \div 8
Mapped(s) == ((ScreenSize(s) + PAGE - 1) \div PAGE) * PAGE

Init ==
    /\ pc = "open" /\ code = NONE
    /\ xrgb \in BOOLEAN /\ screen \in {s \in Screens : Suits(s)}
    /\ location = 0 /\ index = 0 /\ x = 0 /\ y = 0
    /\ fb = << >>

Goto(point) == pc' = point
Exit(n) == pc' = "done" /\ code' = n

\* Opening the device and asking for the two parts of the geometry.
Call(point, next, status) ==
    /\ pc = point
    /\ \/ Goto(next) /\ UNCHANGED code
       \/ Exit(status)
    /\ UNCHANGED <<xrgb, screen, location, index, x, y, fb>>

Open == Call("open", "fixed", 1)
Fixed == Call("fixed", "variable", 2)
Variable == Call("variable", "map", 3)

Map ==
    /\ pc = "map"
    /\ \/ Goto("row") /\ fb' = [o \in 0..Mapped(screen) - 1 |-> NONE] /\ UNCHANGED code
       \/ Exit(4) /\ UNCHANGED fb
    /\ UNCHANGED <<xrgb, screen, location, index, x, y>>

-----------------------------------------------------------------------------

\* Mutant of Row: rows are as long as they look.
RowPacked ==
    /\ pc = "row" /\ y < H
    /\ location' = y * screen.xres * Bytes /\ x' = 0
    /\ Goto("pixel")
    /\ UNCHANGED <<xrgb, code, screen, index, y, fb>>

Row ==
    /\ pc = "row" /\ y < H
    /\ location' = y * screen.line_length /\ x' = 0
    /\ Goto("pixel")
    /\ UNCHANGED <<xrgb, code, screen, index, y, fb>>

\* Five bits of blue, six of green, five of red; the low byte goes first.
Blue(b)  == (b \div 8) % 32
Green(g) == (g \div 4) % 64
Red(r)   == (r \div 8) % 32

\* Mutant of Pack: the channels in the order in which they are read.
PackSwapped(b, g, r) == Blue(b) * 2048 + Green(g) * 32 + Red(r)

Pack(b, g, r) == Red(r) * 2048 + Green(g) * 32 + Blue(b)

Pixel(n) ==
    IF xrgb THEN [k \in 0..3 |-> tux_map[n + k]]
    ELSE LET val == Pack(tux_map[n], tux_map[n + 1], tux_map[n + 2])
         IN  [k \in 0..1 |-> IF k = 0 THEN val % 256 ELSE val \div 256]

\* Mutant of Step: the alpha byte is not skipped.
StepNoAlpha == IF xrgb THEN 4 ELSE 3

Step == 4

\* A write past the mapping is a fault.
Put ==
    /\ pc = "pixel" /\ x < W
    /\ LET at == location..location + Bytes - 1 IN
       IF at \subseteq DOMAIN fb
       THEN /\ fb' = [o \in DOMAIN fb |->
                         IF o \in at THEN Pixel(index)[o - location] ELSE fb[o]]
            /\ location' = location + Bytes /\ index' = index + Step /\ x' = x + 1
            /\ UNCHANGED pc
       ELSE Goto("fault") /\ UNCHANGED <<fb, location, index, x>>
    /\ UNCHANGED <<xrgb, code, screen, y>>

NextRow ==
    /\ pc = "pixel" /\ x = W
    /\ y' = y + 1 /\ Goto("row")
    /\ UNCHANGED <<xrgb, code, screen, location, index, x, fb>>

\* What is on the screen stays there when the mapping is gone.
Close ==
    /\ pc = "row" /\ y = H
    /\ Exit(0)
    /\ UNCHANGED <<xrgb, screen, location, index, x, y, fb>>

Next == Open \/ Fixed \/ Variable \/ Map \/ Row \/ Put \/ NextRow \/ Close

Spec == Init /\ [][Next]_vars /\ WF_vars(Next)

-----------------------------------------------------------------------------
(* Properties. *)

\* The shape of the state; the picture is read in step with the loops, and
\* never past its end (67-100).
TypeOK ==
    /\ pc \in {"open", "fixed", "variable", "map", "row", "pixel", "done", "fault"}
    /\ code \in {NONE} \cup 0..4 /\ xrgb \in BOOLEAN /\ screen \in Screens /\ Suits(screen)
    /\ x \in 0..W /\ y \in 0..H
    /\ location \in 0..H * screen.line_length
    /\ \A o \in DOMAIN fb : fb[o] \in {NONE} \cup 0..255
    /\ pc = "pixel" => index = 4 * (y * W + x)

\* What byte k of a row shows of the pixel at n in the picture: five, six and five
\* bits of its colours, or the pixel itself.
Shown(n, k) ==
    LET rgb565 == (tux_map[n + 2] - (tux_map[n + 2] % 8)) * 256
                  + (tux_map[n + 1] - (tux_map[n + 1] % 4)) * 8
                  + (tux_map[n] \div 8)
    IN  IF xrgb THEN tux_map[n + (k % 4)]
        ELSE IF k % 2 = 0 THEN rgb565 % 256 ELSE rgb565 \div 256

\* The upper left corner of the screen shows the picture at the end, and no
\* byte outside it was touched: no row runs into the next (67-98).
Corner(o) ==
    LET row == o \div screen.line_length
        col == o % screen.line_length
    IN  IF row < H /\ col < W * Bytes
        THEN Shown(4 * (row * W + (col \div Bytes)), col)
        ELSE NONE
ShowsPicture == code = 0 => \A o \in DOMAIN fb : fb[o] = Corner(o)

\* The mapping leaves out the padding of lines (56).  A screen whose padding up
\* to the last row of the picture is no more than the rows below that:
Holds(s) ==
    LET bytes == s.bits_per_pixel \div 8
    IN  (H - 1) * s.line_length + W * bytes <= s.xres * s.yres * bytes

\* There the program ends once it has opened the device, and with no fault
\* (31-105).
Ends == \A s \in {t \in Screens : Holds(t)} :
            screen = s /\ pc # "open" ~> pc = "done"
=============================================================================
