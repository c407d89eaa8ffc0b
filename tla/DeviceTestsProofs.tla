------------------------- MODULE DeviceTestsProofs -------------------------
(***************************************************************************)
(* Proofs about CrcTest, for any arguments and inputs, and about           *)
(* Framebuffer, for any picture, any screens that suit it and both builds. *)
(***************************************************************************)
EXTENDS MCDeviceTests, TLAPS

-----------------------------------------------------------------------------
(* CrcTest: the three tables agree. *)

LEMMA TableDomains ==
    /\ DOMAIN Crc!Names = 1..8 /\ DOMAIN Crc!SalgNames = 1..8 /\ DOMAIN Crc!Labels = 1..8
    /\ \A k \in 1..8 : Crc!Names[k] \in Crc!Valid
    /\ \A n \in Crc!Valid : \E k \in 1..8 : n = Crc!Names[k]
BY DEF Crc!Names, Crc!SalgNames, Crc!Labels, Crc!Valid

\* No name and no label occurs twice.
LEMMA TablesInjective ==
    \A j \in 1..8, k \in 1..8 :
        /\ Crc!Names[j] = Crc!Names[k] => j = k
        /\ Crc!Labels[j] = Crc!Labels[k] => j = k
        /\ Crc!Labels[j] # Crc!UNLABELLED
<1>0. /\ Crc!Labels[1].type = "crc32" /\ Crc!Labels[1].note = ""
      /\ Crc!Labels[2].type = "crc32c" /\ Crc!Labels[2].note = ""
      /\ Crc!Labels[3].type = "crc16" /\ Crc!Labels[3].note = ""
      /\ Crc!Labels[4].type = "crc16-ccitt" /\ Crc!Labels[4].note = ""
      /\ Crc!Labels[5].type = "crc8" /\ Crc!Labels[5].note = ""
      /\ Crc!Labels[6].type = "crc32-alif-linux" /\ Crc!Labels[6].note = "alif"
      /\ Crc!Labels[7].type = "crc32-linux" /\ Crc!Labels[7].note = "crc32"
      /\ Crc!Labels[8].type = "crc32-linux" /\ Crc!Labels[8].note = "crc32c"
  BY DEF Crc!Labels, Crc!Label
<1>1. ASSUME NEW j \in 1..8, NEW k \in 1..8, Crc!Names[j] = Crc!Names[k] PROVE j = k
  BY <1>1 DEF Crc!Names
<1>2. ASSUME NEW j \in 1..8, NEW k \in 1..8, Crc!Labels[j] = Crc!Labels[k] PROVE j = k
  <2>1. Crc!Labels[j].type = Crc!Labels[k].type /\ Crc!Labels[j].note = Crc!Labels[k].note
    BY <1>2
  <2>2. j \in {1, 2, 3, 4, 5, 6, 7, 8} /\ k \in {1, 2, 3, 4, 5, 6, 7, 8}
    OBVIOUS
  <2>3. CASE j = 1 BY <1>0, <2>1, <2>2, <2>3
  <2>4. CASE j = 2 BY <1>0, <2>1, <2>2, <2>4
  <2>5. CASE j = 3 BY <1>0, <2>1, <2>2, <2>5
  <2>6. CASE j = 4 BY <1>0, <2>1, <2>2, <2>6
  <2>7. CASE j = 5 BY <1>0, <2>1, <2>2, <2>7
  <2>8. CASE j = 6 BY <1>0, <2>1, <2>2, <2>8
  <2>9. CASE j = 7 BY <1>0, <2>1, <2>2, <2>9
  <2>10. CASE j = 8 BY <1>0, <2>1, <2>2, <2>10
  <2> QED  BY <2>2, <2>3, <2>4, <2>5, <2>6, <2>7, <2>8, <2>9, <2>10
<1>3. ASSUME NEW j \in 1..8 PROVE Crc!Labels[j] # Crc!UNLABELLED
  <2>1. Crc!Labels[j].type # "none"
    <3>1. j \in {1, 2, 3, 4, 5, 6, 7, 8}
      OBVIOUS
    <3> QED  BY <1>0, <3>1
  <2> QED  BY <2>1 DEF Crc!UNLABELLED, Crc!NONE
<1> QED  BY <1>1, <1>2, <1>3

LEMMA TypeOfName ==
    ASSUME NEW k \in 1..8 PROVE Crc!TypeOf(Crc!Names[k]) = k - 1
<1>1. (CHOOSE j \in DOMAIN Crc!Names : Crc!Names[j] = Crc!Names[k]) = k
  BY TableDomains, TablesInjective
<1> QED  BY <1>1 DEF Crc!TypeOf

\* The hash that belongs to a type is what its name means.
LEMMA TablesMean ==
    ASSUME NEW k \in 1..8 PROVE Crc!Kernel[Crc!SalgNames[k]] = Crc!Meaning(Crc!Names[k])
<1>1. Crc!SalgNames[k] \in {Crc!SalgNames[j] : j \in DOMAIN Crc!SalgNames}
  BY TableDomains
<1> USE DEF Crc!Kernel, Crc!SalgNames, Crc!Names, Crc!Meaning
<1>2. CASE k = 1 BY <1>1, <1>2
<1>3. CASE k = 2 BY <1>1, <1>3
<1>4. CASE k = 3 BY <1>1, <1>4
<1>5. CASE k = 4 BY <1>1, <1>5
<1>6. CASE k = 5 BY <1>1, <1>6
<1>7. CASE k = 6 BY <1>1, <1>7
<1>8. CASE k = 7 BY <1>1, <1>8
<1>9. CASE k = 8 BY <1>1, <1>9
<1> QED  BY <1>2, <1>3, <1>4, <1>5, <1>6, <1>7, <1>8, <1>9

\* A label tells the type.
LEMMA LabelTells ==
    ASSUME NEW k \in 1..8
    PROVE  {n \in Crc!Valid : Crc!Labels[Crc!TypeOf(n) + 1] = Crc!Labels[k]} = {Crc!Names[k]}
<1>1. \A j \in 1..8 : Crc!TypeOf(Crc!Names[j]) + 1 = j
  BY TypeOfName
<1>2. \A n \in Crc!Valid : Crc!Labels[Crc!TypeOf(n) + 1] = Crc!Labels[k] <=> n = Crc!Names[k]
  BY <1>1, TableDomains, TablesInjective
<1> QED  BY <1>2, TableDomains

\* And names it, but for one.
LEMMA LabelNames ==
    ASSUME NEW k \in 1..8, Crc!Labels[k].type # Crc!Names[k]
    PROVE  Crc!Names[k] = "crc32c-linux"
<1>1. k = 8
  <2> SUFFICES ASSUME k \in 1..7 PROVE FALSE
    OBVIOUS
  <2>1. CASE k = 1 BY <2>1 DEF Crc!Labels, Crc!Label, Crc!Names
  <2>2. CASE k = 2 BY <2>2 DEF Crc!Labels, Crc!Label, Crc!Names
  <2>3. CASE k = 3 BY <2>3 DEF Crc!Labels, Crc!Label, Crc!Names
  <2>4. CASE k = 4 BY <2>4 DEF Crc!Labels, Crc!Label, Crc!Names
  <2>5. CASE k = 5 BY <2>5 DEF Crc!Labels, Crc!Label, Crc!Names
  <2>6. CASE k = 6 BY <2>6 DEF Crc!Labels, Crc!Label, Crc!Names
  <2>7. CASE k = 7 BY <2>7 DEF Crc!Labels, Crc!Label, Crc!Names
  <2> QED  BY <2>1, <2>2, <2>3, <2>4, <2>5, <2>6, <2>7
<1>2. Crc!Names[8] = "crc32c-linux"
  BY DEF Crc!Names
<1> QED  BY <1>1, <1>2

-----------------------------------------------------------------------------
(* CrcTest: what each call has behind it. *)

Asked(hash) == hash = Crc!SalgNames[crc_type + 1]

\* What has been read, unless less was taken or given than asked for.
Reported ==
    /\ "read" \notin short => Asked(output.hash)
    /\ short = {} => output.data = <<input>>

\* Past the parser the type is that of the name; each call builds on the last.
CrcInv ==
    /\ call \in {"parse", "socket", "bind", "accept", "write", "read", "report", "end"}
    /\ socket = [hash |-> socket.hash, data |-> socket.data]
    /\ call \in {"socket", "bind", "accept", "write", "read", "report"} =>
           crc_type \in 0..7 /\ name = Crc!Names[crc_type + 1]
    /\ call \in {"accept", "write"} => Asked(socket.hash)
    /\ call = "read" => Asked(socket.hash) /\ ("write" \notin short => socket.data = <<input>>)
    /\ call = "report" => Reported
    /\ call # "end" => label = Crc!UNLABELLED
    /\ label # Crc!UNLABELLED =>
           /\ crc_type \in 0..7 /\ name = Crc!Names[crc_type + 1]
           /\ Reported /\ label = Crc!Labels[crc_type + 1]

LEMMA CrcStarts == Crc!Init => CrcInv
BY DEF Crc!Init, CrcInv, Crc!ZERO

LEMMA CrcSteps ==
    ASSUME CrcInv, [Crc!Next]_(Crc!vars) PROVE CrcInv'
<1> USE DEF CrcInv, Asked, Reported, Crc!Goto, Crc!Complain
<1>1. CASE Crc!ParseInput
  <2>1. CASE name \in Crc!Valid
    <3>1. PICK k \in 1..8 : name = Crc!Names[k]
      BY <2>1, TableDomains
    <3>2. crc_type' = k - 1
      BY <1>1, <2>1, <3>1, TypeOfName DEF Crc!ParseInput
    <3> QED  BY <1>1, <2>1, <3>1, <3>2 DEF Crc!ParseInput
  <2>2. CASE name \notin Crc!Valid
    BY <1>1, <2>2 DEF Crc!ParseInput
  <2> QED  BY <2>1, <2>2
<1>2. CASE Crc!Socket
  BY <1>2 DEF Crc!Socket
<1>3. CASE Crc!Bind
  BY <1>3 DEF Crc!Bind
<1>4. CASE Crc!Accept
  BY <1>4 DEF Crc!Accept
<1>5. CASE Crc!Write
  BY <1>5 DEF Crc!Write
<1>6. CASE Crc!Read
  BY <1>6 DEF Crc!Read
<1>7. CASE Crc!CallFails
  BY <1>7 DEF Crc!CallFails
<1>8. CASE Crc!Report
  BY <1>8 DEF Crc!Report
<1>9. CASE UNCHANGED Crc!vars
  BY <1>9 DEF Crc!vars
<1> QED  BY <1>1, <1>2, <1>3, <1>4, <1>5, <1>6, <1>7, <1>8, <1>9 DEF Crc!Next

\* A printed result is a digest under the CRC that was asked for unless the read
\* gave less, that of the whole input unless the write took less too, and its
\* label tells which, for any arguments (test_crc.c: 42-172).
THEOREM CrcCorrect == Crc!Spec => []ResultIsAskedFor
<1>1. CrcInv => ResultIsAskedFor
  <2> SUFFICES ASSUME CrcInv, label # Crc!UNLABELLED PROVE Crc!ResultIsAskedFor
    BY DEF ResultIsAskedFor, Crc!ResultIsAskedFor
  <2>1. PICK k \in 1..8 : k = crc_type + 1
    BY DEF CrcInv
  <2>2. /\ name = Crc!Names[k] /\ label = Crc!Labels[k]
        /\ "read" \notin short => output.hash = Crc!SalgNames[k]
        /\ short = {} => output.data = <<input>>
    BY <2>1 DEF CrcInv, Asked, Reported
  <2>3. label.type # name => name = "crc32c-linux"
    BY <2>2, LabelNames
  <2> QED  BY <2>2, <2>3, TablesMean, LabelTells DEF Crc!ResultIsAskedFor
<1>2. QED  BY <1>1, CrcStarts, CrcSteps, PTL DEF Crc!Spec

-----------------------------------------------------------------------------
(* Framebuffer: arithmetic. *)

LEMMA Multiples ==
    ASSUME NEW a \in Nat, NEW b \in Nat, NEW m \in Nat, a <= b
    PROVE  a * m \in Nat /\ a * m <= b * m
OBVIOUS

\* Row and column of a byte of the screen.
LEMMA DivMod ==
    ASSUME NEW o \in Nat, NEW m \in Nat, m > 0
    PROVE  o \div m \in Nat /\ o % m \in 0..m - 1 /\ o = (o \div m) * m + (o % m)
OBVIOUS

LEMMA DivModLess ==
    ASSUME NEW p \in Nat, NEW q \in Nat, NEW m \in Nat, p < q
    PROVE  p * m \in Nat /\ q * m \in Nat /\ p * m + m <= q * m
OBVIOUS

LEMMA DivModUnique ==
    ASSUME NEW q \in Nat, NEW m \in Nat, m > 0, NEW r \in 0..m - 1
    PROVE  (q * m + r) \div m = q /\ (q * m + r) % m = r
<1> DEFINE o == q * m + r
           d == o \div m
           e == o % m
<1>1. q * m \in Nat /\ o \in Nat
  OBVIOUS
<1>2. d \in Nat /\ e \in 0..m - 1 /\ o = d * m + e
  BY <1>1, DivMod
<1> HIDE DEF d, e
<1>3. d * m \in Nat
  BY <1>2
<1>4. ~(d < q)
  <2> SUFFICES ASSUME d < q PROVE FALSE
    OBVIOUS
  <2>1. d * m + m <= q * m
    BY <1>2, DivModLess
  <2> QED  BY <1>1, <1>2, <1>3, <2>1
<1>5. ~(q < d)
  <2> SUFFICES ASSUME q < d PROVE FALSE
    OBVIOUS
  <2>1. q * m + m <= d * m
    BY <1>2, DivModLess
  <2> QED  BY <1>1, <1>2, <1>3, <2>1
<1>6. d = q
  BY <1>2, <1>4, <1>5
<1>7. e = r
  BY <1>1, <1>2, <1>6
<1> QED  BY <1>6, <1>7 DEF d, e

\* Five, six and five bits of three bytes, as they are packed and as they come.
LEMMA Packed ==
    ASSUME NEW b \in 0..255, NEW g \in 0..255, NEW r \in 0..255
    PROVE  Pack(b, g, r) = (r - (r % 8)) * 256 + (g - (g % 4)) * 8 + (b \div 8)
<1> DEFINE r5 == r \div 8
           g6 == g \div 4
           b5 == b \div 8
<1>1. Red(r) = r5 /\ r - (r % 8) = 8 * r5 /\ r5 \in 0..31
  BY DEF Red
<1>2. Green(g) = g6 /\ g - (g % 4) = 4 * g6 /\ g6 \in 0..63
  BY DEF Green
<1>3. Blue(b) = b5 /\ b5 \in 0..31
  BY DEF Blue
<1> HIDE DEF r5, g6, b5
<1>4. Pack(b, g, r) = r5 * 2048 + g6 * 32 + b5
  BY <1>1, <1>2, <1>3 DEF Pack
<1>5. (r - (r % 8)) * 256 = r5 * 2048 /\ (g - (g % 4)) * 8 = g6 * 32
  BY <1>1, <1>2
<1>6. Pack(b, g, r) = (r - (r % 8)) * 256 + (g - (g % 4)) * 8 + b5
  BY <1>4, <1>5
<1> QED  BY <1>6 DEF b5

\* They fill two bytes.
LEMMA PackedFits ==
    ASSUME NEW b \in 0..255, NEW g \in 0..255, NEW r \in 0..255
    PROVE  (Pack(b, g, r) % 256) \in 0..255 /\ (Pack(b, g, r) \div 256) \in 0..255
<1> DEFINE r5 == Red(r)
           g6 == Green(g)
           b5 == Blue(b)
           val == Pack(b, g, r)
<1>1. r5 \in 0..31 /\ g6 \in 0..63 /\ b5 \in 0..31
  BY DEF Red, Green, Blue
<1>2. val = r5 * 2048 + g6 * 32 + b5
  BY DEF Pack
<1> HIDE DEF r5, g6, b5, val
<1>3. val \in Nat /\ val < 65536
  BY <1>1, <1>2
<1>4. (val % 256) \in 0..255 /\ (val \div 256) \in 0..255
  BY <1>3
<1> QED  BY <1>4 DEF val

-----------------------------------------------------------------------------
(* Framebuffer: where the bytes of the picture go. *)

LEMMA BytesIs == Bytes \in {2, 4} /\ Bytes \in Nat /\ Bytes > 0
BY DEF Bytes

\* The picture holds four bytes for each of its pixels.
LEMMA PictureHolds ==
    ASSUME NEW row \in 0..H - 1, NEW c \in 0..W - 1, NEW k \in 0..3
    PROVE  tux_map[4 * (row * W + c) + k] \in 0..255
<1>1. W \in Nat /\ H \in Nat /\ tux_map \in [0..4 * W * H - 1 -> 0..255]
  BY FramebufferAssumption
<1>2. row * W \in Nat /\ H * W \in Nat /\ row * W + W <= H * W
  BY <1>1, DivModLess
<1>3. 4 * W * H = 4 * (H * W)
  BY <1>1
<1>4. 4 * (row * W + c) + k \in 0..4 * (H * W) - 1
  BY <1>1, <1>2
<1> QED  BY <1>1, <1>3, <1>4

\* A pixel is made of bytes.
LEMMA PixelBytes ==
    ASSUME NEW row \in 0..H - 1, NEW c \in 0..W - 1, NEW d \in 0..Bytes - 1
    PROVE  Pixel(4 * (row * W + c))[d] \in 0..255
<1> DEFINE n == 4 * (row * W + c)
<1>1. \A k \in 0..3 : tux_map[n + k] \in 0..255
  BY PictureHolds
<1>2. n \in Int
  <2>1. W \in Nat
    BY FramebufferAssumption
  <2>2. row * W \in Int
    BY <2>1
  <2> QED  BY <2>1, <2>2
<1> HIDE DEF n
<1>3. ASSUME xrgb PROVE Pixel(n)[d] \in 0..255
  <2>1. Pixel(n) = [k \in 0..3 |-> tux_map[n + k]] /\ d \in 0..3
    BY <1>3 DEF Pixel, Bytes
  <2> QED  BY <1>1, <2>1
<1>4. ASSUME ~xrgb PROVE Pixel(n)[d] \in 0..255
  <2> DEFINE b == tux_map[n]
             g == tux_map[n + 1]
             r == tux_map[n + 2]
             val == Pack(b, g, r)
  <2>1. b \in 0..255 /\ g \in 0..255 /\ r \in 0..255
    <3>1. n + 0 = n
      BY <1>2
    <3> QED  BY <1>1, <3>1
  <2>2. Pixel(n)[d] = IF d = 0 THEN val % 256 ELSE val \div 256
    BY <1>4 DEF Pixel, Bytes
  <2> HIDE DEF b, g, r
  <2>3. (val % 256) \in 0..255 /\ (val \div 256) \in 0..255
    BY <2>1, PackedFits
  <2> HIDE DEF val
  <2> QED  BY <2>2, <2>3
<1> QED  BY <1>3, <1>4 DEF n

\* A byte of a pixel of the picture lies in the row and the columns of the pixel,
\* and the corner of the screen that shows the picture has it there.
LEMMA PixelPlace ==
    ASSUME Suits(screen), screen \in Screens,
           NEW row \in 0..H - 1, NEW c \in 0..W - 1, NEW d \in 0..Bytes - 1,
           NEW o, o = row * screen.line_length + (c * Bytes + d)
    PROVE  /\ o \div screen.line_length = row
           /\ o % screen.line_length = c * Bytes + d
           /\ Corner(o) = Pixel(4 * (row * W + c))[d]
<1> DEFINE L == screen.line_length
           col == c * Bytes + d
           n == 4 * (row * W + c)
<1>1. W \in Nat /\ H \in Nat /\ L \in Nat
  BY FramebufferAssumption
<1>2. c * Bytes \in Nat /\ W * Bytes \in Nat /\ c * Bytes + Bytes <= W * Bytes
  BY <1>1, BytesIs, DivModLess
<1>3. W * Bytes <= L
  <2>1. screen.xres \in Nat /\ W <= screen.xres /\ L >= screen.xres * Bytes
    BY FramebufferAssumption DEF Suits
  <2>2. W * Bytes <= screen.xres * Bytes /\ screen.xres * Bytes \in Nat
    BY <1>1, <2>1, BytesIs, Multiples
  <2> QED  BY <1>1, <1>2, <2>1, <2>2
<1>4. col \in Nat /\ col < W * Bytes /\ col \in 0..L - 1 /\ L > 0
  BY <1>1, <1>2, <1>3, BytesIs
<1>5. o \div L = row /\ o % L = col
  <2> HIDE DEF L, col
  <2>1. o = row * L + col
    BY DEF L, col
  <2>2. (row * L + col) \div L = row /\ (row * L + col) % L = col
    BY <1>1, <1>4, DivModUnique
  <2> QED  BY <2>1, <2>2
<1>6. col \div Bytes = c /\ col % Bytes = d
  BY BytesIs, DivModUnique
<1>7. Corner(o) = Shown(n, col)
  <2>1. row < H /\ col < W * Bytes
    BY <1>1, <1>4
  <2>2. Corner(o) = Shown(4 * (row * W + (col \div Bytes)), col)
    <3> HIDE DEF col
    <3> QED  BY <1>5, <2>1 DEF Corner
  <2> QED  BY <1>6, <2>2
<1>8. Shown(n, col) = Pixel(n)[d]
  <2>1. CASE xrgb
    <3>1. Shown(n, col) = tux_map[n + d]
      <4> HIDE DEF n, col
      <4> QED  BY <1>6, <2>1 DEF Shown, Bytes
    <3>2. Pixel(n) = [k \in 0..3 |-> tux_map[n + k]] /\ d \in 0..3
      BY <2>1 DEF Pixel, Bytes
    <3> QED  BY <3>1, <3>2
  <2>2. CASE ~xrgb
    <3> DEFINE b == tux_map[n]
               g == tux_map[n + 1]
               r == tux_map[n + 2]
               val == Pack(b, g, r)
    <3>1. b \in 0..255 /\ g \in 0..255 /\ r \in 0..255
      <4>1. row * W \in Int
        BY <1>1
      <4>2. n + 0 = n
        BY <1>1, <4>1
      <4> QED  BY <4>2, PictureHolds
    <3>2. col % 2 = d /\ d \in 0..1
      BY <1>6, <2>2 DEF Bytes
    <3> HIDE DEF col, n
    <3>3. Shown(n, col) =
            LET rgb565 == (r - (r % 8)) * 256 + (g - (g % 4)) * 8 + (b \div 8)
            IN  IF d = 0 THEN rgb565 % 256 ELSE rgb565 \div 256
      BY <2>2, <3>2 DEF Shown
    <3>4. Pixel(n)[d] = IF d = 0 THEN val % 256 ELSE val \div 256
      BY <2>2, <3>2 DEF Pixel
    <3> HIDE DEF b, g, r
    <3>5. val = (r - (r % 8)) * 256 + (g - (g % 4)) * 8 + (b \div 8)
      BY <3>1, Packed
    <3> QED  BY <3>3, <3>4, <3>5
  <2> QED  BY <2>1, <2>2
<1> QED  BY <1>5, <1>7, <1>8

\* Every byte of the corner is one of a pixel.
LEMMA CornerBytes ==
    ASSUME Suits(screen), screen \in Screens, NEW o \in Nat
    PROVE  Corner(o) \in {NONE} \cup 0..255
<1> DEFINE L == screen.line_length
           row == o \div L
           col == o % L
           c == col \div Bytes
           d == col % Bytes
<1>1. W \in Nat \ {0} /\ H \in Nat /\ L \in Nat /\ screen.xres \in Nat
  BY FramebufferAssumption
<1>2. L > 0
  <2>1. screen.xres >= 1 /\ L >= screen.xres * Bytes
    BY <1>1 DEF Suits
  <2>2. 1 * Bytes <= screen.xres * Bytes /\ screen.xres * Bytes \in Nat
    BY <1>1, <2>1, BytesIs, Multiples
  <2> QED  BY <1>1, <2>1, <2>2, BytesIs
<1>3. row \in Nat /\ col \in Nat /\ o = row * L + col
  <2> HIDE DEF L
  <2> QED  BY <1>1, <1>2, DivMod
<1>4. c \in Nat /\ d \in 0..Bytes - 1 /\ col = c * Bytes + d
  BY <1>3, BytesIs, DivMod
<1>5. CASE row < H /\ col < W * Bytes
  <2>1. ~(W <= c)
    <3> SUFFICES ASSUME W <= c PROVE FALSE
      OBVIOUS
    <3>1. W * Bytes <= c * Bytes /\ W * Bytes \in Nat /\ c * Bytes \in Nat
      BY <1>1, <1>4, BytesIs, Multiples
    <3> QED  BY <1>3, <1>4, <1>5, <3>1, BytesIs
  <2>2. row \in 0..H - 1 /\ c \in 0..W - 1
    BY <1>1, <1>3, <1>4, <1>5, <2>1
  <2> HIDE DEF row, col, c, d
  <2>3. o = row * screen.line_length + (c * Bytes + d)
    BY <1>3, <1>4
  <2>4. Corner(o) = Pixel(4 * (row * W + c))[d]
    BY <1>4, <2>2, <2>3, PixelPlace
  <2> QED  BY <1>4, <2>2, <2>4, PixelBytes
<1>6. CASE ~(row < H /\ col < W * Bytes)
  BY <1>6 DEF Corner
<1> QED  BY <1>5, <1>6

-----------------------------------------------------------------------------
(* Framebuffer: how far the copy is. *)

\* The bytes that have been drawn: of the rows above, and of the pixels to the left.
Drawn(o) ==
    LET row == o \div screen.line_length
        col == o % screen.line_length
    IN  row < y \/ (row = y /\ pc \in {"pixel", "fault"} /\ col < x * Bytes)

\* The read position and the write position follow from the loop counters, and what
\* has been drawn is as it should be at the end; the rest is untouched.
FbInv ==
    /\ pc \in {"open", "fixed", "variable", "map", "row", "pixel", "done", "fault"}
    /\ code \in {NONE} \cup 0..4 /\ xrgb \in BOOLEAN
    /\ screen \in Screens /\ Suits(screen)
    /\ x \in 0..W /\ y \in 0..H
    /\ location \in 0..H * screen.line_length
    /\ pc \in {"open", "fixed", "variable", "map"} => y = 0 /\ index = 0
    /\ pc = "row" => index = 4 * (y * W)
    /\ pc = "pixel" => /\ y < H /\ index = 4 * (y * W + x)
                       /\ location = y * screen.line_length + x * Bytes
    /\ code # NONE => pc = "done"
    /\ code = 0 => y = H
    /\ DOMAIN fb \subseteq Nat
    /\ \A o \in DOMAIN fb : fb[o] = IF Drawn(o) THEN Corner(o) ELSE NONE

LEMMA FbStarts == Init => FbInv
<1> SUFFICES ASSUME Init PROVE FbInv
  OBVIOUS
<1>1. W \in Nat /\ H \in Nat /\ screen.line_length \in Nat
  BY FramebufferAssumption DEF Init
<1>2. 0 \in 0..H * screen.line_length
  <2>1. H * screen.line_length \in Nat
    BY <1>1
  <2> QED  BY <2>1
<1> QED  BY <1>1, <1>2 DEF Init, FbInv, NONE

\* The screen is not changed, and neither is where the picture goes on it.
LEMMA CornerStays == ASSUME UNCHANGED <<xrgb, screen>> PROVE \A o : Corner(o)' = Corner(o)
BY DEF Corner, Shown, Bytes

\* Its lines are not shorter than those of the picture.
LEMMA LinesHold ==
    ASSUME FbInv
    PROVE  /\ W \in Nat \ {0} /\ H \in Nat \ {0} /\ screen.line_length \in Nat
           /\ W * Bytes \in Nat /\ W * Bytes <= screen.line_length /\ screen.line_length > 0
<1>1. W \in Nat \ {0} /\ H \in Nat \ {0} /\ screen.line_length \in Nat
  BY FramebufferAssumption DEF FbInv
<1>2. screen.xres \in Nat /\ W <= screen.xres /\ screen.line_length >= screen.xres * Bytes
  BY FramebufferAssumption DEF FbInv, Suits
<1>3. /\ W * Bytes \in Nat /\ W * Bytes <= screen.xres * Bytes
      /\ screen.xres * Bytes \in Nat /\ 1 * Bytes <= W * Bytes
  BY <1>1, <1>2, BytesIs, Multiples
<1> QED  BY <1>1, <1>2, <1>3, BytesIs

LEMMA PutSteps == ASSUME FbInv, Put PROVE FbInv'
<1> DEFINE L == screen.line_length
           at == location..location + Bytes - 1
<1>1. /\ pc = "pixel" /\ x \in 0..W - 1 /\ y \in 0..H - 1 /\ code = NONE
      /\ UNCHANGED <<xrgb, code, screen, y>>
  BY LinesHold DEF Put, FbInv, NONE
<1>2. index = 4 * (y * W + x) /\ location = y * L + x * Bytes
  BY <1>1 DEF FbInv
<1>3. /\ W \in Nat /\ H \in Nat /\ L \in Nat /\ L > 0
      /\ W * Bytes \in Nat /\ W * Bytes <= L
  BY LinesHold
<1>4. /\ x * Bytes \in Nat /\ x * Bytes + Bytes <= W * Bytes
      /\ (x + 1) * Bytes = x * Bytes + Bytes
  <2>1. x * Bytes \in Nat /\ x * Bytes + Bytes <= W * Bytes
    BY <1>1, <1>3, BytesIs, DivModLess
  <2>2. (x + 1) * Bytes = x * Bytes + Bytes
    BY <1>1, <1>3, BytesIs
  <2> QED  BY <2>1, <2>2
<1>5. y * L \in Nat /\ H * L \in Nat /\ y * L + L <= H * L
  BY <1>1, <1>3, DivModLess
<1>6. Bytes' = Bytes /\ Suits(screen)' /\ screen' \in Screens
  BY <1>1 DEF FbInv, Suits, Bytes
<1>7. CASE at \subseteq DOMAIN fb
  <2>1. /\ fb' = [o \in DOMAIN fb |->
                     IF o \in at THEN Pixel(index)[o - location] ELSE fb[o]]
        /\ location' = location + Bytes /\ index' = index + 4 /\ x' = x + 1 /\ pc' = pc
    BY <1>7 DEF Put, Step
  <2>2. location' = y * L + (x + 1) * Bytes /\ location' \in 0..H * L
    BY <1>2, <1>3, <1>4, <1>5, <2>1, BytesIs
  <2>3. index' = 4 * (y * W + (x + 1))
    <3>1. y * W \in Int
      BY <1>1, <1>3
    <3> QED  BY <1>1, <1>2, <2>1, <3>1
  <2>4. ASSUME NEW o \in DOMAIN fb PROVE fb'[o] = IF Drawn(o)' THEN Corner(o) ELSE NONE
    <3> DEFINE row == o \div L
               col == o % L
    <3>1. o \in Nat /\ fb[o] = IF Drawn(o) THEN Corner(o) ELSE NONE
      BY DEF FbInv
    <3>2. row \in Nat /\ col \in Nat /\ o = row * L + col
      <4> HIDE DEF L
      <4> QED  BY <1>3, <3>1, DivMod
    <3>3. Drawn(o) <=> row < y \/ (row = y /\ col < x * Bytes)
      BY <1>1 DEF Drawn
    <3>4. Drawn(o)' <=> row < y \/ (row = y /\ col < (x + 1) * Bytes)
      BY <1>1, <1>6, <2>1 DEF Drawn
    <3>5. CASE o \in at
      <4> DEFINE d == o - location
      <4>1. d \in 0..Bytes - 1 /\ o = y * L + (x * Bytes + d)
        BY <1>2, <1>4, <1>5, <3>1, <3>5, BytesIs
      <4> HIDE DEF d
      <4>2. row = y /\ col = x * Bytes + d /\ Corner(o) = Pixel(index)[d]
        BY <1>1, <1>2, <4>1, PixelPlace DEF FbInv
      <4>3. Drawn(o)'
        BY <1>4, <3>4, <4>1, <4>2, BytesIs
      <4> QED  BY <2>1, <3>5, <4>2, <4>3 DEF d
    <3>6. CASE o \notin at
      <4>1. ~(row = y /\ x * Bytes <= col /\ col < x * Bytes + Bytes)
        <5> HIDE DEF row, col
        <5> SUFFICES ASSUME row = y, x * Bytes <= col, col < x * Bytes + Bytes PROVE FALSE
          OBVIOUS
        <5>1. o = y * L + col
          BY <3>2
        <5> QED  BY <1>2, <1>4, <1>5, <3>2, <3>6, <5>1, BytesIs
      <4>2. Drawn(o)' <=> Drawn(o)
        <5> HIDE DEF row, col
        <5> QED  BY <1>1, <1>4, <3>2, <3>3, <3>4, <4>1, BytesIs
      <4> QED  BY <2>1, <3>1, <3>6, <4>2
    <3> QED  BY <3>5, <3>6
  <2>5. DOMAIN fb' = DOMAIN fb
    BY <2>1
  <2>6. \A o \in DOMAIN fb' : fb'[o] = IF Drawn(o)' THEN Corner(o)' ELSE NONE
    BY <1>1, <2>4, <2>5, CornerStays
  <2> QED  BY <1>1, <1>3, <1>6, <2>1, <2>2, <2>3, <2>5, <2>6 DEF FbInv
<1>8. CASE ~(at \subseteq DOMAIN fb)
  <2>1. pc' = "fault" /\ UNCHANGED <<fb, location, index, x>>
    BY <1>8 DEF Put, Goto
  <2>2. \A o : Drawn(o)' <=> Drawn(o)
    BY <1>1, <1>6, <2>1 DEF Drawn
  <2>3. \A o \in DOMAIN fb' : fb'[o] = IF Drawn(o)' THEN Corner(o)' ELSE NONE
    BY <1>1, <2>1, <2>2, CornerStays DEF FbInv
  <2> QED  BY <1>1, <1>6, <2>1, <2>3 DEF FbInv
<1> QED  BY <1>7, <1>8

LEMMA NextRowSteps == ASSUME FbInv, NextRow PROVE FbInv'
<1> DEFINE L == screen.line_length
<1>1. /\ pc = "pixel" /\ pc' = "row" /\ x = W /\ y \in 0..H - 1 /\ y' = y + 1
      /\ code = NONE /\ UNCHANGED <<xrgb, code, screen, location, index, x, fb>>
  BY LinesHold DEF NextRow, FbInv, Goto, NONE
<1>2. W \in Nat /\ H \in Nat /\ L \in Nat /\ L > 0
  BY LinesHold
<1>3. Bytes' = Bytes /\ Suits(screen)' /\ screen' \in Screens
  BY <1>1 DEF FbInv, Suits, Bytes
<1>4. index' = 4 * (y' * W)
  <2>1. index = 4 * (y * W + x)
    BY <1>1 DEF FbInv
  <2>2. y * W \in Int /\ (y + 1) * W = y * W + W
    BY <1>1, <1>2
  <2> QED  BY <1>1, <1>2, <2>1, <2>2
<1>5. ASSUME NEW o \in DOMAIN fb PROVE fb[o] = IF Drawn(o)' THEN Corner(o) ELSE NONE
  <2> DEFINE row == o \div L
             col == o % L
  <2>1. o \in Nat /\ fb[o] = IF Drawn(o) THEN Corner(o) ELSE NONE
    BY DEF FbInv
  <2>2. row \in Nat
    <3> HIDE DEF L
    <3> QED  BY <1>2, <2>1, DivMod
  <2>3. Drawn(o) <=> row < y \/ (row = y /\ col < W * Bytes)
    BY <1>1 DEF Drawn
  <2>4. Drawn(o)' <=> row < y + 1
    BY <1>1 DEF Drawn
  <2>5. CASE row = y /\ ~(col < W * Bytes)
    <3>1. Corner(o) = NONE
      BY <2>5 DEF Corner
    <3> QED  BY <2>1, <3>1
  <2>6. CASE ~(row = y /\ ~(col < W * Bytes))
    <3>1. Drawn(o)' <=> Drawn(o)
      <4> HIDE DEF row, col
      <4> QED  BY <1>1, <2>2, <2>3, <2>4, <2>6
    <3> QED  BY <2>1, <3>1
  <2> QED  BY <2>5, <2>6
<1>6. \A o \in DOMAIN fb' : fb'[o] = IF Drawn(o)' THEN Corner(o)' ELSE NONE
  BY <1>1, <1>5, CornerStays
<1> QED  BY <1>1, <1>2, <1>3, <1>4, <1>6 DEF FbInv

LEMMA RowSteps == ASSUME FbInv, Row PROVE FbInv'
<1> DEFINE L == screen.line_length
<1>1. /\ pc = "row" /\ pc' = "pixel" /\ x' = 0 /\ y \in 0..H - 1 /\ location' = y * L
      /\ code = NONE /\ UNCHANGED <<xrgb, code, screen, index, y, fb>>
  BY LinesHold DEF Row, FbInv, Goto, NONE
<1>2. W \in Nat \ {0} /\ H \in Nat /\ L \in Nat /\ L > 0
  BY LinesHold
<1>3. Bytes' = Bytes /\ Suits(screen)' /\ screen' \in Screens
  BY <1>1 DEF FbInv, Suits, Bytes
<1>4. index = 4 * (y * W) /\ y * W \in Nat
  BY <1>1, <1>2 DEF FbInv
<1>5. y * L \in Nat /\ H * L \in Nat /\ y * L + L <= H * L
  BY <1>1, <1>2, DivModLess
<1>6. x' * Bytes = 0
  BY <1>1, BytesIs
<1>7. ASSUME NEW o \in DOMAIN fb PROVE Drawn(o)' <=> Drawn(o)
  <2> DEFINE row == o \div L
             col == o % L
  <2>1. row \in Nat /\ col \in Nat
    <3>1. o \in Nat
      BY DEF FbInv
    <3> HIDE DEF L
    <3> QED  BY <1>2, <3>1, DivMod
  <2>2. Drawn(o) <=> row < y
    BY <1>1 DEF Drawn
  <2>3. Drawn(o)' <=> row < y \/ (row = y /\ col < x' * Bytes)
    BY <1>1, <1>3 DEF Drawn
  <2> HIDE DEF row, col
  <2> QED  BY <1>6, <2>1, <2>2, <2>3
<1>8. \A o \in DOMAIN fb' : fb'[o] = IF Drawn(o)' THEN Corner(o)' ELSE NONE
  BY <1>1, <1>7, CornerStays DEF FbInv
<1>9. /\ location' = y' * screen'.line_length + x' * Bytes'
      /\ location' \in 0..H * screen'.line_length
      /\ index' = 4 * (y' * W + x')
  <2>1. location' = y * L + 0 /\ location' \in 0..H * L
    BY <1>1, <1>2, <1>5
  <2>2. index' = 4 * (y * W + 0)
    BY <1>1, <1>4
  <2> HIDE DEF L
  <2>3. x' * Bytes' = 0
    BY <1>3, <1>6
  <2>4. y' = y /\ x' = 0 /\ screen' = screen
    BY <1>1
  <2> QED  BY <2>1, <2>2, <2>3, <2>4 DEF L
<1> QED  BY <1>1, <1>2, <1>3, <1>8, <1>9 DEF FbInv

LEMMA FbSteps == ASSUME FbInv, [Next]_vars PROVE FbInv'
<1> DEFINE Same == UNCHANGED <<xrgb, screen, location, index, x, y>>
<1>1. Same => /\ Bytes' = Bytes /\ (Suits(screen)' <=> Suits(screen))
              /\ location' \in 0..H * screen'.line_length
  BY DEF FbInv, Suits, Bytes
<1>2. ASSUME Same, UNCHANGED fb, pc \notin {"pixel", "fault"}, pc' \notin {"pixel", "fault"}
      PROVE  \A o \in DOMAIN fb' : fb'[o] = IF Drawn(o)' THEN Corner(o)' ELSE NONE
  <2>1. \A o : Drawn(o)' <=> Drawn(o)
    BY <1>2 DEF Drawn
  <2> QED  BY <1>2, <2>1, CornerStays DEF FbInv
<1>3. CASE Open \/ Fixed \/ Variable
  <2>1. /\ Same /\ UNCHANGED fb /\ pc \in {"open", "fixed", "variable"}
        /\ \/ pc' \in {"fixed", "variable", "map"} /\ code' = code
           \/ pc' = "done" /\ code' \in {1, 2, 3}
    BY <1>3 DEF Open, Fixed, Variable, Call, Goto, Exit
  <2> QED  BY <1>1, <1>2, <2>1 DEF FbInv
<1>4. CASE Map
  <2>1. CASE pc' = "row"
    <3>1. /\ Same /\ pc = "map" /\ code' = code
          /\ fb' = [o \in 0..Mapped(screen) - 1 |-> NONE]
      BY <1>4, <2>1 DEF Map, Exit
    <3>2. /\ y = 0 /\ index = 0 /\ W \in Nat /\ 0 * W = 0
          /\ screen.line_length \in Nat /\ screen.line_length > 0
      BY <3>1, LinesHold DEF FbInv
    <3>3. \A o \in DOMAIN fb' : o \in Nat /\ ~Drawn(o)'
      <4> SUFFICES ASSUME NEW o \in DOMAIN fb' PROVE o \in Nat /\ ~Drawn(o)'
        OBVIOUS
      <4>1. o \in Nat
        BY <3>1
      <4>2. (o \div screen.line_length) \in Nat
        BY <3>2, <4>1, DivMod
      <4>3. Drawn(o)' <=> (o \div screen.line_length) < y
        BY <2>1, <3>1 DEF Drawn
      <4> QED  BY <3>2, <4>1, <4>2, <4>3
    <3>4. \A o \in DOMAIN fb' : fb'[o] = IF Drawn(o)' THEN Corner(o)' ELSE NONE
      BY <3>1, <3>3
    <3>5. index' = 4 * (y' * W) /\ code = NONE
      BY <3>1, <3>2 DEF FbInv
    <3> QED  BY <1>1, <2>1, <3>1, <3>3, <3>4, <3>5 DEF FbInv, NONE
  <2>2. CASE pc' # "row"
    <3>1. Same /\ UNCHANGED fb /\ pc = "map" /\ pc' = "done" /\ code' = 4
      BY <1>4, <2>2 DEF Map, Goto, Exit
    <3> QED  BY <1>1, <1>2, <3>1 DEF FbInv
  <2> QED  BY <2>1, <2>2
<1>5. CASE Row
  BY <1>5, RowSteps
<1>6. CASE Put
  BY <1>6, PutSteps
<1>7. CASE NextRow
  BY <1>7, NextRowSteps
<1>8. CASE Close
  <2>1. Same /\ UNCHANGED fb /\ pc = "row" /\ pc' = "done" /\ code' = 0 /\ y = H
    BY <1>8 DEF Close, Exit
  <2> QED  BY <1>1, <1>2, <2>1 DEF FbInv
<1>9. CASE UNCHANGED vars
  <2>1. Same /\ UNCHANGED <<fb, pc, code>>
    BY <1>9 DEF vars
  <2>2. \A o : Drawn(o)' <=> Drawn(o)
    BY <2>1 DEF Drawn, Bytes
  <2>3. \A o \in DOMAIN fb' : fb'[o] = IF Drawn(o)' THEN Corner(o)' ELSE NONE
    BY <2>1, <2>2, CornerStays DEF FbInv
  <2> QED  BY <1>1, <2>1, <2>3 DEF FbInv
<1> QED  BY <1>3, <1>4, <1>5, <1>6, <1>7, <1>8, <1>9 DEF Next

LEMMA FbInvariant == Spec => []FbInv
BY FbStarts, FbSteps, PTL DEF Spec

\* The shape of the state, for any picture and screens: the picture is read in step
\* with the loops, and never past its end (fb_tux.c: 67-100).
THEOREM FbTypes == Spec => []TypeOK
<1>1. FbInv => TypeOK
  <2> SUFFICES ASSUME FbInv PROVE TypeOK
    OBVIOUS
  <2>1. \A o \in DOMAIN fb : fb[o] \in {NONE} \cup 0..255
    BY CornerBytes DEF FbInv
  <2> QED  BY <2>1 DEF FbInv, TypeOK
<1> QED  BY <1>1, FbInvariant, PTL

\* When the program succeeds the corner of the screen shows the whole picture, and
\* nothing else was touched, whatever the padding of lines (fb_tux.c: 67-98).
THEOREM FbShows == Spec => []ShowsPicture
<1>1. FbInv => ShowsPicture
  <2> SUFFICES ASSUME FbInv, code = 0, NEW o \in DOMAIN fb PROVE fb[o] = Corner(o)
    BY DEF ShowsPicture
  <2>1. pc = "done" /\ y = H /\ fb[o] = IF Drawn(o) THEN Corner(o) ELSE NONE
    BY DEF FbInv, NONE
  <2>2. CASE o \div screen.line_length < H
    BY <2>1, <2>2 DEF Drawn
  <2>3. CASE ~(o \div screen.line_length < H)
    BY <2>1, <2>3 DEF Drawn, Corner
  <2> QED  BY <2>2, <2>3
<1> QED  BY <1>1, FbInvariant, PTL

-----------------------------------------------------------------------------
(* Framebuffer: the mapping. *)

\* The device is mapped as far as it was asked for, up to whole pages.
MapInv ==
    /\ pc \in {"row", "pixel"} => DOMAIN fb = 0..Mapped(screen) - 1
    /\ Holds(screen) => pc # "fault"

\* Whole pages are no less than what was asked for.
LEMMA MapsAll ==
    ASSUME NEW s, ScreenSize(s) \in Nat PROVE Mapped(s) \in Int /\ ScreenSize(s) <= Mapped(s)
<1> DEFINE n == ScreenSize(s) + PAGE - 1
           pages == n \div PAGE
<1>1. PAGE \in Nat /\ PAGE > 0
  BY FramebufferAssumption
<1>2. n \in Nat
  BY <1>1
<1> HIDE DEF n
<1>3. pages \in Nat /\ n % PAGE \in 0..PAGE - 1 /\ n = pages * PAGE + (n % PAGE)
  BY <1>1, <1>2, DivMod
<1>4. pages * PAGE \in Nat
  BY <1>1, <1>3
<1>5. Mapped(s) = pages * PAGE
  BY DEF Mapped, n
<1> HIDE DEF pages
<1> QED  BY <1>1, <1>3, <1>4, <1>5 DEF n

\* A pixel is written inside the mapping, if its lines are not padded too much.
LEMMA PixelMapped ==
    ASSUME FbInv, MapInv, Holds(screen), pc = "pixel", x < W
    PROVE  location..location + Bytes - 1 \subseteq DOMAIN fb
<1> DEFINE L == screen.line_length
           size == screen.xres * screen.yres * Bytes
<1>1. /\ W \in Nat /\ H \in Nat /\ L \in Nat /\ screen.xres \in Nat /\ screen.yres \in Nat
      /\ x \in 0..W - 1 /\ y \in 0..H - 1 /\ location = y * L + x * Bytes
  BY LinesHold, FramebufferAssumption DEF FbInv
<1>2. x * Bytes \in Nat /\ W * Bytes \in Nat /\ x * Bytes + Bytes <= W * Bytes
  BY <1>1, BytesIs, DivModLess
<1>3. y * L \in Nat /\ (H - 1) * L \in Nat /\ y * L <= (H - 1) * L
  BY <1>1, Multiples
<1>4. screen.xres * screen.yres \in Nat /\ size \in Nat
  BY <1>1, BytesIs
<1>5. screen.bits_per_pixel = 8 * Bytes
  BY DEF FbInv, Suits
<1>6. ScreenSize(screen) = size
  <2>1. screen.xres * screen.yres * screen.bits_per_pixel = size * 8 + 0
    BY <1>4, <1>5, BytesIs
  <2>2. (size * 8 + 0) \div 8 = size
    BY <1>4
  <2> QED  BY <2>1, <2>2 DEF ScreenSize
<1>7. (H - 1) * L + W * Bytes <= size
  <2>1. screen.bits_per_pixel \div 8 = Bytes
    BY <1>5, BytesIs
  <2> QED  BY <2>1 DEF Holds
<1>8. size <= Mapped(screen) /\ Mapped(screen) \in Int
  BY <1>4, <1>6, MapsAll
<1>9. DOMAIN fb = 0..Mapped(screen) - 1
  BY DEF MapInv
<1>10. location \in Nat /\ location + Bytes <= Mapped(screen)
  <2> HIDE DEF L, size
  <2> QED  BY <1>1, <1>2, <1>3, <1>4, <1>7, <1>8, BytesIs
<1> QED  BY <1>8, <1>9, <1>10, BytesIs

\* The safety half of Ends: a screen whose padding leaves room is never written
\* past its mapping (fb_tux.c: 55-98).
StaysMapped == Holds(screen) => pc # "fault"

\* Whole pages from the size asked for hold every row of the picture, for any
\* picture, geometry and page size (fb_tux.c: 55-98).
THEOREM FbStaysMapped == Spec => []StaysMapped
<1>1. Init => MapInv
  BY DEF Init, MapInv
<1>2. FbInv /\ MapInv /\ [Next]_vars => MapInv'
  <2> SUFFICES ASSUME FbInv, MapInv, [Next]_vars PROVE MapInv'
    OBVIOUS
  <2>1. UNCHANGED screen => (Holds(screen)' <=> Holds(screen)) /\ Mapped(screen)' = Mapped(screen)
    BY DEF Holds, Mapped, ScreenSize
  <2>2. CASE Open \/ Fixed \/ Variable
    BY <2>2 DEF Open, Fixed, Variable, Call, Goto, Exit, MapInv
  <2>3. CASE Map
    BY <2>3 DEF Map, Goto, Exit, MapInv
  <2>4. CASE Row
    BY <2>1, <2>4 DEF Row, Goto, MapInv
  <2>5. CASE Put
    <3>1. CASE Holds(screen)
      <4>1. pc = "pixel" /\ x < W
        BY <2>5 DEF Put
      <4>2. location..location + Bytes - 1 \subseteq DOMAIN fb
        BY <3>1, <4>1, PixelMapped
      <4> QED  BY <2>1, <2>5, <4>2 DEF Put, MapInv
    <3>2. CASE ~Holds(screen)
      BY <2>1, <2>5, <3>2 DEF Put, Goto, MapInv
    <3> QED  BY <3>1, <3>2
  <2>6. CASE NextRow
    BY <2>1, <2>6 DEF NextRow, Goto, MapInv
  <2>7. CASE Close
    BY <2>7 DEF Close, Exit, MapInv
  <2>8. CASE UNCHANGED vars
    BY <2>1, <2>8 DEF vars, MapInv
  <2> QED  BY <2>2, <2>3, <2>4, <2>5, <2>6, <2>7, <2>8 DEF Next
<1>3. MapInv => StaysMapped
  BY DEF MapInv, StaysMapped
<1> QED  BY <1>1, <1>2, <1>3, FbInvariant, PTL DEF Spec
=============================================================================
