------------------------------- MODULE QrCode -------------------------------
(***************************************************************************)
(* qr.js: the QR code that the browser draws of an enrolment link.         *)
(*                                                                         *)
(* A number is the set of its bits, so that exclusive or is the symmetric  *)
(* difference; a sequence of bits is one of Booleans; a code is the set of *)
(* its dark cells, <<row, column>> counted from 0.  Which mask scores best *)
(* (penalty) and the picture of the cells (qrSvg) are left out.            *)
(***************************************************************************)
EXTENDS Integers, Sequences, FiniteSets, Common
LOCAL INSTANCE SequencesExt

CONSTANT Texts   \* what is encoded: sequences of bytes

VARIABLES text, drawn   \* a text, and the code that was drawn of it

qrVars == <<text, drawn>>

-----------------------------------------------------------------------------
(***************************************************************************)
(* Reed-Solomon over GF(256), polynomial 0x11D                             *)
(***************************************************************************)
Xor(a, b)   == (a \ b) \cup (b \ a)
Shift(a, n) == { i + n : i \in a }
Upto(n)     == [i \in 1..n |-> i]
Listed(s)   == SubSeq(s, 1, Len(s))   \* s itself; makes TLC evaluate it once

Twice(a) == IF 7 \in a THEN Xor(Shift(a, 1), {8, 4, 3, 2, 0}) ELSE Shift(a, 1)
EXP == FoldLeft(LAMBDA powers, i : Append(powers, Twice(Last(powers))), << {0} >>, Upto(254))
LOG == [ a \in SUBSET (0..7) \ {{}} |-> CHOOSE i \in 1..255 : EXP[i] = a ]   \* counted from 1
Multiply(a, b) == IF {} \in {a, b} THEN {} ELSE EXP[((LOG[a] + LOG[b] - 2) % 255) + 1]

\* Polynomials are sequences, the highest coefficient first.
Scaled(poly, a)   == [ j \in DOMAIN poly |-> Multiply(poly[j], a) ]
Added(poly, other) == Listed([ j \in DOMAIN poly |-> Xor(poly[j], other[j]) ])

\* The product of (x - 2^i); mutant: i from 1 on.
GeneratorFromOne(degree) ==
  FoldLeft(LAMBDA poly, i : Added(Append(poly, {}), << {} >> \o Scaled(poly, EXP[i + 1])), << {0} >>, Upto(degree))
Generator(degree) ==
  FoldLeft(LAMBDA poly, i : Added(Append(poly, {}), << {} >> \o Scaled(poly, EXP[i])), << {0} >>, Upto(degree))

ReedSolomon(data, degree) ==
  LET gen == Generator(degree)
      Fed(result, byte) == Added(Append(Tail(result), {}), Scaled(Tail(gen), Xor(byte, Head(result))))
  IN  FoldLeft(Fed, [ i \in 1..degree |-> {} ], data)

-----------------------------------------------------------------------------
(***************************************************************************)
(* The data                                                                *)
(***************************************************************************)
Repeated(n, size) == [i \in 1..n |-> size]

EcPerBlock == <<10, 16, 26, 18, 24, 16, 18, 22, 22, 26>>
BlockSizes == << Repeated(1, 16), Repeated(1, 28), Repeated(1, 44), Repeated(2, 32), Repeated(2, 43), Repeated(4, 27), Repeated(4, 31),
                 Repeated(2, 38) \o Repeated(2, 39), Repeated(3, 36) \o Repeated(2, 37), Repeated(4, 43) \o Repeated(1, 44) >>

Total(sizes)          == FoldLeft(LAMBDA a, b : a + b, 0, sizes)
DataCapacity(version) == Total(BlockSizes[version])
CountBits(version)    == IF version < 10 THEN 8 ELSE 16

Fitting(length) == { v \in 1..10 : 4 + CountBits(v) + 8 * length <= 8 * DataCapacity(v) }
ChooseVersion(length) == CHOOSE v \in Fitting(length) : \A w \in Fitting(length) : v <= w

BitsOf(value, length) == [ i \in 1..length |-> (value \div 2^(length - i)) % 2 = 1 ]
ByteBits(bytes) == [ i \in 1 .. 8 * Len(bytes) |-> (7 - ((i - 1) % 8)) \in bytes[(i - 1) \div 8 + 1] ]
WordsOf(bits)   == [ k \in 1 .. Len(bits) \div 8 |-> { j \in 0..7 : bits[8 * k - j] } ]
Lesser(a, b)    == IF a < b THEN a ELSE b

DataCodewords(bytes, version) ==
  LET bits  == BitsOf(4, 4) \o BitsOf(Len(bytes), CountBits(version)) \o ByteBits(bytes)
      ended == bits \o Repeated(Lesser(4, 8 * DataCapacity(version) - Len(bits)), FALSE)
      words == WordsOf(ended \o Repeated((8 - (Len(ended) % 8)) % 8, FALSE))
  IN  [ k \in 1 .. DataCapacity(version) |->
          IF k <= Len(words) THEN words[k] ELSE IF (k - Len(words)) % 2 = 1 THEN {7, 6, 5, 3, 2} ELSE {4, 0} ]

Interleaved(words, version) ==
  LET sizes == BlockSizes[version]
      ec    == EcPerBlock[version]
      block == [ b \in DOMAIN sizes |-> LET at == Total(SubSeq(sizes, 1, b - 1)) IN SubSeq(words, at + 1, at + sizes[b]) ]
      check == Listed([ b \in DOMAIN sizes |-> ReedSolomon(block[b], ec) ])
      Nth(of, i) == FlattenSeq([ b \in DOMAIN sizes |-> IF i <= Len(of[b]) THEN << of[b][i] >> ELSE <<>> ])
  IN  FlattenSeq([ i \in 1 .. Last(sizes) |-> Nth(block, i) ]) \o FlattenSeq([ i \in 1..ec |-> Nth(check, i) ])

-----------------------------------------------------------------------------
(***************************************************************************)
(* The cells                                                               *)
(***************************************************************************)
SizeOf(version) == 17 + 4 * version
Grid(version)   == (0 .. SizeOf(version) - 1) \X (0 .. SizeOf(version) - 1)
Alignment == << {}, {6, 18}, {6, 22}, {6, 26}, {6, 30}, {6, 34}, {6, 22, 38}, {6, 24, 42}, {6, 26, 46}, {6, 28, 50} >>

Away(a, b) == IF a < b THEN b - a ELSE a - b
Ring(x, centre) == LET r == Away(x[1], centre[1])  c == Away(x[2], centre[2]) IN IF r < c THEN c ELSE r
Within(version, centres, rings) ==
  { x \in UNION { { <<m[1] + i, m[2] + j>> : i, j \in -4..4 } : m \in centres } \cap Grid(version) :
      \E m \in centres : Ring(x, m) \in rings }

FinderCentres(version) == { <<3, 3>>, <<3, SizeOf(version) - 4>>, <<SizeOf(version) - 4, 3>> }
\* Three of them would sit on a finder pattern.
AlignmentCentres(version) ==
  LET last == SizeOf(version) - 7 IN (Alignment[version] \X Alignment[version]) \ { <<6, 6>>, <<6, last>>, <<last, 6>> }
Timing(version) == UNION { { <<6, i>>, <<i, 6>> } : i \in 8 .. SizeOf(version) - 9 }

\* Two copies each of the format's and of the version's bits.
FormatCells(version, i) ==
  << IF i < 6 THEN <<i, 8>> ELSE IF i < 8 THEN <<i + 1, 8>> ELSE IF i = 8 THEN <<8, 7>> ELSE <<8, 14 - i>>,
     IF i < 8 THEN <<8, SizeOf(version) - 1 - i>> ELSE <<SizeOf(version) - 15 + i, 8>> >>
VersionCells(version, i) ==
  LET a == i \div 3  b == (i % 3) + SizeOf(version) - 11 IN << <<a, b>>, <<b, a>> >>
VersionBits(version)     == IF version < 7 THEN {} ELSE 0..17
AllCells(Cells(_, _), version, bits) == { Cells(version, i)[copy] : i \in bits, copy \in 1..2 }
DarkModule(version) == <<SizeOf(version) - 8, 8>>

BlankDark(version) ==
  LET aligned == Within(version, AlignmentCentres(version), 0..2) IN
  Within(version, FinderCentres(version), {0, 1, 3}) \cup { x \in Timing(version) \ aligned : (x[1] + x[2]) % 2 = 0 } \cup
  Within(version, AlignmentCentres(version), {0, 2}) \cup { DarkModule(version) }

Taken(version) ==
  Within(version, FinderCentres(version), 0..4) \cup Timing(version) \cup Within(version, AlignmentCentres(version), 0..2) \cup
  { DarkModule(version) } \cup AllCells(FormatCells, version, 0..14) \cup AllCells(VersionCells, version, VersionBits(version))

\* Long division of numbers as polynomials: what is left of `value` from bit `degree` up.
DividedBy(poly, degree, value, top) ==
  FoldLeft(LAMBDA left, i : IF top - i + 1 \in left THEN Xor(left, Shift(poly, top - i + 1 - degree)) ELSE left,
           value, Upto(top - degree + 1))
FormatPoly  == {10, 8, 5, 4, 2, 1, 0}
VersionPoly == {12, 11, 10, 9, 8, 5, 2, 0}
Bits(n)     == { i \in 0..7 : (n \div 2^i) % 2 = 1 }

BchFormat(mask) ==
  LET data == Shift(Bits(mask), 10) IN Xor(data \cup DividedBy(FormatPoly, 10, data, 14), {14, 12, 10, 4, 1})
BchVersion(version) ==
  LET data == Shift(Bits(version), 12) IN data \cup DividedBy(VersionPoly, 12, data, 17)

Mask(number, r, c) ==
  CASE number = 0 -> (r + c) % 2 = 0
    [] number = 1 -> r % 2 = 0
    [] number = 2 -> c % 3 = 0
    [] number = 3 -> (r + c) % 3 = 0
    [] number = 4 -> (r \div 2 + c \div 3) % 2 = 0
    [] number = 5 -> ((r * c) % 2) + ((r * c) % 3) = 0
    [] number = 6 -> (((r * c) % 2) + ((r * c) % 3)) % 2 = 0
    [] number = 7 -> (((r + c) % 2) + ((r * c) % 3)) % 2 = 0

\* Two columns at a time from the right, up and down by turns, past the column of the timing pattern.
Zigzag(version) ==
  LET size == SizeOf(version)
      CellAt(n) == LET pair == n \div (2 * size)
                       step == (n % (2 * size)) \div 2
                       column == size - 1 - 2 * pair
                   IN  << IF pair % 2 = 0 THEN size - 1 - step ELSE step, (IF column <= 6 THEN column - 1 ELSE column) - (n % 2) >>
      skipped == Taken(version)
  IN  SelectSeq([ n \in 1 .. size * (size - 1) |-> CellAt(n - 1) ], LAMBDA x : x \notin skipped)

\* Cells that are left when the codewords end hold 0.
DataDark(version, codewords, mask) ==
  LET cells == Zigzag(version)
      bits  == ByteBits(codewords)
  IN  { cells[i] : i \in { k \in DOMAIN cells : (k <= Len(bits) /\ bits[k]) # Mask(mask, cells[k][1], cells[k][2]) } }

Encode(bytes, mask) ==
  LET version == ChooseVersion(Len(bytes)) IN
  [ version |-> version, mask |-> mask,
    dark |-> BlankDark(version) \cup DataDark(version, Interleaved(DataCodewords(bytes, version), version), mask) \cup
             AllCells(FormatCells, version, BchFormat(mask)) \cup
             AllCells(VersionCells, version, BchVersion(version) \cap VersionBits(version)) ]

-----------------------------------------------------------------------------
QrInit == text \in Texts /\ drawn = None
Draw == /\ drawn = None /\ Fitting(Len(text)) # {}
        /\ \E mask \in 0..7 : drawn' = Encode(text, mask)
        /\ UNCHANGED text

QrSpec == QrInit /\ [][Draw]_qrVars

-----------------------------------------------------------------------------
(***************************************************************************)
(* What a reader makes of a code, by the standard.                         *)
(***************************************************************************)
\* The bits that a copy of the format or of the version shows.
Shown(code, Cells(_, _), bits, copy) == { i \in bits : Cells(code.version, i)[copy] \in code.dark }

\* Without its own mask a format is a multiple of its polynomial, and its upper bits are the level and the mask.
FormatIsRead(code) == \A copy \in 1..2 :
  LET format == Xor(Shown(code, FormatCells, 0..14, copy), {14, 12, 10, 4, 1})
  IN  DividedBy(FormatPoly, 10, format, 14) = {} /\ Shift({ i \in format : i >= 10 }, -10) = Bits(code.mask)

VersionIsRead(code) == \A copy \in 1..2 : code.version >= 7 =>
  LET shown == Shown(code, VersionCells, 0..17, copy)
  IN  DividedBy(VersionPoly, 12, shown, 17) = {} /\ Shift({ i \in shown : i >= 12 }, -12) = Bits(code.version)

\* The codewords, each cell read once.
CodewordsRead(code) ==
  LET cells == Zigzag(code.version)
  IN  WordsOf([ i \in DOMAIN cells |-> (cells[i] \in code.dark) # Mask(code.mask, cells[i][1], cells[i][2]) ])

\* Where word k of block b is: the blocks take turns, the shorter ones until they are full.
PlaceOf(version, b, k) ==
  LET sizes == BlockSizes[version]
      n     == Len(sizes)
      short == sizes[1]
      few   == Cardinality({ i \in DOMAIN sizes : sizes[i] = short })
      later == k - sizes[b]      \* error correction comes after all data
  IN  IF later > 0 THEN Total(sizes) + (later - 1) * n + b
      ELSE IF k <= short THEN (k - 1) * n + b ELSE short * n + b - few
BlockRead(code, words, b) ==
  [ k \in 1 .. BlockSizes[code.version][b] + EcPerBlock[code.version] |-> words[PlaceOf(code.version, b, k)] ]

ValueAt(poly, x) == FoldLeft(LAMBDA value, c : Xor(Multiply(value, x), c), {}, poly)

NumberOf(bits) == FoldLeft(LAMBDA n, bit : 2 * n + (IF bit THEN 1 ELSE 0), 0, bits)

\* A reader that follows the standard finds in the code, from its cells alone, the mask, blocks without an error
\* and the text; the version is the smallest that holds it.
ReadsAs(code, bytes) ==
  LET words  == Listed(CodewordsRead(code))
      sizes  == BlockSizes[code.version]
      count  == CountBits(code.version)
      blocks == Listed([ b \in DOMAIN sizes |-> Listed(BlockRead(code, words, b)) ])
      data   == ByteBits(FlattenSeq([ b \in DOMAIN sizes |-> SubSeq(blocks[b], 1, sizes[b]) ]))
  IN  /\ FormatIsRead(code) /\ VersionIsRead(code)
      /\ \A b \in DOMAIN sizes : \A i \in 1 .. EcPerBlock[code.version] : ValueAt(blocks[b], EXP[i]) = {}
      /\ SubSeq(data, 1, 4) = <<FALSE, TRUE, FALSE, FALSE>>
      /\ NumberOf(SubSeq(data, 5, 4 + count)) = Len(bytes)
      /\ SubSeq(data, 5 + count, 4 + count + 8 * Len(bytes)) = ByteBits(bytes)
      /\ code.dark \subseteq Grid(code.version)

CodeReadsAsText == drawn # None => ReadsAs(drawn, text)
=============================================================================
