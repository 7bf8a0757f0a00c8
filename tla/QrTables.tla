------------------------------- MODULE QrTables -------------------------------
(***************************************************************************)
(* What js/qr.js and js/qr-decode.js both carry a copy of: the tables of   *)
(* the standard, the geometry that depends on the version alone, the field *)
(* with 256 elements and the remainder of the two BCH codes.  The copies   *)
(* are the same line for line; what the two files do NOT share, though it  *)
(* has to agree, is in QrEncode and QrDecode.                              *)
(*                                                                         *)
(* Arrays are functions from 0, as in the code; lists are sequences.  A    *)
(* cell is a pair <<x, y>>.                                                *)
(***************************************************************************)
EXTENDS Integers, Sequences, FiniteSets, TLC

ECL == [L |-> [bits |-> 1, index |-> 1], M |-> [bits |-> 0, index |-> 2],
        Q |-> [bits |-> 3, index |-> 3], H |-> [bits |-> 2, index |-> 4]]

\* Indexed by level (L, M, Q, H) and version.
ECC_PER_BLOCK == <<
  <<7, 10, 15, 20, 26, 18, 20, 24, 30, 18, 20, 24, 26, 30, 22, 24, 28, 30, 28, 28,
    28, 28, 30, 30, 26, 28, 30, 30, 30, 30, 30, 30, 30, 30, 30, 30, 30, 30, 30, 30>>,
  <<10, 16, 26, 18, 24, 16, 18, 22, 22, 26, 30, 22, 22, 24, 24, 28, 28, 26, 26, 26,
    26, 28, 28, 28, 28, 28, 28, 28, 28, 28, 28, 28, 28, 28, 28, 28, 28, 28, 28, 28>>,
  <<13, 22, 18, 26, 18, 24, 18, 22, 20, 24, 28, 26, 24, 20, 30, 24, 28, 28, 26, 30,
    28, 30, 30, 30, 30, 28, 30, 30, 30, 30, 30, 30, 30, 30, 30, 30, 30, 30, 30, 30>>,
  <<17, 28, 22, 16, 22, 28, 26, 26, 24, 28, 24, 28, 22, 24, 24, 30, 28, 28, 26, 28,
    30, 24, 30, 30, 30, 30, 30, 30, 30, 30, 30, 30, 30, 30, 30, 30, 30, 30, 30, 30>> >>

NUM_BLOCKS == <<
  <<1, 1, 1, 1, 1, 2, 2, 2, 2, 4, 4, 4, 4, 4, 6, 6, 6, 6, 7, 8,
    8, 9, 9, 10, 12, 12, 12, 13, 14, 15, 16, 17, 18, 19, 19, 20, 21, 22, 24, 25>>,
  <<1, 1, 1, 2, 2, 4, 4, 4, 5, 5, 5, 8, 9, 9, 10, 10, 11, 13, 14, 16,
    17, 17, 18, 20, 21, 23, 25, 26, 28, 29, 31, 33, 35, 37, 38, 40, 43, 45, 47, 49>>,
  <<1, 1, 2, 2, 4, 4, 6, 6, 8, 8, 8, 10, 12, 16, 12, 17, 16, 18, 21, 20,
    23, 23, 25, 27, 29, 34, 34, 35, 38, 40, 43, 45, 48, 51, 53, 56, 59, 62, 65, 68>>,
  <<1, 1, 2, 4, 4, 4, 5, 6, 8, 8, 11, 11, 16, 16, 18, 16, 19, 21, 25, 25,
    25, 34, 30, 32, 35, 37, 40, 42, 45, 48, 51, 54, 57, 60, 63, 66, 70, 74, 77, 81>> >>

\* f itself, as a table: TLC evaluates the expression of a function again at
\* every application.
Table(f) == f @@ << >>

SizeOf(version) == version * 4 + 17
Cells(size) == (0 .. size - 1) \X (0 .. size - 1)

Larger(a, b) == IF a < b THEN b ELSE a
Distance(a, b) == IF a < b THEN b - a ELSE a - b

\* Patterns are drawn as squares around a centre, in rings.
Ring(cell, centre) == Larger(Distance(cell[1], centre[1]), Distance(cell[2], centre[2]))
Around(centre, radius, size) ==
  {<<x, y>> \in ((centre[1] - radius) .. (centre[1] + radius))
                  \X ((centre[2] - radius) .. (centre[2] + radius)) :
      x \in 0 .. size - 1 /\ y \in 0 .. size - 1}

\* All modules left for data and parity.
RawDataModules(version) ==
  LET numAlign == version \div 7 + 2
      plain == (16 * version + 128) * version + 64
  IN  IF version < 2 THEN plain
      ELSE plain - ((25 * numAlign - 10) * numAlign - 55) - (IF version >= 7 THEN 36 ELSE 0)

CodewordsOf(version) == RawDataModules(version) \div 8

\* How the codewords of a version fall into blocks: the first ones may be one
\* data codeword shorter than the last.
BlocksOf(version, level) ==
  LET blocks == NUM_BLOCKS[level][version]
      parity == ECC_PER_BLOCK[level][version]
  IN  [blocks |-> blocks, parity |-> parity,
       data   |-> CodewordsOf(version) \div blocks - parity,
       short  |-> blocks - (CodewordsOf(version) % blocks)]

AlignmentPositions(version) ==
  LET numAlign == version \div 7 + 2
      span == numAlign * 2 - 2
      step == IF version = 32 THEN 26
              ELSE ((version * 4 + 4 + span - 1) \div span) * 2
  IN  IF version = 1 THEN << >>
      ELSE [i \in 1 .. numAlign |->
              IF i = 1 THEN 6 ELSE version * 4 + 10 - (numAlign - i) * step]

\* Three of the crossings are taken by the finders.
AlignmentCentres(version) ==
  LET at == AlignmentPositions(version)  last == Len(at)
  IN  {<<at[i], at[j]>> : <<i, j>> \in
         {<<i, j>> \in (1 .. last) \X (1 .. last) :
            <<i, j>> \notin {<<1, 1>>, <<1, last>>, <<last, 1>>}}}

FinderCentres(size) == {<<3, 3>>, <<size - 4, 3>>, <<3, size - 4>>}

Mask(mask, x, y) ==
  CASE mask = 0 -> (x + y) % 2 = 0
    [] mask = 1 -> y % 2 = 0
    [] mask = 2 -> x % 3 = 0
    [] mask = 3 -> (x + y) % 3 = 0
    [] mask = 4 -> (x \div 3 + y \div 2) % 2 = 0
    [] mask = 5 -> ((x * y) % 2) + ((x * y) % 3) = 0
    [] mask = 6 -> (((x * y) % 2) + ((x * y) % 3)) % 2 = 0
    [] mask = 7 -> (((x + y) % 2) + ((x * y) % 3)) % 2 = 0

\* The zigzag: columns in pairs from the right, up and down in turn, stepping
\* over the column of the vertical timing line.
ZigZag(size) ==
  [n \in 1 .. size * (size - 1) |->
     LET pair   == (n - 1) \div (2 * size)
         vert   == ((n - 1) % (2 * size)) \div 2
         beyond == size - 1 - 2 * pair
         right  == IF beyond > 6 THEN beyond ELSE beyond - 1
         upward == ((right + 1) \div 2) % 2 = 0
     IN  <<right - ((n - 1) % 2), IF upward THEN size - 1 - vert ELSE vert>>]

\* A sequence of bits, eight to a byte.
ToBytes(bits) ==
  Table([n \in 1 .. Len(bits) \div 8 |->
     LET bit(i) == bits[8 * (n - 1) + i] * 2^(8 - i)
     IN  bit(1) + bit(2) + bit(3) + bit(4) + bit(5) + bit(6) + bit(7) + bit(8)])

---------------------------------------------------------------------------
(* Arithmetic *)

\* "^" of the code, on numbers of n bits; on bytes by halves, for speed.
BitXor(a, b, n) ==
  LET below[k \in 0 .. n] ==
        IF k = 0 THEN 0
        ELSE below[k - 1] + 2^(k - 1) * ((a \div 2^(k - 1) + b \div 2^(k - 1)) % 2)
  IN  below[n]
Halves == [a \in 0 .. 15 |-> [b \in 0 .. 15 |-> BitXor(a, b, 4)]]
ByteXor(a, b) == 16 * Halves[a \div 16][b \div 16] + Halves[a % 16][b % 16]

\* The powers of 2: n doublings of x, halves first, for a shallow recursion.
GF_EXP ==
  LET doubled[n \in 0 .. 254, x \in 0 .. 255] ==
        IF n = 0 THEN x
        ELSE IF n > 1 THEN doubled[n - n \div 2, doubled[n \div 2, x]]
        ELSE IF x < 128 THEN 2 * x ELSE BitXor(2 * x - 256, 29, 8)
  IN  [i \in 0 .. 511 |-> doubled[i % 255, 1]]
GF_LOG == [x \in 1 .. 255 |-> CHOOSE i \in 0 .. 254 : GF_EXP[i] = x]

GfMul(a, b) == IF a = 0 \/ b = 0 THEN 0 ELSE GF_EXP[GF_LOG[a] + GF_LOG[b]]
GfDiv(a, b) == IF a = 0 THEN 0 ELSE GF_EXP[(GF_LOG[a] + 255 - GF_LOG[b]) % 255]

\* The sum, in the field, of the entries of an array; by halves, for a shallow
\* recursion, as below.
RECURSIVE SumOver(_, _, _)
SumOver(f, first, last) ==
  IF first > last THEN 0
  ELSE IF first = last THEN f[first]
  ELSE LET middle == (first + last) \div 2
       IN  ByteXor(SumOver(f, first, middle), SumOver(f, middle + 1, last))
SumTo(f, n) == SumOver(f, 0, n - 1)

\* The remainder of value * 2^degree by a generator with degree + 1 bits, which
\* the code finds by long division from the top bit.
RECURSIVE Reduced(_, _, _, _)
Reduced(rem, generator, degree, bit) ==
  IF bit < degree THEN rem
  ELSE Reduced(IF (rem \div 2^bit) % 2 = 1 THEN BitXor(rem, generator * 2^(bit - degree), bit + 1) ELSE rem,
               generator, degree, bit - 1)
Bch(value, generator, degree) == Reduced(value * 2^degree, generator, degree, degree + 5)

FormatGenerator == 1335  \* 0x537
FormatMask      == 21522 \* 0x5412
VersionGenerator == 7973 \* 0x1f25
=============================================================================
