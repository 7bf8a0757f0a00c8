------------------------------- MODULE QrEncode -------------------------------
(***************************************************************************)
(* js/qr.js: bytes into a matrix of dark (1) and light (0) modules.        *)
(* Symbols of every version and level.  A text is a sequence of code       *)
(* points, of up to sixteen bits.                                          *)
(***************************************************************************)
EXTENDS QrTables, SequencesExt

DataCodewords(version, level) ==
  CodewordsOf(version) - ECC_PER_BLOCK[level][version] * NUM_BLOCKS[level][version]

---------------------------------------------------------------------------
(* Codewords *)

\* The generator: the product of x - 2^i, highest degree first.  The code
\* multiplies one factor at a time.
Product(p, m, q, n) ==
  Table([k \in 0 .. m + n |->
     SumTo([j \in 0 .. k |-> IF j <= m /\ k - j <= n THEN GfMul(p[j], q[k - j]) ELSE 0], k + 1)])

RECURSIVE Factors(_, _)
Factors(first, last) ==
  IF first = last THEN Table([j \in 0 .. 1 |-> IF j = 0 THEN 1 ELSE GF_EXP[first]])
  ELSE LET middle == (first + last) \div 2
       IN  Product(Factors(first, middle), middle - first + 1,
                   Factors(middle + 1, last), last - middle)
RsGenerator(degree) == Factors(0, degree - 1)

\* One byte of data shifted through the remainder.
Shifted(remainder, byte, gen, degree) ==
  LET factor == ByteXor(byte, remainder[0])
  IN  Table([i \in 0 .. degree - 1 |->
         ByteXor(IF i < degree - 1 THEN remainder[i + 1] ELSE 0, GfMul(gen[i + 1], factor))])

\* Through all of it.  CHOOSE over one value has TLC evaluate the first half
\* before it goes on.
RECURSIVE ShiftedBy(_, _, _, _, _, _)
ShiftedBy(remainder, data, first, last, gen, degree) ==
  IF first = last THEN Shifted(remainder, data[first], gen, degree)
  ELSE LET middle == (first + last) \div 2
       IN  CHOOSE whole \in {ShiftedBy(half, data, middle + 1, last, gen, degree) :
                               half \in {ShiftedBy(remainder, data, first, middle, gen, degree)}} : TRUE
RsRemainder(data, degree) ==
  ShiftedBy(Table([i \in 0 .. degree - 1 |-> 0]), data, 1, Len(data), RsGenerator(degree), degree)

\* BitBuffer.push.
Bits(value, length) == [i \in 1 .. length |-> (value \div 2^(length - i)) % 2]

CountBits(version) == IF version <= 9 THEN 8 ELSE 16

\* Blocks with their parity, then a column of all blocks at a time; the last
\* column of data is there in the long blocks only.
InterleaveBlocks(data, version, level) ==
  LET form == BlocksOf(version, level)
      size(b)   == form.data + (IF b <= form.short THEN 0 ELSE 1)
      offset(b) == (b - 1) * form.data + (IF b <= form.short THEN 0 ELSE b - 1 - form.short)
      chunk == Table([b \in 1 .. form.blocks |-> SubSeq(data, offset(b) + 1, offset(b) + size(b))])
      ecc   == Table([b \in 1 .. form.blocks |-> RsRemainder(chunk[b], form.parity)])
      block(k)  == ((k - 1) % form.blocks) + 1
      column(k) == (k - 1) \div form.blocks
  IN  [k \in 1 .. form.data * form.blocks |-> chunk[block(k)][column(k) + 1]]
        \o [b \in 1 .. form.blocks - form.short |-> chunk[form.short + b][form.data + 1]]
        \o [k \in 1 .. form.parity * form.blocks |-> ecc[block(k)][column(k)]]

\* The segments, a terminator as far as there is room, zeros up to a byte, and
\* the two pad bytes in turn.  << >> when they do not fit.
Laid(segments, version, level) ==
  LET capacity   == DataCodewords(version, level) * 8
      terminated == segments \o Bits(0, IF capacity - Len(segments) < 4
                                        THEN capacity - Len(segments) ELSE 4)
      bytes      == ToBytes(terminated \o Bits(0, (8 - (Len(terminated) % 8)) % 8))
      pads       == [i \in 1 .. capacity \div 8 - Len(bytes) |-> IF i % 2 = 1 THEN 236 ELSE 17]
  IN  IF Len(segments) > capacity THEN << >>
      ELSE InterleaveBlocks(bytes \o pads, version, level)

\* The bits of a sequence of bytes.
BitsOf(bytes) ==
  [n \in 1 .. 8 * Len(bytes) |-> (bytes[(n + 7) \div 8] \div 2^(7 - ((n - 1) % 8))) % 2]

ByteSegment(bytes, version) ==
  Bits(4, 4) \o Bits(Len(bytes), CountBits(version)) \o BitsOf(bytes)

\* TextEncoder: UTF-8.
TextBytes(text) ==
  FlattenSeq([i \in 1 .. Len(text) |->
    LET c == text[i]
    IN  IF c < 128 THEN <<c>>
        ELSE IF c < 2048 THEN <<192 + c \div 64, 128 + (c % 64)>>
        ELSE <<224 + c \div 4096, 128 + ((c \div 64) % 64), 128 + (c % 64)>>])

BuildCodewords(bytes, version, level) == Laid(ByteSegment(bytes, version), version, level)

---------------------------------------------------------------------------
(* The matrix.  What is drawn later lies on top: f @@ g is f over g. *)

Timing(size) ==
  [c \in {<<6, i>> : i \in 0 .. size - 1} \cup {<<i, 6>> : i \in 0 .. size - 1} |->
     IF (c[1] + c[2]) % 2 = 0 THEN 1 ELSE 0]

Finders(size) ==
  [c \in UNION {Around(f, 4, size) : f \in FinderCentres(size)} |->
     LET f == CHOOSE f \in FinderCentres(size) : Ring(c, f) <= 4
     IN  IF Ring(c, f) \in {2, 4} THEN 0 ELSE 1]

Alignments(version) ==
  [c \in UNION {Around(a, 2, SizeOf(version)) : a \in AlignmentCentres(version)} |->
     LET a == CHOOSE a \in AlignmentCentres(version) : Ring(c, a) <= 2
     IN  IF Ring(c, a) = 1 THEN 0 ELSE 1]

FormatArea(size) ==
  (<<8, size - 8>> :> 1) @@
  [c \in {<<i, 8>> : i \in (0 .. 8) \ {6}} \cup {<<8, i>> : i \in (0 .. 8) \ {6}}
      \cup {<<size - 1 - i, 8>> : i \in 0 .. 7} \cup {<<8, size - 1 - i>> : i \in 0 .. 7} |-> 0]

\* Eighteen bits, twice: above the finder on the left, beside the one above.
VersionInfo(version) ==
  LET at   == SizeOf(version) - 11
      bits == version * 2^12 + Bch(version, VersionGenerator, 12)
      bit(i) == (bits \div 2^i) % 2
  IN  IF version < 7 THEN << >>
      ELSE [c \in {<<(i % 3) + at, i \div 3>> : i \in 0 .. 17}
                  \cup {<<i \div 3, (i % 3) + at>> : i \in 0 .. 17} |->
              IF c[1] >= at THEN bit(3 * c[2] + c[1] - at) ELSE bit(3 * c[1] + c[2] - at)]

FunctionPatterns(version) ==
  LET size == SizeOf(version)
  IN  VersionInfo(version) @@ FormatArea(size) @@ Alignments(version)
        @@ Finders(size) @@ Timing(size)
Reserved(version) == DOMAIN FunctionPatterns(version)

FormatInfo(size, levelBits, mask) ==
  LET data == levelBits * 8 + mask
      bits == BitXor(data * 2^10 + Bch(data, FormatGenerator, 10), FormatMask, 15)
      bit(i) == (bits \div 2^i) % 2
      first(i)  == IF i <= 5 THEN <<8, i>> ELSE IF i = 6 THEN <<8, 7>>
                   ELSE IF i = 7 THEN <<8, 8>> ELSE IF i = 8 THEN <<7, 8>> ELSE <<14 - i, 8>>
      second(i) == IF i < 8 THEN <<size - 1 - i, 8>> ELSE <<8, size - 15 + i>>
      beside == {first(i) : i \in 0 .. 14}
      number(c) == CHOOSE i \in 0 .. 14 : c \in {first(i), second(i)}
  IN  (<<8, size - 8>> :> 1)
        @@ [c \in beside \cup {second(i) : i \in 0 .. 14} |-> bit(number(c))]

\* The codewords' bits along the zigzag; the modules that are left over stay
\* light.
PlacedData(codewords, version) ==
  LET reserved == Reserved(version)
      path == SelectSeq(ZigZag(SizeOf(version)), LAMBDA c : c \notin reserved)
      place(c) == CHOOSE n \in DOMAIN path : path[n] = c
      bits == BitsOf(codewords)
  IN  [c \in ToSet(path) |->
         LET n == place(c) IN IF n <= 8 * Len(codewords) THEN bits[n] ELSE 0]

ApplyMask(data, mask) ==
  [c \in DOMAIN data |-> IF Mask(mask, c[1], c[2]) THEN 1 - data[c] ELSE data[c]]

---------------------------------------------------------------------------
(* The choice of a mask: the four rules of the standard, lower is better. *)

\* Rows, then columns.
LinesOf(modules, size) ==
  [l \in 1 .. 2 * size |-> [i \in 1 .. size |->
     IF l <= size THEN modules[<<i - 1, l - 1>>] ELSE modules[<<l - size - 1, i - 1>>]]]

\* The place i of a line ends a run of at least n.
EndsRun(line, i, n) == i >= n /\ \A k \in 1 .. n - 1 : line[i - k] = line[i]

FinderLike(line, i) ==
  /\ i + 6 <= Len(line)
  /\ \A k \in 0 .. 6 : line[i + k] = IF k \in {1, 5} THEN 0 ELSE 1
  /\ \/ i > 4 /\ \A k \in 1 .. 4 : line[i - k] = 0
     \/ i + 10 <= Len(line) /\ \A k \in 7 .. 10 : line[i + k] = 0

Penalty(modules, size) ==
  LET lines  == Table(LinesOf(modules, size))
      places == (1 .. 2 * size) \X (1 .. size)
      fives  == {p \in places : EndsRun(lines[p[1]], p[2], 5) /\ ~EndsRun(lines[p[1]], p[2], 6)}
      longer == {p \in places : EndsRun(lines[p[1]], p[2], 6)}
      alike  == {p \in places : FinderLike(lines[p[1]], p[2])}
      square == {<<x, y>> \in Cells(size - 1) :
                   \A c \in {<<x + 1, y>>, <<x, y + 1>>, <<x + 1, y + 1>>} :
                      modules[c] = modules[<<x, y>>]}
      dark   == Cardinality({c \in Cells(size) : modules[c] = 1})
  IN  3 * Cardinality(fives) + Cardinality(longer) + 40 * Cardinality(alike)
        + 3 * Cardinality(square)
        + (Distance(100 * dark, 50 * size * size) \div (5 * size * size)) * 10

\* The smallest version that holds the bytes; 0 when none does.
Fitting(bytes, level, versions) ==
  LET fits == {v \in versions : Len(ByteSegment(bytes, v)) <= DataCodewords(v, level) * 8}
  IN  IF fits = {} THEN 0 ELSE CHOOSE v \in fits : \A w \in fits : v <= w

\* The symbol of some codewords under one of the eight masks, and under the
\* first of those with the lowest penalty.
Drawn(codewords, version, level, mask) ==
  FormatInfo(SizeOf(version), level.bits, mask) @@ FunctionPatterns(version)
    @@ ApplyMask(PlacedData(codewords, version), mask)

BestMask(codewords, version, level) ==
  LET data  == Table(PlacedData(codewords, version))
      fixed == FunctionPatterns(version)
      size  == SizeOf(version)
      score == Table([mask \in 0 .. 7 |->
                 Penalty(FormatInfo(size, level.bits, mask) @@ fixed @@ ApplyMask(data, mask), size)])
  IN  CHOOSE m \in 0 .. 7 : \A n \in 0 .. 7 : 8 * score[m] + m <= 8 * score[n] + n

Symbol(codewords, version, level) ==
  [version |-> version,
   modules |-> Table(Drawn(codewords, version, level, BestMask(codewords, version, level)))]

EncodedAs(bytes, version, level) ==
  Symbol(BuildCodewords(bytes, version, level.index), version, level)

EncodeQR(text, level, minVersion) ==
  EncodedAs(TextBytes(text), Fitting(TextBytes(text), level.index, Larger(1, minVersion) .. 40), level)
=============================================================================
