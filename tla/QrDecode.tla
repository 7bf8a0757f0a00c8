------------------------------- MODULE QrDecode -------------------------------
(***************************************************************************)
(* js/qr-decode.js from the grid of modules on: format, codewords, blocks, *)
(* segments, rotations.  Finding the grid in a photo is left out.          *)
(*                                                                         *)
(* The code throws Unreadable and catches it where something else can be   *)
(* tried.  Here Unreadable is the empty sequence: no stage returns an      *)
(* empty result otherwise, and a text that is empty is refused as well.    *)
(* A text is a sequence of code points.                                    *)
(***************************************************************************)
EXTENDS QrTables, SequencesExt

Unreadable == << >>

---------------------------------------------------------------------------
(* Reed-Solomon correction.  Polynomials in ascending order. *)

\* A polynomial at 2^k.
At(poly, length, k) ==
  SumTo([i \in 0 .. length - 1 |-> GfMul(poly[i], GF_EXP[(i * k) % 255])], length)

\* The block as a polynomial, highest degree first, at the powers of 2.
\* Mutant: from 2^1 on, as in other Reed-Solomon codes.
PolyEval(poly, length, k) ==
  SumTo([i \in 0 .. length - 1 |-> GfMul(poly[i], GF_EXP[((length - 1 - i) * k) % 255])], length)
SyndromesFromOne(block, nsym) ==
  Table([i \in 0 .. nsym - 1 |-> PolyEval(block, Cardinality(DOMAIN block), i + 1)])
Syndromes(block, nsym) ==
  Table([i \in 0 .. nsym - 1 |-> PolyEval(block, Cardinality(DOMAIN block), i)])
IsClean(syndromes) == \A i \in DOMAIN syndromes : syndromes[i] = 0

\* One round of Berlekamp-Massey.
Round(m, n, syndromes, nsym) ==
  LET discrepancy ==
        SumTo([i \in 0 .. m.degree |-> GfMul(m.lambda[i], syndromes[n - i])], m.degree + 1)
      scale   == GfDiv(discrepancy, m.last)
      updated == Table([i \in 0 .. nsym |->
                   ByteXor(m.lambda[i],
                           IF i < m.shift THEN 0 ELSE GfMul(scale, m.previous[i - m.shift]))])
  IN  IF discrepancy = 0 THEN [m EXCEPT !.shift = @ + 1]
      ELSE IF 2 * m.degree <= n
           THEN [lambda |-> updated, previous |-> m.lambda, last |-> discrepancy,
                 degree |-> n + 1 - m.degree, shift |-> 1]
           ELSE [m EXCEPT !.lambda = updated, !.shift = @ + 1]

RECURSIVE Rounds(_, _, _, _, _)
Rounds(m, first, last, syndromes, nsym) ==
  IF first = last THEN Round(m, first, syndromes, nsym)
  ELSE LET middle == (first + last) \div 2
       IN  CHOOSE whole \in {Rounds(half, middle + 1, last, syndromes, nsym) :
                               half \in {Rounds(m, first, middle, syndromes, nsym)}} : TRUE

ErrorLocator(syndromes, nsym) ==
  LET one == Table([i \in 0 .. nsym |-> IF i = 0 THEN 1 ELSE 0])
  IN  Rounds([lambda |-> one, previous |-> one, last |-> 1, degree |-> 0, shift |-> 1],
             0, nsym - 1, syndromes, nsym)

\* The degree has to be the number of errors, and no more than half the parity;
\* as many places have to be roots; and the corrected block has to be clean.
Inverted(p) == (255 - p) % 255
Roots(locator, length) ==
  {p \in 0 .. length - 1 : At(locator.lambda, locator.degree + 1, Inverted(p)) = 0}
Omega(syndromes, locator, nsym) ==
  Table([i \in 0 .. nsym - 1 |->
    SumTo([j \in 0 .. i |-> IF j <= locator.degree THEN GfMul(syndromes[i - j], locator.lambda[j])
                            ELSE 0], i + 1)])
Denominator(locator, p) ==
  At([i \in 0 .. locator.degree |->
        IF i < locator.degree /\ i % 2 = 0 THEN locator.lambda[i + 1] ELSE 0],
     locator.degree + 1, Inverted(p))

Forney(block, positions, omega, locator, nsym) ==
  LET length == Cardinality(DOMAIN block)
  IN  Table([i \in DOMAIN block |->
        IF length - 1 - i \notin positions THEN block[i]
        ELSE ByteXor(block[i], GfMul(GF_EXP[length - 1 - i],
               GfDiv(At(omega, nsym, Inverted(length - 1 - i)),
                     Denominator(locator, length - 1 - i))))])

IfClean(block, nsym) == IF IsClean(Syndromes(block, nsym)) THEN block ELSE Unreadable

Repaired(block, nsym, syndromes, locator, positions) ==
  IF /\ locator.lambda[locator.degree] # 0
     /\ \A i \in locator.degree + 1 .. nsym : locator.lambda[i] = 0
     /\ locator.degree > 0 /\ locator.degree * 2 <= nsym
     /\ Cardinality(positions) = locator.degree
     /\ \A p \in positions : Denominator(locator, p) # 0
  THEN IfClean(Forney(block, positions, Omega(syndromes, locator, nsym), locator, nsym), nsym)
  ELSE Unreadable

Located(block, nsym, syndromes, locator) ==
  Repaired(block, nsym, syndromes, locator, Roots(locator, Cardinality(DOMAIN block)))
Judged(block, nsym, syndromes) ==
  IF IsClean(syndromes) THEN block
  ELSE Located(block, nsym, syndromes, ErrorLocator(syndromes, nsym))
RsCorrect(block, nsym) == Judged(block, nsym, Syndromes(block, nsym))

---------------------------------------------------------------------------
(* From the grid to the codewords *)

\* The crossings the finders take.  Mutant: the two on the diagonal only.
CornerOnDiagonal(i, j, last) == i = j /\ i \in {1, last}
Corner(i, j, last) == <<i, j>> \in {<<1, 1>>, <<1, last>>, <<last, 1>>}

\* What the data has to step over.
FunctionMap(version) ==
  LET size == SizeOf(version)
      far  == size - 11
      at   == AlignmentPositions(version)
      last == Len(at)
  IN  {<<6, i>> : i \in 0 .. size - 1} \cup {<<i, 6>> : i \in 0 .. size - 1}
      \cup UNION {Around(f, 4, size) : f \in {<<3, 3>>, <<size - 4, 3>>, <<3, size - 4>>}}
      \cup UNION {IF Corner(i, j, last) THEN {} ELSE Around(<<at[j], at[i]>>, 2, size)
                    : i \in 1 .. last, j \in 1 .. last}
      \cup {<<i, 8>> : i \in (0 .. 8) \ {6}} \cup {<<8, i>> : i \in (0 .. 8) \ {6}}
      \cup {<<size - 1 - i, 8>> : i \in 0 .. 7} \cup {<<8, size - 1 - i>> : i \in 0 .. 7}
      \cup {<<8, size - 8>>}
      \cup IF version < 7 THEN {}
           ELSE {<<far + (i % 3), i \div 3>> : i \in 0 .. 17} \cup {<<i \div 3, far + (i % 3)>> : i \in 0 .. 17}

\* The two copies of the format, bit by bit.
CopyA == [i \in 0 .. 14 |-> IF i < 6 THEN <<8, i>> ELSE IF i = 6 THEN <<8, 7>>
                            ELSE IF i = 7 THEN <<8, 8>> ELSE IF i = 8 THEN <<7, 8>> ELSE <<14 - i, 8>>]
\* Mutant: the second half of the second copy one cell too far.
CopyBShifted(size) == [i \in 0 .. 14 |-> IF i < 8 THEN <<size - 1 - i, 8>> ELSE <<8, size - 16 + i>>]
CopyB(size) == [i \in 0 .. 14 |-> IF i < 8 THEN <<size - 1 - i, 8>> ELSE <<8, size - 15 + i>>]

\* The 32 formats as they are drawn, mask and all.
FORMAT_CODES == [d \in 0 .. 31 |-> BitXor(d * 2^10 + Bch(d, FormatGenerator, 10), FormatMask, 15)]

\* The nearest format, the first of several.
NearestFormat(modules, copy) ==
  LET distance == Table([d \in 0 .. 31 |->
        Cardinality({i \in 0 .. 14 : modules[copy[i]] # (FORMAT_CODES[d] \div 2^i) % 2})])
      best == CHOOSE d \in 0 .. 31 : \A e \in 0 .. 31 : 32 * distance[d] + d <= 32 * distance[e] + e
  IN  [format |-> best, distance |-> distance[best]]

\* Up to three flips are believed; the copy with fewer comes first, and the
\* other is kept when it says something else.
FormatCandidates(modules, size) ==
  LET a == NearestFormat(modules, CopyA)
      b == NearestFormat(modules, CopyB(size))
      sorted == IF b.distance < a.distance THEN <<b, a>> ELSE <<a, b>>
      read   == SelectSeq(sorted, LAMBDA r : r.distance <= 3)
  IN  IF Len(read) = 2 /\ a.format = b.format THEN <<Head(read)>> ELSE read

LevelOf(format) == (CHOOSE l \in DOMAIN ECL : ECL[l].bits = format \div 8)

ReadCodewords(modules, version, mask) ==
  LET skip == FunctionMap(version)
      path == SelectSeq(ZigZag(SizeOf(version)), LAMBDA c : c \notin skip)
      bit(n) == IF n > Len(path) THEN 0
                ELSE IF Mask(mask, path[n][1], path[n][2]) THEN 1 - modules[path[n]]
                ELSE modules[path[n]]
  IN  ToBytes([n \in 1 .. 8 * CodewordsOf(version) |-> bit(n)])

Joined(corrected, form) ==
  IF \E b \in DOMAIN corrected : corrected[b] = Unreadable THEN Unreadable
  ELSE FlattenSeq([b \in DOMAIN corrected |->
         [i \in 1 .. form.data + (IF b <= form.short THEN 0 ELSE 1) |-> corrected[b][i - 1]]])

DeinterleaveAndCorrect(stream, version, level) ==
  LET form    == BlocksOf(version, level)
      long(b) == IF b <= form.short THEN 0 ELSE 1
      parity  == form.data * form.blocks + form.blocks - form.short
      block(b) == Table([i \in 0 .. form.data + long(b) + form.parity - 1 |->
                    IF i < form.data THEN stream[i * form.blocks + b]
                    ELSE IF i < form.data + long(b) THEN stream[form.data * form.blocks + b - form.short]
                    ELSE stream[parity + (i - form.data - long(b)) * form.blocks + b]])
  IN  Joined([b \in 1 .. form.blocks |-> RsCorrect(block(b), form.parity)], form)

---------------------------------------------------------------------------
(* Segments *)

\* BitReader.read: the n bits after the place `at`.
RECURSIVE NumberAt(_, _, _)
NumberAt(bits, at, n) ==
  IF n = 0 THEN 0 ELSE 2 * NumberAt(bits, at, n - 1) + bits[at + n]

\* Numeric, alphanumeric and byte segments: characters come in groups, written
\* in a base, with fewer bits for the group that is left over at the end.
Segment == 1 :> [base |-> 10,  bits |-> <<4, 7, 10>>, count |-> <<10, 12, 14>>]
        @@ 2 :> [base |-> 45,  bits |-> <<6, 11>>,    count |-> <<9, 11, 13>>]
        @@ 4 :> [base |-> 256, bits |-> <<8>>,        count |-> <<8, 16, 16>>]

Band(version) == IF version <= 9 THEN 1 ELSE IF version <= 26 THEN 2 ELSE 3

ALNUM == [i \in 0 .. 44 |-> IF i < 10 THEN 48 + i ELSE IF i < 36 THEN 55 + i
                            ELSE <<32, 36, 37, 42, 43, 45, 46, 47, 58>>[i - 35]]
Character(base, digit) ==
  IF base = 10 THEN 48 + digit ELSE IF base = 45 THEN ALNUM[digit] ELSE digit

\* The groups of `count` characters: where each starts, and how many it has.
Groups(segment, count, at) ==
  LET full == Len(segment.bits)
  IN  Table([g \in 1 .. (count + full - 1) \div full |->
         [at |-> at + (g - 1) * segment.bits[full],
          size |-> IF g * full <= count THEN full ELSE count % full]])

\* bytesToText: strict UTF-8 (three bytes at most here), else a byte a letter.
BytesToText(bytes) ==
  LET leads   == SelectSeq([i \in 1 .. Len(bytes) |-> i], LAMBDA i : bytes[i] \notin 128 .. 191)
      end(l)  == IF l = Len(leads) THEN Len(bytes) ELSE leads[l + 1] - 1
      lead(l) == bytes[leads[l]]
      low(l, i) == bytes[leads[l] + i] - 128
      size(l) == IF lead(l) < 128 THEN 1 ELSE IF lead(l) < 224 THEN 2 ELSE 3
      letter(l) == IF size(l) = 1 THEN lead(l)
                   ELSE IF size(l) = 2 THEN 64 * (lead(l) - 192) + low(l, 1)
                   ELSE 4096 * (lead(l) - 224) + 64 * low(l, 1) + low(l, 2)
      strict  == /\ leads # << >> /\ leads[1] = 1
                 /\ \A l \in DOMAIN leads :
                      /\ lead(l) \in (0 .. 127) \cup (194 .. 239)
                      /\ end(l) - leads[l] + 1 = size(l)
                      /\ size(l) = 3 => letter(l) >= 2048 /\ letter(l) \notin 55296 .. 57343
  IN  IF strict THEN [l \in DOMAIN leads |-> letter(l)] ELSE bytes

\* From the place `at`; the bytes of one or more byte segments wait in pending,
\* so that a letter may lie across two.
RECURSIVE ParseFrom(_, _, _, _, _)
ParseFrom(bits, version, at, text, pending) ==
  LET left == Len(bits) - at
      mode == NumberAt(bits, at, 4)
  IN
  IF left < 4 \/ mode = 0 THEN text \o BytesToText(pending)
  ELSE IF mode = 7
  THEN LET first == NumberAt(bits, at + 4, 8)
           eci   == IF first < 128 THEN 8 ELSE IF first < 192 THEN 16 ELSE 24
       IN  IF left < 12 \/ first >= 224 \/ left < 4 + eci THEN Unreadable
           ELSE ParseFrom(bits, version, at + 4 + eci, text, pending)
  ELSE IF mode \notin DOMAIN Segment \/ left < 4 + Segment[mode].count[Band(version)]
  THEN Unreadable
  ELSE LET segment == Segment[mode]
           base    == segment.base
           body    == at + 4 + segment.count[Band(version)]
           count   == NumberAt(bits, at + 4, body - at - 4)
           group   == Groups(segment, count, body)
           value(g) == NumberAt(bits, group[g].at, segment.bits[group[g].size])
           end     == IF group = << >> THEN body
                      ELSE group[Len(group)].at + segment.bits[group[Len(group)].size]
           full    == Len(segment.bits)
           letters == Table([i \in 1 .. count |->
                        LET g == (i - 1) \div full + 1
                        IN  Character(base, (value(g) \div base^(group[g].size - 1 - ((i - 1) % full))) % base)])
       IN  IF end > Len(bits) \/ \E g \in DOMAIN group : value(g) >= base^group[g].size
           THEN Unreadable
           ELSE IF mode = 4 THEN ParseFrom(bits, version, end, text, pending \o letters)
           ELSE ParseFrom(bits, version, end, text \o BytesToText(pending) \o letters, << >>)

ParseSegments(data, version) ==
  ParseFrom([n \in 1 .. 8 * Len(data) |-> (data[(n + 7) \div 8] \div 2^(7 - ((n - 1) % 8))) % 2],
            version, 0, << >>, << >>)

---------------------------------------------------------------------------
(* The whole *)

RotateMatrix(modules, size) == [c \in Cells(size) |-> modules[<<c[2], size - 1 - c[1]>>]]

\* The first attempt that gave a text.
FirstOf(texts) == IF texts = << >> THEN Unreadable ELSE Head(texts)
FirstText(attempts) == FirstOf(SelectSeq(attempts, LAMBDA text : text # Unreadable))

ParseIfSound(data, version) == IF data = Unreadable THEN Unreadable ELSE ParseSegments(data, version)
ReadAs(modules, version, format) ==
  ParseIfSound(DeinterleaveAndCorrect(ReadCodewords(modules, version, format % 8),
                                      version, ECL[LevelOf(format)].index), version)

\* One format after the other, until one can be read.
ReadWithAny(modules, version, candidates) ==
  FirstText([n \in DOMAIN candidates |-> ReadAs(modules, version, candidates[n].format)])
ReadSymbol(modules, size) ==
  IF size < 21 \/ size > 177 \/ size % 4 # 1 THEN Unreadable
  ELSE ReadWithAny(modules, (size - 17) \div 4, FormatCandidates(modules, size))

\* As sampled, then the three rotations.
Turned(modules, size, turns) ==
  IF turns = 0 THEN modules
  ELSE IF turns = 1 THEN RotateMatrix(modules, size)
  ELSE IF turns = 2 THEN [c \in Cells(size) |-> modules[<<size - 1 - c[1], size - 1 - c[2]>>]]
  ELSE [c \in Cells(size) |-> modules[<<size - 1 - c[2], c[1]>>]]
DecodeMatrix(modules, size) ==
  FirstText([n \in 1 .. 4 |-> ReadSymbol(Turned(modules, size, n - 1), size)])
=============================================================================
