-------------------------------- MODULE ChaCha --------------------------------
(***************************************************************************)
(* ChaCha20 and HChaCha20 as js/chacha.js computes them.  A word of 32     *)
(* bits is a pair of halves, the upper one first; bytes are sequences.     *)
(***************************************************************************)
EXTENDS Naturals, Sequences, TLC
LOCAL INSTANCE SequencesExt
LOCAL INSTANCE Bitwise

\* The exclusive or of two halves, by nibbles.
Nibble == 0 .. 15
NibbleXor == [x \in Nibble, y \in Nibble |-> x ^^ y]
HalfXor(a, b) ==
  NibbleXor[a % 16, b % 16] + 16 * NibbleXor[(a \div 16) % 16, (b \div 16) % 16]
    + 256 * NibbleXor[(a \div 256) % 16, (b \div 256) % 16]
    + 4096 * NibbleXor[a \div 4096, b \div 4096]

WordXor(v, w) == <<HalfXor(v[1], w[1]), HalfXor(v[2], w[2])>>
Add(v, w) ==
  LET low == v[2] + w[2]
  IN  <<(v[1] + w[1] + low \div 65536) % 65536, low % 65536>>

\* Rotation by n < 16, and by half a word.
Rotl(v, n) ==
  LET up == 2 ^ n  down == 2 ^ (16 - n)
  IN  <<((v[1] * up) % 65536) + v[2] \div down, ((v[2] * up) % 65536) + v[1] \div down>>
Swapped(v) == <<v[2], v[1]>>

Le32(bytes, offset) ==
  <<bytes[offset + 3] + 256 * bytes[offset + 4], bytes[offset + 1] + 256 * bytes[offset + 2]>>
WordBytes(word) == <<word[2] % 256, word[2] \div 256, word[1] % 256, word[1] \div 256>>

\* "expand 32-byte k"
SIGMA == <<<<24944, 30821>>, <<13088, 25710>>, <<31074, 11570>>, <<27424, 25972>>>>

\* TLC evaluates an argument again wherever it is used, so values are bound.
Bound(Op(_), value) == CHOOSE result \in {Op(v) : v \in {value}} : TRUE

\* A half of a line of qr, on four words: one is added to another, the sum goes into a
\* third, and that is rotated.
Lines == <<[to |-> 1, add |-> 2, into |-> 4, by |-> 16], [to |-> 3, add |-> 4, into |-> 2, by |-> 12],
           [to |-> 1, add |-> 2, into |-> 4, by |-> 8], [to |-> 3, add |-> 4, into |-> 2, by |-> 7]>>
HalfRound(q, line) ==
  LET Added(p) == [p EXCEPT ![line.to] = Add(@, p[line.add])]
      Xored(p) == [p EXCEPT ![line.into] = WordXor(@, p[line.to])]
      Rotated(p) == [p EXCEPT ![line.into] = IF line.by = 16 THEN Swapped(@) ELSE Rotl(@, line.by)]
  IN  Bound(Rotated, Bound(Xored, Bound(Added, q)))
QuarterRound(q) == FoldLeft(HalfRound, q, Lines)

\* qr on four words of the sixteen, in four columns or diagonals at once.
Rounds(x, lanes) ==
  LET Turn(l) == QuarterRound(<<x[l[1]], x[l[2]], x[l[3]], x[l[4]]>>)
      turned == [l \in 1 .. 4 |-> Bound(Turn, lanes[l])] @@ << >>
  IN  [k \in 0 .. 15 |->
         LET l == CHOOSE l \in 1 .. 4 : \E n \in 1 .. 4 : lanes[l][n] = k
         IN  turned[l][CHOOSE n \in 1 .. 4 : lanes[l][n] = k]] @@ << >>
Columns == <<<<0, 4, 8, 12>>, <<1, 5, 9, 13>>, <<2, 6, 10, 14>>, <<3, 7, 11, 15>>>>
Diagonals == <<<<0, 5, 10, 15>>, <<1, 6, 11, 12>>, <<2, 7, 8, 13>>, <<3, 4, 9, 14>>>>

RECURSIVE Stirred(_, _)
Stirred(x, rounds) ==
  LET Columned(y) == Rounds(y, Columns)
      Diagonalled(y) == Rounds(y, Diagonals)
  IN  IF rounds = 0 THEN x
      ELSE Stirred(Bound(Diagonalled, Bound(Columned, x)), rounds - 2)

\* The sixteen words: the constant, the key, and four more.
Matrix(key, rest) ==
  [k \in 0 .. 15 |-> CASE k < 4 -> SIGMA[k + 1]
                       [] k \in 4 .. 11 -> Le32(key, 4 * (k - 4))
                       [] OTHER -> rest[k - 11]]

Spread(words) == [b \in 1 .. 4 * Len(words) |-> WordBytes(words[(b - 1) \div 4 + 1])[((b - 1) % 4) + 1]]

\* chacha20Block: what was stirred, plus what it was stirred from.
ChaCha20Block(key, counter, nonce) ==
  LET from == Matrix(key, <<<<counter \div 65536, counter % 65536>>, Le32(nonce, 0),
                            Le32(nonce, 4), Le32(nonce, 8)>>) @@ << >>
      x == Stirred(from, 20)
  IN  Spread([k \in 1 .. 16 |-> Add(x[k - 1], from[k - 1])])

\* Mutant: every block is the first.
ChaCha20SameBlock(key, nonce, data, counter) ==
  LET block == ChaCha20Block(key, counter, nonce)
  IN  [b \in DOMAIN data |-> HalfXor(data[b], block[((b - 1) % 64) + 1])]

\* chacha20: both ways the same.
ChaCha20(key, nonce, data, counter) ==
  LET blocks == [n \in 0 .. (Len(data) + 63) \div 64 - 1 |->
                   ChaCha20Block(key, counter + n, nonce)] @@ << >>
  IN  [b \in DOMAIN data |-> HalfXor(data[b], blocks[(b - 1) \div 64][((b - 1) % 64) + 1])]

HChaCha20(key, nonce16) ==
  LET x == Stirred(Matrix(key, [k \in 1 .. 4 |-> Le32(nonce16, 4 * (k - 1))]) @@ << >>, 20)
  IN  Spread(<<x[0], x[1], x[2], x[3], x[12], x[13], x[14], x[15]>>)
=============================================================================
