------------------------------- MODULE Poly1305 -------------------------------
(***************************************************************************)
(* The one-time authenticator of js/chacha.js: class Poly1305, a number of *)
(* 130 bits held in ten limbs of 13, in arrays of 16 and 32 bits.          *)
(*                                                                         *)
(* Every loop that carries something from one turn to the next is a step   *)
(* of the machine: blocks, the products of a block, the carries of the     *)
(* digest.  A sum of d, 32 bits wide, is a pair of its upper 19 and lower  *)
(* 13 bits.                                                                *)
(***************************************************************************)
EXTENDS Naturals, Sequences

CONSTANTS Keys, Texts   \* the keys and the messages to consider

Byte == 0 .. 255
ASSUME InputsAssumption == Keys \subseteq [1 .. 32 -> Byte] /\ Texts \subseteq Seq(Byte)

VARIABLES
  phase,     \* "idle", "next" (block), "rows", "ripple", "reduce", "done"
  r, pad,    \* the two halves of the key: ten limbs, eight halfwords
  input, pos, \* the message, and how much of it is absorbed
  h,         \* the accumulator
  prod,      \* the product that replaces it
  acc,       \* the element of prod being summed up
  carry,     \* the carry
  row, col,  \* the loops' counters i and j
  tag        \* the result
macVars == <<phase, r, pad, input, pos, h, prod, acc, carry, row, col, tag>>

Limbs == 0 .. 9
HalfLimbs == 0 .. 7
Radix == 8192      \* 13 bits
Upper == 524288    \* 19 bits
Half == 65536      \* 16 bits

\* The power of two k, at k + 1.
Power == <<1, 2, 4, 8, 16, 32, 64, 128, 256, 512, 1024, 2048, 4096, 8192, 16384,
           32768, 65536>>

Halfwords(bytes, at) == [k \in HalfLimbs |-> bytes[at + 2 * k + 1] + 256 * bytes[at + 2 * k + 2]]

\* The 13 bits of limb l, out of the halfwords they lie in.
Limb(t, l) ==
  LET k == (13 * l) \div 16  shift == (13 * l) % 16
      above == IF k < 7 THEN (t[k + 1] % Radix) * Power[17 - shift] ELSE 0
  IN  (t[k] \div Power[shift + 1] + above) % Radix

\* The bits the standard clears in the first half of the key.
Masked(l, x) ==
  CASE l = 2 -> 256 * (x \div 256) + (x % 4)
    [] l = 4 -> x % 256
    [] l = 5 -> x - (x % 2)
    [] l = 7 -> 128 * (x \div 128) + (x % 2)
    [] l = 9 -> x % 128
    [] OTHER -> x

Zero == [l \in Limbs |-> 0]

MacInit ==
  /\ phase = "idle" /\ r = Zero /\ pad = [k \in HalfLimbs |-> 0]
  /\ input = << >> /\ pos = 0
  /\ h = Zero /\ prod = Zero /\ acc = [hi |-> 0, lo |-> 0] /\ carry = 0
  /\ row = 0 /\ col = 0 /\ tag = << >>

-----------------------------------------------------------------------------

\* The constructor.
Begin(key, message) ==
  /\ phase \in {"idle", "done"} /\ phase' = "next"
  /\ r' = [l \in Limbs |-> Masked(l, Limb(Halfwords(key, 0), l))]
  /\ pad' = Halfwords(key, 16)
  /\ input' = message /\ pos' = 0
  /\ h' = Zero /\ tag' = << >>
  /\ UNCHANGED <<prod, acc, carry, row, col>>

\* A block is added; hibit is the bit above it.
Absorb(t, hibit) ==
  /\ h' = [l \in Limbs |-> (h[l] + Limb(t, l) + (IF l = 9 THEN hibit ELSE 0)) % Half]
  /\ phase' = "rows" /\ row' = 0 /\ col' = 0 /\ carry' = 0 /\ acc' = [hi |-> 0, lo |-> 0]
  /\ UNCHANGED <<r, pad, input, prod, tag>>

NextBlock ==
  /\ phase = "next" /\ Len(input) - pos >= 16
  /\ Absorb(Halfwords(input, pos), 2048)
  /\ pos' = pos + 16

\* What is left is padded with a one and zeros, and has no bit above it.
Buffer == [k \in 1 .. 16 |-> CASE pos + k <= Len(input) -> input[pos + k]
                               [] pos + k = Len(input) + 1 -> 1
                               [] OTHER -> 0]
\* Mutant: it has one all the same.
LastBlockWithHibit ==
  /\ phase = "next" /\ Len(input) - pos \in 1 .. 15
  /\ Absorb(Halfwords(Buffer, 0), 2048)
  /\ pos' = Len(input)

LastBlock ==
  /\ phase = "next" /\ Len(input) - pos \in 1 .. 15
  /\ Absorb(Halfwords(Buffer, 0), 0)
  /\ pos' = Len(input)

\* Limbs past our own index wrap, five times.
Factor == IF col <= row THEN r[row - col] ELSE 5 * r[row + 10 - col]
LimbProduct == h[col] * Factor

\* prod[row] += a product: 32 bits are kept.
UpperSum(sum, product) ==
  sum.hi + product \div Radix + (sum.lo + (product % Radix)) \div Radix
Plus(sum, product) ==
  [hi |-> UpperSum(sum, product) % Upper, lo |-> (sum.lo + (product % Radix)) % Radix]
Split(n) == [hi |-> n \div Radix, lo |-> n % Radix]

\* Mutant: no carry is taken out half way.
MultiplyWithoutFold ==
  /\ phase = "rows" /\ row < 10
  /\ LET sum == Plus(acc, LimbProduct)
     IN  IF col < 9
         THEN acc' = sum /\ col' = col + 1 /\ UNCHANGED <<carry, prod, row>>
         ELSE /\ carry' = sum.hi /\ prod' = [prod EXCEPT ![row] = sum.lo]
              /\ acc' = Split(carry') /\ row' = row + 1 /\ col' = 0
  /\ UNCHANGED <<phase, r, pad, input, pos, h, tag>>

\* The two inner loops, one product a step: half way and at the end the carry is
\* taken out.
Multiply ==
  /\ phase = "rows" /\ row < 10
  /\ LET sum == Plus(acc, LimbProduct)
     IN  \/ /\ col \notin {4, 9}
            /\ acc' = sum /\ col' = col + 1
            /\ UNCHANGED <<carry, prod, row>>
         \/ /\ col = 4
            /\ carry' = sum.hi /\ acc' = [sum EXCEPT !.hi = 0] /\ col' = col + 1
            /\ UNCHANGED <<prod, row>>
         \/ /\ col = 9
            /\ carry' = carry + sum.hi /\ prod' = [prod EXCEPT ![row] = sum.lo]
            /\ acc' = Split(carry') /\ row' = row + 1 /\ col' = 0
  /\ UNCHANGED <<phase, r, pad, input, pos, h, tag>>

\* The last carry comes in below, five times.
EndBlock ==
  /\ phase = "rows" /\ row = 10
  /\ LET low == 5 * carry + prod[0]
     IN  h' = [l \in Limbs |-> CASE l = 0 -> low % Radix
                                 [] l = 1 -> (prod[1] + low \div Radix) % Half
                                 [] OTHER -> prod[l]]
  /\ phase' = "next"
  /\ UNCHANGED <<r, pad, input, pos, prod, acc, carry, row, col, tag>>

-----------------------------------------------------------------------------
(* The digest *)

StartDigest ==
  /\ phase = "next" /\ pos = Len(input)
  /\ phase' = "ripple" /\ row' = 2
  /\ carry' = h[1] \div Radix /\ h' = [h EXCEPT ![1] = @ % Radix]
  /\ UNCHANGED <<r, pad, input, pos, prod, acc, col, tag>>

Ripple ==
  /\ phase = "ripple" /\ row < 10
  /\ carry' = (h[row] + carry) \div Radix /\ h' = [h EXCEPT ![row] = (@ + carry) % Radix]
  /\ row' = row + 1
  /\ UNCHANGED <<phase, r, pad, input, pos, prod, acc, col, tag>>

\* h[2] is not masked again.
EndRipple ==
  /\ phase = "ripple" /\ row = 10
  /\ LET zero == h[0] + 5 * carry
         one == h[1] + zero \div Radix
     IN  h' = [h EXCEPT ![0] = zero % Radix, ![1] = one % Radix, ![2] = @ + one \div Radix]
  /\ phase' = "reduce"
  /\ UNCHANGED <<r, pad, input, pos, prod, acc, carry, row, col, tag>>

\* h plus five, limb by limb, with the carry each passes on.
PlusFive[l \in Limbs] ==
  LET sum == h[l] + (IF l = 0 THEN 5 ELSE PlusFive[l - 1].carry)
  IN  [limb |-> sum % Radix, carry |-> sum \div Radix]

\* Mutant: the number is taken as it is.
FullyReducedNever == h

\* h, or what is left of it beyond the prime.  The top limb keeps the bits its
\* subtraction borrows; they fall off below.
FullyReduced ==
  IF PlusFive[9].carry = 1
  THEN [l \in Limbs |-> IF l = 9 THEN (PlusFive[9].limb + Half - Radix) % Half
                        ELSE PlusFive[l].limb]
  ELSE h

\* Sixteen bits out of the limbs they lie in.
Halfword(limbs, k) ==
  LET l == (16 * k) \div 13  shift == (16 * k) % 13
      third == IF l < 8 /\ shift > 10 THEN limbs[l + 2] * Power[27 - shift] ELSE 0
  IN  (limbs[l] \div Power[shift + 1] + limbs[l + 1] * Power[14 - shift] + third) % Half

Padded[k \in HalfLimbs] ==
  Halfword(FullyReduced, k) + pad[k] + (IF k = 0 THEN 0 ELSE Padded[k - 1] \div Half)

Digest ==
  /\ phase = "reduce" /\ phase' = "done"
  /\ tag' = [k \in 1 .. 16 |->
               LET f == Padded[(k - 1) \div 2]
               IN  IF k % 2 = 1 THEN f % 256 ELSE (f \div 256) % 256]
  /\ UNCHANGED <<r, pad, input, pos, h, prod, acc, carry, row, col>>

MacStep ==
  NextBlock \/ LastBlock \/ Multiply \/ EndBlock \/ StartDigest \/ Ripple \/ EndRipple \/ Digest

MacNext == MacStep \/ \E key \in Keys, message \in Texts : Begin(key, message)
MacSpec == MacInit /\ [][MacNext]_macVars

-----------------------------------------------------------------------------
(* Properties *)

\* "Fold partway through to keep every product inside 2^53" (blocks): prod is an
\* array of 32 bits, and no sum outgrows it; no limb outgrows its sixteen; and
\* where limbs are joined bit by bit none has a bit the next one has too, though
\* the last carry into h[2] is not masked.
WidthsFit ==
  /\ phase = "rows" /\ row < 10 => UpperSum(acc, LimbProduct) < Upper
  /\ phase = "next" => \A l \in Limbs : h[l] + Radix + 2048 <= Half
  /\ phase = "reduce" => \A l \in Limbs : h[l] < Radix
=============================================================================
