-------------------------------- MODULE Sealing --------------------------------
(***************************************************************************)
(* The outer seal of an envelope: XChaCha20-Poly1305 of js/chacha.js, from *)
(* a plaintext to the sealed bytes, through the hands of whoever carries   *)
(* them, to the plaintext or null.  The authenticator runs as the machine  *)
(* of Poly1305, once to seal and once to open.                             *)
(***************************************************************************)
EXTENDS Integers, Poly1305, ChaCha

CONSTANTS Tasks   \* what is sealed, or only authenticated, and how it is meddled with

VARIABLES
  task,      \* what is done, constant
  stage,     \* "start", "sealing", "sealed", "opening", "judged"
  split,     \* the key and the nonce of the cipher
  oneTime,   \* history: the key the authenticator works with
  envelope,  \* the sealed bytes and the data sealed along with them
  meddled,   \* history: how it was
  opened     \* what was made of it
sealVars == <<macVars, task, stage, split, oneTime, envelope, meddled, opened>>

Null == <<-1>>
Unsplit == [key |-> << >>, nonce |-> << >>]

SealInit ==
  /\ MacInit
  /\ task \in Tasks /\ stage = "start" /\ split = Unsplit /\ oneTime = << >>
  /\ envelope = [bytes |-> << >>, aad |-> << >>] /\ meddled = "no" /\ opened = Null

\* xSplit: of a long nonce, all but the last eight bytes go into the key.
XSplit(key, nonce) ==
  IF Len(nonce) = 12 THEN [key |-> key, nonce |-> nonce]
  ELSE [key |-> HChaCha20(key, SubSeq(nonce, 1, 16)) @@ << >>,
        nonce |-> <<0, 0, 0, 0>> \o SubSeq(nonce, 17, 24)]

\* Both to seal and to open, what comes of it is the same.
Split24 ==
  /\ task.kind = "seal" /\ stage = "start" /\ split = Unsplit
  /\ split' = XSplit(task.key, task.nonce)
  /\ UNCHANGED <<macVars, task, stage, oneTime, envelope, meddled, opened>>

PolyKey == SubSeq(ChaCha20Block(split.key, 0, split.nonce), 1, 32)
Cipher(data) == ChaCha20(split.key, split.nonce, data, 1)

Zeros(n) == [k \in 1 .. n |-> 0]
Pad16(data) == data \o Zeros((16 - (Len(data) % 16)) % 16)
Length(data) == <<Len(data) % 256, Len(data) \div 256>> \o Zeros(6)

\* Mutant: the lengths are left out.
MacDataWithoutLengths(aad, ciphertext) == Pad16(aad) \o Pad16(ciphertext)

MacData(aad, ciphertext) == Pad16(aad) \o Pad16(ciphertext) \o Length(aad) \o Length(ciphertext)

\* poly1305 alone.
StartTag ==
  /\ task.kind = "tag" /\ stage = "start" /\ stage' = "sealing"
  /\ Begin(task.key, task.text) /\ oneTime' = task.key
  /\ UNCHANGED <<task, split, envelope, meddled, opened>>

StartSealing ==
  /\ task.kind = "seal" /\ stage = "start" /\ split # Unsplit /\ stage' = "sealing"
  /\ envelope' = [bytes |-> Cipher(task.text), aad |-> task.aad]
  /\ oneTime' = PolyKey
  /\ Begin(oneTime', MacData(task.aad, envelope'.bytes))
  /\ UNCHANGED <<task, split, meddled, opened>>

FinishSealing ==
  /\ stage = "sealing" /\ phase = "done" /\ stage' = "sealed"
  /\ envelope' = [envelope EXCEPT !.bytes = @ \o tag]
  /\ UNCHANGED <<macVars, task, split, oneTime, meddled, opened>>

\* A bit is turned, bytes are cut off or moved, the other data are longer.
Meddle(how) ==
  LET bytes == envelope.bytes
      Flipped(k) == [bytes EXCEPT ![k] = HalfXor(@, 128)]
      Changed ==
        CASE how = "first byte" -> [envelope EXCEPT !.bytes = Flipped(1)]
          [] how = "last byte"  -> [envelope EXCEPT !.bytes = Flipped(Len(bytes))]
          [] how = "cut"        -> [envelope EXCEPT !.bytes = Tail(@)]
          [] how = "short"      -> [envelope EXCEPT !.bytes = SubSeq(@, 1, 15)]
          [] how = "header"     -> [envelope EXCEPT !.aad = Append(@, 0)]
          [] how = "padding"    -> [envelope EXCEPT !.bytes =
                                      SubSeq(@, 1, Len(task.text)) \o <<0>>
                                        \o SubSeq(@, Len(task.text) + 1, Len(@))]
  IN  /\ task.kind = "seal" /\ stage = "sealed" /\ meddled = "no" /\ meddled' = how
      /\ envelope' = Changed
      /\ UNCHANGED <<macVars, task, stage, split, oneTime, opened>>

Body == SubSeq(envelope.bytes, 1, Len(envelope.bytes) - 16)
Tag == SubSeq(envelope.bytes, Len(envelope.bytes) - 15, Len(envelope.bytes))

StartOpening ==
  /\ task.kind = "seal" /\ stage = "sealed"
  /\ \/ /\ Len(envelope.bytes) < 16
        /\ stage' = "judged" /\ opened' = Null
        /\ UNCHANGED <<macVars, oneTime>>
     \/ /\ Len(envelope.bytes) >= 16
        /\ stage' = "opening"
        /\ oneTime' = PolyKey
        /\ Begin(oneTime', MacData(envelope.aad, Body))
        /\ UNCHANGED opened
  /\ UNCHANGED <<task, split, envelope, meddled>>

\* Mutant: the tags are compared up to their last byte.
TagHoldsNearly == SubSeq(Tag, 1, 15) = SubSeq(tag, 1, 15)

TagHolds == Tag = tag

FinishOpening ==
  /\ stage = "opening" /\ phase = "done" /\ stage' = "judged"
  /\ opened' = IF TagHolds THEN Cipher(Body) ELSE Null
  /\ UNCHANGED <<macVars, task, split, oneTime, envelope, meddled>>

SealNext ==
  \/ StartTag \/ Split24 \/ StartSealing \/ FinishSealing \/ StartOpening \/ FinishOpening
  \/ \E how \in task.meddling : Meddle(how)
  \/ MacStep /\ UNCHANGED <<task, stage, split, oneTime, envelope, meddled, opened>>

SealSpec == SealInit /\ [][SealNext]_sealVars

-----------------------------------------------------------------------------
(* The authenticator by its definition: numbers to the base 256, lowest digit *)
(* first, of a length that is enough; times r, modulo 2^130 - 5.             *)

RECURSIVE Carried(_, _, _)
Carried(digits, k, over) ==
  IF k = Len(digits) THEN digits
  ELSE LET sum == digits[k + 1] + over
       IN  Carried([digits EXCEPT ![k + 1] = sum % 256], k + 1, sum \div 256)
Normal(digits) == Carried(digits, 0, 0)

Digit(a, k) == IF k \in DOMAIN a THEN a[k] ELSE 0
RECURSIVE ColumnSum(_, _, _, _)
ColumnSum(a, b, k, n) == IF n = 0 THEN 0 ELSE a[n] * Digit(b, k + 1 - n) + ColumnSum(a, b, k, n - 1)
Times(a, b) == Normal([k \in 1 .. Len(a) + Len(b) |-> ColumnSum(a, b, k, Len(a))])
Plus17(a, b) == Normal([k \in 1 .. 18 |-> Digit(a, k) + Digit(b, k)])

\* What lies above the 130th bit comes in below, five times.
Folded5(a) ==
  LET Above(k) == (Digit(a, 16 + k) \div 4) + 64 * (Digit(a, 17 + k) % 4)
  IN  Normal([k \in 1 .. 18 |-> (CASE k < 17 -> Digit(a, k) [] k = 17 -> a[17] % 4 [] OTHER -> 0)
                                   + 5 * Above(k)])
Residue(a) ==
  LET small == Folded5(Folded5(Folded5(a)))
      over == Plus17(small, <<5>>)
  IN  IF over[17] >= 4 THEN [over EXCEPT ![17] = @ - 4] ELSE small

ClampedKey(key) ==
  [k \in 1 .. 16 |-> IF k \in {4, 8, 12, 16} THEN key[k] % 16
                     ELSE IF k \in {5, 9, 13} THEN key[k] - (key[k] % 4) ELSE key[k]]
Blocked16(message) ==
  [b \in 1 .. (Len(message) + 15) \div 16 |->
     Append(SubSeq(message, 16 * b - 15, IF 16 * b < Len(message) THEN 16 * b ELSE Len(message)), 1)]

RECURSIVE Evaluated(_, _, _, _)
Evaluated(blocks, factor, n, sum) ==
  IF n = Len(blocks) THEN sum
  ELSE Evaluated(blocks, factor, n + 1,
         CHOOSE next \in {Residue(Times(Plus17(sum, blocks[n + 1]), factor))} : TRUE)
TagByDefinition(key, message) ==
  SubSeq(Plus17(Evaluated(Blocked16(message), ClampedKey(key), 0, Zeros(18)),
                SubSeq(key, 17, 32)), 1, 16)

-----------------------------------------------------------------------------
(* Properties *)

\* "larger limbs ... would produce tags that verify inconsistently" (chacha.js):
\* ten limbs, carries out of order and a last subtraction give the tag of the
\* definition, for every message length and at the edges of the field; and the
\* published vectors come out.
TagsAreRight ==
  /\ phase = "done" => tag = TagByDefinition(oneTime, input)
  /\ task.expected # << >> =>
       /\ task.kind = "tag" /\ phase = "done" => tag = task.expected
       /\ task.kind = "seal" /\ stage = "sealed" /\ meddled = "no" =>
            LET bytes == envelope.bytes
            IN  SubSeq(bytes, 1, 4) \o SubSeq(bytes, 65, 68) \o SubSeq(bytes, Len(bytes) - 15, Len(bytes))
                  = task.expected

\* "the plaintext, or null if the tag does not verify" (aeadDecrypt): what comes
\* as it was sealed opens to what was sealed, of any length and across blocks;
\* what was cut, longer, turned in a bit or put under another header does not.
OpensOnlyAsSealed ==
  stage = "judged" => opened = IF meddled = "no" THEN task.text ELSE Null

\* Together: the tags are the standard's, and only what bears its tag is opened.
SealedBytesHold == TagsAreRight /\ OpensOnlyAsSealed
=============================================================================
