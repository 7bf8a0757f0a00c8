-------------------------------- MODULE QrScan --------------------------------
(***************************************************************************)
(* A code handed over as a picture: printed by js/qr.js (or by another     *)
(* program, which may use the other kinds of segment), marred, turned, and *)
(* read by js/qr-decode.js.                                                *)
(*                                                                         *)
(* The two files share nothing: the decoder has to agree with the encoder  *)
(* module for module, and to undo what the picture went through as far as  *)
(* the parity allows.  Two further jobs look at a part alone, where a      *)
(* whole symbol would leave too much untried: the layout of each version,  *)
(* and one block of codewords with every pattern of errors.                *)
(***************************************************************************)
EXTENDS QrEncode
D == INSTANCE QrDecode

CONSTANTS
  Letters,     \* what is printed: see Draw
  Blocks,      \* blocks whose correction is tried: see Smear
  Versions,    \* the versions whose layout is compared
  MaxStrokes   \* bound: strokes over one picture

VARIABLES
  job,         \* what is done, constant
  sheet,       \* the picture as it is: version and modules; or the block
  damage,      \* the modules (the codewords) that are wrong by now
  turned,      \* the quarter turns it was given
  reading      \* what the decoder says; Pending before
vars == <<job, sheet, damage, turned, reading>>

Pending == <<-1>>

Init ==
  /\ \/ \E v \in Versions : job = [kind |-> "layout", version |-> v] /\ sheet = << >>
     \/ \E b \in Blocks : /\ job = [kind |-> "block"] @@ b
                          /\ sheet = Table([i \in 0 .. Len(b.data) + b.nsym - 1 |->
                               IF i < Len(b.data) THEN b.data[i + 1]
                               ELSE RsRemainder(b.data, b.nsym)[i - Len(b.data)]])
     \/ \E l \in Letters : job = [kind |-> "letter"] @@ l /\ sheet = << >>
  /\ damage = {} /\ turned = 0 /\ reading = Pending

---------------------------------------------------------------------------
(* One block *)

\* A codeword of the block comes through wrong.
Smear(i, value) ==
  /\ job.kind = "block" /\ i \notin damage /\ Cardinality(damage) < job.most
  /\ sheet' = [sheet EXCEPT ![i] = ByteXor(@, value)]
  /\ damage' = damage \cup {i}
  /\ UNCHANGED <<job, turned, reading>>

---------------------------------------------------------------------------
(* One picture *)

\* encodeQR chooses version and mask; another program's symbol has segments of
\* its own, and any of the masks.
Draw ==
  /\ job.kind = "letter" /\ sheet = << >>
  /\ \/ /\ job.segments = << >>
        /\ sheet' = EncodeQR(job.text, ECL[job.level], job.version)
     \/ /\ job.segments # << >>
        /\ \E mask \in job.masks :
             sheet' = [version |-> job.version,
                       modules |-> Table(Drawn(Laid(job.segments, job.version, ECL[job.level].index),
                                               job.version, ECL[job.level], mask))]
  /\ UNCHANGED <<job, damage, turned, reading>>

Untouched == job.kind = "letter" /\ sheet # << >> /\ turned = 0 /\ reading = Pending

\* The modules the codewords lie in, in their order.
Path(version) ==
  LET reserved == Reserved(version)
  IN  SelectSeq(ZigZag(SizeOf(version)), LAMBDA c : c \notin reserved)

\* A stroke turns some modules around: bits of the two copies of the format,
\* and one module of each of some codewords.
Struck(stroke, version) ==
  LET path == Path(version)
  IN  {D!CopyA[i] : i \in stroke.a} \cup {D!CopyB(SizeOf(version))[i] : i \in stroke.b}
        \cup {path[8 * k - (k % 3)] : k \in stroke.codewords}

Scratch ==
  /\ Untouched /\ damage = {}
  /\ \E strokes \in {some \in SUBSET job.strokes : Cardinality(some) \in 1 .. MaxStrokes} :
       /\ damage' = UNION {Struck(stroke, sheet.version) : stroke \in strokes}
       /\ sheet' = [sheet EXCEPT !.modules = Table([c \in damage' |-> 1 - @[c]] @@ @)]
  /\ UNCHANGED <<job, turned, reading>>

\* The camera is held sideways, or upside down.
Turn ==
  /\ job.kind = "letter" /\ sheet # << >> /\ turned < job.turns /\ reading = Pending
  /\ sheet' = [sheet EXCEPT !.modules = Table(D!RotateMatrix(@, SizeOf(sheet.version)))]
  /\ turned' = turned + 1
  /\ UNCHANGED <<job, damage, reading>>

\* decodeMatrix.
Read ==
  /\ job.kind = "letter" /\ sheet # << >> /\ reading = Pending
  /\ reading' = D!DecodeMatrix(sheet.modules, SizeOf(sheet.version))
  /\ UNCHANGED <<job, sheet, damage, turned>>

Next ==
  \/ \E i \in IF job.kind = "block" THEN job.places ELSE {} : \E value \in job.values : Smear(i, value)
  \/ Draw \/ Scratch \/ Turn \/ Read

Spec == Init /\ [][Next]_vars

---------------------------------------------------------------------------
(* Properties *)

\* The decoder steps over exactly the modules the encoder reserved ("or the
\* zigzag walks off by one and nothing decodes"), what is left over is what the
\* formula for the capacity says, and the blocks of every level use it up.
LayoutsAgree ==
  job.kind = "layout" =>
    LET version == job.version
    IN  /\ Reserved(version) = D!FunctionMap(version)
        /\ SizeOf(version) * SizeOf(version) - Cardinality(Reserved(version)) = RawDataModules(version)
        /\ \A level \in 1 .. 4 :
             LET form == BlocksOf(version, level)
             IN  /\ form.short \in 1 .. form.blocks /\ form.data > 0
                 /\ form.blocks * (form.data + form.parity) + form.blocks - form.short
                      = CodewordsOf(version)

CorrectionIsRight(result) ==
  /\ 2 * Cardinality(damage) <= job.nsym =>
       /\ result # D!Unreadable
       /\ \A i \in DOMAIN job.data : result[i - 1] = job.data[i]
  /\ result # D!Unreadable =>
       /\ RsRemainder([i \in 1 .. Cardinality(DOMAIN result) |-> result[i - 1]], job.nsym)
            = [i \in 0 .. job.nsym - 1 |-> 0]
       /\ 2 * Cardinality({i \in DOMAIN sheet : sheet[i] # result[i]}) <= job.nsym
\* Up to half as many wrong codewords as there is parity are put right.  With
\* more, the decoder refuses or finds another block that is as near: whatever
\* it returns has no error left and differs from what it was given in no more
\* than that number of places.
BlocksAreCorrected ==
  job.kind = "block" => CorrectionIsRight(D!RsCorrect(sheet, job.nsym))

\* Together: writer and reader agree about the layouts, and blocks are put right.
PartsAreRight == LayoutsAgree /\ BlocksAreCorrected

\* The block a codeword of the interleaved stream belongs to.
BlockOf(k, form) ==
  LET column == form.blocks * form.data  longs == form.blocks - form.short
  IN  IF k <= column THEN ((k - 1) % form.blocks) + 1
      ELSE IF k <= column + longs THEN form.short + k - column
      ELSE ((k - column - longs - 1) % form.blocks) + 1

\* Damage the standard promises to survive: one copy of the format with three
\* flips at most, and in each block half the parity.
Legible ==
  LET version == sheet.version
      form == BlocksOf(version, ECL[job.level].index)
      path == Path(version)
      hit  == {k \in 1 .. CodewordsOf(version) : \E n \in 8 * k - 7 .. 8 * k : path[n] \in damage}
  IN  /\ \E copy \in {D!CopyA, D!CopyB(SizeOf(version))} :
           Cardinality({i \in 0 .. 14 : copy[i] \in damage}) <= 3
      /\ \A b \in 1 .. form.blocks : 2 * Cardinality({k \in hit : BlockOf(k, form) = b}) <= form.parity

\* A code that is legible reads as what was printed, whichever way up it is:
\* the other copy of the format may be damaged into another format, and the
\* grid may look like a symbol before it is turned the right way.
LettersAreRead == reading # Pending /\ Legible => reading = job.text

\* Together: what a symbol says is what was printed, and its parts are right.
ReadsWhatWasPrinted == PartsAreRight /\ LettersAreRead
=============================================================================
