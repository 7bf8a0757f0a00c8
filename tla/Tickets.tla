------------------------------- MODULE Tickets -------------------------------
(***************************************************************************)
(* How an invite or a reply is written down and read again: the session    *)
(* description is slimmed and put into a template, the ticket packed into  *)
(* pictures or letters, and what a person carries over is unpacked and     *)
(* rebuilt (the codes of js/sync-peers.js, js/icons.js).                   *)
(*                                                                         *)
(* A description is a sequence of lines <<kind, value>>; a value that may  *)
(* be missing is a sequence of none or one.  Packing keeps its argument    *)
(* whole, and what was tampered with does not unpack.                      *)
(***************************************************************************)
EXTENDS Naturals, Sequences, FiniteSets, SequencesExt, TLC

CONSTANTS
  Descriptions,  \* what browsers describe their end of a connection by
  Cards,         \* tickets of other builds that are still about
  MaxCandidates  \* 6

VARIABLES
  slip  \* the code: the description behind it, the ticket, the glyphs, and how
        \* it was carried and read

ticketVars == <<slip>>

-----------------------------------------------------------------------------
(* Descriptions *)

ValuesOf(sdp, kind) ==
  LET OfKind(line) == line[1] = kind
  IN  [i \in DOMAIN SelectSeq(sdp, OfKind) |-> SelectSeq(sdp, OfKind)[i][2]]
LastOf(sdp, kind) ==
  LET all == ValuesOf(sdp, kind) IN IF all = << >> THEN << >> ELSE <<Last(all)>>

\* A candidate is [n, transport, type, raddr, extras].
Udp(c) == c.transport \in {"udp", "UDP"}
Useful(line) == line[1] = "candidate" /\ Udp(line[2]) /\ line[2].type \in {"host", "srflx"}

\* slimSdp: of the candidates, the first few that a direct connection may use.
SlimSdp(sdp) ==
  LET Spare(i) == sdp[i][1] = "candidate" /\
        \/ ~Useful(sdp[i])
        \/ Cardinality({j \in 1 .. i - 1 : Useful(sdp[j])}) >= MaxCandidates
  IN  FlattenSeq([i \in DOMAIN sdp |-> IF Spare(i) THEN << >> ELSE <<sdp[i]>>])

\* dtlsFingerprint: the first of the right kind, in capitals.
Capitals(fp) == [fp EXCEPT !.lower = FALSE]
DtlsFingerprint(sdp) ==
  LET Right(fp) == fp.hash = "sha-256"
      all == SelectSeq(ValuesOf(sdp, "fingerprint"), Right)
  IN  IF all = << >> THEN << >> ELSE <<Capitals(Head(all))>>

\* parseCandidate and buildCandidate: what Chrome appends is dropped.
Parsed(c) == [c EXCEPT !.transport = "udp", !.extras = FALSE]

Boilerplate == <<<<"v", "0">>, <<"o", "stock">>, <<"s", "-">>, <<"t", "0 0">>>>
\* The lines a template has room for, in the order rebuildSdp writes them.
Fields == <<"group", "extmap", "msid", "m", "c", "candidate", "ufrag", "pwd", "options",
            "fingerprint", "setup", "mid", "sctp", "max">>
Needed == {"ufrag", "pwd", "fingerprint", "mid", "setup", "sctp"}

\* A line that is known to be rebuilt as it was.
Modelled(line) ==
  CASE line[1] \in {"v", "s", "t", "o"} -> \E i \in DOMAIN Boilerplate : Boilerplate[i] = line
    [] line[1] = "m" -> line[2] = "application"
    [] line[1] = "fingerprint" -> line[2].hash = "sha-256"
    [] line[1] = "setup" -> line[2] \in {"actpass", "active", "passive", "holdconn"}
    [] line[1] = "candidate" -> Udp(line[2])
    [] line[1] = "end" -> TRUE
    [] OTHER -> line[1] \in ToSet(Fields)

TemplateSdp(sdp) ==
  LET fields == [k \in ToSet(Fields) |->
        IF k # "candidate" THEN LastOf(sdp, k)
        ELSE [i \in DOMAIN ValuesOf(sdp, k) |-> Parsed(ValuesOf(sdp, k)[i])]]
  IN  IF /\ \A i \in DOMAIN sdp : Modelled(sdp[i])
         /\ Len(ValuesOf(sdp, "m")) = 1
         /\ \A k \in Needed : fields[k] # << >>
      THEN <<fields>> ELSE << >>

\* Mutant: the fingerprint the ticket lends is not taken.
RebuildUnlent(t, lent) ==
  LET Lines(k) == [i \in DOMAIN t[k] |-> <<k, t[k][i]>>]
  IN  IF t.fingerprint = << >> THEN << >>
      ELSE <<Boilerplate \o FlattenSeq([i \in DOMAIN Fields |-> Lines(Fields[i])])>>

RebuildSdp(t, lent) ==
  LET fp == IF t.fingerprint = << >> THEN lent ELSE t.fingerprint
      full == [t EXCEPT !.fingerprint = fp, !.c = IF @ = << >> THEN <<"IN IP4 0.0.0.0">> ELSE @]
      Lines(k) == [i \in DOMAIN full[k] |-> <<k, full[k][i]>>]
  IN  IF fp = << >> THEN << >>
      ELSE <<Boilerplate \o FlattenSeq([i \in DOMAIN Fields |-> Lines(Fields[i])])>>

\* sdpEssence: how often the lines that decide a connection occur, whatever their
\* order.
SdpEssence(sdp) ==
  LET Says(line) ==
        CASE line[1] = "candidate" -> <<line[1], Parsed(line[2])>>
          [] line[1] = "fingerprint" -> <<line[1], Capitals(line[2])>>
          [] OTHER -> line
      Decides(line) == line[1] \in {"m", "c", "candidate", "ufrag", "pwd", "fingerprint",
                                    "setup", "mid", "sctp", "max"}
      lines == SelectSeq(sdp, Decides)
      said == [i \in DOMAIN lines |-> Says(lines[i])]
  IN  [line \in ToSet(said) |-> Cardinality({i \in DOMAIN said : said[i] = line})]

-----------------------------------------------------------------------------
(* Tickets *)

\* Mutant: whatever fits the template goes into it.
FitsAnyway(t, slim) == t # << >>
Fits(t, slim) == t # << >> /\ SdpEssence(RebuildSdp(t[1], << >>)[1]) = SdpEssence(slim)

\* #ticket: the template if it brings the same connection back, without the
\* fingerprint that the ticket has anyway; else the description as it is.
Ticket(role, actor, sdp) ==
  LET slim == SlimSdp(sdp)
      dtls == DtlsFingerprint(sdp)
      t == TemplateSdp(slim)
      good == Fits(t, slim)
      bare == dtls # << >> /\ Capitals(t[1].fingerprint[1]) = dtls[1]
      packed == good /\ dtls # << >>
  IN  [v |-> IF good THEN 3 ELSE 2, role |-> role, actor |-> actor,
       fp |-> IF packed THEN dtls ELSE << >>,
       dtls |-> IF packed THEN << >> ELSE dtls,
       sd |-> IF ~good THEN << >>
              ELSE IF bare THEN <<[t[1] EXCEPT !.fingerprint = << >>]>> ELSE t,
       sdp |-> IF good THEN << >> ELSE <<slim>>]

TicketFingerprint(t) ==
  IF t.fp # << >> THEN t.fp
  ELSE [i \in DOMAIN t.dtls |-> Capitals(t.dtls[i])]

\* None for a ticket that has neither: "That code came from a newer version".
TicketSdp(t) ==
  IF t.sdp # << >> THEN t.sdp
  ELSE IF t.sd # << >> THEN RebuildSdp(t.sd[1], TicketFingerprint(t)) ELSE << >>

-----------------------------------------------------------------------------
(* Codes: glyphs that stand for the pieces of a packed ticket *)

Pieces == 4
IconGlyph(k) == <<"icon", k>>
LetterGlyph(k) == <<"letter", k>>
SpaceGlyph == <<"space", 0>>
OtherGlyph == <<"other", 0>>

\* encodePayload; the first icon, like the tag, says whether it is compressed.
HeadOf(zipped) == IF zipped THEN 1 ELSE 2
Picture(zipped) == <<IconGlyph(HeadOf(zipped))>> \o [k \in 1 .. Pieces |-> IconGlyph(10 + k)]
Compact(zipped) == <<LetterGlyph(HeadOf(zipped))>> \o [k \in 1 .. Pieces |-> LetterGlyph(10 + k)]

\* Mutant: no stray glyph is forgiven.
LooksPure(glyphs) == \A i \in DOMAIN glyphs : glyphs[i][1] = "icon"

\* More than half of what is not white space is icons of the table.
LooksLikeIconCode(glyphs) ==
  LET hits == Cardinality({i \in DOMAIN glyphs : glyphs[i][1] = "icon"})
      seen == Cardinality({i \in DOMAIN glyphs : glyphs[i] # SpaceGlyph})
  IN  2 * hits > seen

\* decodePayload: whether the ticket comes out.  Icons that are not of the table
\* are skipped, white space between letters as well; a code of letters without a
\* tag is one of an older build.
Decodes(glyphs, zipped) ==
  LET IsIcon(g) == g[1] = "icon"
      Shows(g) == g # SpaceGlyph
      letters == SelectSeq(glyphs, Shows)
  IN  IF LooksLikeIconCode(glyphs) THEN SelectSeq(glyphs, IsIcon) = Picture(zipped)
      ELSE letters \in {Compact(zipped)} \cup (IF zipped THEN {} ELSE {Tail(Compact(FALSE))})

\* What becomes of a code between a screen and a camera, or in a chat.
Fates == {"as it is", "wrapped", "quoted", "chatter", "stray icon", "cut"}
CarriedOver(glyphs, way) ==
  CASE way = "as it is" -> glyphs
    [] way = "wrapped" -> FlattenSeq([i \in DOMAIN glyphs |-> <<glyphs[i], SpaceGlyph>>])
    [] way = "quoted" -> <<OtherGlyph>> \o glyphs \o <<OtherGlyph>>
    [] way = "chatter" -> [i \in DOMAIN glyphs |-> OtherGlyph] \o glyphs
    [] way = "stray icon" -> glyphs \o <<IconGlyph(1)>>
    [] way = "cut" -> SubSeq(glyphs, 1, Len(glyphs) - 1)

-----------------------------------------------------------------------------

Blank == [stage |-> "blank"]
TicketsInit == slip = Blank

\* createInvite or acceptInvite, to the code; or a card that was printed long ago.
WriteDown(sdp, role, zipped) ==
  /\ slip = Blank
  /\ slip' = [stage |-> "drawn", sdp |-> sdp, zipped |-> zipped, ticket |-> Ticket(role, "ann", sdp)]
Keep(card) ==
  /\ slip = Blank
  /\ slip' = [stage |-> "drawn", sdp |-> card.of, zipped |-> FALSE, ticket |-> card.ticket]

Carry(form, way) ==
  LET code == CASE form = "picture" -> Picture(slip.zipped)
                [] form = "compact" -> Compact(slip.zipped)
                [] form = "untagged" -> Tail(Compact(slip.zipped))
  IN  /\ slip.stage = "drawn"
      /\ form = "untagged" => ~slip.zipped
      /\ way = "stray icon" => slip.zipped  \* nothing checks what is not compressed
      /\ slip' = [stage |-> "carried", sdp |-> slip.sdp, zipped |-> slip.zipped, way |-> way,
                  form |-> form, ticket |-> slip.ticket, glyphs |-> CarriedOver(code, way)]

\* acceptInvite and completeInvite up to where they absorb the ticket; what is
\* read is none if they throw.
Scan(d, role, home) ==
  LET t == slip.ticket
      good == /\ Decodes(slip.glyphs, slip.zipped) /\ t.role = role /\ home
              /\ role = "offer" => t.actor # d
              /\ TicketSdp(t) # << >>
  IN  /\ slip.stage = "carried"
      /\ slip' = [slip EXCEPT !.stage = "read"] @@
           [scanned |-> <<d, role, home>>,
            read |-> IF good THEN <<[sdp |-> TicketSdp(t)[1], remoteFp |-> TicketFingerprint(t)]>>
                     ELSE << >>]

TicketsNext ==
  \/ \E sdp \in Descriptions, role \in {"offer", "answer"}, zipped \in BOOLEAN : WriteDown(sdp, role, zipped)
  \/ \E card \in Cards : Keep(card)
  \/ \E form \in {"picture", "compact", "untagged"}, way \in Fates : Carry(form, way)
  \/ \E d \in {"ann", "bob"}, role \in {"offer", "answer"}, home \in BOOLEAN : Scan(d, role, home)

-----------------------------------------------------------------------------
(* Properties *)

\* What a person may do to a code without harm: copy it, wrap it, and add to a
\* picture code what is no icon of the table and less than it.
Harmless ==
  slip.way \in {"as it is", "wrapped"} \/ (slip.form = "picture" /\ slip.way = "quoted")

\* A code names the connection it was drawn for, through slimming, template,
\* packing and whatever became of it on the way: the far side either refuses it
\* or negotiates what the near side described, bound to the near side's
\* fingerprint, by as many of its direct routes as fit.  A good code that was
\* not harmed is never refused to whoever it is for.
CodesConnect ==
  slip.stage = "read" =>
    /\ \A i \in DOMAIN slip.read :
         LET got == slip.read[i]
             Routes(sdp) == {Parsed(c) : c \in ToSet(ValuesOf(SelectSeq(sdp, Useful), "candidate"))}
         IN  /\ SdpEssence(got.sdp) = SdpEssence(SlimSdp(slip.sdp))
             /\ got.remoteFp = DtlsFingerprint(slip.sdp)
             /\ Routes(got.sdp) \subseteq Routes(slip.sdp)
             /\ Routes(got.sdp) # Routes(slip.sdp) =>
                  Len(ValuesOf(got.sdp, "candidate")) = MaxCandidates
    /\ /\ Harmless /\ slip.ticket.v \in {2, 3}
       /\ slip.ticket.role = slip.scanned[2] /\ slip.scanned[3]
       /\ slip.scanned[2] = "offer" => slip.scanned[1] # "ann"
       => slip.read # << >>
=============================================================================
