------------------------------- MODULE MCCodes -------------------------------
(***************************************************************************)
(* What is written down in bits and read back, one at a time: a symbol     *)
(* that is printed, scratched, turned and scanned; an envelope that is     *)
(* sealed, meddled with and opened; an op that is written by one build and  *)
(* read by another; a ticket that is packed, carried over and unpacked.     *)
(***************************************************************************)
EXTENDS QrScan, Sealing, SchemaVersions, Tickets

VARIABLE subject   \* "symbol", "seal", "op" or "ticket"
codeVars == <<subject, vars, sealVars, versionVars, ticketVars>>

-----------------------------------------------------------------------------
(* What is printed, and where it is scratched. *)

Spot(codewords) == [a |-> {}, b |-> {}, codewords |-> codewords]
FormatA(bits)   == [a |-> bits, b |-> {}, codewords |-> {}]
FormatB(bits)   == [a |-> {}, b |-> bits, codewords |-> {}]

Letter(letters, segments, level, version, masks, turns, strokes) ==
  [text |-> letters, segments |-> segments, level |-> level, version |-> version,
   masks |-> masks, turns |-> turns, strokes |-> strokes]

\* Our own, in the smallest version: letters of one, two and three bytes.
Own == Letter(<<67, 233, 45, 8364, 57>>, << >>, "M", 1, {}, 3,
  {FormatA({9, 12}), FormatA({0, 1, 2, 4, 5}), FormatB({3, 8, 11}),
   Spot({1, 2, 3}), Spot({17, 26}), Spot({9})})

\* Another program's: digits; letters of the small alphabet after a character
\* set it announces, then bytes in two segments that share a letter.
Digits == Letter(<<48, 48, 55, 57, 49>>,
  Bits(1, 4) \o Bits(5, 10) \o Bits(7, 10) \o Bits(91, 7), "H", 1, 0 .. 7, 1, {Spot(10 .. 17)})
Mixed == Letter(<<67, 67, 45, 233, 48>>,
  Bits(7, 4) \o Bits(26, 8) \o Bits(2, 4) \o Bits(3, 9) \o Bits(552, 11) \o Bits(41, 6)
    \o Bits(4, 4) \o Bits(1, 8) \o Bits(195, 8) \o Bits(4, 4) \o Bits(1, 8) \o Bits(169, 8)
    \o Bits(1, 4) \o Bits(1, 10) \o Bits(0, 4), "Q", 2, {2, 5}, 0, {FormatA(0 .. 6)})

\* Blocks of two lengths; the blocks with a version of its own; counts of
\* sixteen bits.
Bytes(letters, level, version, mask, turns, strokes) ==
  Letter(letters, ByteSegment(letters, version), level, version, {mask}, turns, strokes)
Long == [k \in 1 .. 60 |-> 32 + k]
Blocked  == Bytes(Long, "Q", 5, 3, 1, {Spot({3, 7, 11, 15, 19, 64, 4, 8, 62}), FormatB(0 .. 4)})
Numbered == Bytes(<<67, 67>>, "L", 7, 6, 1, {Spot({1, 3, 5, 196})})
Counted  == Bytes(<<67, 67>>, "L", 10, 1, 0, {})

AllLetters == {Own, Digits, Mixed, Blocked, Numbered, Counted}

\* A block of version 1-L with three errors put right, and one with an odd
\* parity of its own; one error more than can be.
SomeBlocks ==
  {[data |-> [k \in 1 .. 19 |-> (37 * k) % 256], nsym |-> 7, most |-> 4,
    places |-> {0, 1, 11, 18, 19, 25}, values |-> {1, 147}],
   [data |-> <<0, 0, 5>>, nsym |-> 4, most |-> 4, places |-> 0 .. 6, values |-> {1, 64, 255}]}

AllVersions == 1 .. 40

-----------------------------------------------------------------------------
(* What is sealed, or only authenticated. *)

Fill(n, byte) == [k \in 1 .. n |-> byte]
TagTask(key, message, expected) ==
  [kind |-> "tag", key |-> key, text |-> message, expected |-> expected, meddling |-> {}]
SealTask(nonce, message, aad, expected, meddling) ==
  [kind |-> "seal", key |-> [k \in 1 .. 32 |-> 127 + k], nonce |-> nonce, text |-> message,
   aad |-> aad, expected |-> expected, meddling |-> meddling]

\* The published vectors (tests/chacha.test.mjs).
Forum == TagTask(
  <<133, 214, 190, 120, 87, 85, 109, 51, 127, 68, 82, 254, 66, 213, 6, 168,
    1, 3, 128, 138, 251, 13, 178, 253, 74, 191, 246, 175, 65, 73, 245, 27>>,
  <<67, 114, 121, 112, 116, 111, 103, 114, 97, 112, 104, 105, 99, 32, 70, 111, 114, 117, 109,
    32, 82, 101, 115, 101, 97, 114, 99, 104, 32, 71, 114, 111, 117, 112>>,
  <<168, 6, 29, 193, 48, 81, 54, 198, 194, 43, 139, 175, 12, 1, 39, 169>>)
Sunscreen == SealTask(<<7, 0, 0, 0, 64, 65, 66, 67, 68, 69, 70, 71>>,
  <<76, 97, 100, 105, 101, 115, 32, 97, 110, 100, 32, 71, 101, 110, 116, 108, 101, 109, 101,
    110, 32, 111, 102, 32, 116, 104, 101, 32, 99, 108, 97, 115, 115, 32, 111, 102, 32, 39, 57,
    57, 58, 32, 73, 102, 32, 73, 32, 99, 111, 117, 108, 100, 32, 111, 102, 102, 101, 114, 32,
    121, 111, 117, 32, 111, 110, 108, 121, 32, 111, 110, 101, 32, 116, 105, 112, 32, 102, 111,
    114, 32, 116, 104, 101, 32, 102, 117, 116, 117, 114, 101, 44, 32, 115, 117, 110, 115, 99,
    114, 101, 101, 110, 32, 119, 111, 117, 108, 100, 32, 98, 101, 32, 105, 116, 46>>,
  <<80, 81, 82, 83, 192, 193, 194, 195, 196, 197, 198, 199>>,
  <<211, 26, 141, 52, 146, 221, 189, 127, 26, 225, 11, 89, 79, 9, 226, 106, 126, 144, 46, 203,
    208, 96, 6, 145>>, {})

\* At the edges of the field: products that wrap, sums that reach the prime or
\* go one beyond; and the largest limbs there can be.
KeyOf(n, pads) == [k \in 1 .. 32 |-> IF k = 1 THEN n ELSE IF k > 16 THEN pads ELSE 0]
Edges ==
  {TagTask(KeyOf(2, 0), Fill(16, 255), << >>),
   TagTask(KeyOf(2, 255), <<2>> \o Fill(15, 0), << >>),
   TagTask(KeyOf(1, 0), Fill(16, 255) \o <<240>> \o Fill(15, 255) \o <<17>> \o Fill(15, 0), << >>),
   TagTask(KeyOf(1, 0), Fill(16, 255) \o <<251>> \o Fill(15, 254) \o Fill(16, 1), << >>),
   TagTask(KeyOf(2, 0), <<253>> \o Fill(15, 255), << >>),
   TagTask(Fill(32, 255), <<167, 84, 253, 242, 58, 93, 99, 244, 146, 25, 27, 131, 186, 111, 238, 104>>
                            \o Fill(16, 255), << >>)}
Lengths == {TagTask([k \in 1 .. 32 |-> 8 * k - 1], Fill(n, 255), << >>) : n \in {0, 1, 15, 16, 17, 31}}

XNonce == [k \in 1 .. 24 |-> 10 * k]
Ways == {"first byte", "last byte", "cut", "short", "header", "padding"}
Seals ==
  {SealTask(XNonce, << >>, << >>, << >>, {"first byte", "cut"}),
   SealTask(XNonce, Fill(17, 7), <<123, 0>>, << >>, Ways),
   SealTask(XNonce, Fill(64, 0), <<123>>, << >>, {"last byte", "padding"}),
   SealTask(XNonce, Fill(65, 9), Fill(16, 123), << >>, {"header"})}

AllTasks == {Forum, Sunscreen} \cup Edges \cup Lengths \cup Seals

-----------------------------------------------------------------------------
(* What is converted. *)

Text(word) == [is |-> "string", says |-> word]
Number(word) == [is |-> "number", says |-> word]
Converter(from, to, steps) == [from |-> from, to |-> to, steps |-> steps]

\* The converter this build comes with.
BuiltIn == Converter(1, 2, <<
  [op |-> "defaultField", type |-> "member.upsert", field |-> <<"icon">>, value |-> Text("chair")],
  [op |-> "renameField", type |-> "member.upsert", from |-> <<"avatar">>, to |-> <<"icon">>],
  [op |-> "mapValue", type |-> "ballot.cast", field |-> <<"choice">>,
   map |-> [yes |-> Text("yea"), no |-> Text("nay"), abstain |-> Text("present")]]>>)

\* Others, as endpoints might offer them.
Badges == Converter(2, 3, <<
  [op |-> "renameField", type |-> "member.upsert", from |-> <<"icon">>, to |-> <<"badge", "sign">>],
  [op |-> "setField", type |-> "member.upsert", field |-> <<"badge", "kind">>, value |-> Text("emoji")],
  [op |-> "coerce", type |-> "*", field |-> <<"seat">>, to |-> "string"]>>)
Numbers == Converter(3, 4, <<
  [op |-> "coerce", type |-> "*", field |-> <<"seat">>, to |-> "number"],
  [op |-> "dropField", type |-> "ballot.cast", field |-> <<"note">>],
  [op |-> "renameType", type |-> "*", from |-> "ballot.cast", to |-> "ballot.sealed"],
  [op |-> "defaultField", type |-> "ballot.sealed", field |-> <<"secret">>, value |-> Number("1")]>>)
Straight == Converter(2, 4, <<
  [op |-> "renameField", type |-> "member.upsert", from |-> <<"icon">>, to |-> <<"badge", "sign">>],
  [op |-> "coerce", type |-> "ballot.cast", field |-> <<"note">>, to |-> "boolean"],
  [op |-> "retire", type |-> "ballot.cast"]>>)
Garbling == Converter(2, 3, <<[op |-> "setField", type |-> "*", field |-> <<"choice">>, value |-> Text("nay")],
  [op |-> "setField", type |-> "*", field |-> <<"badge", "sign">>, value |-> Text("?")]>>)
Rival == Converter(1, 2, <<[op |-> "dropField", type |-> "*", field |-> <<"avatar">>]>>)
Back == Converter(3, 2, << >>)
Unheard == Converter(1, 4, <<[op |-> "eval", type |-> "*"]>>)

Written(n, v, type, payload, marked) ==
  [id |-> n, v |-> v, type |-> type, payload |-> payload, actor |-> "ann",
   stamp |-> [actor |-> "ann", plausible |-> TRUE],
   marks |-> IF marked THEN {[v |-> v, type |-> type, payload |-> payload]} ELSE Unmarked]

OldFace == Written(1, 0, "member.upsert", <<"avatar">> :> Text("owl") @@ <<"seat">> :> Number("5"), FALSE)
BareFace == Written(2, 0, "member.upsert", <<"name">> :> Text("Bo") @@ <<"seat">> :> Text("five"), FALSE)
OldVote == Written(3, 0, "ballot.cast", <<"choice">> :> Text("no") @@ <<"note">> :> Text(""), FALSE)
Face == Written(4, 2, "member.upsert", <<"icon">> :> Text("fox") @@ <<"badge">> :> Text("x"), TRUE)
Vote == Written(5, 2, "ballot.cast", <<"choice">> :> Text("yea") @@ <<"note">> :> Text("0"), TRUE)
Next3 == Written(6, 3, "member.upsert", <<"badge", "sign">> :> Text("elk"), TRUE)
Beyond == Written(7, 5, "vote.ranked", <<"choice">> :> Text("first"), TRUE)
Borrowed == [Written(8, 2, "ballot.cast", <<"choice">> :> Text("nay"), TRUE) EXCEPT !.stamp.actor = "bob"]
AllOps == {OldFace, BareFace, OldVote, Face, Vote, Next3, Beyond, Borrowed}
AllFiles == {<<OldFace, OldVote>>, <<Borrowed, BareFace, Vote, Beyond>>}

AllBuilds == {2, 3, 4}
Ships == [b \in AllBuilds |-> IF b = 3 THEN <<BuiltIn, Badges>> ELSE <<BuiltIn>>]
AllEndpoints == {"east", "west"}
East == <<Badges, Numbers, Back>>
AllBodies == [e \in AllEndpoints |->
  IF e = "east" THEN {<< >>, East, <<Garbling, Numbers>>} ELSE {<< >>, <<Rival, Straight, Badges>>, <<Straight, Unheard>>}]
AllPins == [e \in AllEndpoints |-> IF e = "east" THEN {East} ELSE Unpinned]

-----------------------------------------------------------------------------
(* What is put on a ticket. *)

Route(n, transport, type, raddr, extras) ==
  <<"candidate", [n |-> n, transport |-> transport, type |-> type, raddr |-> raddr, extras |-> extras]>>
Home == Route(1, "udp", "host", 0, TRUE)
Mapped == Route(2, "UDP", "srflx", 1, FALSE)
Finger(n, hash, lower) == <<"fingerprint", [n |-> n, hash |-> hash, lower |-> lower]>>
Mine == Finger(1, "sha-256", FALSE)

\* What the browsers of today write, with their routes and digests.
Described(origin, routes, digests, rest) ==
  <<<<"v", "0">>, <<"o", origin>>, <<"s", "-">>, <<"t", "0 0">>, <<"group", "0">>, <<"extmap", "">>,
    <<"m", "application">>, <<"c", "IN IP4 0.0.0.0">>>> \o routes
  \o <<<<"ufrag", "u">>, <<"pwd", "p">>, <<"options", "trickle">>>> \o digests
  \o <<<<"setup", "actpass">>, <<"mid", "0">>>> \o rest
Sctp == <<<<"sctp", "5000">>, <<"max", "262144">>>>
Usual == Described("stock", <<Home, Mapped>>, <<Mine>>, Sctp)
LowerCase == Described("stock", <<Home>>, <<Finger(1, "sha-256", TRUE)>>, <<<<"sctp", "5000">>, <<"end", "">>>>)

AllDescriptions ==
  {Usual, LowerCase,
   Described("stock", << >>, <<Mine>>, Sctp),
   Described("stock", [n \in 1 .. 9 |-> Route(n, IF n = 4 THEN "tcp" ELSE "udp",
                                              IF n \in {2, 9} THEN "relay" ELSE "host", 0, n > 3)], <<Mine>>, Sctp),
   Described("Mozilla", <<Home>>, <<Mine>>, Sctp),
   Described("stock", <<Home>>, <<Mine, Finger(2, "sha-256", FALSE)>>, Sctp),
   Described("stock", <<Home>>, <<Finger(3, "sha-1", FALSE), Mine>>, Sctp),
   Described("stock", <<Home>>, <<Finger(3, "sha-1", FALSE)>>, Sctp),
   Described("stock", <<Home>>, <<Mine>>, <<<<"max", "262144">>>>),
   Described("stock", <<Home, Mapped>>, <<Mine>>, Sctp \o <<<<"ssrc", "1">>>>),
   Described("stock", <<Home>>, <<Mine>>, Sctp \o <<<<"mid", "1">>>>),
   SelectSeq(Usual, LAMBDA line : line[1] # "c"),
   Usual \o <<<<"m", "audio">>>>, Usual \o <<<<"m", "application">>>>}

\* A card of an older build, and one of a build to come.
OldCard == [of |-> LowerCase, ticket |->
  [v |-> 2, role |-> "offer", actor |-> "ann", fp |-> << >>, dtls |-> <<Finger(1, "sha-256", TRUE)[2]>>,
   sd |-> << >>, sdp |-> <<LowerCase>>]]
NewCard == [of |-> Usual, ticket |->
  [v |-> 4, role |-> "offer", actor |-> "ann", fp |-> <<Mine[2]>>, dtls |-> << >>, sd |-> << >>, sdp |-> << >>]]
AllCards == {OldCard, NewCard}

-----------------------------------------------------------------------------

Plain == job = [kind |-> "layout", version |-> 1]
Loading == build = 2

CodesInit ==
  /\ Init /\ SealInit /\ VersionsInit /\ TicketsInit
  /\ \/ subject = "symbol" /\ task = Forum /\ Loading
     \/ subject = "seal" /\ Plain /\ Loading
     \/ subject = "op" /\ Plain /\ task = Forum
     \/ subject = "ticket" /\ Plain /\ task = Forum /\ Loading

CodesNext ==
  \/ subject = "symbol" /\ Next /\ UNCHANGED <<subject, sealVars, versionVars, ticketVars>>
  \/ subject = "seal" /\ SealNext /\ UNCHANGED <<subject, vars, versionVars, ticketVars>>
  \/ subject = "op" /\ VersionsNext /\ UNCHANGED <<subject, vars, sealVars, ticketVars>>
  \/ subject = "ticket" /\ TicketsNext /\ UNCHANGED <<subject, vars, sealVars, versionVars>>

CodesSpec == CodesInit /\ [][CodesNext]_codeVars
=============================================================================
