-------------------------------- MODULE Floor --------------------------------
(***************************************************************************)
(* The floor of the chamber: the tables of js/crdt.js that members and the *)
(* Chair write from several devices at once, and how a page writes to them.*)
(*                                                                         *)
(* The ops of the chamber form one sequence, the canonical order of their  *)
(* stamps; each device knows some of them, learns the others in any order, *)
(* and shows the fold of those it knows (module OpLog is about how it gets *)
(* there).  A stamp follows everything its author knew, so an op is put    *)
(* anywhere after those.  Keys do not change here: who may speak for a     *)
(* seat is module Authority's subject.                                     *)
(*                                                                         *)
(* The handlers of the pages are in Legislature (votes and bills) and in   *)
(* Bulletin (what is posted, and what the Chair switches).                 *)
(***************************************************************************)
EXTENDS Naturals, Sequences, FiniteSets, FiniteSetsExt, SequencesExt

CONSTANTS
  Device,    \* each device stands for its key as well
  Member,
  Vote,
  Bill,
  Paper,     \* what is posted: statuses, chat, amendments, comments, ...
  Share,
  NoSeat,    \* identity.memberId of a visitor, and the holder of no proxy
  SeatOf,    \* the seat each device is enrolled at, and sits at to begin with
  Gavel,     \* the devices unlocked and enrolled as the Chair's
  Demo,      \* the seats, votes, bills and papers of the shipped snapshot
  Newcomer,  \* the seats nobody has added yet
  TableOf,   \* the table each paper belongs to
  Threshold, \* what each vote needs
  MaxOps     \* how many ops are written in all

Tables == {"statuses", "chat", "amendments", "comments", "news", "docket", "announcements"}

ASSUME SeatAssumption ==
  SeatOf \in [Device -> Member \cup {NoSeat}] /\ NoSeat \notin Member
ASSUME GavelAssumption == Gavel # {} /\ Gavel \subseteq Device
ASSUME DemoAssumption ==
  IsFiniteSet(Demo) /\ Demo \subseteq Member \cup Vote \cup Bill \cup Paper
ASSUME NewcomerAssumption ==
  Newcomer \subseteq Member \ Demo /\ \A d \in Device : SeatOf[d] \notin Newcomer
ASSUME TableAssumption ==
  /\ TableOf \in [Paper -> Tables]
  /\ \A p \in Demo \cap Paper : TableOf[p] \notin {"chat", "announcements"}
ASSUME ThresholdAssumption ==
  Threshold \in [Vote -> {"majority", "twothirds", "unanimous"}]

VARIABLES
  chamber, \* every op written, in canonical order
  known,   \* the ops each device has, by author and number
  seat     \* identity.memberId of each device

floor == <<chamber, known, seat>>

-----------------------------------------------------------------------------
(* The tables *)

Stages == <<"drafted", "introduced", "committee", "floor", "enacted">>
NoTally == [yea |-> 0, nay |-> 0, present |-> 0]

\* A record that no op has written yet; `gone' is the tombstone _deleted.
NoMember == [there |-> FALSE, gone |-> FALSE, frozen |-> FALSE, canTalk |-> FALSE,
             canChat |-> FALSE, dnd |-> FALSE, presence |-> "none", auth |-> FALSE]
NoVote == [there |-> FALSE, gone |-> FALSE, state |-> "none",
           threshold |-> "majority", result |-> "none", final |-> NoTally]
NoBill == [there |-> FALSE, gone |-> FALSE, sponsor |-> NoSeat, stage |-> "none"]
NoProxy == [there |-> FALSE, gone |-> FALSE, to |-> NoSeat]
\* `owner' is memberId, author or authorId, as the table calls it.
NoPaper == [there |-> FALSE, gone |-> FALSE, owner |-> NoSeat]
NoShare == [there |-> FALSE, revoked |-> FALSE, byKid |-> "nobody"]
NoDevice == [there |-> FALSE, revoked |-> FALSE]

\* The fields of the patch, and those of the record it does not name.
Merged(record, patch) ==
  [f \in DOMAIN record \cup DOMAIN patch |->
     IF f \in DOMAIN patch THEN patch[f] ELSE record[f]]

\* Mutant: a write replaces the record instead of merging into it.
PutAfresh(record, patch) ==
  Merged([record EXCEPT !.there = TRUE, !.gone = FALSE], patch)

\* Mutant: a field that was filled in stays as it was.
PutKeepsFinal(record, patch) ==
  LET merged == Merged([record EXCEPT !.there = TRUE], patch)
  IN  IF "final" \in DOMAIN record /\ record.final # NoTally
      THEN [merged EXCEPT !.final = record.final] ELSE merged

\* Last writer wins field by field: whatever the patch does not name stays,
\* a tombstone included.
Put(record, patch) == Merged([record EXCEPT !.there = TRUE], patch)

\* Mutant: settings that are not named fall back.
SettleAfresh(session, patch) ==
  Merged([session EXCEPT !.locked = FALSE, !.stun = TRUE], patch)

\* session.set merges its fields into the settings.
Settle(session, patch) == Merged(session, patch)

\* The chamber as the shipped snapshot leaves it: the seats, and open votes,
\* introduced bills and papers to look at.
Seed ==
  [session |-> [locked |-> FALSE, stun |-> TRUE, chatPolicy |-> "chair-picks",
                talkiePolicy |-> "all", canChat |-> FALSE, demo |-> TRUE],
   members |-> [m \in Member |->
                  IF m \in Newcomer THEN NoMember
                  ELSE Put(NoMember, [presence |-> "away", auth |-> \E d \in Device : SeatOf[d] = m])],
   votes   |-> [v \in Vote |->
                  IF v \in Demo
                  THEN Put(NoVote, [state |-> "open", threshold |-> Threshold[v]])
                  ELSE NoVote],
   ballots |-> [v \in Vote |-> [m \in Member |-> "none"]],
   proxies |-> [m \in Member |-> NoProxy],
   bills   |-> [b \in Bill |->
                  IF b \in Demo THEN Put(NoBill, [stage |-> "introduced"]) ELSE NoBill],
   signed  |-> [b \in Bill |-> {}],
   papers  |-> [p \in Paper |-> IF p \in Demo THEN Put(NoPaper, << >>) ELSE NoPaper],
   shares  |-> [h \in Share |-> NoShare],
   devices |-> [d \in Device |-> NoDevice]]

Alive(record) == record.there /\ ~record.gone
LiveMembers(s) == {m \in Member : Alive(s.members[m])}
LivePapers(s, table) == {p \in Paper : TableOf[p] = table /\ Alive(s.papers[p])}

-----------------------------------------------------------------------------
(* Who may write what *)

Speaks(m, d) == SeatOf[d] = m
Claimed(m) == m \in Member /\ \E d \in Device : Speaks(m, d)
MemberScoped(m, d) == d \in Gavel \/ Speaks(m, d) \/ ~Claimed(m)

\* An op that names an existing record is judged by who owns that record, and an
\* owner who is no member leaves it to the Chair.
CreateScoped(record, owner, d) ==
  \/ d \in Gavel
  \/ ~record.there /\ MemberScoped(owner, d)
  \/ record.there /\ record.owner \in Member /\ Speaks(record.owner, d)
RecordScoped(record, d) == record.there => MemberScoped(record.owner, d)

\* What only the Chair may write about a member.
ChairFields == {"frozen", "canTalk", "canChat"}

PostTypes == [statuses |-> "status.post", chat |-> "chat.post",
              amendments |-> "amendment.file", comments |-> "comment.post",
              news |-> "news.post", docket |-> "docket.add",
              announcements |-> "announce.post"]
\* Chat and announcements are never taken back by any page.
RetractTypes == [statuses |-> "status.retract", amendments |-> "amendment.withdraw",
                 comments |-> "comment.retract", news |-> "news.retract",
                 docket |-> "docket.remove"]

\* authorize(state, op), for the types the pages write.
Authorized(s, op) ==
  CASE op.type \in {"session.set", "vote.open", "vote.close", "vote.retract",
                    "bill.stage", "docket.add", "docket.remove", "announce.post",
                    "news.retract", "comment.retract", "member.upsert",
                    "device.revoke"} -> op.by \in Gavel
    [] op.type \in {"comment.post", "device.seen"} -> TRUE
    [] op.type \in {"ballot.cast", "member.retract"} ->
         op.by \in Gavel \/ Speaks(op.member, op.by)
    [] op.type = "member.presence" ->
         IF DOMAIN op.patch \cap ChairFields # {} THEN op.by \in Gavel
         ELSE MemberScoped(op.member, op.by)
    [] op.type \in {"member.auth", "proxy.delegate", "proxy.revoke", "cosponsor.add",
                    "cosponsor.remove"} -> MemberScoped(op.member, op.by)
    [] op.type = "bill.upsert" ->
         MemberScoped(IF s.bills[op.bill].there THEN s.bills[op.bill].sponsor
                      ELSE op.member, op.by)
    [] op.type = "bill.retract" ->
         s.bills[op.bill].there => MemberScoped(s.bills[op.bill].sponsor, op.by)
    [] op.type \in {"status.post", "chat.post", "amendment.file"} ->
         CreateScoped(s.papers[op.paper], op.owner, op.by)
    [] op.type \in {"status.retract", "amendment.withdraw"} ->
         RecordScoped(s.papers[op.paper], op.by)
    [] op.type = "news.post" -> \* a member's note is its owner's
         IF op.owner # NoSeat THEN CreateScoped(s.papers[op.paper], op.owner, op.by)
         ELSE op.by \in Gavel
    [] op.type = "share.grant" ->
         IF s.shares[op.share].there
         THEN op.by \in Gavel \/ s.shares[op.share].byKid = op.by
         ELSE MemberScoped(op.member, op.by)
    [] op.type = "share.revoke" ->
         s.shares[op.share].there => op.by \in Gavel \/ s.shares[op.share].byKid = op.by

Reduce(s, op) ==
  CASE op.type = "session.set" -> [s EXCEPT !.session = Settle(@, op.patch)]
    [] op.type = "member.upsert" ->
         [s EXCEPT !.members[op.member] =
            Put(@, [presence |-> "away", canChat |-> op.canChat, canTalk |-> op.canTalk])]
    [] op.type = "member.presence" -> [s EXCEPT !.members[op.member] = Put(@, op.patch)]
    [] op.type = "member.auth" -> [s EXCEPT !.members[op.member] = Put(@, [auth |-> FALSE])]
    [] op.type = "member.retract" ->
         [s EXCEPT !.members[op.member] = Put(@, [gone |-> TRUE])]
    [] op.type = "vote.open" ->
         [s EXCEPT !.votes[op.vote] =
            Put(@, [state |-> "open", threshold |-> Threshold[op.vote]])]
    [] op.type = "vote.close" ->
         [s EXCEPT !.votes[op.vote] =
            Put(@, [state |-> "closed", result |-> op.result, final |-> op.final])]
    [] op.type = "vote.retract" ->
         [s EXCEPT !.votes[op.vote] = Put(@, [gone |-> TRUE])]
    [] op.type = "ballot.cast" ->
         [s EXCEPT !.ballots[op.vote][op.member] = op.choice]
    [] op.type = "proxy.delegate" ->
         [s EXCEPT !.proxies[op.member] = Put(@, [to |-> op.to])]
    [] op.type = "proxy.revoke" ->
         [s EXCEPT !.proxies[op.member] = Put(@, [gone |-> TRUE, to |-> NoSeat])]
    [] op.type = "bill.upsert" ->
         [s EXCEPT !.bills[op.bill] =
            Put(@, [sponsor |-> op.member, stage |-> "introduced"])]
    [] op.type = "bill.stage" ->
         [s EXCEPT !.bills[op.bill] = Put(@, [stage |-> op.stage])]
    [] op.type = "bill.retract" ->
         [s EXCEPT !.bills[op.bill] = Put(@, [gone |-> TRUE])]
    [] op.type = "cosponsor.add" -> [s EXCEPT !.signed[op.bill] = @ \cup {op.member}]
    [] op.type = "cosponsor.remove" -> [s EXCEPT !.signed[op.bill] = @ \ {op.member}]
    [] op.type \in Range(PostTypes) ->
         [s EXCEPT !.papers[op.paper] = Put(@, [owner |-> op.owner])]
    [] op.type \in Range(RetractTypes) ->
         [s EXCEPT !.papers[op.paper] = Put(@, [gone |-> TRUE])]
    [] op.type = "share.grant" ->
         [s EXCEPT !.shares[op.share] = Put(@, [revoked |-> FALSE, byKid |-> op.by])]
    [] op.type = "share.revoke" ->
         [s EXCEPT !.shares[op.share] = Put(@, [revoked |-> TRUE])]
    [] op.type = "device.seen" -> [s EXCEPT !.devices[op.kid] = Put(@, op.patch)]
    [] op.type = "device.revoke" ->
         [s EXCEPT !.devices[op.kid] = Put(@, [revoked |-> TRUE])]

ApplyOp(s, op) == IF Authorized(s, op) THEN Reduce(s, op) ELSE s

\* The ops that a device has, folded in their order.
Fold(ops, has) ==
  LET after[n \in 0 .. Len(ops)] ==
        IF n = 0 THEN Seed
        ELSE IF ops[n].n \in has THEN ApplyOp(after[n - 1], ops[n])
        ELSE after[n - 1]
  IN  after[Len(ops)]

Shown(d) == Fold(chamber, known[d])

-----------------------------------------------------------------------------
(* Writing: store.dispatch *)

FloorInit ==
  /\ chamber = <<>>
  /\ known = [d \in Device |-> {}]
  /\ seat = SeatOf

Written(d) == Cardinality({i \in DOMAIN chamber : chamber[i].by = d})

Inserted(ops, at, new) ==
  [i \in 1 .. Len(ops) + Len(new) |->
     IF i <= at THEN ops[i]
     ELSE IF i <= at + Len(new) THEN new[i - at]
     ELSE ops[i - Len(new)]]

\* A device puts ops into the order behind everything it knows.  `saw' is what
\* it knew then, kept for the properties.
Dispatch(d, patches) ==
  LET ops == [i \in DOMAIN patches |->
                Merged(patches[i], [n |-> <<d, Written(d) + i>>, by |-> d,
                                    saw |-> known[d]])]
  IN  /\ patches # <<>>
      /\ Len(chamber) + Len(patches) <= MaxOps
      /\ \E at \in 0 .. Len(chamber) :
           /\ \A i \in at + 1 .. Len(chamber) : chamber[i].n \notin known[d]
           /\ chamber' = Inserted(chamber, at, ops)
      /\ known' = [known EXCEPT ![d] = @ \cup {ops[i].n : i \in DOMAIN ops}]

Writes(d, patches) == Dispatch(d, patches) /\ UNCHANGED seat

\* A device whose seat is frozen, as far as it knows, authors nothing but
\* presence and passwords.
MayWrite(d) ==
  seat[d] # NoSeat => ~(Alive(Shown(d).members[seat[d]])
                          /\ Shown(d).members[seat[d]].frozen)

Seated(d) == seat[d] # NoSeat /\ MayWrite(d)
Chairs(d) == d \in Gavel /\ MayWrite(d)

\* Identifiers are drawn at random, so no two ops create the same one.
Named(field) ==
  {chamber[i][field] : i \in {j \in DOMAIN chamber : field \in DOMAIN chamber[j]}}

\* Sync: a device learns one more op, in any order.
Learn(d, n) ==
  /\ n \in {chamber[i].n : i \in DOMAIN chamber} \ known[d]
  /\ known' = [known EXCEPT ![d] = @ \cup {n}]
  /\ UNCHANGED <<chamber, seat>>

-----------------------------------------------------------------------------
(* What a device has heard, for the properties *)

Known(d) == {i \in DOMAIN chamber : chamber[i].n \in known[d]}

\* The last op at one of these places.
LastWord(places) == chamber[Max(places)]
=============================================================================
