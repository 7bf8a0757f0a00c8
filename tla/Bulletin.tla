------------------------------- MODULE Bulletin -------------------------------
(***************************************************************************)
(* What is posted, and what the Chair switches: statuses, chat, notes and  *)
(* dispatches, comments, amendments, the docket and announcements; the     *)
(* roster and what each seat may do; shares and barred devices.  The       *)
(* handlers are those of js/actions.js and js/sync.js.                     *)
(***************************************************************************)
EXTENDS Floor

\* A new record in `table', under an identifier nobody has used.
Fresh(p, table) == TableOf[p] = table /\ p \notin Demo \cup Named("paper")

Post(p, owner) == [type |-> PostTypes[TableOf[p]], paper |-> p, owner |-> owner]
Retract(p) == [type |-> RetractTypes[TableOf[p]], paper |-> p]
Presence(m, patch) == [type |-> "member.presence", member |-> m, patch |-> patch]
Setting(patch) == [type |-> "session.set", patch |-> patch]
Only(field, value) == [f \in {field} |-> value]

-----------------------------------------------------------------------------
(* Members *)

PostStatus(d, p, presence) ==
  /\ Seated(d) /\ Fresh(p, "statuses")
  /\ Writes(d, IF presence = "none" THEN <<Post(p, seat[d])>>
               ELSE <<Post(p, seat[d]), Presence(seat[d], [presence |-> presence])>>)

FileAmendment(d, p) ==
  Seated(d) /\ Fresh(p, "amendments") /\ Writes(d, <<Post(p, seat[d])>>)

\* A member's own note in the newsroom.
PostNote(d, p) == Seated(d) /\ Fresh(p, "news") /\ Writes(d, <<Post(p, seat[d])>>)

\* Comments are signed with whatever name the form was given; no seat is needed.
Comment(d, p) == MayWrite(d) /\ Fresh(p, "comments") /\ Writes(d, <<Post(p, NoSeat)>>)

\* Under "chair-picks" the Chair says who may; an open chat is open to every seat
\* that is not frozen.
CanChat(s, m) ==
  LET there == m \in Member /\ Alive(s.members[m])
  IN  /\ m # NoSeat
      /\ ~(there /\ s.members[m].frozen)
      /\ s.session.chatPolicy # "all" => there /\ s.members[m].canChat

ChatSend(d, p) ==
  /\ Seated(d) /\ Fresh(p, "chat") /\ CanChat(Shown(d), seat[d])
  /\ Writes(d, <<Post(p, seat[d])>>)

\* Presence is written even by a frozen seat.
CheckIn(d, presence) ==
  /\ seat[d] # NoSeat
  /\ Writes(d, <<Presence(seat[d], [presence |-> presence])>>)

ToggleDnd(d) ==
  /\ seat[d] # NoSeat
  /\ LET me == Shown(d).members[seat[d]]
     IN  Writes(d, <<Presence(seat[d], [dnd |-> ~(Alive(me) /\ me.dnd)])>>)

\* A share of one item; the fold remembers the key that granted it.
CreateGuestShare(d, h) ==
  /\ MayWrite(d) /\ h \notin Named("share")
  /\ Writes(d, <<[type |-> "share.grant", share |-> h, member |-> seat[d]]>>)
ShareLive(d, h) == Seated(d) /\ CreateGuestShare(d, h)

\* The page offers this to whoever granted the share and to the Chair.
RevokeShare(d, h) ==
  LET share == Shown(d).shares[h]
  IN  /\ share.there /\ ~share.revoked
      /\ MayWrite(d) /\ (share.byKid = d \/ d \in Gavel)
      /\ Writes(d, <<[type |-> "share.revoke", share |-> h]>>)

\* A link comes up: unless the device at the other end is barred, this one writes
\* down that it was here.
PeerSecured(d, kid) ==
  /\ MayWrite(d)
  /\ Writes(d, <<[type |-> "device.seen", kid |-> kid, patch |-> << >>]>>)
Secure(d, kid) ==
  kid # d /\ ~Shown(d).devices[kid].revoked /\ PeerSecured(d, kid)

ReleaseSeat(d) ==
  /\ seat[d] # NoSeat
  /\ seat' = [seat EXCEPT ![d] = NoSeat]
  /\ UNCHANGED <<chamber, known>>

-----------------------------------------------------------------------------
(* The Chair *)

AddDocket(d, p) == Chairs(d) /\ Fresh(p, "docket") /\ Writes(d, <<Post(p, NoSeat)>>)
PostAnnouncement(d, p) ==
  Chairs(d) /\ Fresh(p, "announcements") /\ Writes(d, <<Post(p, NoSeat)>>)
PostNews(d, p) == Chairs(d) /\ Fresh(p, "news") /\ Writes(d, <<Post(p, NoSeat)>>)

\* The last choice is remembered for the next member.
AddMember(d, m, chat) ==
  /\ Chairs(d) /\ m \in Newcomer \ Named("member")
  /\ Writes(d, <<[type |-> "member.upsert", member |-> m, canChat |-> chat, canTalk |-> TRUE],
                 Setting([canChat |-> chat])>>)

RemoveMember(d, m) ==
  /\ Chairs(d) /\ m \in LiveMembers(Shown(d))
  /\ Dispatch(d, <<[type |-> "member.retract", member |-> m]>>)
  /\ seat' = [seat EXCEPT ![d] = IF @ = m THEN NoSeat ELSE @]

ResetPin(d, m) ==
  /\ d \in Gavel /\ m \in LiveMembers(Shown(d))
  /\ Writes(d, <<[type |-> "member.auth", member |-> m]>>)

\* The switches on a member: what the screen shows is turned round.  Presence ops,
\* which a frozen device may write.
ToggleMember(d, m, field) ==
  /\ d \in Gavel /\ m \in LiveMembers(Shown(d))
  /\ Writes(d, <<Presence(m, Only(field, ~Shown(d).members[m][field]))>>)

ToggleFreeze(d, m) == ToggleMember(d, m, "frozen")
ToggleTalk(d, m) == ToggleMember(d, m, "canTalk")
ToggleChat(d, m) == ToggleMember(d, m, "canChat")

\* The switches on the chamber.
ToggleSession(d, field) ==
  Chairs(d) /\ Writes(d, <<Setting(Only(field, ~Shown(d).session[field]))>>)

ToggleLock(d) == ToggleSession(d, "locked")
ToggleStun(d) == ToggleSession(d, "stun")

TogglePolicy(d, field) ==
  /\ Chairs(d)
  /\ Writes(d, <<Setting(Only(field, IF Shown(d).session[field] = "all"
                                      THEN "chair-picks" ELSE "all"))>>)

ChatPolicy(d) == TogglePolicy(d, "chatPolicy")
TalkiePolicy(d) == TogglePolicy(d, "talkiePolicy")

RevokeDevice(d, kid) ==
  /\ Chairs(d) /\ Shown(d).devices[kid].there
  /\ Writes(d, <<[type |-> "device.revoke", kid |-> kid]>>)

UnrevokeDevice(d, kid) ==
  /\ Chairs(d) /\ Shown(d).devices[kid].revoked
  /\ Writes(d, <<[type |-> "device.seen", kid |-> kid, patch |-> [revoked |-> FALSE]]>>)

\* Every example this device still shows is retracted, one op each, and the
\* chamber is no longer a demonstration.
ClearDemo(d) ==
  LET s == Shown(d)
      members == Demo \cap LiveMembers(s)
      votes == {v \in Demo \cap Vote : Alive(s.votes[v])}
      bills == {b \in Demo \cap Bill : Alive(s.bills[b])}
      papers == {p \in Demo \cap Paper : Alive(s.papers[p])}
  IN  /\ Chairs(d)
      /\ Dispatch(d, SetToSeq({[type |-> "member.retract", member |-> m] : m \in members})
                     \o SetToSeq({[type |-> "vote.retract", vote |-> v] : v \in votes})
                     \o SetToSeq({[type |-> "bill.retract", bill |-> b] : b \in bills})
                     \o SetToSeq({Retract(p) : p \in papers})
                     \o <<Setting([demo |-> FALSE])>>)
      /\ seat' = [seat EXCEPT ![d] = IF @ \in Demo THEN NoSeat ELSE @]

BulletinNext ==
  \/ \E d \in Device, p \in Paper :
       \/ \E presence \in {"none", "present", "remote"} : PostStatus(d, p, presence)
       \/ FileAmendment(d, p) \/ PostNote(d, p) \/ Comment(d, p) \/ ChatSend(d, p)
       \/ AddDocket(d, p) \/ PostAnnouncement(d, p) \/ PostNews(d, p)
  \/ \E d \in Device, h \in Share : ShareLive(d, h) \/ RevokeShare(d, h)
  \/ \E d, kid \in Device : Secure(d, kid) \/ RevokeDevice(d, kid) \/ UnrevokeDevice(d, kid)
  \/ \E d \in Device, m \in Member :
       \/ RemoveMember(d, m) \/ ResetPin(d, m)
       \/ ToggleFreeze(d, m) \/ ToggleTalk(d, m) \/ ToggleChat(d, m)
       \/ \E chat \in BOOLEAN : AddMember(d, m, chat)
  \/ \E d \in Device :
       \/ \E presence \in {"present", "remote"} : CheckIn(d, presence)
       \/ ToggleLock(d) \/ ToggleStun(d) \/ ChatPolicy(d) \/ TalkiePolicy(d)
       \/ ToggleDnd(d) \/ ReleaseSeat(d) \/ ClearDemo(d)

-----------------------------------------------------------------------------
(* Properties *)

\* What was retired stays retired: a device that knows of a retraction never
\* shows the record again, and one that knows a share was revoked never takes it
\* for live, whichever writes of other devices arrive later or sort later.
RetiredForGood ==
  \A d \in Device : LET s == Shown(d) IN \A i \in DOMAIN chamber :
    LET op == chamber[i]
    IN  op.n \in known[d] =>
          /\ op.type = "member.retract" => ~Alive(s.members[op.member])
          /\ op.type = "vote.retract" => ~Alive(s.votes[op.vote])
          /\ op.type = "bill.retract" => ~Alive(s.bills[op.bill])
          /\ op.type \in Range(RetractTypes) => ~Alive(s.papers[op.paper])
          /\ op.type = "share.revoke" => s.shares[op.share].revoked

\* What an op says of the switches, by table, key and field.
Words(op) ==
  LET said(table, key, patch) ==
        [place \in {<<table, key, f>> : f \in DOMAIN patch} |-> patch[place[3]]]
  IN  CASE op.type = "session.set" -> said("session", "session", op.patch)
        [] op.type = "member.presence" -> said("members", op.member, op.patch)
        [] op.type = "member.upsert" ->
             said("members", op.member, [presence |-> "away", canChat |-> op.canChat,
                                         canTalk |-> op.canTalk])
        [] op.type = "device.seen" -> said("devices", op.kid, op.patch)
        [] op.type = "device.revoke" -> said("devices", op.kid, [revoked |-> TRUE])
        [] OTHER -> << >>

Switch(s, place) ==
  CASE place[1] = "session" -> s.session[place[3]]
    [] place[1] = "members" -> s.members[place[2]][place[3]]
    [] place[1] = "devices" -> s.devices[place[2]][place[3]]

\* Every switch stands where the last op that touched it put it: settings, the
\* moderation of a seat, its presence and the bar on a device are written by
\* several devices in ops that name some of the fields, and none undoes what it
\* does not name.  A device once barred stays barred however often others write
\* down that they met it, until the Chair lets it in again.
SwitchesShowTheLastWord ==
  \A d \in Device : LET s == Shown(d) IN \A i \in DOMAIN chamber :
    chamber[i].n \in known[d] =>
      \A place \in DOMAIN Words(chamber[i]) :
        \/ \E j \in i + 1 .. Len(chamber) :
             chamber[j].n \in known[d] /\ place \in DOMAIN Words(chamber[j])
        \/ Switch(s, place) = Words(chamber[i])[place]

\* What is retired and what is switched stands as the ops leave it, on every
\* device, in whatever order they arrive.
RecordsStandAsLeft == RetiredForGood /\ SwitchesShowTheLastWord
=============================================================================
