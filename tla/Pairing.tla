------------------------------- MODULE Pairing -------------------------------
(***************************************************************************)
(* How a chamber grows by codes carried from screen to camera: pages that  *)
(* provision a key, rooms that are kept apart by a shared secret, invites  *)
(* and replies, the mesh that forms out of them, and whose ops are folded  *)
(* where (js/sync-peers.js, js/sync.js, js/store.js, js/crypto.js).        *)
(*                                                                         *)
(* The handshake of a link is Session's and its dialling Dialling's: here  *)
(* each is one step.  A call reaches its device through a third that both  *)
(* are linked to; there is no relay, which is how the page is shipped.     *)
(***************************************************************************)
EXTENDS Naturals, Sequences, SequencesExt, FiniteSetsExt

CONSTANTS
  Device,      \* replicas; their order is that of their actor ids
  Starts,      \* how a chamber may begin: see Init
  MaxInvites   \* bound: invites drawn, by all; a start bounds them for each

ASSUME DevicesAreOrdered == Device \subseteq Nat \ {0}
\* A room is named by the device that made it; who is linked shares one.
ASSUME StartsAreChambers ==
  \A s \in Starts :
    /\ s.room \in [Device -> Device] /\ s.up \subseteq Device
    /\ \A d, e \in Device : {d, e} \in s.links => s.room[d] = s.room[e]

None   == 0                    \* no room, no connection
Called == MaxInvites + 1       \* the connection of a call, not of a code
NoLink == [conn |-> None, secured |-> FALSE]

VARIABLES
  start,      \* the beginning, constant
  secret,     \* the room secret of each device, as it is kept on disk
  macKey,     \* the room whose key tags what the store writes; None before
  deriving,   \* rooms whose key is being derived after a code was scanned
  stage,      \* of the page: "loading" its key pair, "deriving", or "up"
  planned,    \* the room whose key the provisioning derives
  directory,  \* actors whose signing key the page knows
  log,        \* ops folded, on disk as well
  held,       \* ops in quarantine
  peers,      \* links, by actor
  pending,    \* invites waiting for a reply, oldest first
  known,      \* actors shaken hands with, on disk
  calls,      \* actors a roster named, to be dialled
  offers,     \* invites ever drawn, one per connection
  answers,    \* replies ever drawn
  applied,    \* the reply each invite was completed with
  scanned,    \* the codes each device has followed
  loaded,     \* what the log of a page held when it was opened
  opened      \* how often each page was opened again

pages == <<secret, macKey, deriving, stage, planned, directory, log, held, loaded, opened>>
mesh  == <<peers, known, calls>>
codes == <<pending, offers, answers, applied, scanned>>
vars  == <<start, pages, mesh, codes>>

---------------------------------------------------------------------------
(* Links *)

Secured(d, e) == peers[d][e].secured /\ peers[e][d].secured
SignalPath(d, e) == \E k \in Device : Secured(d, k) /\ Secured(k, e)
Connected(d, e) == Secured(d, e) \/ SignalPath(d, e)
Linked(d) == {e \in Device : peers[d][e] # NoLink}

\* The two ends of one connection, whose transport opens: a code's once the
\* reply to it, and no other, was applied.
Opens(d, e) ==
  /\ peers[d][e].conn = peers[e][d].conn /\ peers[d][e].conn # None
  /\ peers[d][e].conn # Called =>
       LET reply == applied[peers[d][e].conn]
       IN  reply # << >> /\ reply[1].conn = peers[d][e].conn

---------------------------------------------------------------------------
(* Ops: announcements of a key, and notes of a device seen *)

OpsOf(d, a) == {o \in log[d] : o.by = a}
\* Mutant: what is held counts as there.
SeenFrontier(d, a) ==
  Max({0} \cup {n \in {o.n : o \in log[d] \cup held[d]} :
                  \A k \in 1 .. n : \E o \in log[d] \cup held[d] : o.by = a /\ o.n = k})
\* VV.frontier: up to the first gap.
Frontier(d, a) ==
  Max({0} \cup {n \in {o.n : o \in OpsOf(d, a)} :
                  \A k \in 1 .. n : \E o \in OpsOf(d, a) : o.n = k})
\* store.dispatch: signed, and tagged with the room key of the moment.  Before the
\* page is up it does neither: such an op is of no room, and passes no gate.
Written(d, kind, room) ==
  [by |-> d, n |-> Cardinality(OpsOf(d, d)) + 1, kind |-> kind, room |-> room]

Tag(d) == IF stage[d] = "up" THEN macKey[d] ELSE None

\* The room gate: open as long as the page has no room key.
InRoom(d, op) == macKey[d] = None \/ op.room = macKey[d]

\* ingest: the gate, then the signature.  What nobody can vouch for yet is held;
\* a new announcement lets out what it explains, through the gate again.
Arriving(d, ops) == {o \in ops : InRoom(d, o)}
Learned(d, ops) ==
  directory[d] \cup (IF stage[d] = "up" THEN {o.by : o \in {p \in ops : p.kind = "announce"}} ELSE {})
Folded(d, ops) ==
  {o \in ops : stage[d] = "up" /\ (o.kind = "announce" \/ o.by \in Learned(d, ops))}
Explained(d, ops) == \E o \in Folded(d, ops) \ log[d] : o.kind = "announce"
\* Mutant: the second look forgets the gate.
ReleasedUngated(d, ops) ==
  IF Explained(d, ops) THEN {o \in held[d] : o.by \in Learned(d, ops)} ELSE {}
Released(d, ops) ==
  IF Explained(d, ops) THEN {o \in held[d] : InRoom(d, o) /\ o.by \in Learned(d, ops)} ELSE {}
Held(d, ops) ==
  (IF Explained(d, ops) THEN {o \in held[d] : InRoom(d, o)} ELSE held[d])
    \cup (ops \ Folded(d, ops))

Ingest(d, ops) ==
  /\ log' = [log EXCEPT ![d] = @ \cup Folded(d, ops) \cup Released(d, ops)]
  /\ directory' = [directory EXCEPT ![d] = Learned(d, ops)]
  /\ held' = [held EXCEPT ![d] = Held(d, ops) \ log'[d]]

---------------------------------------------------------------------------
(* A page *)

\* A chamber begins with the room of each device, who is up, who is linked.
Init ==
  /\ start \in Starts
  /\ secret = start.room
  /\ stage = [d \in Device |-> IF d \in start.up THEN "up" ELSE "loading"]
  /\ macKey = [d \in Device |-> IF d \in start.up THEN start.room[d] ELSE None]
  /\ planned = [d \in Device |-> None]
  /\ deriving = [d \in Device |-> {}]
  /\ log = [d \in Device |->
              {[by |-> e, n |-> 1, kind |-> "announce", room |-> start.room[e]] :
                 e \in {f \in start.up : f = d \/ {d, f} \in start.links}}]
  /\ directory = [d \in Device |-> {d} \cup {e \in Device : {d, e} \in start.links}]
  /\ held = [d \in Device |-> {}]
  /\ loaded = [d \in Device |-> {}]
  /\ opened = [d \in Device |-> 0]
  /\ peers = [d \in Device |-> [e \in Device |->
                IF {d, e} \in start.links THEN [conn |-> Called, secured |-> TRUE] ELSE NoLink]]
  /\ known = [d \in Device |-> {e \in Device : {d, e} \in start.links}]
  /\ calls = [d \in Device |-> {}]
  /\ pending = [d \in Device |-> << >>]
  /\ offers = {} /\ answers = {}
  /\ applied = [c \in 1 .. MaxInvites |-> << >>]
  /\ scanned = [d \in Device |-> {}]

\* provision, up to the first await: the key pair is there, the room key of the
\* secret of this moment is on its way.
IdentityLoaded(d) ==
  /\ stage[d] = "loading"
  /\ stage' = [stage EXCEPT ![d] = "deriving"]
  /\ planned' = [planned EXCEPT ![d] = secret[d]]
  /\ UNCHANGED <<start, secret, macKey, deriving, directory, log, held, loaded, opened, mesh, codes>>

\* provision, to its end: the store may sign and verify, and announces itself.
Provisioned(d) ==
  /\ stage[d] = "deriving"
  /\ stage' = [stage EXCEPT ![d] = "up"]
  /\ macKey' = [macKey EXCEPT ![d] = planned[d]]
  /\ log' = [log EXCEPT ![d] = @ \cup {Written(d, "announce", planned[d])}]
  /\ planned' = [planned EXCEPT ![d] = None]
  /\ UNCHANGED <<start, secret, deriving, directory, held, loaded, opened, mesh, codes>>

\* adoptRoomSecret, when the key it asked for is there.
RoomKeyDerived(d, room) ==
  /\ room \in deriving[d]
  /\ deriving' = [deriving EXCEPT ![d] = @ \ {room}]
  /\ macKey' = [macKey EXCEPT ![d] = room]
  /\ UNCHANGED <<start, secret, stage, planned, directory, log, held, loaded, opened, mesh, codes>>

\* The page is reloaded: what is left is what is on disk.
Reload(d) ==
  /\ opened[d] < start.reloads[d]
  /\ opened' = [opened EXCEPT ![d] = @ + 1]
  /\ stage' = [stage EXCEPT ![d] = "loading"]
  /\ macKey' = [macKey EXCEPT ![d] = None]
  /\ planned' = [planned EXCEPT ![d] = None]
  /\ deriving' = [deriving EXCEPT ![d] = {}]
  /\ directory' = [directory EXCEPT ![d] = {d}]
  /\ held' = [held EXCEPT ![d] = {}]
  /\ loaded' = [loaded EXCEPT ![d] = log[d]]
  /\ peers' = [peers EXCEPT ![d] = [e \in Device |-> NoLink]]
  /\ calls' = [calls EXCEPT ![d] = {}]
  /\ pending' = [pending EXCEPT ![d] = << >>]
  /\ UNCHANGED <<start, secret, log, known, offers, answers, applied, scanned>>

---------------------------------------------------------------------------
(* Codes, from a screen to a camera *)

\* Mutant: the ticket's secret is only used for the session it came for.
KeepsItsRoom(d, room) == UNCHANGED <<secret, deriving>>
\* adoptRoomSecret: the secret at once and on disk, its key later.
Adopt(d, room) ==
  /\ secret' = [secret EXCEPT ![d] = room]
  /\ deriving' = [deriving EXCEPT ![d] = @ \cup {room}]

\* #ticket: what a code says.
Ticket(d, conn) == [conn |-> conn, from |-> d, room |-> secret[d]]

\* createInvite: a code that names a connection and hands out the room.
Invite(d) ==
  LET conn == Cardinality(offers) + 1
  IN  /\ conn <= MaxInvites
      /\ Cardinality({o \in offers : o.from = d}) < start.invites[d]
      /\ offers' = offers \cup {Ticket(d, conn)}
      /\ pending' = [pending EXCEPT ![d] = Append(@, conn)]
      /\ UNCHANGED <<start, pages, mesh, answers, applied, scanned>>

\* acceptInvite: the room of the code, an end of its connection, a reply.
\* Bounds: what a start lets a device scan; no invite of a device it has a link to.
Accept(d, offer) ==
  /\ offer.from # d
  /\ Cardinality({code \in scanned[d] : code.conn # None}) < start.scans[d]
  /\ peers[d][offer.from] = NoLink
  /\ Adopt(d, offer.room)
  /\ peers' = [peers EXCEPT ![d][offer.from] = [conn |-> offer.conn, secured |-> FALSE]]
  /\ answers' = answers \cup {[conn |-> offer.conn, from |-> d]}
  /\ scanned' = [scanned EXCEPT ![d] = @ \cup {offer}]
  /\ UNCHANGED <<start, macKey, stage, planned, directory, log, held, loaded, opened,
                 known, calls, pending, offers, applied>>

\* completeInvite: a reply whose invite is not waiting is tried on the newest
\* that is.  Bound: nobody scans the reply on its own screen.
Waiting(d, answer) ==
  IF answer.conn \in Range(pending[d]) THEN answer.conn ELSE Last(pending[d])
Complete(d, answer) ==
  /\ answer.from # d
  /\ pending[d] # << >>
  /\ \E conn \in {Waiting(d, answer)} :
       /\ pending' = [pending EXCEPT ![d] = SelectSeq(@, LAMBDA c : c # conn)]
       /\ applied' = [applied EXCEPT ![conn] = <<answer>>]
       /\ peers' = [peers EXCEPT ![d][answer.from] = [conn |-> conn, secured |-> FALSE]]
  /\ UNCHANGED <<start, pages, known, calls, offers, answers, scanned>>

\* The code of a seat carries the room and no connection.  Bound: one per device.
ScanSeatCode(d, e) ==
  /\ d \in start.seats /\ e # d
  /\ \A code \in scanned[d] : code.conn # None
  /\ Adopt(d, secret[e])
  /\ scanned' = [scanned EXCEPT ![d] = @ \cup {[conn |-> None, from |-> e, room |-> secret[e]]}]
  /\ UNCHANGED <<start, macKey, stage, planned, directory, log, held, loaded, opened,
                 mesh, pending, offers, answers, applied>>

---------------------------------------------------------------------------
(* The mesh *)

Unlinked(d, e) == peers[d][e] = NoLink /\ peers[e][d] = NoLink
Between(d, e, link) == [peers EXCEPT ![d][e] = link, ![e][d] = link]

\* The session is confirmed by the room secret, or the link is torn down.  Each
\* end learns the other's key, notes the device, and tells whom else it knows.
\* Assumption: a reply is carried by a person, who is slower than a key pair loads.
Handshake(d, e) ==
  /\ d < e /\ Opens(d, e) /\ ~Secured(d, e)
  /\ stage[d] # "loading" /\ stage[e] # "loading"
  /\ IF secret[d] = secret[e]
     THEN /\ peers' = Between(d, e, [peers[d][e] EXCEPT !.secured = TRUE])
          /\ directory' = [directory EXCEPT ![d] = @ \cup {e}, ![e] = @ \cup {d}]
          /\ log' = [log EXCEPT ![d] = @ \cup {Written(d, "seen", Tag(d))},
                                ![e] = @ \cup {Written(e, "seen", Tag(e))}]
          /\ known' = [known EXCEPT ![d] = @ \cup {e}, ![e] = @ \cup {d}]
          /\ calls' = [calls EXCEPT ![d] = @ \cup (Linked(e) \ {d}),
                                    ![e] = @ \cup (Linked(d) \ {e})]
     ELSE /\ peers' = Between(d, e, NoLink)
          /\ UNCHANGED <<directory, log, known, calls>>
  /\ UNCHANGED <<start, secret, macKey, deriving, stage, planned, held, loaded, opened, codes>>

\* connectTo, for a name of a roster: the smaller of two calls, if a third can
\* carry the signals and a transport can open between them.
Call(d, e) ==
  /\ e \in calls[d]
  /\ calls' = [calls EXCEPT ![d] = @ \ {e}]
  /\ peers' = IF d < e /\ Unlinked(d, e) /\ {d, e} \in start.near /\ SignalPath(d, e)
              THEN Between(d, e, [conn |-> Called, secured |-> FALSE]) ELSE peers
  /\ UNCHANGED <<start, pages, known, codes>>

\* redial, for a name of the roster on disk: whichever end asks, the smaller dials.
Redial(d, e) ==
  /\ e \in known[d] /\ Unlinked(d, e) /\ {d, e} \in start.near /\ SignalPath(d, e)
  /\ peers' = Between(d, e, [conn |-> Called, secured |-> FALSE])
  /\ UNCHANGED <<start, pages, known, calls, codes>>

\* What d's digest-answer holds for e, and what e makes of it.
Exchange(d, e) ==
  /\ Secured(d, e)
  /\ \E ops \in {Arriving(e, {o \in log[d] : o.n > Frontier(e, o.by)})} :
       /\ ~ Folded(e, ops) \subseteq log[e] \/ ~ (ops \ Folded(e, ops)) \subseteq held[e]
       /\ Ingest(e, ops)
  /\ UNCHANGED <<start, secret, macKey, deriving, stage, planned, loaded, opened, mesh, codes>>

\* An end notices that the other is gone.  The end that drew a code does not,
\* before its channel opened: its callback drops the link of nobody.
Drops(d, e) ==
  /\ peers' = [peers EXCEPT ![d][e] = NoLink]
  /\ UNCHANGED <<start, pages, known, calls, codes>>
Lost(d, e) ==
  /\ peers[d][e].secured \/ peers[d][e].conn = Called
  /\ peers[e][d].conn # peers[d][e].conn
  /\ Drops(d, e)
\* The end that scanned a code, whose reply nobody applies.
GivesUp(d, e) ==
  /\ \E code \in scanned[d] : code.conn = peers[d][e].conn /\ code.conn # None
  /\ ~peers[d][e].secured /\ ~Opens(d, e)
  /\ Drops(d, e)

Next ==
  \/ \E d \in Device : IdentityLoaded(d)
  \/ \E d \in Device : Provisioned(d)
  \/ \E d \in Device : \E room \in deriving[d] : RoomKeyDerived(d, room)
  \/ \E d \in Device : Reload(d)
  \/ \E d \in Device : Invite(d)
  \/ \E d \in Device : \E offer \in offers : Accept(d, offer)
  \/ \E d \in Device : \E answer \in answers : Complete(d, answer)
  \/ \E d, e \in Device : ScanSeatCode(d, e)
  \/ \E d, e \in Device : Handshake(d, e)
  \/ \E d, e \in Device : Call(d, e)
  \/ \E d, e \in Device : Redial(d, e)
  \/ \E d, e \in Device : Exchange(d, e)
  \/ \E d, e \in Device : Lost(d, e)
  \/ \E d, e \in Device : GivesUp(d, e)

Spec == Init /\ [][Next]_vars

\* What runs by itself, whoever does what.
Machine ==
  \E d \in Device :
    \/ IdentityLoaded(d) \/ Provisioned(d)
    \/ \E room \in deriving[d] : RoomKeyDerived(d, room)
    \/ \E e \in Device : \/ Handshake(d, e) \/ Call(d, e) \/ Redial(d, e)
                         \/ Exchange(d, e) \/ Lost(d, e)

\* Promises resolve, timers fire and channels deliver; what a person does, and
\* whether a page is opened again, is nobody's promise.
FairSpec == Spec /\ WF_vars(Machine)

---------------------------------------------------------------------------
(* Properties *)

\* A device holds nobody else's op of a room it has never been told of: ops that
\* came in while the page had no key, and were held, are looked at again before
\* they count (#drainQuarantine).
RoomsStayApart ==
  \A d \in Device : \A o \in log[d] :
    o.by # d => o.room \in {start.room[d]} \cup {code.room : code \in scanned[d]}

\* The two ends of an invite that was completed with a reply to it.
Ends(conn) ==
  {ends \in [offer : offers, answer : answers] :
     /\ ends.offer.conn = conn /\ ends.answer.conn = conn
     /\ applied[conn] = <<ends.answer>>}
Replied(conn) == \E ends \in Ends(conn) :
  /\ peers[ends.offer.from][ends.answer.from].conn = conn
  /\ peers[ends.answer.from][ends.offer.from].conn = conn
Joined(conn) == \E ends \in Ends(conn) : Secured(ends.offer.from, ends.answer.from)
Meddled(conn) == \E ends \in Ends(conn) :
  \/ opened[ends.offer.from] + opened[ends.answer.from] > 0
  \/ scanned[ends.offer.from] # {} \/ scanned[ends.answer.from] # {ends.offer}
  \/ \E other \in 1 .. MaxInvites \ {conn} : applied[other] = <<ends.answer>>
\* An invite that is scanned, and whose reply is scanned back, connects, even
\* with a second invite waiting and whoever is still loading, as long as neither
\* end follows another code or opens its page again, and the reply is used once
\* (a second time it would take the other invite, and the link's place).
RepliesConnect == \A conn \in 1 .. MaxInvites : Replied(conn) ~> (Joined(conn) \/ Meddled(conn))

Settled(d) == stage[d] = "up" /\ macKey[d] = secret[d]
Roommates(d, e) == d # e /\ Settled(d) /\ Settled(e) /\ secret[d] = secret[e] /\ Connected(d, e)
HasHeard(d, e) == {o \in OpsOf(e, e) : o.room = secret[d]} \subseteq log[d]
\* d can judge e's ops: they have shaken hands, or e announced itself in this
\* room since d's page was opened.
CanJudge(d, e) ==
  \/ Secured(d, e)
  \/ \E o \in OpsOf(e, e) \ loaded[d] : o.kind = "announce" /\ o.room = secret[d]
\* Whoever d can reach, directly or through one other, and can judge, is heard in
\* the end: what this room's members wrote since they joined it is folded at d,
\* whatever of it was held back or refused before.
HeardIsHeld ==
  <>[](\A d, e \in Device : Roommates(d, e) /\ CanJudge(d, e) => HasHeard(d, e))

\* js/sync.js: the relay from peer to peer "is what lets a node reach the whole
\* network through a chain of hops when it cannot open a direct channel".
NewcomersAreHeard ==
  <>[](\A d, e \in Device : Roommates(d, e) => HasHeard(d, e))
=============================================================================
