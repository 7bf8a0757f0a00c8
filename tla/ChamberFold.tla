----------------------------- MODULE ChamberFold -----------------------------
(***************************************************************************)
(* Who may do what in the chamber: the fold of the trust-binding ops.      *)
(*                                                                         *)
(* Authority in Cousin Congress is not stored anywhere: it is recomputed,  *)
(* by every replica, by folding the op log in its canonical order.  This   *)
(* module is that fold, as operators: `authorize' of js/authz.js, the      *)
(* trust reducers and `noteActivity' of js/crdt.js, and `applyOp' that     *)
(* joins them, over the part of the materialised state that authority      *)
(* reads.  Module Authority takes one step per op folded; module OpLog     *)
(* folds logs.                                                             *)
(*                                                                         *)
(* An op is authenticated before it reaches the fold (store.ingest), so    *)
(* the signer of an op is its kid.  NoKid is the kid of an op the fold     *)
(* meets before its signature is attached.                                 *)
(***************************************************************************)
EXTENDS Naturals, FiniteSets

CONSTANTS
  Member,     \* seats of the chamber
  Kid,        \* fingerprints of the device keys
  NoKid,      \* an op not signed yet
  NoSeat,     \* session.chairSeat before any op set it
  DormantFor, \* CHAIR_DORMANT_MS in the unit of the stamps
  MaxTime     \* the largest stamp an op carries (a stamp has a fixed width)

ASSUME DormantForAssumption == DormantFor \in Nat \ {0}
ASSUME MaxTimeAssumption == MaxTime \in Nat
ASSUME KidAssumption == NoKid \notin Kid /\ IsFiniteSet(Kid)
ASSUME MemberAssumption == NoSeat \notin Member /\ IsFiniteSet(Member)

Time == 0 .. MaxTime
Endorsement == [seat : Member, by : Member, kid : Kid \cup {NoKid}, at : Time]
Succession ==
  [seat : Member \cup {NoSeat}, at : Time, backers : Nat, of : Nat]
NoSuccession == [seat |-> NoSeat, at |-> 0, backers |-> 0, of |-> 0]

ChamberState ==
  [chairKeys     : SUBSET Kid,              \* session.chairKeys
   chairRequests : SUBSET Kid,              \* session.chairRequests
   chairSeat     : Member \cup {NoSeat},    \* session.chairSeat
   recovery      : BOOLEAN,                 \* session.chairRecovery has a pub
   petitions     : SUBSET Endorsement,      \* session.chairPetitions
   succession    : Succession,              \* session.chairSuccession
   lastOpAt      : Time,
   chairLastSeen : Time,
   members       : SUBSET Member,           \* records that exist
   tombstones    : SUBSET Member,           \* ... marked _deleted
   keys          : [Member -> SUBSET Kid],  \* members[id].keys
   pending       : [Member -> SUBSET Kid]]  \* members[id].pendingKeys

-----------------------------------------------------------------------------
(* Key bindings and standing *)

HasChair(s) == s.chairKeys # {}
IsChairKey(s, kid) == kid \in s.chairKeys
OwnsMember(s, m, kid) == kid \in s.keys[m]
MemberOwned(s, m) == s.keys[m] # {}
LiveMembers(s) == s.members \ s.tombstones

\* The chair, the seat's own key, or anyone while nobody has claimed the seat.
MemberScoped(s, m, kid) ==
  IsChairKey(s, kid) \/ OwnsMember(s, m, kid) \/ ~MemberOwned(s, m)

\* Endorsements that still count: the backer is seated and still holds the
\* key that signed.
LiveBackers(s, petitions, seat) ==
  {m \in LiveMembers(s) :
     \E e \in petitions : e.seat = seat /\ e.by = m /\ OwnsMember(s, m, e.kid)}

\* Mutant: half of the chamber is enough.
NeededHalf(s) ==
  LET half == (Cardinality(LiveMembers(s)) + 1) \div 2
  IN  IF half > 2 THEN half ELSE 2

Needed(s) ==
  LET twoThirds == (2 * Cardinality(LiveMembers(s)) + 2) \div 3
  IN  IF twoThirds > 2 THEN twoThirds ELSE 2

\* Mutant: the silence need not last the whole period.
ChairIsDormantTooSoon(s) ==
  \/ ~HasChair(s)
  \/ /\ s.chairLastSeen # 0
     /\ s.lastOpAt - s.chairLastSeen >= DormantFor - 1

ChairIsDormant(s) ==
  \/ ~HasChair(s)
  \/ /\ s.chairLastSeen # 0
     /\ s.lastOpAt - s.chairLastSeen >= DormantFor

-----------------------------------------------------------------------------
(* authorize(state, op): may the op change anything? *)

\* Mutant: the chamber counts as founded once it has a Chair's seat.
GovernsUntilSeated(s, kid) == IsChairKey(s, kid) \/ s.chairSeat = NoSeat

Governs(s, kid) == IsChairKey(s, kid) \/ ~HasChair(s)

MayPutMember(s, op) ==
  IF \/ op.how # "auth" /\ op.chairFields
     \/ op.how = "upsert" /\ op.member \notin s.members
  THEN Governs(s, op.kid)
  ELSE MemberScoped(s, op.member, op.kid)

Authorize(s, op) ==
  \/ op.kid = NoKid
  \/ CASE op.type = "chair.claim" -> Governs(s, op.kid)
       [] op.type = "chair.recover" -> s.recovery
       [] op.type \in {"chair.enroll", "member.enrollKey", "member.resetKeys"} ->
            IsChairKey(s, op.kid)
       [] op.type \in {"chair.petition", "chair.unpetition"} ->
            /\ {op.member, op.seat} \subseteq LiveMembers(s)
            /\ OwnsMember(s, op.member, op.kid)
       [] op.type \in {"chair.request", "member.requestKey", "other"} -> TRUE
       [] op.type = "member.claimKey" -> MemberScoped(s, op.member, op.kid)
       [] op.type = "session.set" -> Governs(s, op.kid)
       [] op.type = "member.put" -> MayPutMember(s, op)
       [] op.type = "member.retract" ->
            IsChairKey(s, op.kid) \/ OwnsMember(s, op.member, op.kid)

-----------------------------------------------------------------------------
(* The reducers *)

\* chair.claim binds the key and leaves a pending request of it alone.
ChairClaim(s, op) == [s EXCEPT !.chairKeys = @ \cup {op.key}]

\* chair.recover and chair.enroll bind the key and drop its request.
ChairAdd(s, op) ==
  [s EXCEPT !.chairKeys = @ \cup {op.key}, !.chairRequests = @ \ {op.key}]

ChairRequest(s, op) == [s EXCEPT !.chairRequests = @ \cup {op.key}]

\* session.set writes settings; everything the fold owns is stripped.  A
\* recovery verifier that could not be minted is written as null.
SessionSet(s, op) ==
  [s EXCEPT !.chairSeat = IF op.seat = NoSeat THEN @ ELSE op.seat,
            !.recovery = CASE op.recovery = "mint" -> TRUE
                           [] op.recovery = "null" -> FALSE
                           [] op.recovery = "absent" -> @]

\* Mutant: the record of a succession does not say of how many.
CarriedWithoutSize(s, op, backers) ==
  [s EXCEPT !.chairSeat = op.seat, !.chairKeys = {}, !.chairRequests = {},
            !.petitions = {},
            !.succession = [seat |-> op.seat, at |-> op.at,
                            backers |-> Cardinality(backers)]]

Carried(s, op, backers) ==
  [s EXCEPT !.chairSeat = op.seat,
            !.chairKeys = {},
            !.chairRequests = {},
            !.petitions = {},
            !.succession = [seat |-> op.seat, at |-> op.at,
                            backers |-> Cardinality(backers),
                            of |-> Cardinality(LiveMembers(s))]]

\* Mutant: an endorsement is found again by its key, not by its seat.
WithdrawnByKey(s, op) == {e \in s.petitions : e.seat # op.seat \/ e.kid # op.kid}

Withdrawn(s, op) == {e \in s.petitions : e.seat # op.seat \/ e.by # op.member}

Banked(s, op) ==
  Withdrawn(s, op) \cup
    {[seat |-> op.seat, by |-> op.member, kid |-> op.kid, at |-> op.at]}

ChairPetition(s, op) ==
  LET backers == LiveBackers(s, Banked(s, op), op.seat)
  IN  IF ~({op.seat, op.member} \subseteq LiveMembers(s)) THEN s
      ELSE IF Cardinality(backers) >= Needed(s) /\ ChairIsDormant(s)
           THEN Carried(s, op, backers)
           ELSE [s EXCEPT !.petitions = Banked(s, op)]

ChairUnpetition(s, op) == [s EXCEPT !.petitions = Withdrawn(s, op)]

\* Mutant: a granted key stays on the list of requests.
MemberGrantKeepsRequest(s, op) ==
  IF op.member \notin s.members THEN s
  ELSE [s EXCEPT !.keys[op.member] = @ \cup {op.key}]

\* member.claimKey and member.enrollKey grant the key and drop its request.
MemberGrant(s, op) ==
  IF op.member \notin s.members THEN s
  ELSE [s EXCEPT !.keys[op.member] = @ \cup {op.key},
                 !.pending[op.member] = @ \ {op.key}]

\* Mutant: a request is granted on the spot.
MemberRequestGrants(s, op) == MemberGrant(s, op)

MemberRequest(s, op) ==
  IF op.member \notin s.members \/ OwnsMember(s, op.member, op.key) THEN s
  ELSE [s EXCEPT !.pending[op.member] = @ \cup {op.key}]

MemberReset(s, op) ==
  IF op.member \notin s.members THEN s
  ELSE [s EXCEPT !.keys[op.member] = {}, !.pending[op.member] = {}]

\* The fields the fold keeps in a member's record that the payload of a put may
\* carry.  Only the Chair's fields are screened, so these are merged as they
\* come; a member.auth writes nothing but the password.
IsPatch(p) ==
  /\ DOMAIN p \subseteq {"keys", "pendingKeys", "_deleted"}
  /\ "keys" \in DOMAIN p => p["keys"] \subseteq Kid
  /\ "pendingKeys" \in DOMAIN p => p["pendingKeys"] \subseteq Kid
  /\ "_deleted" \in DOMAIN p => p["_deleted"] \in BOOLEAN

Merged(patch, field, old) == IF field \in DOMAIN patch THEN patch[field] ELSE old

\* member.upsert, member.presence and member.auth: `put' creates the record
\* when there is none, and every field of the payload replaces the record's.
MemberPut(s, op) ==
  LET m == op.member
  IN  [s EXCEPT !.members = @ \cup {m},
                !.keys[m] = Merged(op.patch, "keys", @),
                !.pending[m] = Merged(op.patch, "pendingKeys", @),
                !.tombstones = IF Merged(op.patch, "_deleted", m \in @)
                               THEN @ \cup {m} ELSE @ \ {m}]

MemberRetract(s, op) ==
  [s EXCEPT !.members = @ \cup {op.member},
            !.tombstones = @ \cup {op.member}]

Reduce(s, op) ==
  CASE op.type = "chair.claim" -> ChairClaim(s, op)
    [] op.type \in {"chair.recover", "chair.enroll"} -> ChairAdd(s, op)
    [] op.type = "chair.request" -> ChairRequest(s, op)
    [] op.type = "chair.petition" -> ChairPetition(s, op)
    [] op.type = "chair.unpetition" -> ChairUnpetition(s, op)
    [] op.type = "session.set" -> SessionSet(s, op)
    [] op.type \in {"member.claimKey", "member.enrollKey"} -> MemberGrant(s, op)
    [] op.type = "member.requestKey" -> MemberRequest(s, op)
    [] op.type = "member.resetKeys" -> MemberReset(s, op)
    [] op.type = "member.put" -> MemberPut(s, op)
    [] op.type = "member.retract" -> MemberRetract(s, op)
    [] op.type = "other" -> s

-----------------------------------------------------------------------------
(* applyOp *)

Later(a, b) == IF a > b THEN a ELSE b

\* Mutant: an act of the Chair leaves the endorsements standing.
NoteActivityKeepsPetitions(s, op) ==
  [s EXCEPT !.lastOpAt = Later(op.at, @),
            !.chairLastSeen = IF IsChairKey(s, op.kid) THEN Later(op.at, @) ELSE @]

\* The two clocks of the succession rule, read after the reducer ran, and the
\* sweep of every petition when a Chair device acted.
NoteActivity(s, op) ==
  LET chair == IsChairKey(s, op.kid)
  IN  [s EXCEPT !.lastOpAt = Later(op.at, @),
                !.chairLastSeen = IF chair THEN Later(op.at, @) ELSE @,
                !.petitions = IF chair THEN {} ELSE @]

Reduced(s, op) == IF Authorize(s, op) THEN Reduce(s, op) ELSE s

\* Mutant: activity is noted before the reducer runs.
ApplyOpNotedFirst(s, op) == Reduced(NoteActivity(s, op), op)

\* Mutant: a refused op is not noted.
ApplyOpSkipsRefused(s, op) ==
  IF Authorize(s, op) THEN NoteActivity(Reduce(s, op), op) ELSE s

ApplyOp(s, op) == NoteActivity(Reduced(s, op), op)

\* The state before anything but the shipped seed is folded.  The seed seats
\* example members; its ops carry a stamp older than any device's.
Seeded(seated) ==
  [chairKeys |-> {}, chairRequests |-> {}, chairSeat |-> NoSeat,
   recovery |-> FALSE, petitions |-> {}, succession |-> NoSuccession,
   lastOpAt |-> 0, chairLastSeen |-> 0,
   members |-> seated, tombstones |-> {},
   keys |-> [m \in Member |-> {}], pending |-> [m \in Member |-> {}]]
=============================================================================
