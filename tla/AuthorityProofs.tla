--------------------------- MODULE AuthorityProofs ---------------------------
(***************************************************************************)
(* Theorems about the fold of module Authority, for every chamber: any     *)
(* finite sets of seats and of device keys, any dormancy period.           *)
(*                                                                         *)
(* A step of the fold is a reducer followed by the bookkeeping of          *)
(* noteActivity.  The lemmas follow that cut: what any reducer may do to   *)
(* the state (the Frame lemmas, one case per reducer), then what the two   *)
(* stages do together, and the inductive invariant on top.                 *)
(***************************************************************************)
EXTENDS Authority, FiniteSetTheorems, TLAPS

\* The ops the state machine folds: authenticated ops, shaped as their senders
\* build them.
IsOp(op) ==
  /\ op.kid \in Kid
  /\ op.at \in Time
  /\ \/ /\ op.type \in {"chair.claim", "chair.recover", "chair.request"}
        /\ op.key = op.kid
     \/ op.type = "chair.enroll" /\ op.key \in Kid
     \/ /\ op.type \in {"chair.petition", "chair.unpetition"}
        /\ op.member \in Member /\ op.seat \in Member
     \/ /\ op.type = "session.set"
        /\ op.seat \in Member \cup {NoSeat}
        /\ op.recovery \in {"mint", "null", "absent"}
     \/ /\ op.type \in {"member.claimKey", "member.requestKey"}
        /\ op.member \in Member /\ op.key = op.kid
     \/ op.type = "member.enrollKey" /\ op.member \in Member /\ op.key \in Kid
     \/ /\ op.type \in {"member.resetKeys", "member.retract"}
        /\ op.member \in Member
     \/ op.type = "member.put" /\ op.member \in Member /\ IsPatch(op.patch)
     \/ op.type = "other"

\* Every step of the fold applies one such op.
LEMMA NextFoldsAnOp == Next => \E op : IsOp(op) /\ FoldOp(op)
<1> SUFFICES ASSUME Next PROVE \E op : IsOp(op) /\ FoldOp(op)
  OBVIOUS
<1> PICK kid \in Kid, at \in Time :
      \/ ClaimChair(kid, at)
      \/ RecoverChair(kid, at)
      \/ \E key \in Kid : EnrollChair(kid, key, at)
      \/ RequestChair(kid, at)
      \/ \E by, seat \in Member : Petition(kid, by, seat, at)
      \/ \E by, seat \in Member : Unpetition(kid, by, seat, at)
      \/ \E seat \in Member \cup {NoSeat}, r \in {"mint", "null", "absent"} :
           SetSession(kid, seat, r, at)
      \/ \E m \in Member : ClaimSeat(kid, m, at)
      \/ \E m \in Member : RequestSeat(kid, m, at)
      \/ \E m \in Member, key \in Kid : EnrollSeat(kid, m, key, at)
      \/ \E m \in Member : ResetSeat(kid, m, at)
      \/ \E m \in Member, how \in {"upsert", "presence"}, c \in BOOLEAN,
            patch \in Patches :
           PutMember(kid, m, how, c, patch, at)
      \/ \E m \in Member : SetPassword(kid, m, at)
      \/ \E m \in Member : RetractMember(kid, m, at)
      \/ OtherOp(kid, at)
  BY DEF Next
<1>1. CASE ClaimChair(kid, at) \/ RecoverChair(kid, at) \/ RequestChair(kid, at)
  BY <1>1 DEF ClaimChair, RecoverChair, RequestChair, IsOp
<1>2. CASE \E key \in Kid : EnrollChair(kid, key, at)
  BY <1>2 DEF EnrollChair, IsOp
<1>3. CASE \E by, seat \in Member : Petition(kid, by, seat, at)
  BY <1>3 DEF Petition, IsOp
<1>4. CASE \E by, seat \in Member : Unpetition(kid, by, seat, at)
  BY <1>4 DEF Unpetition, IsOp
<1>5. CASE \E seat \in Member \cup {NoSeat}, r \in {"mint", "null", "absent"} :
             SetSession(kid, seat, r, at)
  BY <1>5 DEF SetSession, IsOp
<1>6. CASE \E m \in Member : ClaimSeat(kid, m, at) \/ RequestSeat(kid, m, at)
  BY <1>6 DEF ClaimSeat, RequestSeat, IsOp
<1>7. CASE \E m \in Member, key \in Kid : EnrollSeat(kid, m, key, at)
  BY <1>7 DEF EnrollSeat, IsOp
<1>8. CASE \E m \in Member : ResetSeat(kid, m, at) \/ RetractMember(kid, m, at)
  BY <1>8 DEF ResetSeat, RetractMember, IsOp
<1>9. CASE \E m \in Member, how \in {"upsert", "presence"}, c \in BOOLEAN,
              patch \in Patches :
             PutMember(kid, m, how, c, patch, at)
  BY <1>9, PatchesAssumption DEF PutMember, IsOp
<1>10. CASE OtherOp(kid, at)
  BY <1>10 DEF OtherOp, IsOp
<1>11. CASE \E m \in Member : SetPassword(kid, m, at)
  BY <1>11 DEF SetPassword, IsOp, IsPatch
<1> QED
  BY <1>1, <1>2, <1>3, <1>4, <1>5, <1>6, <1>7, <1>8, <1>9, <1>10, <1>11

-----------------------------------------------------------------------------
(* What a reducer may do to the state s, r being the state it leaves *)

\* It keeps the two clocks to noteActivity; a key that gains the gavel does so
\* by an op whose signer holds it afterwards; a new endorsement carries the
\* op's stamp; the roster stays coherent and a seat keeps one voice.
Frame(s, op, r) ==
  /\ r \in ChamberState
  /\ r.lastOpAt = s.lastOpAt /\ r.chairLastSeen = s.chairLastSeen
  /\ r.chairKeys \ s.chairKeys # {} => op.kid \in r.chairKeys
  /\ \A e \in r.petitions : e \in s.petitions \/ e.at = op.at
  /\ CoherentRoster(s) => CoherentRoster(r)
  /\ OneVoice(s) => OneVoice(r)

\* It changes the authority only by the rules.
ByRule(s, op, r) ==
  /\ \A k \in r.chairKeys \ s.chairKeys :
       \/ ~HasChair(s)
       \/ op.kid \in s.chairKeys
       \/ op.kid = k /\ s.recovery
  /\ ~(s.chairKeys \subseteq r.chairKeys) =>
       r.chairKeys = {} /\ r.chairSeat = r.succession.seat
  /\ \A m \in Member :
       /\ r.keys[m] # s.keys[m] =>
            MemberScoped(s, m, op.kid) \/ (~HasChair(s) /\ m \in WrittenOut(op))
       /\ ~(s.keys[m] \subseteq r.keys[m]) =>
            IsChairKey(s, op.kid) \/ m \in WrittenOut(op)
       /\ ~(Waiting(r, m) \subseteq Waiting(s, m)) => m \in WrittenOut(op)

Framed(s, op, r) == Frame(s, op, r) /\ ByRule(s, op, r)

LEMMA FrameOfNothing ==
  ASSUME NEW s \in ChamberState, NEW op
  PROVE  Framed(s, op, s)
  BY DEF Framed, Frame, ByRule, Waiting, ChamberState

LEMMA FrameChairClaim ==
  ASSUME NEW s \in ChamberState, NEW op, op.kid \in Kid, op.key = op.kid,
         Governs(s, op.kid)
  PROVE  Framed(s, op, ChairClaim(s, op))
  BY DEF ChairClaim, Governs, HasChair, IsChairKey, Framed, Frame, ByRule,
         Waiting, ChamberState, CoherentRoster, OneVoice

LEMMA FrameChairAdd ==
  ASSUME NEW s \in ChamberState, NEW op, op.kid \in Kid, op.key \in Kid,
         op.kid \in s.chairKeys \/ (op.key = op.kid /\ s.recovery)
  PROVE  Framed(s, op, ChairAdd(s, op))
<1>1. Frame(s, op, ChairAdd(s, op))
  BY DEF ChairAdd, Frame, ChamberState, CoherentRoster, OneVoice
<1>2. ByRule(s, op, ChairAdd(s, op))
  BY DEF ChairAdd, ByRule, Waiting, ChamberState
<1> QED
  BY <1>1, <1>2 DEF Framed

LEMMA FrameChairRequest ==
  ASSUME NEW s \in ChamberState, NEW op, op.key \in Kid
  PROVE  Framed(s, op, ChairRequest(s, op))
  BY DEF ChairRequest, Framed, Frame, ByRule, Waiting, ChamberState,
         CoherentRoster, OneVoice

LEMMA FrameSessionSet ==
  ASSUME NEW s \in ChamberState, NEW op, op.seat \in Member \cup {NoSeat},
         op.recovery \in {"mint", "null", "absent"}
  PROVE  Framed(s, op, SessionSet(s, op))
<1>1. ASSUME NEW seat \in Member \cup {NoSeat}, NEW recovery \in BOOLEAN
      PROVE  Framed(s, op, [s EXCEPT !.chairSeat = seat, !.recovery = recovery])
  BY DEF Framed, Frame, ByRule, Waiting, ChamberState,
         CoherentRoster, OneVoice
<1>2. s.chairSeat \in Member \cup {NoSeat} /\ s.recovery \in BOOLEAN
  BY DEF ChamberState
<1> DEFINE seat == IF op.seat = NoSeat THEN s.chairSeat ELSE op.seat
           recovery == CASE op.recovery = "mint" -> TRUE
                         [] op.recovery = "null" -> FALSE
                         [] op.recovery = "absent" -> s.recovery
<1>3. seat \in Member \cup {NoSeat} /\ recovery \in BOOLEAN
  BY <1>2
<1>4. SessionSet(s, op) = [s EXCEPT !.chairSeat = seat, !.recovery = recovery]
  BY DEF SessionSet
<1> HIDE DEF seat, recovery
<1> QED
  BY <1>1, <1>3, <1>4

LEMMA FrameMemberGrant ==
  ASSUME NEW s \in ChamberState, NEW op, op.member \in Member, op.key \in Kid,
         MemberScoped(s, op.member, op.kid)
  PROVE  Framed(s, op, MemberGrant(s, op))
<1>1. Frame(s, op, MemberGrant(s, op))
  BY DEF MemberGrant, Frame, ChamberState, CoherentRoster, OneVoice
<1>2. ByRule(s, op, MemberGrant(s, op))
  BY DEF MemberGrant, ByRule, Waiting, ChamberState
<1> QED
  BY <1>1, <1>2 DEF Framed

LEMMA FrameMemberRequest ==
  ASSUME NEW s \in ChamberState, NEW op, op.member \in Member, op.key \in Kid
  PROVE  Framed(s, op, MemberRequest(s, op))
  BY DEF MemberRequest, OwnsMember, Framed, Frame, ByRule, Waiting, ChamberState,
         CoherentRoster, OneVoice

LEMMA FrameMemberReset ==
  ASSUME NEW s \in ChamberState, NEW op, op.member \in Member,
         IsChairKey(s, op.kid)
  PROVE  Framed(s, op, MemberReset(s, op))
<1>1. Frame(s, op, MemberReset(s, op))
  BY DEF MemberReset, Frame, ChamberState, CoherentRoster, OneVoice
<1>2. ByRule(s, op, MemberReset(s, op))
  <2>1. MemberReset(s, op).chairKeys = s.chairKeys
    BY DEF MemberReset, ChamberState
  <2>2. \A m \in Member :
          \/ /\ MemberReset(s, op).keys[m] = s.keys[m]
             /\ MemberReset(s, op).pending[m] = s.pending[m]
          \/ /\ MemberReset(s, op).keys[m] = {}
             /\ m = op.member
    BY DEF MemberReset, ChamberState
  <2> QED
    BY <2>1, <2>2 DEF ByRule, Waiting, MemberScoped
<1> QED
  BY <1>1, <1>2 DEF Framed

LEMMA FrameMemberRetract ==
  ASSUME NEW s \in ChamberState, NEW op, op.member \in Member
  PROVE  Framed(s, op, MemberRetract(s, op))
  BY DEF MemberRetract, Framed, Frame, ByRule, Waiting, ChamberState,
         CoherentRoster, OneVoice

\* A put touches one record; it changes the keys or the requests of the seat
\* only by writing them out.
LEMMA FrameMemberPut ==
  ASSUME NEW s \in ChamberState, NEW op, op.member \in Member,
         op.type = "member.put", IsPatch(op.patch), MayPutMember(s, op)
  PROVE  Framed(s, op, MemberPut(s, op))
<1> DEFINE m == op.member
           held == Merged(op.patch, "keys", s.keys[m])
           asked == Merged(op.patch, "pendingKeys", s.pending[m])
           stones == IF Merged(op.patch, "_deleted", m \in s.tombstones)
                     THEN s.tombstones \cup {m} ELSE s.tombstones \ {m}
<1>1. /\ s.keys \in [Member -> SUBSET Kid] /\ s.pending \in [Member -> SUBSET Kid]
      /\ s.tombstones \in SUBSET Member
  BY DEF ChamberState
<1>2. held \in SUBSET Kid /\ asked \in SUBSET Kid
  BY <1>1 DEF IsPatch, Merged
<1>3. stones \in SUBSET Member /\ stones \subseteq s.tombstones \cup {m}
  BY <1>1
<1>4. held # s.keys[m] \/ asked # s.pending[m] => m \in WrittenOut(op)
  BY DEF WrittenOut, Merged
<1>5. IsChairKey(s, op.kid) \/ ~HasChair(s) \/ MemberScoped(s, m, op.kid)
  BY DEF MayPutMember, Governs
<1> DEFINE Put(k, p, t) ==
      [s EXCEPT !.members = @ \cup {m}, !.keys[m] = k, !.pending[m] = p,
                !.tombstones = t]
<1>6. MemberPut(s, op) = Put(held, asked, stones)
  BY DEF MemberPut
<1> HIDE DEF held, asked, stones
<1>7. Frame(s, op, Put(held, asked, stones))
  <2>1. Put(held, asked, stones) \in ChamberState
    BY <1>2, <1>3 DEF ChamberState
  <2>2. /\ Put(held, asked, stones).members = s.members \cup {m}
        /\ Put(held, asked, stones).tombstones = stones
        /\ Put(held, asked, stones).petitions = s.petitions
        /\ Put(held, asked, stones).chairKeys = s.chairKeys
        /\ Put(held, asked, stones).lastOpAt = s.lastOpAt
        /\ Put(held, asked, stones).chairLastSeen = s.chairLastSeen
        /\ \A n \in Member \ {m} :
             /\ Put(held, asked, stones).keys[n] = s.keys[n]
             /\ Put(held, asked, stones).pending[n] = s.pending[n]
    BY <1>1 DEF ChamberState
  <2> HIDE DEF Put
  <2>3. CoherentRoster(s) => CoherentRoster(Put(held, asked, stones))
    BY <1>3, <2>2 DEF CoherentRoster
  <2> QED
    BY <2>1, <2>2, <2>3 DEF Frame, OneVoice
<1>8. ByRule(s, op, Put(held, asked, stones))
  <2>1. \A n \in Member : n # m \/ (held = s.keys[m] /\ asked = s.pending[m]) =>
          /\ Put(held, asked, stones).keys[n] = s.keys[n]
          /\ Put(held, asked, stones).pending[n] = s.pending[n]
    BY <1>1 DEF ChamberState
  <2>2. Put(held, asked, stones).chairKeys = s.chairKeys
    BY DEF ChamberState
  <2>3. Put(held, asked, stones).keys[m] = held
    BY <1>1 DEF ChamberState
  <2> HIDE DEF Put
  <2> QED
    BY <1>4, <1>5, <2>1, <2>2, <2>3 DEF ByRule, Waiting, MemberScoped
<1> QED
  BY <1>6, <1>7, <1>8 DEF Framed

LEMMA BackersCounted ==
  ASSUME NEW s \in ChamberState, NEW petitions, NEW seat
  PROVE  /\ IsFiniteSet(LiveBackers(s, petitions, seat))
         /\ Cardinality(LiveBackers(s, petitions, seat)) \in Nat
         /\ IsFiniteSet(LiveMembers(s))
         /\ Cardinality(LiveMembers(s)) \in Nat
<1>1. LiveBackers(s, petitions, seat) \subseteq Member
  BY DEF LiveBackers, LiveMembers, ChamberState
<1>2. LiveMembers(s) \subseteq Member
  BY DEF LiveMembers, ChamberState
<1> QED
  BY <1>1, <1>2, MemberAssumption, FS_Subset, FS_CardinalityType

LEMMA FramePetitions ==
  ASSUME NEW s \in ChamberState, NEW op, op.kid \in Kid, op.at \in Time,
         op.member \in Member, op.seat \in Member
  PROVE  Framed(s, op, ChairPetition(s, op)) /\ Framed(s, op, ChairUnpetition(s, op))
<1> DEFINE backers == LiveBackers(s, Banked(s, op), op.seat)
<1>1. Withdrawn(s, op) \subseteq Endorsement /\ Banked(s, op) \subseteq Endorsement
  BY DEF Banked, Withdrawn, ChamberState, Endorsement
<1>2. Framed(s, op, ChairUnpetition(s, op))
  BY <1>1 DEF ChairUnpetition, Withdrawn, Framed, Frame, ByRule, Waiting, ChamberState,
              CoherentRoster, OneVoice
<1>3. Framed(s, op, Carried(s, op, backers))
  <2>1. Carried(s, op, backers) \in ChamberState
    BY BackersCounted DEF Carried, ChamberState, Succession
  <2> QED
    BY <2>1 DEF Carried, Framed, Frame, ByRule, Waiting, ChamberState,
         CoherentRoster, OneVoice
<1>4. ASSUME {op.seat, op.member} \subseteq LiveMembers(s)
      PROVE  Framed(s, op, [s EXCEPT !.petitions = Banked(s, op)])
  BY <1>1, <1>4 DEF Banked, Withdrawn, LiveMembers, Framed, Frame, ByRule, Waiting,
                    ChamberState, CoherentRoster, OneVoice
<1>5. Framed(s, op, ChairPetition(s, op))
  BY <1>3, <1>4, FrameOfNothing DEF ChairPetition
<1> QED
  BY <1>2, <1>5

\* Every authorised op stays within the frame, whatever its type.
LEMMA ReducerFrame ==
  ASSUME NEW s \in ChamberState, NEW op, IsOp(op)
  PROVE  Framed(s, op, Reduced(s, op))
<1>1. op.kid \in Kid /\ op.kid # NoKid /\ op.at \in Time
  BY KidAssumption DEF IsOp
<1>2. CASE ~Authorize(s, op)
  BY <1>2, FrameOfNothing DEF Reduced
<1>3. CASE Authorize(s, op)
  <2>1. Reduced(s, op) = Reduce(s, op)
    BY <1>3 DEF Reduced
  <2>2. CASE op.type = "chair.claim"
    BY <1>1, <1>3, <2>1, <2>2, FrameChairClaim DEF IsOp, Reduce, Authorize
  <2>3. CASE op.type \in {"chair.recover", "chair.enroll"}
    BY <1>1, <1>3, <2>1, <2>3, FrameChairAdd DEF IsOp, Reduce, Authorize, IsChairKey
  <2>4. CASE op.type = "chair.request"
    BY <1>1, <2>1, <2>4, FrameChairRequest DEF IsOp, Reduce
  <2>5. CASE op.type \in {"chair.petition", "chair.unpetition"}
    BY <1>1, <2>1, <2>5, FramePetitions DEF IsOp, Reduce
  <2>6. CASE op.type = "session.set"
    BY <2>1, <2>6, FrameSessionSet DEF IsOp, Reduce
  <2>7. CASE op.type \in {"member.claimKey", "member.enrollKey"}
    BY <1>1, <1>3, <2>1, <2>7, FrameMemberGrant
       DEF IsOp, Reduce, Authorize, MemberScoped
  <2>8. CASE op.type = "member.requestKey"
    BY <1>1, <2>1, <2>8, FrameMemberRequest DEF IsOp, Reduce
  <2>9. CASE op.type = "member.resetKeys"
    BY <1>1, <1>3, <2>1, <2>9, FrameMemberReset DEF IsOp, Reduce, Authorize
  <2>10. CASE op.type = "member.retract"
    BY <2>1, <2>10, FrameMemberRetract DEF IsOp, Reduce
  <2>12. CASE op.type = "member.put"
    BY <1>1, <1>3, <2>1, <2>12, FrameMemberPut DEF IsOp, Reduce, Authorize
  <2>11. CASE op.type = "other"
    BY <2>1, <2>11, FrameOfNothing DEF Reduce
  <2> QED
    BY <2>2, <2>3, <2>4, <2>5, <2>6, <2>7, <2>8, <2>9, <2>10, <2>11, <2>12
       DEF IsOp
<1> QED
  BY <1>2, <1>3

-----------------------------------------------------------------------------
(* The inductive invariant *)

\* The invariants of Authority need two facts about the clocks to be
\* inductive: nothing is newer than the newest op, and no endorsement is older
\* than the newest act of a Chair, even of a Chair deposed since.
ClocksAgree ==
  /\ state.chairLastSeen <= state.lastOpAt
  /\ \A k \in Kid : acted[k] <= state.lastOpAt
  /\ \A e \in state.petitions : state.chairLastSeen <= e.at

IInv ==
  /\ TypeOK
  /\ ClocksAgree
  /\ ChairHasBeenSeen
  /\ ChairLastSeenCoversEveryAct
  /\ RosterCoherent
  /\ OneEndorsementPerSeat

LEMMA InitInvariant == Init => IInv
<1> SUFFICES ASSUME NEW seated \in SUBSET Member, state = Seeded(seated),
                    signer = NoKid, wrote = {}, acted = [k \in Kid |-> 0]
             PROVE  IInv
  BY DEF Init
<1>1. 0 \in Time
  BY MaxTimeAssumption DEF Time
<1>2. Seeded(seated) \in ChamberState
  BY <1>1 DEF Seeded, ChamberState, Succession, NoSuccession
<1>3. TypeOK
  BY <1>1, <1>2 DEF TypeOK
<1> QED
  BY <1>3 DEF IInv, ClocksAgree, ChairHasBeenSeen, ChairLastSeenCoversEveryAct,
              RosterCoherent, CoherentRoster, OneEndorsementPerSeat, OneVoice,
              HasChair, Seeded

\* The fields noteActivity leaves alone.
Rest(s, n) ==
  /\ n.chairKeys = s.chairKeys
  /\ n.chairRequests = s.chairRequests
  /\ n.chairSeat = s.chairSeat
  /\ n.succession = s.succession
  /\ n.members = s.members
  /\ n.tombstones = s.tombstones
  /\ n.keys = s.keys
  /\ n.pending = s.pending

\* What noteActivity adds to a reducer's frame, given the canonical order.
LEMMA NoteActivityFields ==
  ASSUME NEW s \in ChamberState, NEW op, op.at \in Time, s.lastOpAt <= op.at,
         NEW n, n = NoteActivity(s, op)
  PROVE  /\ n \in ChamberState
         /\ Rest(s, n)
         /\ n.lastOpAt = op.at
         /\ n.chairLastSeen = IF op.kid \in s.chairKeys
                              THEN Later(op.at, s.chairLastSeen)
                              ELSE s.chairLastSeen
         /\ n.petitions = IF op.kid \in s.chairKeys THEN {} ELSE s.petitions
<1> DEFINE Noted(a, b, c) ==
      n = [s EXCEPT !.lastOpAt = a, !.chairLastSeen = b, !.petitions = c]
<1>1. ASSUME NEW a \in Time, NEW b \in Time, NEW c \in SUBSET Endorsement,
             Noted(a, b, c)
      PROVE  /\ n \in ChamberState /\ Rest(s, n)
             /\ n.lastOpAt = a /\ n.chairLastSeen = b /\ n.petitions = c
  BY <1>1 DEF ChamberState, Rest
<1>2. /\ s.petitions \in SUBSET Endorsement
      /\ s.lastOpAt \in Time /\ s.chairLastSeen \in Time
  BY DEF ChamberState
<1>3. Later(op.at, s.lastOpAt) = op.at /\ Later(op.at, s.chairLastSeen) \in Time
  BY <1>2, MaxTimeAssumption DEF Later, Time
<1>4. CASE op.kid \in s.chairKeys
  <2>1. Noted(op.at, Later(op.at, s.chairLastSeen), {})
    BY <1>3, <1>4 DEF NoteActivity, IsChairKey
  <2> HIDE DEF Noted
  <2> QED
    BY <1>1, <1>3, <1>4, <2>1
<1>5. CASE op.kid \notin s.chairKeys
  <2>1. Noted(op.at, s.chairLastSeen, s.petitions)
    BY <1>3, <1>5 DEF NoteActivity, IsChairKey
  <2> HIDE DEF Noted
  <2> QED
    BY <1>1, <1>2, <1>5, <2>1
<1> QED
  BY <1>4, <1>5

LEMMA StepInvariant ==
  ASSUME IInv, NEW op, IsOp(op), FoldOp(op)
  PROVE  IInv'
<1> DEFINE r == Reduced(state, op)
<1>1. state \in ChamberState /\ acted \in [Kid -> Time]
  BY DEF IInv, TypeOK
<1>2. op.kid \in Kid /\ op.at \in Time /\ op.at # 0 /\ state.lastOpAt <= op.at
  BY DEF IsOp, FoldOp, CanonicalAt
<1>3. /\ state' = NoteActivity(r, op)
      /\ signer' = op.kid
      /\ acted' = [acted EXCEPT ![op.kid] = op.at]
  BY DEF FoldOp, ApplyOp
<1>4. Frame(state, op, r)
  BY <1>1, ReducerFrame DEF Framed
<1> HIDE DEF r
<1>5. r \in ChamberState /\ r.lastOpAt = state.lastOpAt
  BY <1>4 DEF Frame
<1>6. /\ state' \in ChamberState
      /\ state'.lastOpAt = op.at
      /\ state'.chairLastSeen = IF op.kid \in r.chairKeys
                                THEN Later(op.at, r.chairLastSeen)
                                ELSE r.chairLastSeen
      /\ state'.petitions = IF op.kid \in r.chairKeys THEN {} ELSE r.petitions
      /\ state'.chairKeys = r.chairKeys
      /\ state'.members = r.members
      /\ state'.tombstones = r.tombstones
      /\ state'.keys = r.keys
      /\ state'.pending = r.pending
  BY <1>2, <1>3, <1>5, NoteActivityFields DEF Rest
<1>7. TypeOK'
  <2>1. wrote' \subseteq Member
    BY DEF FoldOp, WrittenOut
  <2> QED
    BY <1>1, <1>2, <1>3, <1>6, <2>1 DEF TypeOK
<1>8. /\ state.chairLastSeen \in Nat /\ state.lastOpAt \in Nat /\ op.at \in Nat
      /\ state.chairLastSeen <= state.lastOpAt
      /\ r.chairLastSeen = state.chairLastSeen
  BY <1>1, <1>2, <1>4 DEF IInv, ClocksAgree, Frame, ChamberState, Time
<1>9. \/ op.kid \in r.chairKeys /\ state'.chairLastSeen = op.at
      \/ op.kid \notin r.chairKeys /\ state'.chairLastSeen = state.chairLastSeen
  BY <1>2, <1>6, <1>8 DEF Later
<1>10. ClocksAgree'
  <2>1. state'.chairLastSeen <= state'.lastOpAt
    BY <1>2, <1>6, <1>8, <1>9
  <2>2. \A k \in Kid : acted'[k] <= state'.lastOpAt
    <3> SUFFICES ASSUME NEW k \in Kid PROVE acted'[k] <= state'.lastOpAt
      OBVIOUS
    <3>1. acted[k] <= state.lastOpAt /\ acted[k] \in Nat
      BY <1>1 DEF IInv, ClocksAgree, Time
    <3> QED
      BY <1>1, <1>2, <1>3, <1>6, <1>8, <3>1
  <2>3. \A e \in state'.petitions : state'.chairLastSeen <= e.at
    <3> SUFFICES ASSUME NEW e \in state'.petitions
                 PROVE  state'.chairLastSeen <= e.at
      OBVIOUS
    <3>1. op.kid \notin r.chairKeys /\ e \in r.petitions
      BY <1>6
    <3>2. e \in state.petitions \/ e.at = op.at
      BY <1>4, <3>1 DEF Frame
    <3> QED
      BY <1>2, <1>8, <1>9, <3>1, <3>2 DEF IInv, ClocksAgree
  <2> QED
    BY <2>1, <2>2, <2>3 DEF ClocksAgree
<1>11. ChairHasBeenSeen'
  <2> SUFFICES ASSUME r.chairKeys # {}
               PROVE  state'.chairLastSeen \in 1 .. state'.lastOpAt
    BY <1>6 DEF ChairHasBeenSeen, HasChair
  <2>1. CASE op.kid \in r.chairKeys
    BY <1>2, <1>6, <1>8, <1>9, <2>1
  <2>2. CASE op.kid \notin r.chairKeys
    <3>1. state.chairKeys # {}
      BY <1>4, <2>2 DEF Frame
    <3> QED
      BY <1>2, <1>6, <1>8, <1>9, <2>2, <3>1 DEF IInv, ChairHasBeenSeen, HasChair
  <2> QED
    BY <2>1, <2>2
<1>12. ChairLastSeenCoversEveryAct'
  <2> SUFFICES ASSUME NEW k \in r.chairKeys
               PROVE  acted'[k] <= state'.chairLastSeen
    BY <1>6 DEF ChairLastSeenCoversEveryAct
  <2>1. k \in Kid
    BY <1>5 DEF ChamberState
  <2>2. acted[k] <= state.lastOpAt /\ acted[k] \in Nat
    BY <1>1, <2>1 DEF IInv, ClocksAgree, Time
  <2>3. CASE op.kid \in r.chairKeys
    BY <1>1, <1>2, <1>3, <1>8, <1>9, <2>1, <2>2, <2>3
  <2>4. CASE op.kid \notin r.chairKeys
    <3>1. k \in state.chairKeys /\ k # op.kid
      BY <1>4, <2>4 DEF Frame
    <3>2. acted'[k] = acted[k]
      BY <1>1, <1>3, <2>1, <3>1
    <3> QED
      BY <1>9, <2>4, <3>1, <3>2 DEF IInv, ChairLastSeenCoversEveryAct
  <2> QED
    BY <2>3, <2>4
<1>13. RosterCoherent'
  <2>1. CoherentRoster(r)
    BY <1>4 DEF IInv, RosterCoherent, Frame
  <2> QED
    BY <1>6, <2>1 DEF RosterCoherent, CoherentRoster
<1>14. OneEndorsementPerSeat'
  <2>1. OneVoice(r)
    BY <1>4 DEF IInv, OneEndorsementPerSeat, Frame
  <2> QED
    BY <1>6, <2>1 DEF OneEndorsementPerSeat, OneVoice
<1> QED
  BY <1>7, <1>10, <1>11, <1>12, <1>13, <1>14 DEF IInv

LEMMA Invariance == Spec => []IInv
<1>1. IInv /\ [Next]_vars => IInv'
  <2> SUFFICES ASSUME IInv, [Next]_vars PROVE IInv'
    OBVIOUS
  <2>1. CASE Next
    BY <2>1, NextFoldsAnOp, StepInvariant
  <2>2. CASE UNCHANGED vars
    BY <2>2 DEF vars, IInv, TypeOK, ClocksAgree, ChairHasBeenSeen, HasChair,
                ChairLastSeenCoversEveryAct, RosterCoherent, CoherentRoster,
                OneEndorsementPerSeat, OneVoice
  <2> QED
    BY <2>1, <2>2
<1> QED
  BY InitInvariant, <1>1, PTL DEF Spec

-----------------------------------------------------------------------------
(* The invariants, for every chamber *)

\* The fold keeps the shape of the state and of its histories.
THEOREM TypeCorrect == Spec => []TypeOK
  BY Invariance, PTL DEF IInv

\* A chamber that has a Chair has seen it act: dormancy is always judged from
\* an act of the Chair, never from the zero the clock starts at.
THEOREM ChairSeen == Spec => []ChairHasBeenSeen
  BY Invariance, PTL DEF IInv

\* chairLastSeen covers every op of every key that holds the gavel.
THEOREM SilenceNotMisjudged == Spec => []ChairLastSeenCoversEveryAct
  BY Invariance, PTL DEF IInv

\* The roster never hangs a key, a request, an endorsement or a tombstone on a
\* record that does not exist.
THEOREM RosterStaysCoherent == Spec => []RosterCoherent
  BY Invariance, PTL DEF IInv

\* A seat never has two endorsements of one candidate on the table.
THEOREM OneSeatOneVoice == Spec => []OneEndorsementPerSeat
  BY Invariance, PTL DEF IInv

\* No endorsement is older than an act of the sitting Chair.
THEOREM NoStaleEndorsement == Spec => []PetitionsPostdateChairActs
<1>1. IInv => PetitionsPostdateChairActs
  <2> SUFFICES ASSUME IInv, NEW e \in state.petitions, NEW k \in state.chairKeys
               PROVE  acted[k] <= e.at
    BY DEF PetitionsPostdateChairActs
  <2>1. /\ k \in Kid /\ acted[k] \in Nat /\ state.chairLastSeen \in Nat
        /\ e.at \in Nat
    BY DEF IInv, TypeOK, ChamberState, Endorsement, Time
  <2>2. acted[k] <= state.chairLastSeen /\ state.chairLastSeen <= e.at
    BY DEF IInv, ClocksAgree, ChairLastSeenCoversEveryAct
  <2> QED
    BY <2>1, <2>2
<1> QED
  BY <1>1, Invariance, PTL

\* The roster stays in shape and in agreement with itself.
THEOREM RosterSoundness == Spec => []RosterIsSound
  BY TypeCorrect, RosterStaysCoherent, OneSeatOneVoice, PTL DEF RosterIsSound

\* What a succession is judged by is never out of date.
THEOREM SilenceJudgement == Spec => []SilenceIsJudgedRight
  BY ChairSeen, SilenceNotMisjudged, NoStaleEndorsement, PTL DEF SilenceIsJudgedRight

-----------------------------------------------------------------------------
(* What a step may never do *)

\* The step of the fold that an op takes from a state of the invariant.
LEMMA StepOfOp ==
  ASSUME IInv, NEW op, IsOp(op), FoldOp(op)
  PROVE  /\ state \in ChamberState
         /\ signer' = op.kid
         /\ wrote' = WrittenOut(op)
         /\ Framed(state, op, Reduced(state, op))
         /\ Rest(Reduced(state, op), state')
<1>1. state \in ChamberState
  BY DEF IInv, TypeOK
<1>2. Framed(state, op, Reduced(state, op))
  BY <1>1, ReducerFrame
<1>3. /\ Reduced(state, op) \in ChamberState
      /\ Reduced(state, op).lastOpAt <= op.at
  BY <1>2 DEF Framed, Frame, FoldOp, CanonicalAt
<1>4. op.at \in Time /\ state' = NoteActivity(Reduced(state, op), op)
  BY DEF IsOp, FoldOp, ApplyOp
<1>5. Rest(Reduced(state, op), state')
  BY <1>3, <1>4, NoteActivityFields
<1> QED
  BY <1>1, <1>2, <1>5 DEF FoldOp

\* The gavel passes only to a key enrolled by a holder, to the first claimant
\* or to a holder of the recovery proof, and is lost only in a succession.
THEOREM GavelByRule == Spec => GavelPassesByRule
<1> DEFINE Rule ==
      /\ \A k \in state'.chairKeys \ state.chairKeys :
           \/ ~HasChair(state)
           \/ signer' \in state.chairKeys
           \/ signer' = k /\ state.recovery
      /\ ~(state.chairKeys \subseteq state'.chairKeys) =>
           state'.chairKeys = {} /\ state'.chairSeat = state'.succession.seat
<1>1. IInv /\ [Next]_vars => [Rule]_vars
  <2> SUFFICES ASSUME IInv, Next PROVE Rule
    OBVIOUS
  <2>1. PICK op : IsOp(op) /\ FoldOp(op)
    BY NextFoldsAnOp
  <2> QED
    BY <2>1, StepOfOp DEF Framed, ByRule, Rest
<1> HIDE DEF Rule
<1>2. Spec => [][Rule]_vars
  BY <1>1, Invariance, PTL DEF Spec
<1> QED
  BY <1>2 DEF Rule, GavelPassesByRule

\* The keys of a seat change only by an op of a holder or of the Chair, or, while
\* nobody holds the gavel, by a put that writes them out; only the Chair, or such
\* a put, takes keys away; and only such a put leaves a held key waiting.
THEOREM SeatsHeld == Spec => SeatsStayHeld
<1> DEFINE Held ==
      \A m \in Member :
        /\ state'.keys[m] # state.keys[m] =>
             MemberScoped(state, m, signer') \/ (~HasChair(state) /\ m \in wrote')
        /\ ~(state.keys[m] \subseteq state'.keys[m]) =>
             IsChairKey(state, signer') \/ m \in wrote'
        /\ ~(Waiting(state', m) \subseteq Waiting(state, m)) => m \in wrote'
<1>1. IInv /\ [Next]_vars => [Held]_vars
  <2> SUFFICES ASSUME IInv, Next PROVE Held
    OBVIOUS
  <2>1. PICK op : IsOp(op) /\ FoldOp(op)
    BY NextFoldsAnOp
  <2> QED
    BY <2>1, StepOfOp DEF Framed, ByRule, Waiting, Rest
<1> HIDE DEF Held
<1>2. Spec => [][Held]_vars
  BY <1>1, Invariance, PTL DEF Spec
<1> QED
  BY <1>2 DEF Held, SeatsStayHeld

\* Only a petition that carries changes the record of the succession.
LEMMA OnlyPetitionsCarry ==
  ASSUME NEW s \in ChamberState, NEW op, IsOp(op),
         Reduced(s, op).succession # s.succession
  PROVE  LET backers == LiveBackers(s, Banked(s, op), op.seat)
         IN  /\ op.seat \in LiveMembers(s)
             /\ Cardinality(backers) >= Needed(s)
             /\ ChairIsDormant(s)
             /\ Reduced(s, op) = Carried(s, op, backers)
<1>1. Reduced(s, op) = Reduce(s, op)
  BY DEF Reduced
<1>2. op.type = "chair.petition"
  <2> SUFFICES ASSUME op.type # "chair.petition"
               PROVE  Reduce(s, op).succession = s.succession
    BY <1>1
  <2>1. ChairClaim(s, op).succession = s.succession
    BY DEF ChairClaim, ChamberState
  <2>2. ChairAdd(s, op).succession = s.succession
    BY DEF ChairAdd, ChamberState
  <2>3. ChairRequest(s, op).succession = s.succession
    BY DEF ChairRequest, ChamberState
  <2>4. ChairUnpetition(s, op).succession = s.succession
    BY DEF ChairUnpetition, ChamberState
  <2>5. SessionSet(s, op).succession = s.succession
    BY DEF SessionSet, ChamberState
  <2>6. MemberGrant(s, op).succession = s.succession
    BY DEF MemberGrant, ChamberState
  <2>7. MemberRequest(s, op).succession = s.succession
    BY DEF MemberRequest, ChamberState
  <2>8. MemberReset(s, op).succession = s.succession
    BY DEF MemberReset, ChamberState
  <2>9. MemberPut(s, op).succession = s.succession
    BY DEF MemberPut, ChamberState
  <2>10. MemberRetract(s, op).succession = s.succession
    BY DEF MemberRetract, ChamberState
  <2> QED
    BY <2>1, <2>2, <2>3, <2>4, <2>5, <2>6, <2>7, <2>8, <2>9, <2>10
       DEF Reduce, IsOp
<1>3. Reduced(s, op) = ChairPetition(s, op)
  BY <1>1, <1>2 DEF Reduce
<1>4. ASSUME NEW c \in SUBSET Endorsement
      PROVE  [s EXCEPT !.petitions = c].succession = s.succession
  BY DEF ChamberState
<1>5. Banked(s, op) \subseteq Endorsement
  BY <1>2 DEF Banked, Withdrawn, ChamberState, Endorsement, IsOp
<1>6. [s EXCEPT !.petitions = Banked(s, op)].succession = s.succession
  BY <1>4, <1>5
<1> QED
  BY <1>3, <1>6 DEF ChairPetition

\* Two thirds, rounded up, and never fewer than two.
LEMMA NeededIsTwoThirds ==
  ASSUME NEW s \in ChamberState
  PROVE  /\ Needed(s) \in Nat
         /\ Needed(s) >= 2
         /\ 3 * Needed(s) >= 2 * Cardinality(LiveMembers(s))
<1>1. Cardinality(LiveMembers(s)) \in Nat
  BY BackersCounted
<1>2. ASSUME NEW n \in Nat PROVE /\ (2 * n + 2) \div 3 \in Nat
                                 /\ 3 * ((2 * n + 2) \div 3) >= 2 * n
  OBVIOUS
<1> QED
  BY <1>1, <1>2 DEF Needed

\* A succession is earned: the seats that backed it and still hold the keys
\* they signed with are two thirds of the chamber, and every key that loses
\* the gavel had been silent for the whole period.
THEOREM SuccessionByTwoThirds == Spec => SuccessionEarned
<1>1. ASSUME IInv, Next, state'.succession # state.succession
      PROVE  /\ state'.succession.seat \in LiveMembers(state')
             /\ Cardinality(Voters) >= 2
             /\ 3 * Cardinality(Voters) >= 2 * Cardinality(LiveMembers(state'))
             /\ \A k \in state.chairKeys : acted[k] + DormantFor <= state.lastOpAt
             /\ state'.chairKeys = {}
  <2>1. PICK op : IsOp(op) /\ FoldOp(op)
    BY <1>1, NextFoldsAnOp
  <2>2. /\ state \in ChamberState
        /\ signer' = op.kid
        /\ Rest(Reduced(state, op), state')
    BY <1>1, <2>1, StepOfOp
  <2> DEFINE backers == LiveBackers(state, Banked(state, op), op.seat)
  <2>3. /\ op.seat \in LiveMembers(state)
        /\ Cardinality(backers) >= Needed(state)
        /\ ChairIsDormant(state)
        /\ Reduced(state, op) = Carried(state, op, backers)
    BY <1>1, <2>1, <2>2, OnlyPetitionsCarry DEF Rest
  <2>4. /\ state'.succession.seat = op.seat
        /\ state'.chairKeys = {}
        /\ state'.keys = state.keys
        /\ LiveMembers(state') = LiveMembers(state)
    BY <2>2, <2>3 DEF Rest, Carried, ChamberState, LiveMembers
  <2>5. backers \subseteq Voters
    <3> SUFFICES ASSUME NEW m \in backers PROVE m \in Voters
      OBVIOUS
    <3>1. m \in LiveMembers(state')
      BY <2>4 DEF LiveBackers
    <3>2. PICK e \in Banked(state, op) :
            e.seat = op.seat /\ e.by = m /\ e.kid \in state.keys[m]
      BY DEF LiveBackers, OwnsMember
    <3>3. e.kid = signer' \/ e \in state.petitions
      BY <2>2, <3>2 DEF Banked, Withdrawn
    <3> QED
      BY <2>4, <3>1, <3>2, <3>3 DEF Voters
  <2>6. /\ Cardinality(backers) \in Nat
        /\ Cardinality(Voters) \in Nat
        /\ Cardinality(backers) <= Cardinality(Voters)
    <3>1. IsFiniteSet(Voters)
      <4>1. Voters \subseteq LiveMembers(state)
        BY <2>4 DEF Voters, LiveMembers
      <4>2. IsFiniteSet(LiveMembers(state))
        BY <2>2, BackersCounted
      <4> QED
        BY <4>1, <4>2, FS_Subset
    <3> HIDE DEF backers
    <3> QED
      BY <2>5, <3>1, FS_Subset, FS_CardinalityType
  <2>7. \A k \in state.chairKeys : acted[k] + DormantFor <= state.lastOpAt
    <3> SUFFICES ASSUME NEW k \in state.chairKeys
                 PROVE  acted[k] + DormantFor <= state.lastOpAt
      OBVIOUS
    <3>1. state.lastOpAt - state.chairLastSeen >= DormantFor
      BY <2>3 DEF ChairIsDormant, HasChair
    <3>2. acted[k] <= state.chairLastSeen
      BY <1>1 DEF IInv, ChairLastSeenCoversEveryAct
    <3>3. /\ k \in Kid /\ acted[k] \in Nat
          /\ state.chairLastSeen \in Nat /\ state.lastOpAt \in Nat
      BY <1>1, <2>2 DEF IInv, TypeOK, ChamberState, Time
    <3> QED
      BY <3>1, <3>2, <3>3, DormantForAssumption
  <2>8. /\ Needed(state) \in Nat
        /\ Needed(state) >= 2
        /\ 3 * Needed(state) >= 2 * Cardinality(LiveMembers(state))
        /\ Cardinality(LiveMembers(state)) \in Nat
    BY <2>2, NeededIsTwoThirds, BackersCounted
  <2>9. /\ Cardinality(Voters) >= 2
        /\ 3 * Cardinality(Voters) >= 2 * Cardinality(LiveMembers(state'))
    <3> HIDE DEF backers
    <3> QED
      BY <2>3, <2>4, <2>6, <2>8
  <2> QED
    BY <2>3, <2>4, <2>7, <2>9
<1>2. IInv /\ [Next]_vars => [Earned]_vars
  BY <1>1 DEF Earned
<1> QED
  BY <1>2, Invariance, PTL DEF Spec, SuccessionEarned
=============================================================================
