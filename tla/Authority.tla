------------------------------ MODULE Authority ------------------------------
(***************************************************************************)
(* The authority of the chamber as a state machine: one step per           *)
(* authenticated op folded, in canonical order, which shows as stamps that *)
(* never decrease.                                                         *)
(***************************************************************************)
EXTENDS ChamberFold

CONSTANT Patches  \* what the payloads of the puts carry of the bindings

ASSUME PatchesAssumption == \A p \in Patches : IsPatch(p)

VARIABLES
  state,   \* log.state
  signer,  \* history: the kid of the op folded last
  wrote,   \* history: the seats whose keys or requests that op wrote out itself
  acted    \* history: the stamp of the newest op each key signed, 0 for none

vars == <<state, signer, wrote, acted>>

Init ==
  /\ \E seated \in SUBSET Member : state = Seeded(seated)
  /\ signer = NoKid
  /\ wrote = {}
  /\ acted = [k \in Kid |-> 0]

\* Stamps are wall-clock milliseconds, so never 0, and the canonical order is
\* by stamp.
CanonicalAt(at) == at # 0 /\ at >= state.lastOpAt

WrittenOut(op) ==
  {m \in Member : /\ op.type = "member.put" /\ op.member = m
                  /\ {"keys", "pendingKeys"} \cap DOMAIN op.patch # {}}

FoldOp(op) ==
  /\ CanonicalAt(op.at)
  /\ state' = ApplyOp(state, op)
  /\ signer' = op.kid
  /\ wrote' = WrittenOut(op)
  /\ acted' = [acted EXCEPT ![op.kid] = op.at]

ClaimChair(kid, at) ==
  FoldOp([type |-> "chair.claim", kid |-> kid, at |-> at, key |-> kid])
RecoverChair(kid, at) ==
  FoldOp([type |-> "chair.recover", kid |-> kid, at |-> at, key |-> kid])
EnrollChair(kid, key, at) ==
  FoldOp([type |-> "chair.enroll", kid |-> kid, at |-> at, key |-> key])
RequestChair(kid, at) ==
  FoldOp([type |-> "chair.request", kid |-> kid, at |-> at, key |-> kid])
Petition(kid, by, seat, at) ==
  FoldOp([type |-> "chair.petition", kid |-> kid, at |-> at,
          member |-> by, seat |-> seat])
Unpetition(kid, by, seat, at) ==
  FoldOp([type |-> "chair.unpetition", kid |-> kid, at |-> at,
          member |-> by, seat |-> seat])
SetSession(kid, seat, recovery, at) ==
  FoldOp([type |-> "session.set", kid |-> kid, at |-> at,
          seat |-> seat, recovery |-> recovery])
ClaimSeat(kid, m, at) ==
  FoldOp([type |-> "member.claimKey", kid |-> kid, at |-> at,
          member |-> m, key |-> kid])
RequestSeat(kid, m, at) ==
  FoldOp([type |-> "member.requestKey", kid |-> kid, at |-> at,
          member |-> m, key |-> kid])
EnrollSeat(kid, m, key, at) ==
  FoldOp([type |-> "member.enrollKey", kid |-> kid, at |-> at,
          member |-> m, key |-> key])
ResetSeat(kid, m, at) ==
  FoldOp([type |-> "member.resetKeys", kid |-> kid, at |-> at, member |-> m])
PutMember(kid, m, how, chairFields, patch, at) ==
  FoldOp([type |-> "member.put", kid |-> kid, at |-> at, member |-> m,
          how |-> how, chairFields |-> chairFields, patch |-> patch])
SetPassword(kid, m, at) ==
  FoldOp([type |-> "member.put", kid |-> kid, at |-> at, member |-> m,
          how |-> "auth", chairFields |-> FALSE, patch |-> <<>>])
RetractMember(kid, m, at) ==
  FoldOp([type |-> "member.retract", kid |-> kid, at |-> at, member |-> m])
OtherOp(kid, at) == FoldOp([type |-> "other", kid |-> kid, at |-> at])

Next ==
  \E kid \in Kid, at \in Time :
    \/ ClaimChair(kid, at)
    \/ RecoverChair(kid, at)
    \/ \E key \in Kid : EnrollChair(kid, key, at)
    \/ RequestChair(kid, at)
    \/ \E by, seat \in Member : Petition(kid, by, seat, at)
    \/ \E by, seat \in Member : Unpetition(kid, by, seat, at)
    \/ \E seat \in Member \cup {NoSeat}, r \in {"mint", "null", "absent"} :
         SetSession(kid, seat, r, at)
    \/ \E m \in Member : ClaimSeat(kid, m, at)
    \/ \E m \in Member : RequestSeat(kid, m, at)
    \/ \E m \in Member, key \in Kid : EnrollSeat(kid, m, key, at)
    \/ \E m \in Member : ResetSeat(kid, m, at)
    \/ \E m \in Member, how \in {"upsert", "presence"}, c \in BOOLEAN,
          patch \in Patches :
         PutMember(kid, m, how, c, patch, at)
    \/ \E m \in Member : SetPassword(kid, m, at)
    \/ \E m \in Member : RetractMember(kid, m, at)
    \/ OtherOp(kid, at)

Spec == Init /\ [][Next]_vars

-----------------------------------------------------------------------------
(* Properties *)

\* The materialised state keeps its shape whatever is folded.
TypeOK ==
  /\ state \in ChamberState
  /\ signer \in Kid \cup {NoKid}
  /\ wrote \subseteq Member
  /\ acted \in [Kid -> Time]

\* A chamber that has a Chair has watched that Chair act, and never in the
\* future of the record.  chairIsDormant answers "not dormant" for a Chair it
\* has never seen, so a Chair bound by an op that is not noted as a Chair act
\* could never be replaced.
ChairHasBeenSeen ==
  HasChair(state) => state.chairLastSeen \in 1 .. state.lastOpAt

\* The Chair's silence is not misjudged: chairLastSeen covers every op that any
\* key holding the gavel has signed, whether it signed it before or after it
\* was enrolled.
ChairLastSeenCoversEveryAct ==
  \A k \in state.chairKeys : acted[k] <= state.chairLastSeen

\* No endorsement survives an act of the Chair: every banked endorsement is at
\* least as recent as the newest op of any key that holds the gavel.
PetitionsPostdateChairActs ==
  \A e \in state.petitions, k \in state.chairKeys : acted[k] <= e.at

\* The roster is coherent: keys, requests, endorsements and tombstones hang on
\* records that exist.
CoherentRoster(s) ==
  /\ \A m \in Member : s.keys[m] \cup s.pending[m] # {} => m \in s.members
  /\ \A e \in s.petitions : {e.by, e.seat} \subseteq s.members
  /\ s.tombstones \subseteq s.members
RosterCoherent == CoherentRoster(state)

\* One seat, one voice: a seat backs a candidate at most once.
OneVoice(s) ==
  \A e, f \in s.petitions : e.seat = f.seat /\ e.by = f.by => e = f
OneEndorsementPerSeat == OneVoice(state)

\* Together: the roster stays in shape and in agreement with itself.
RosterIsSound == TypeOK /\ RosterCoherent /\ OneEndorsementPerSeat

\* Together: what a succession is judged by, the Chair's silence and the
\* endorsements on the table, is never out of date.
SilenceIsJudgedRight ==
  ChairHasBeenSeen /\ ChairLastSeenCoversEveryAct /\ PetitionsPostdateChairActs

\* The seated members who hold a key that endorsed the new Chair, counting the
\* op just folded.
Voters ==
  {m \in LiveMembers(state') :
     \E k \in state'.keys[m] :
       \/ k = signer'
       \/ \E e \in state.petitions :
            e.seat = state'.succession.seat /\ e.by = m /\ e.kid = k}

Earned ==
  state'.succession # state.succession =>
    /\ state'.succession.seat \in LiveMembers(state')
    /\ Cardinality(Voters) >= 2
    /\ 3 * Cardinality(Voters) >= 2 * Cardinality(LiveMembers(state'))
    /\ \A k \in state.chairKeys : acted[k] + DormantFor <= state.lastOpAt
    /\ state'.chairKeys = {}

\* A succession is earned.  When the record of the succession changes, the
\* seats seated then and holding a key that endorsed the candidate are two
\* thirds of the seated chamber and at least two, every key that loses the
\* gavel had signed nothing for DormantFor, and no key keeps it.
SuccessionEarned == [][Earned]_vars

\* The gavel passes only by the rules: a key gains it when nobody holds it, from
\* a holder, or for itself where a recovery verifier exists; and keys lose it
\* only all together, in a succession.
GavelPassesByRule ==
  [][/\ \A k \in state'.chairKeys \ state.chairKeys :
          \/ ~HasChair(state)
          \/ signer' \in state.chairKeys
          \/ signer' = k /\ state.recovery
     /\ ~(state.chairKeys \subseteq state'.chairKeys) =>
          state'.chairKeys = {} /\ state'.chairSeat = state'.succession.seat]_vars

\* The keys of a seat that are also listed as waiting for approval.
Waiting(s, m) == s.keys[m] \cap s.pending[m]

\* A seat that is held stays held.  Its keys change only by an op of a holder
\* or of the Chair, or, while nobody holds the gavel, by a put that writes them
\* out; short of such a put only the Chair takes keys away, and no op but one
\* that writes the keys or the requests out leaves a held key waiting for
\* approval.
SeatsStayHeld ==
  [][\A m \in Member :
       /\ state'.keys[m] # state.keys[m] =>
            MemberScoped(state, m, signer') \/ (~HasChair(state) /\ m \in wrote')
       /\ ~(state.keys[m] \subseteq state'.keys[m]) =>
            IsChairKey(state, signer') \/ m \in wrote'
       /\ ~(Waiting(state', m) \subseteq Waiting(state, m)) => m \in wrote']_vars
=============================================================================
