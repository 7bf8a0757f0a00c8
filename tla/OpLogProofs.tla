----------------------------- MODULE OpLogProofs -----------------------------
(***************************************************************************)
(* Theorems about the op log of module OpLog, for any number of ops,       *)
(* actors and seats: that it hides no gap, and that what a device shows is *)
(* the fold in canonical order while its own ops are ordinary.             *)
(*                                                                         *)
(* What the invariant says of the projection is that it is the fold of the *)
(* log with some of this device's ops taken as they were before they were  *)
(* signed: those it folded while it wrote them, and those that never were  *)
(* signed.  A batch newer than the log extends that fold, any other batch  *)
(* replaces it.  An ordinary op does the same with its signature as        *)
(* without, so the fold is that of the signed log.                         *)
(***************************************************************************)
EXTENDS OpLog, FiniteSetTheorems, WellFoundedInduction, TLAPS

Keyed == Kid \cup {NoKid}

\* An op the fold may meet, signed or not.
IsOp(op) ==
  /\ Shaped(op) /\ {"kid", "key", "at"} \subseteq DOMAIN op
  /\ op = [f \in DOMAIN op |-> op[f]]
  /\ op.kid \in Keyed /\ op.key \in Kid /\ op.at \in Time

\* An op as it is written at place i: signed.
IsWritten(op, i) == IsOp(op) /\ op.actor \in Actor /\ op.kid \in Kid /\ op.at = i

LEMMA OpOfIsWritten ==
  ASSUME NEW a \in Actor, NEW kind \in OpKinds, NEW i \in Places
  PROVE  IsWritten(OpOf(a, kind, i), i)
<1> DEFINE stamp == [actor |-> a, kid |-> KeyOf[a], key |-> KeyOf[a], at |-> i]
           op == OpOf(a, kind, i)
           D == DOMAIN kind \cup {"actor", "kid", "key", "at"}
<1>1. DOMAIN stamp = {"actor", "kid", "key", "at"}
  OBVIOUS
<1>2. op = [f \in D |-> IF f \in DOMAIN kind THEN kind[f] ELSE stamp[f]]
  BY <1>1 DEF OpOf
<1>3. stamp["actor"] = a /\ stamp["kid"] = KeyOf[a] /\ stamp["at"] = i /\ stamp["key"] = KeyOf[a]
  OBVIOUS
<1>4. "actor" \notin DOMAIN kind /\ "kid" \notin DOMAIN kind /\ "at" \notin DOMAIN kind
  BY KindAssumption
<1>5. KeyOf[a] \in Kid /\ i \in Time
  BY WorldAssumption, StampAssumption, MaxTimeAssumption DEF Places, Time
<1> HIDE DEF op, stamp
<1>6. DOMAIN op = D
  BY <1>2
<1>7. op = [f \in DOMAIN op |-> op[f]]
  BY <1>2
<1>8. op.actor = a /\ op.kid = KeyOf[a] /\ op.at = i
  BY <1>2, <1>3, <1>4
<1>9. \A f \in DOMAIN kind : op[f] = kind[f]
  BY <1>2
<1>10. op.key = IF "key" \in DOMAIN kind THEN kind.key ELSE KeyOf[a]
  BY <1>2, <1>3
<1>11. Shaped(kind)
  BY KindAssumption
<1>12. op.key \in Kid
  BY <1>5, <1>10, <1>11 DEF Shaped
<1>13. Shaped(op)
  BY <1>6, <1>9, <1>11, <1>12 DEF Shaped
<1>14. op.kid \in Keyed
  BY <1>5, <1>8 DEF Keyed
<1> QED
  BY <1>5, <1>6, <1>7, <1>8, <1>12, <1>13, <1>14 DEF op, IsWritten, IsOp

-----------------------------------------------------------------------------
(* One op *)

\* Whatever is folded, the authority keeps its shape.
LEMMA BackersCounted ==
  ASSUME NEW s \in ChamberState, NEW petitions, NEW seat
  PROVE  /\ Cardinality(LiveBackers(s, petitions, seat)) \in Nat
         /\ Cardinality(LiveMembers(s)) \in Nat
<1>1. LiveBackers(s, petitions, seat) \subseteq Member
  BY DEF LiveBackers, LiveMembers, ChamberState
<1>2. LiveMembers(s) \subseteq Member
  BY DEF LiveMembers, ChamberState
<1> QED
  BY <1>1, <1>2, MemberAssumption, FS_Subset, FS_CardinalityType

LEMMA PetitionTyped ==
  ASSUME NEW s \in ChamberState, NEW op, op.kid \in Keyed, op.at \in Time,
         op.member \in Member, op.seat \in Member
  PROVE  ChairPetition(s, op) \in ChamberState /\ ChairUnpetition(s, op) \in ChamberState
<1> DEFINE backers == LiveBackers(s, Banked(s, op), op.seat)
<1>1. Withdrawn(s, op) \subseteq Endorsement /\ Banked(s, op) \subseteq Endorsement
  BY DEF Banked, Withdrawn, ChamberState, Endorsement, Keyed
<1>2. ChairUnpetition(s, op) \in ChamberState
  BY <1>1 DEF ChairUnpetition, ChamberState
<1>3. Carried(s, op, backers) \in ChamberState
  BY BackersCounted DEF Carried, ChamberState, Succession
<1>4. [s EXCEPT !.petitions = Banked(s, op)] \in ChamberState
  BY <1>1 DEF ChamberState
<1>5. ChairPetition(s, op) \in ChamberState
  BY <1>3, <1>4 DEF ChairPetition
<1> QED
  BY <1>2, <1>5

LEMMA SessionSetTyped ==
  ASSUME NEW s \in ChamberState, NEW op, op.seat \in Member \cup {NoSeat},
         op.recovery \in {"mint", "null", "absent"}
  PROVE  SessionSet(s, op) \in ChamberState
<1> DEFINE seat == IF op.seat = NoSeat THEN s.chairSeat ELSE op.seat
           recovery == CASE op.recovery = "mint" -> TRUE
                         [] op.recovery = "null" -> FALSE
                         [] op.recovery = "absent" -> s.recovery
<1>1. s.chairSeat \in Member \cup {NoSeat} /\ s.recovery \in BOOLEAN
  BY DEF ChamberState
<1>2. seat \in Member \cup {NoSeat} /\ recovery \in BOOLEAN
  BY <1>1
<1>3. SessionSet(s, op) = [s EXCEPT !.chairSeat = seat, !.recovery = recovery]
  BY DEF SessionSet
<1> HIDE DEF seat, recovery
<1> QED
  BY <1>2, <1>3 DEF ChamberState

LEMMA ReducedTyped ==
  ASSUME NEW s \in ChamberState, NEW op, IsOp(op)
  PROVE  Reduced(s, op) \in ChamberState
<1> SUFFICES Reduce(s, op) \in ChamberState
  BY DEF Reduced
<1>1. op.kid \in Keyed /\ op.at \in Time /\ op.key \in Kid /\ Shaped(op)
  BY DEF IsOp
<1>2. CASE op.type \in {"chair.claim", "chair.recover", "chair.enroll", "chair.request"}
  BY <1>1, <1>2 DEF Reduce, ChairClaim, ChairAdd, ChairRequest, ChamberState
<1>3. CASE op.type \in {"chair.petition", "chair.unpetition"}
  BY <1>1, <1>3, PetitionTyped DEF Shaped, Reduce
<1>4. CASE op.type = "session.set"
  BY <1>1, <1>4, SessionSetTyped DEF Shaped, Reduce
<1>5. CASE op.type \in {"member.claimKey", "member.enrollKey"}
  BY <1>1, <1>5 DEF Shaped, Reduce, MemberGrant, ChamberState
<1>6. CASE op.type = "member.requestKey"
  BY <1>1, <1>6 DEF Shaped, Reduce, MemberRequest, ChamberState
<1>7. CASE op.type = "member.resetKeys"
  BY <1>1, <1>7 DEF Shaped, Reduce, MemberReset, ChamberState
<1>8. CASE op.type = "member.put"
  <2>1. op.member \in Member /\ IsPatch(op.patch)
    BY <1>1, <1>8 DEF Shaped
  <2> DEFINE m == op.member
             held == Merged(op.patch, "keys", s.keys[m])
             asked == Merged(op.patch, "pendingKeys", s.pending[m])
             stones == IF Merged(op.patch, "_deleted", m \in s.tombstones)
                       THEN s.tombstones \cup {m} ELSE s.tombstones \ {m}
             Put(h, a, t) ==
               [s EXCEPT !.members = @ \cup {m}, !.keys[m] = h, !.pending[m] = a,
                         !.tombstones = t]
  <2>2. held \in SUBSET Kid /\ asked \in SUBSET Kid /\ stones \in SUBSET Member
    BY <2>1 DEF IsPatch, Merged, ChamberState
  <2>3. Reduce(s, op) = Put(held, asked, stones)
    BY <1>8 DEF Reduce, MemberPut
  <2>4. ASSUME NEW h \in SUBSET Kid, NEW a \in SUBSET Kid, NEW t \in SUBSET Member
        PROVE  Put(h, a, t) \in ChamberState
    BY <2>1 DEF ChamberState
  <2> HIDE DEF held, asked, stones, Put
  <2> QED
    BY <2>2, <2>3, <2>4
<1>9. CASE op.type = "member.retract"
  BY <1>1, <1>9 DEF Shaped, Reduce, MemberRetract, ChamberState
<1>10. CASE op.type = "other"
  BY <1>10 DEF Reduce
<1> QED
  BY <1>1, <1>2, <1>3, <1>4, <1>5, <1>6, <1>7, <1>8, <1>9, <1>10 DEF Shaped

\* The clocks move, the keys do not.
LEMMA NoteActivityTyped ==
  ASSUME NEW s \in ChamberState, NEW op, op.at \in Time
  PROVE  /\ NoteActivity(s, op) \in ChamberState
         /\ NoteActivity(s, op).chairKeys = s.chairKeys
<1> DEFINE Noted(x, y, z) ==
      [s EXCEPT !.lastOpAt = x, !.chairLastSeen = y, !.petitions = z]
<1>1. ASSUME NEW x \in Time, NEW y \in Time, NEW z \in SUBSET Endorsement
      PROVE  Noted(x, y, z) \in ChamberState /\ Noted(x, y, z).chairKeys = s.chairKeys
  BY DEF ChamberState
<1>2. s.lastOpAt \in Time /\ s.chairLastSeen \in Time /\ s.petitions \in SUBSET Endorsement
  BY DEF ChamberState
<1> DEFINE a == Later(op.at, s.lastOpAt)
           b == IF IsChairKey(s, op.kid) THEN Later(op.at, s.chairLastSeen) ELSE s.chairLastSeen
           c == IF IsChairKey(s, op.kid) THEN {} ELSE s.petitions
<1>3. a \in Time /\ b \in Time /\ c \in SUBSET Endorsement
  BY <1>2 DEF Later
<1>4. NoteActivity(s, op) = Noted(a, b, c)
  BY DEF NoteActivity
<1> HIDE DEF a, b, c, Noted
<1> QED
  BY <1>1, <1>3, <1>4

LEMMA ApplyOpTyped ==
  ASSUME NEW s \in ChamberState, NEW op, IsOp(op)
  PROVE  /\ ApplyOp(s, op) \in ChamberState
         /\ ApplyOp(s, op).chairKeys = Reduced(s, op).chairKeys
<1>1. op.at \in Time
  BY DEF IsOp
<1> QED
  BY <1>1, ReducedTyped, NoteActivityTyped DEF ApplyOp

\* An op that is no endorsement, that is authorised and whose signer does not
\* hold the gavel after it, does the same with its signature and without.
LEMMA SignatureMakesNoDifference ==
  ASSUME NEW s \in ChamberState, NEW op, IsOp(op), NEW bare,
         bare = [op EXCEPT !.kid = NoKid],
         Authorize(s, op), op.type # "chair.petition",
         ~IsChairKey(ApplyOp(s, op), op.kid)
  PROVE  ApplyOp(s, bare) = ApplyOp(s, op)
<1>1. /\ DOMAIN bare = DOMAIN op /\ bare.kid = NoKid
      /\ bare.type = op.type /\ bare.key = op.key /\ bare.at = op.at
      /\ "member" \in DOMAIN op => bare.member = op.member
      /\ "seat" \in DOMAIN op => bare.seat = op.seat
      /\ "recovery" \in DOMAIN op => bare.recovery = op.recovery
      /\ "patch" \in DOMAIN op => bare.patch = op.patch
  BY DEF IsOp, Shaped
<1>2. Authorize(s, bare)
  BY <1>1 DEF Authorize
<1>3. Reduce(s, bare) = Reduce(s, op)
  <2>1. CASE op.type \in {"chair.claim", "chair.recover", "chair.enroll", "chair.request"}
    BY <1>1, <2>1 DEF Reduce, ChairClaim, ChairAdd, ChairRequest
  <2>2. CASE op.type = "chair.unpetition"
    BY <1>1, <2>2 DEF Reduce, ChairUnpetition, Withdrawn, IsOp, Shaped
  <2>3. CASE op.type = "session.set"
    BY <1>1, <2>3 DEF Reduce, SessionSet, IsOp, Shaped
  <2>4. CASE op.type \in {"member.claimKey", "member.enrollKey"}
    BY <1>1, <2>4 DEF Reduce, MemberGrant, IsOp, Shaped
  <2>5. CASE op.type = "member.requestKey"
    BY <1>1, <2>5 DEF Reduce, MemberRequest, OwnsMember, IsOp, Shaped
  <2>6. CASE op.type = "member.resetKeys"
    BY <1>1, <2>6 DEF Reduce, MemberReset, IsOp, Shaped
  <2>7. CASE op.type \in {"member.put", "member.retract"}
    <3>1. bare.member = op.member
      BY <1>1, <2>7 DEF IsOp, Shaped
    <3>2. op.type = "member.put" => bare.patch = op.patch
      BY <1>1 DEF IsOp, Shaped
    <3>3. CASE op.type = "member.put"
      <4>1. MemberPut(s, bare) = MemberPut(s, op)
        BY <3>1, <3>2, <3>3 DEF MemberPut
      <4> QED
        BY <1>1, <3>3, <4>1 DEF Reduce
    <3>4. CASE op.type = "member.retract"
      BY <1>1, <3>1, <3>4 DEF Reduce, MemberRetract
    <3> QED
      BY <2>7, <3>3, <3>4
  <2>8. CASE op.type = "other"
    BY <1>1, <2>8 DEF Reduce
  <2> QED
    BY <2>1, <2>2, <2>3, <2>4, <2>5, <2>6, <2>7, <2>8 DEF IsOp, Shaped
<1> DEFINE r == Reduced(s, op)
<1>4. Reduced(s, bare) = r
  BY <1>2, <1>3 DEF Reduced
<1>5. r \in ChamberState
  BY ReducedTyped
<1>6. ~IsChairKey(r, op.kid)
  BY ApplyOpTyped DEF IsChairKey
<1>7. ~IsChairKey(r, bare.kid)
  BY <1>1, <1>5, KidAssumption DEF IsChairKey, ChamberState
<1> HIDE DEF r
<1>8. NoteActivity(r, bare) = NoteActivity(r, op)
  BY <1>1, <1>6, <1>7 DEF NoteActivity
<1> QED
  BY <1>4, <1>8 DEF ApplyOp, r

\* What a fold has come to.
Projection == [auth : ChamberState, shown : [Member -> 0 .. WorldSize]]

LEMMA BlankTyped == Blank \in Projection
<1>1. 0 \in Time /\ 0 \in 0 .. WorldSize
  BY WorldAssumption, MaxTimeAssumption DEF Time
<1>2. Seeded(Member) \in ChamberState
  BY <1>1 DEF Seeded, ChamberState, Succession, NoSuccession
<1> QED
  BY <1>1, <1>2 DEF Blank, Projection

LEMMA ApplyAtTyped ==
  ASSUME NEW p \in Projection, NEW op, IsOp(op), NEW i \in Places
  PROVE  ApplyAt(p, i, op) \in Projection
<1>1. ApplyOp(p.auth, op) \in ChamberState
  BY ApplyOpTyped DEF Projection
<1>2. i \in 0 .. WorldSize
  BY WorldAssumption DEF Places
<1>3. IsPresence(op) => op.member \in Member
  BY DEF IsPresence, IsOp, Shaped
<1>4. p.shown \in [Member -> 0 .. WorldSize]
  BY DEF Projection
<1>5. [p.shown EXCEPT ![op.member] = i] \in [Member -> 0 .. WorldSize]
  BY <1>2, <1>4
<1> QED
  BY <1>1, <1>4, <1>5 DEF ApplyAt, Projection

LEMMA SignatureShowsNoDifference ==
  ASSUME NEW p \in Projection, NEW op, IsOp(op), NEW bare, NEW i,
         bare = [op EXCEPT !.kid = NoKid],
         Authorize(p.auth, op), op.type # "chair.petition",
         ~IsChairKey(ApplyOp(p.auth, op), op.kid)
  PROVE  ApplyAt(p, i, bare) = ApplyAt(p, i, op)
<1>1. p.auth \in ChamberState
  BY DEF Projection
<1>2. ApplyOp(p.auth, bare) = ApplyOp(p.auth, op)
  BY <1>1, SignatureMakesNoDifference
<1>3. bare.kid = NoKid /\ bare.type = op.type
  BY DEF IsOp, Shaped
<1>4. Authorize(p.auth, bare)
  BY <1>3 DEF Authorize
<1>5. op.type = "member.put" => bare.how = op.how /\ bare.member = op.member
  BY DEF IsOp, Shaped
<1>6. IsPresence(bare) = IsPresence(op)
  BY <1>3, <1>5 DEF IsPresence
<1>7. IsPresence(op) => bare.member = op.member
  BY <1>5 DEF IsPresence
<1> QED
  BY <1>2, <1>4, <1>6, <1>7 DEF ApplyAt

-----------------------------------------------------------------------------
(* Folds *)

LEMMA Least ==
  ASSUME NEW S \in SUBSET Nat, S # {}
  PROVE  \E n \in S : \A k \in S : n <= k
<1> DEFINE R == OpToRel(<, Nat)
<1>1. IsWellFoundedOn(R, Nat)
  BY NatLessThanWellFounded DEF OpToRel
<1>2. \A x, y \in Nat : y < x => <<y, x>> \in R
  BY DEF OpToRel
<1> HIDE DEF R
<1>3. PICK n \in S : \A k \in S : ~ (<<k, n>> \in R)
  BY <1>1, WFMin
<1>4. \A k \in S : ~ (k < n)
  BY <1>2, <1>3
<1> QED
  BY <1>3, <1>4

\* What holds at 0 and is handed on from each number to the next holds to the
\* end.
LEMMA StepByStep ==
  ASSUME NEW S \in SUBSET Nat, NEW last \in Nat, 0 \in S,
         \A n \in 1 .. last : n - 1 \in S => n \in S
  PROVE  0 .. last \subseteq S
<1> DEFINE missing == (0 .. last) \ S
<1> SUFFICES ASSUME missing # {} PROVE FALSE
  OBVIOUS
<1>1. missing \in SUBSET Nat
  OBVIOUS
<1>2. PICK n \in missing : \A k \in missing : n <= k
  BY <1>1, Least
<1>3. n \in 1 .. last
  BY <1>2
<1>4. n - 1 \in 0 .. last /\ n - 1 \notin missing
  BY <1>2, <1>3
<1> QED
  BY <1>2, <1>3, <1>4

\* h[n] is base with the ops at the first n places folded onto it.
RunTo(last, base, ops, h) ==
  h = [n \in 0 .. last |->
         IF n = 0 THEN base
         ELSE IF n \in DOMAIN ops THEN ApplyAt(h[n - 1], n, ops[n])
         ELSE h[n - 1]]
Run(base, ops, h) == RunTo(WorldSize, base, ops, h)

LEMMA FoldRuns ==
  ASSUME NEW base, NEW ops
  PROVE  \E h : Run(base, ops, h) /\ FoldOnto(base, ops) = h[WorldSize]
<1> DEFINE S == {n \in Nat : \E h : RunTo(n, base, ops, h)}
<1>1. 0 \in S
  <2> DEFINE h == [n \in 0 .. 0 |-> base]
  <2>1. RunTo(0, base, ops, h)
    BY DEF RunTo
  <2> QED
    BY <2>1
<1>2. ASSUME NEW n \in 1 .. WorldSize, n - 1 \in S
      PROVE  n \in S
  <2>1. PICK g : RunTo(n - 1, base, ops, g)
    BY <1>2
  <2> DEFINE step == IF n \in DOMAIN ops THEN ApplyAt(g[n - 1], n, ops[n]) ELSE g[n - 1]
             h == [k \in 0 .. n |-> IF k = n THEN step ELSE g[k]]
  <2>2. /\ DOMAIN g = 0 .. n - 1
        /\ \A k \in 0 .. n - 1 :
             g[k] = IF k = 0 THEN base
                    ELSE IF k \in DOMAIN ops THEN ApplyAt(g[k - 1], k, ops[k])
                    ELSE g[k - 1]
    BY <2>1 DEF RunTo
  <2>3. /\ DOMAIN h = 0 .. n /\ h = [k \in 0 .. n |-> h[k]]
        /\ h[n] = step /\ \A k \in 0 .. n - 1 : h[k] = g[k]
    BY <1>2
  <2>4. ASSUME NEW k \in 0 .. n
        PROVE  h[k] = IF k = 0 THEN base
                      ELSE IF k \in DOMAIN ops THEN ApplyAt(h[k - 1], k, ops[k])
                      ELSE h[k - 1]
    <3> HIDE DEF h, step
    <3>1. CASE k = n
      <4>1. h[k - 1] = g[k - 1] /\ h[k] = step /\ k # 0
        BY <1>2, <2>3, <3>1
      <4> QED
        BY <3>1, <4>1 DEF step
    <3>2. CASE k = 0
      <4>1. k \in 0 .. n - 1
        BY <1>2, <3>2
      <4>2. g[k] = base
        BY <2>2, <3>2, <4>1
      <4>3. h[k] = g[k]
        BY <2>3, <4>1
      <4> QED
        BY <3>2, <4>2, <4>3
    <3>3. CASE k \in 1 .. n - 1
      <4>1. k - 1 \in 0 .. n - 1 /\ k # 0 /\ k \in 0 .. n - 1
        BY <1>2, <3>3
      <4>2. h[k] = g[k] /\ h[k - 1] = g[k - 1]
        BY <2>3, <4>1
      <4> QED
        BY <2>2, <4>1, <4>2
    <3> QED
      BY <1>2, <3>1, <3>2, <3>3
  <2> HIDE DEF h
  <2>5. h = [k \in 0 .. n |->
               IF k = 0 THEN base
               ELSE IF k \in DOMAIN ops THEN ApplyAt(h[k - 1], k, ops[k])
               ELSE h[k - 1]]
    BY <2>3, <2>4
  <2>6. RunTo(n, base, ops, h)
    BY <2>5 DEF RunTo
  <2> QED
    BY <1>2, <2>6
<1>3. WorldSize \in S
  <2>1. WorldSize \in Nat
    BY WorldAssumption
  <2>2. 0 .. WorldSize \subseteq S
    <3> HIDE DEF S
    <3>1. S \in SUBSET Nat
      BY DEF S
    <3> QED
      BY <1>1, <1>2, <2>1, <3>1, StepByStep
  <2> QED
    BY <2>1, <2>2
<1>4. PICK g : Run(base, ops, g)
  BY <1>3 DEF Run
<1> DEFINE h == CHOOSE h : h = [n \in 0 .. WorldSize |->
                  IF n = 0 THEN base
                  ELSE IF n \in DOMAIN ops THEN ApplyAt(h[n - 1], n, ops[n])
                  ELSE h[n - 1]]
<1>5. Run(base, ops, h)
  BY <1>4 DEF Run, RunTo
<1>6. FoldOnto(base, ops) = h[WorldSize]
  BY DEF FoldOnto
<1> QED
  BY <1>5, <1>6

LEMMA RunSteps ==
  ASSUME NEW base, NEW ops, NEW h, Run(base, ops, h)
  PROVE  /\ h[0] = base
         /\ \A n \in Places :
              h[n] = IF n \in DOMAIN ops THEN ApplyAt(h[n - 1], n, ops[n]) ELSE h[n - 1]
  BY WorldAssumption DEF Run, RunTo, Places

\* Nothing is folded beyond the last op.
LEMMA RunRests ==
  ASSUME NEW base, NEW ops, NEW h, Run(base, ops, h), NEW n \in 0 .. WorldSize,
         \A i \in DOMAIN ops : i \in Places /\ i <= n
  PROVE  h[n] = h[WorldSize]
<1> DEFINE S == {k \in Nat : n + k <= WorldSize => h[n + k] = h[n]}
<1>1. S \in SUBSET Nat /\ WorldSize - n \in Nat
  BY WorldAssumption
<1>2. 0 \in S
  OBVIOUS
<1>3. ASSUME NEW k \in 1 .. WorldSize - n, k - 1 \in S
      PROVE  k \in S
  <2>1. n + (k - 1) = (n + k) - 1 /\ n + k \in Places /\ n + (k - 1) <= WorldSize
    BY WorldAssumption DEF Places
  <2>2. n + k \notin DOMAIN ops
    OBVIOUS
  <2>3. h[n + k] = h[(n + k) - 1]
    BY <2>1, <2>2, RunSteps
  <2> QED
    BY <1>3, <2>1, <2>3
<1> HIDE DEF S
<1>4. WorldSize - n \in S
  BY <1>1, <1>2, <1>3, StepByStep
<1> QED
  BY <1>1, <1>4, WorldAssumption DEF S

LEMMA RunTyped ==
  ASSUME NEW base \in Projection, NEW ops, NEW h, Run(base, ops, h),
         \A i \in DOMAIN ops : IsOp(ops[i])
  PROVE  \A n \in 0 .. WorldSize : h[n] \in Projection
<1> DEFINE S == {n \in Nat : h[n] \in Projection}
<1>1. S \in SUBSET Nat /\ 0 \in S
  BY RunSteps
<1>2. ASSUME NEW n \in 1 .. WorldSize, n - 1 \in S
      PROVE  n \in S
  BY <1>2, RunSteps, ApplyAtTyped DEF Places
<1> HIDE DEF S
<1>3. 0 .. WorldSize \subseteq S
  BY <1>1, <1>2, WorldAssumption, StepByStep
<1> QED
  BY <1>3 DEF S

LEMMA FoldTyped ==
  ASSUME NEW base \in Projection, NEW ops, \A i \in DOMAIN ops : IsOp(ops[i])
  PROVE  FoldOnto(base, ops) \in Projection
<1>1. PICK h : Run(base, ops, h) /\ FoldOnto(base, ops) = h[WorldSize]
  BY FoldRuns
<1>2. WorldSize \in 0 .. WorldSize
  BY WorldAssumption
<1> QED
  BY <1>1, <1>2, RunTyped

\* The ops of c are those of a and then, all of them newer, those of b.
Continued(a, b, c) ==
  /\ DOMAIN a \subseteq Places /\ DOMAIN b \subseteq Places
  /\ \A i \in DOMAIN a : \A j \in DOMAIN b : i < j
  /\ DOMAIN c = DOMAIN a \cup DOMAIN b
  /\ \A i \in DOMAIN a : c[i] = a[i]
  /\ \A j \in DOMAIN b : c[j] = b[j]

\* Folding newer ops onto a fold is folding them all.
LEMMA FoldAppends ==
  ASSUME NEW base, NEW a, NEW b, NEW c, Continued(a, b, c)
  PROVE  FoldOnto(FoldOnto(base, a), b) = FoldOnto(base, c)
<1> USE DEF Continued
<1>1. PICK ha : Run(base, a, ha) /\ FoldOnto(base, a) = ha[WorldSize]
  BY FoldRuns
<1>2. PICK hb : Run(ha[WorldSize], b, hb) /\ FoldOnto(ha[WorldSize], b) = hb[WorldSize]
  BY FoldRuns
<1>3. PICK hc : Run(base, c, hc) /\ FoldOnto(base, c) = hc[WorldSize]
  BY FoldRuns
<1>4. /\ ha[0] = base /\ hb[0] = ha[WorldSize] /\ hc[0] = base
      /\ \A n \in Places :
           /\ ha[n] = IF n \in DOMAIN a THEN ApplyAt(ha[n - 1], n, a[n]) ELSE ha[n - 1]
           /\ hb[n] = IF n \in DOMAIN b THEN ApplyAt(hb[n - 1], n, b[n]) ELSE hb[n - 1]
           /\ hc[n] = IF n \in DOMAIN c THEN ApplyAt(hc[n - 1], n, c[n]) ELSE hc[n - 1]
  BY <1>1, <1>2, <1>3, RunSteps
<1> DEFINE Begun(n) == \E j \in DOMAIN b : j <= n
           S == {n \in Nat : IF Begun(n) THEN hc[n] = hb[n]
                             ELSE hc[n] = ha[n] /\ hb[n] = ha[WorldSize]}
<1>5. S \in SUBSET Nat
  OBVIOUS
<1>6. 0 \in S
  BY <1>4 DEF Places
<1>7. ASSUME NEW n \in 1 .. WorldSize, n - 1 \in S
      PROVE  n \in S
  <2>1. n \in Places /\ n - 1 \in 0 .. WorldSize /\ n \in Nat
    BY <1>7, WorldAssumption DEF Places
  <2>2. CASE Begun(n - 1)
    <3>1. Begun(n) /\ n \notin DOMAIN a
      BY <2>1, <2>2 DEF Places
    <3>2. hc[n - 1] = hb[n - 1]
      BY <1>7, <2>2
    <3>3. hc[n] = hb[n]
      BY <1>4, <2>1, <3>1, <3>2
    <3> QED
      BY <2>1, <3>1, <3>3
  <2>3. CASE ~Begun(n - 1) /\ n \in DOMAIN b
    <3>1. Begun(n)
      BY <2>1, <2>3
    <3>2. \A i \in DOMAIN a : i \in Places /\ i <= n - 1
      BY <2>1, <2>3 DEF Places
    <3>3. ha[n - 1] = ha[WorldSize]
      BY <1>1, <2>1, <3>2, RunRests
    <3>4. hc[n - 1] = hb[n - 1]
      BY <1>7, <2>3, <3>3
    <3>5. hc[n] = hb[n]
      BY <1>4, <2>1, <2>3, <3>4
    <3> QED
      BY <2>1, <3>1, <3>5
  <2>4. CASE ~Begun(n - 1) /\ n \notin DOMAIN b
    <3>1. ~Begun(n)
      BY <2>1, <2>4 DEF Places
    <3>2. hc[n - 1] = ha[n - 1] /\ hb[n - 1] = ha[WorldSize]
      BY <1>7, <2>4
    <3>3. hc[n] = ha[n]
      BY <1>4, <2>1, <2>4, <3>2
    <3>4. hb[n] = ha[WorldSize]
      BY <1>4, <2>1, <2>4, <3>2
    <3> QED
      BY <2>1, <3>1, <3>3, <3>4
  <2> QED
    BY <2>2, <2>3, <2>4
<1>8. WorldSize \in S
  <2> HIDE DEF S
  <2>1. 0 .. WorldSize \subseteq S
    BY <1>5, <1>6, <1>7, WorldAssumption, StepByStep
  <2> QED
    BY <2>1, WorldAssumption
<1>9. hc[WorldSize] = hb[WorldSize]
  <2>1. CASE Begun(WorldSize)
    BY <1>8, <2>1
  <2>2. CASE ~Begun(WorldSize)
    <3>1. hc[WorldSize] = ha[WorldSize] /\ hb[WorldSize] = ha[WorldSize]
      BY <1>8, <2>2
    <3> QED
      BY <3>1
  <2> QED
    BY <2>1, <2>2
<1> QED
  BY <1>1, <1>2, <1>3, <1>9

-----------------------------------------------------------------------------
(* The log in order *)

LEMMA PlacesCounted ==
  ASSUME NEW S \in SUBSET Places
  PROVE  IsFiniteSet(S) /\ Cardinality(S) \in Nat
<1>1. IsFiniteSet(Places)
  BY WorldAssumption, FS_Interval DEF Places
<1> QED
  BY <1>1, FS_Subset, FS_CardinalityType

Rank(x, S) == Cardinality(Upto(x, S))

LEMMA Ranks ==
  ASSUME NEW S \in SUBSET Places
  PROVE  /\ \A x \in S : Rank(x, S) \in 1 .. Cardinality(S)
         /\ \A x, y \in S : x < y => Rank(x, S) < Rank(y, S)
         /\ \A n \in 1 .. Cardinality(S) : \E x \in S : Rank(x, S) = n
<1>1. IsFiniteSet(S) /\ Cardinality(S) \in Nat /\ S \subseteq Nat
  BY PlacesCounted DEF Places
<1>2. ASSUME NEW x \in S
      PROVE  /\ IsFiniteSet(Upto(x, S)) /\ Rank(x, S) \in 1 .. Cardinality(S)
             /\ Rank(x, S) \in Nat
  <2>1. Upto(x, S) \in SUBSET S /\ x \in Upto(x, S)
    BY <1>1 DEF Upto
  <2>2. IsFiniteSet(Upto(x, S)) /\ Rank(x, S) <= Cardinality(S) /\ Rank(x, S) \in Nat
    BY <1>1, <2>1, FS_Subset, FS_CardinalityType DEF Rank
  <2>3. Rank(x, S) # 0
    BY <2>1, <2>2, FS_EmptySet DEF Rank
  <2> QED
    BY <1>1, <2>2, <2>3
<1>3. ASSUME NEW x \in S, NEW y \in S, x < y
      PROVE  Rank(x, S) < Rank(y, S)
  <2>3. x \in Nat /\ y \in Nat
    BY <1>1
  <2>1. Upto(x, S) \in SUBSET Upto(y, S) /\ y \in Upto(y, S) /\ y \notin Upto(x, S)
    <3>1. ASSUME NEW z \in S, z <= x PROVE z <= y
      <4>1. z \in Nat
        BY <1>1
      <4> QED
        BY <1>3, <2>3, <3>1, <4>1
    <3>2. y <= y /\ ~(y <= x)
      BY <1>3, <2>3
    <3> QED
      BY <3>1, <3>2 DEF Upto
  <2>2. Rank(x, S) <= Rank(y, S) /\ Rank(x, S) # Rank(y, S)
    BY <1>2, <2>1, FS_Subset DEF Rank
  <2> QED
    BY <1>2, <2>2
<1> DEFINE rank == [x \in S |-> Rank(x, S)]
           Ns == 1 .. Cardinality(S)
<1>4. rank \in Injection(S, Ns)
  <2>1. rank \in [S -> Ns]
    BY <1>2
  <2>2. ASSUME NEW x \in S, NEW y \in S, x # y
        PROVE  Rank(x, S) # Rank(y, S)
    <3>1. x < y \/ y < x
      BY <1>1, <2>2
    <3> QED
      BY <1>2, <1>3, <3>1
  <2>3. \A x, y \in S : rank[x] = rank[y] => x = y
    BY <2>2
  <2> QED
    BY <2>1, <2>3 DEF Injection, IsInjective
<1>5. IsFiniteSet(Ns) /\ Cardinality(Ns) = Cardinality(S)
  BY <1>1, FS_Interval
<1>6. rank \in Surjection(S, Ns)
  BY <1>4, <1>5, FS_Injection
<1>7. \A n \in Ns : \E x \in S : Rank(x, S) = n
  BY <1>6 DEF Surjection
<1> QED
  BY <1>2, <1>3, <1>7

LEMMA Ascends ==
  ASSUME NEW S \in SUBSET Places
  PROVE  /\ Ascending(S) \in Seq(Places) /\ Len(Ascending(S)) = Cardinality(S)
         /\ \A n \in 1 .. Cardinality(S) :
              Ascending(S)[n] \in S /\ Rank(Ascending(S)[n], S) = n
         /\ \A x \in S : Ascending(S)[Rank(x, S)] = x
         /\ Range(Ascending(S)) = S
<1> DEFINE s == Ascending(S)
           Ns == 1 .. Cardinality(S)
<1>1. Cardinality(S) \in Nat /\ S \subseteq Nat
  BY PlacesCounted DEF Places
<1>2. s = [n \in Ns |-> CHOOSE x \in S : Rank(x, S) = n]
  BY DEF Ascending, Rank
<1>3. \A n \in Ns : s[n] \in S /\ Rank(s[n], S) = n
  BY <1>2, Ranks
<1>4. s \in Seq(Places) /\ Len(s) = Cardinality(S) /\ DOMAIN s = Ns
  <2>1. s \in [Ns -> Places]
    BY <1>2, <1>3
  <2> QED
    BY <1>1, <2>1
<1>5. \A x \in S : Rank(x, S) \in Ns
  BY Ranks
<1>6. \A x, y \in S : Rank(x, S) = Rank(y, S) => x = y
  <2> SUFFICES ASSUME NEW x \in S, NEW y \in S, Rank(x, S) = Rank(y, S), x # y
               PROVE  FALSE
    OBVIOUS
  <2>1. x < y \/ y < x
    BY <1>1
  <2>2. Rank(x, S) \in Nat
    BY <1>5
  <2> QED
    BY <2>1, <2>2, Ranks
<1> HIDE DEF s
<1>7. \A x \in S : s[Rank(x, S)] = x
  BY <1>3, <1>5, <1>6
<1>8. Range(s) = S
  BY <1>3, <1>4, <1>5, <1>7 DEF Range
<1> QED
  BY <1>3, <1>4, <1>7, <1>8 DEF s

LEMMA AscendingLast ==
  ASSUME NEW S \in SUBSET Places, S # {}
  PROVE  /\ Ascending(S) # <<>>
         /\ Last(Ascending(S)) \in S
         /\ \A x \in S : x <= Last(Ascending(S))
<1> DEFINE N == Cardinality(S)
<1>1. IsFiniteSet(S) /\ N \in Nat /\ N # 0 /\ S \subseteq Nat
  BY PlacesCounted, FS_EmptySet DEF Places
<1>2. N \in 1 .. N
  BY <1>1
<1>3. Last(Ascending(S)) = Ascending(S)[N]
  BY Ascends DEF Last
<1>4. Last(Ascending(S)) \in S /\ Rank(Last(Ascending(S)), S) = N
  BY <1>2, <1>3, Ascends
<1>5. ASSUME NEW x \in S
      PROVE  x <= Last(Ascending(S))
  <2>1. Rank(x, S) \in 1 .. N
    BY Ranks
  <2>2. ~(Last(Ascending(S)) < x)
    <3>1. Last(Ascending(S)) < x => N < Rank(x, S)
      BY <1>4, Ranks
    <3> QED
      BY <1>1, <2>1, <3>1
  <2>3. x \in Nat /\ Last(Ascending(S)) \in Nat
    BY <1>1, <1>4
  <2> QED
    BY <2>2, <2>3
<1>6. Ascending(S) # <<>>
  BY <1>1, Ascends
<1> QED
  BY <1>1, <1>4, <1>5, <1>6

LEMMA AscendingAppends ==
  ASSUME NEW S \in SUBSET Places, NEW T \in SUBSET Places,
         \A x \in S : \A y \in T : x < y
  PROVE  Ascending(S) \o Ascending(T) = Ascending(S \cup T)
<1> DEFINE U == S \cup T
           N == Cardinality(S)
           M == Cardinality(T)
           s == Ascending(S)
           t == Ascending(T)
           u == Ascending(U)
<1>1. /\ IsFiniteSet(S) /\ N \in Nat /\ IsFiniteSet(T) /\ M \in Nat
      /\ U \in SUBSET Places /\ S \subseteq Nat /\ T \subseteq Nat
  BY PlacesCounted DEF Places
<1>2. Cardinality(U) = N + M
  <2>1. S \cap T = {}
    BY <1>1
  <2>2. Cardinality(S \cap T) = 0
    BY <2>1, FS_EmptySet
  <2>3. Cardinality(U) = N + M - Cardinality(S \cap T)
    BY <1>1, FS_Union
  <2> QED
    BY <1>1, <2>2, <2>3
<1>3. /\ s \in Seq(Places) /\ Len(s) = N /\ t \in Seq(Places) /\ Len(t) = M
      /\ u \in Seq(Places) /\ Len(u) = N + M
  BY <1>1, <1>2, Ascends
<1>4. ASSUME NEW n \in 1 .. N
      PROVE  u[n] = s[n]
  <2>1. s[n] \in S /\ Rank(s[n], S) = n
    BY Ascends
  <2> DEFINE x == s[n]
  <2>2. Upto(x, U) = Upto(x, S)
    <3>1. x \in S /\ x \in Nat
      BY <1>1, <2>1
    <3> HIDE DEF x
    <3>2. ASSUME NEW y \in T PROVE ~(y <= x)
      <4>1. y \in Nat /\ x < y
        BY <1>1, <3>1
      <4> QED
        BY <3>1, <4>1
    <3> QED
      BY <3>2 DEF Upto
  <2>3. Rank(x, U) = n /\ x \in U
    BY <2>1, <2>2 DEF Rank
  <2>4. u[Rank(x, U)] = x
    BY <1>1, <2>3, Ascends
  <2> QED
    BY <2>3, <2>4
<1>5. ASSUME NEW k \in 1 .. M
      PROVE  u[N + k] = t[k]
  <2>1. t[k] \in T /\ Rank(t[k], T) = k
    BY Ascends
  <2> DEFINE x == t[k]
             V == Upto(x, T)
  <2>2. Upto(x, U) = S \cup V
    <3>1. x \in T /\ x \in Nat
      BY <1>1, <2>1
    <3> HIDE DEF x
    <3>2. ASSUME NEW y \in S PROVE y <= x
      <4>1. y \in Nat /\ y < x
        BY <1>1, <3>1
      <4> QED
        BY <3>1, <4>1
    <3> QED
      BY <3>2 DEF Upto
  <2>3. V \in SUBSET T
    BY DEF Upto
  <2>4. IsFiniteSet(V) /\ Cardinality(V) = k
    BY <1>1, <2>1, <2>3, FS_Subset DEF Rank
  <2>5. S \cap V = {}
    <3>1. S \cap T = {}
      BY <1>1
    <3> QED
      BY <2>3, <3>1
  <2>6. Cardinality(S \cap V) = 0
    BY <2>5, FS_EmptySet
  <2> HIDE DEF V
  <2>7. Cardinality(S \cup V) = N + k - 0
    BY <1>1, <2>4, <2>6, FS_Union
  <2>8. Rank(x, U) = N + k
    <3>1. N + k - 0 = N + k
      BY <1>1
    <3> QED
      BY <2>2, <2>7, <3>1 DEF Rank
  <2>9. u[Rank(x, U)] = x
    BY <1>1, <2>1, Ascends
  <2> QED
    BY <2>8, <2>9
<1> HIDE DEF s, t, u, N, M
<1>6. s \o t \in Seq(Places) /\ Len(s \o t) = N + M
  BY <1>1, <1>3
<1>7. ASSUME NEW n \in 1 .. N + M
      PROVE  (s \o t)[n] = u[n]
  <2>1. (s \o t)[n] = IF n <= N THEN s[n] ELSE t[n - N]
    BY <1>1, <1>3
  <2>2. CASE n <= N
    <3>1. n \in 1 .. N
      BY <1>1, <2>2
    <3> QED
      BY <1>4, <2>1, <2>2, <3>1
  <2>3. CASE ~(n <= N)
    <3>1. n - N \in 1 .. M /\ N + (n - N) = n
      BY <1>1, <2>3
    <3> QED
      BY <1>5, <2>1, <2>3, <3>1
  <2> QED
    BY <2>2, <2>3
<1>8. s \o t = u
  <2> DEFINE w == s \o t
  <2>1. w \in Seq(Places) /\ Len(w) = Len(u) /\ Len(u) = N + M
    BY <1>3, <1>6
  <2>2. \A n \in 1 .. Len(u) : w[n] = u[n]
    BY <1>7, <2>1
  <2> HIDE DEF w
  <2>3. w = u
    BY <1>3, <2>1, <2>2
  <2> QED
    BY <2>3 DEF w
<1> QED
  BY <1>8 DEF s, t, u

-----------------------------------------------------------------------------
(* Sequence numbers, frontiers and gaps *)

\* The ops of the world are as their authors write them.
Written == \A i \in Places : IsWritten(world[i], i)

LEMMA Highest ==
  ASSUME NEW S \in SUBSET (-1 .. WorldSize), S # {}
  PROVE  Max(S) \in S /\ \A k \in S : k <= Max(S)
<1> DEFINE below == {WorldSize - k : k \in S}
<1>1. below \in SUBSET Nat /\ below # {}
  <2>1. \A k \in S : WorldSize - k \in Nat
    BY WorldAssumption
  <2> QED
    BY <2>1
<1>2. PICK least \in below : \A k \in below : least <= k
  BY <1>1, Least
<1>3. PICK top \in S : least = WorldSize - top
  BY <1>2
<1>4. ASSUME NEW k \in S PROVE top >= k
  <2>1. WorldSize - top <= WorldSize - k
    BY <1>2, <1>3
  <2>2. top \in Int /\ k \in Int /\ WorldSize \in Int
    BY WorldAssumption
  <2> QED
    BY <2>1, <2>2
<1>5. Max(S) \in S /\ \A k \in S : Max(S) >= k
  BY <1>3, <1>4 DEF Max
<1>6. -1 .. WorldSize \subseteq Int
  BY WorldAssumption
<1>7. S \subseteq Int /\ Max(S) \in Int
  BY <1>5, <1>6
<1>8. ASSUME NEW k \in S PROVE k <= Max(S)
  BY <1>5, <1>7
<1> QED
  BY <1>5, <1>8

LEMMA SeqnoCounts ==
  ASSUME NEW i \in Places
  PROVE  Seqno(i) \in 0 .. WorldSize
<1> DEFINE before == {j \in 1 .. i - 1 : world[j].actor = world[i].actor}
<1>1. i \in Nat /\ i - 1 \in Nat /\ i <= WorldSize
  BY WorldAssumption DEF Places
<1>2. IsFiniteSet(1 .. i - 1) /\ Cardinality(1 .. i - 1) = i - 1
  BY <1>1, FS_Interval
<1>3. before \in SUBSET (1 .. i - 1)
  OBVIOUS
<1>4. Cardinality(before) \in Nat /\ Cardinality(before) <= i - 1
  BY <1>2, <1>3, FS_Subset, FS_CardinalityType
<1> QED
  BY <1>1, <1>4, WorldAssumption DEF Seqno

\* An actor and a number name one op.
LEMMA SeqnoRises ==
  ASSUME NEW i \in Places, NEW j \in Places, i < j, world[i].actor = world[j].actor
  PROVE  Seqno(i) < Seqno(j)
<1> DEFINE before == {k \in 1 .. i - 1 : world[k].actor = world[i].actor}
           later == {k \in 1 .. j - 1 : world[k].actor = world[j].actor}
<1>1. i \in Nat /\ j \in Nat
  BY DEF Places
<1>2. IsFiniteSet(later)
  <2>1. IsFiniteSet(1 .. j - 1)
    BY <1>1, FS_Interval
  <2>2. later \in SUBSET (1 .. j - 1)
    OBVIOUS
  <2> QED
    BY <2>1, <2>2, FS_Subset
<1>3. before \in SUBSET later /\ i \in later /\ i \notin before
  <2>1. \A k \in 1 .. i - 1 : k \in 1 .. j - 1
    BY <1>1
  <2>2. i \in 1 .. j - 1 /\ i \notin 1 .. i - 1
    BY <1>1 DEF Places
  <2> QED
    BY <2>1, <2>2
<1>4. Cardinality(before) <= Cardinality(later) /\ Cardinality(before) # Cardinality(later)
  BY <1>2, <1>3, FS_Subset
<1>5. Seqno(i) \in Nat /\ Seqno(j) \in Nat
  BY SeqnoCounts
<1> QED
  BY <1>4, <1>5 DEF Seqno

LEMMA SeqnoNames ==
  ASSUME NEW i \in Places, NEW j \in Places, world[i].actor = world[j].actor,
         Seqno(i) = Seqno(j)
  PROVE  i = j
<1> SUFFICES ASSUME i # j PROVE FALSE
  OBVIOUS
<1>1. i < j \/ j < i
  BY DEF Places
<1>2. Seqno(i) \in Nat /\ Seqno(j) \in Nat
  BY SeqnoCounts
<1> QED
  BY <1>1, <1>2, SeqnoRises

LEMMA SeqsCounted ==
  ASSUME NEW a, NEW S \in SUBSET Places
  PROVE  SeqsOf(a, S) \in SUBSET (0 .. WorldSize)
  BY SeqnoCounts DEF SeqsOf

LEMMA ObservedCovers ==
  ASSUME NEW a, NEW S \in SUBSET Places, NEW known \in -1 .. WorldSize
  PROVE  /\ Observed(a, S, known) \in SeqsOf(a, S) \cup {known}
         /\ Observed(a, S, known) \in -1 .. WorldSize
         /\ known <= Observed(a, S, known)
         /\ \A i \in S : world[i].actor = a => Seqno(i) <= Observed(a, S, known)
<1>1. SeqsOf(a, S) \cup {known} \in SUBSET (-1 .. WorldSize)
  <2>1. 0 .. WorldSize \subseteq -1 .. WorldSize
    BY WorldAssumption
  <2> QED
    BY <2>1, SeqsCounted
<1>2. \A i \in S : world[i].actor = a => Seqno(i) \in SeqsOf(a, S)
  BY DEF SeqsOf
<1> QED
  BY <1>1, <1>2, Highest DEF Observed

\* A frontier leaves no op out: whoever lacks one has a frontier beneath it.
LEMMA GapsAnswered ==
  ASSUME Written, Held \subseteq Places
  PROVE  EveryGapIsAnswered
<1> SUFFICES ASSUME NEW theirs \in SUBSET Held, NEW i \in Held \ theirs
             PROVE  Advertised(theirs)[world[i].actor] < Seqno(i)
  BY DEF EveryGapIsAnswered, Delta
<1> DEFINE a == world[i].actor
           full == {n \in SeqsOf(a, theirs) : \A k \in 0 .. n : k \in SeqsOf(a, theirs)}
           front == Max({-1} \cup full)
<1>1. theirs \in SUBSET Places /\ i \in Places /\ i \notin theirs
  OBVIOUS
<1>2. Advertised(theirs)[a] = front
  BY <1>1 DEF Advertised, Frontier, Written, IsWritten
<1>3. {-1} \cup full \in SUBSET (-1 .. WorldSize)
  <2>1. SeqsOf(a, theirs) \in SUBSET (0 .. WorldSize)
    BY <1>1, SeqsCounted
  <2>2. 0 .. WorldSize \subseteq -1 .. WorldSize /\ -1 \in -1 .. WorldSize
    BY WorldAssumption
  <2> QED
    BY <2>1, <2>2
<1>4. front \in {-1} \cup full
  BY <1>3, Highest
<1>5. Seqno(i) \in Nat
  BY <1>1, SeqnoCounts
<1>6. Seqno(i) \notin SeqsOf(a, theirs)
  <2> SUFFICES ASSUME NEW j \in theirs, world[j].actor = a, Seqno(j) = Seqno(i)
               PROVE  FALSE
    BY DEF SeqsOf
  <2>1. j = i
    BY <1>1, SeqnoNames
  <2> QED
    BY <1>1, <2>1
<1>7. front < Seqno(i)
  <2>1. CASE front = -1
    BY <1>5, <2>1
  <2>2. CASE front \in full
    <3>1. Seqno(i) \notin 0 .. front
      BY <1>6, <2>2
    <3>2. front \in Int
      BY <1>3, <1>4
    <3> QED
      BY <1>5, <3>1, <3>2
  <2> HIDE DEF front, full
  <2> QED
    BY <1>4, <2>1, <2>2
<1> QED
  BY <1>2, <1>7

-----------------------------------------------------------------------------
(* What the projection is a fold of *)

LEMMA OpsAreOps ==
  ASSUME Written, NEW S \in SUBSET Places, NEW bare
  PROVE  /\ DOMAIN OpsOf(S, bare) = S
         /\ \A i \in S : IsOp(OpsOf(S, bare)[i])
<1>1. ASSUME NEW i \in S
      PROVE  IsOp(world[i]) /\ IsOp([world[i] EXCEPT !.kid = NoKid])
  <2> DEFINE op == world[i]
             naked == [op EXCEPT !.kid = NoKid]
  <2>1. IsOp(op)
    BY DEF Written, IsWritten
  <2> HIDE DEF op
  <2>2. /\ DOMAIN naked = DOMAIN op /\ naked.kid = NoKid
        /\ \A f \in DOMAIN op : f # "kid" => naked[f] = op[f]
        /\ naked = [f \in DOMAIN naked |-> naked[f]]
    BY <2>1 DEF IsOp
  <2>3. Shaped(naked)
    BY <2>1, <2>2 DEF IsOp, Shaped
  <2>4. naked.key = op.key /\ naked.at = op.at
    BY <2>1, <2>2 DEF IsOp
  <2>5. IsOp(naked)
    BY <2>1, <2>2, <2>3, <2>4 DEF IsOp, Keyed
  <2> QED
    BY <2>1, <2>5 DEF op
<1> QED
  BY <1>1 DEF OpsOf

LEMMA FoldOfTyped ==
  ASSUME Written, NEW S \in SUBSET Places, NEW bare
  PROVE  Fold(S, bare) \in Projection
  BY OpsAreOps, BlankTyped, FoldTyped DEF Fold

\* Ops newer than the log extend the fold of it, each as it is when it comes.
LEMMA FoldGrows ==
  ASSUME NEW H \in SUBSET Places, NEW A \in SUBSET Places,
         \A i \in H : \A j \in A : i < j,
         NEW B, NEW C, NEW D, D \cap H = B \cap H, D \cap A = C \cap A
  PROVE  FoldOnto(Fold(H, B), OpsOf(A, C)) = Fold(H \cup A, D)
<1> DEFINE old == OpsOf(H, B)
           new == OpsOf(A, C)
           all == OpsOf(H \cup A, D)
<1>1. DOMAIN old = H /\ DOMAIN new = A /\ DOMAIN all = H \cup A
  BY DEF OpsOf
<1>2. \A i \in H : all[i] = old[i]
  BY DEF OpsOf
<1>3. \A i \in A : all[i] = new[i]
  BY DEF OpsOf
<1> HIDE DEF old, new, all
<1>4. Continued(old, new, all)
  BY <1>1, <1>2, <1>3 DEF Continued
<1>5. FoldOnto(FoldOnto(Blank, old), new) = FoldOnto(Blank, all)
  BY <1>4, FoldAppends
<1> QED
  BY <1>5 DEF Fold, old, new, all

\* The projection is the fold of the log, with some ops of this device taken
\* as they were before they were signed.
TracedTo(B) ==
  /\ B \subseteq Held /\ unsigned \cap Held \subseteq B
  /\ \A i \in B \cup unsigned : Mine(i)
  /\ projection = Fold(Held, B)
Traced == \E B : TracedTo(B)

\* An op of its own that this device dropped keeps its number.
Numbered == \A i \in pruned : Mine(i) => Seqno(i) <= seq

IInv == TypeOK /\ Written /\ Traced /\ Numbered

-----------------------------------------------------------------------------
(* The inductive invariant *)

\* What is read of the world does not change with the log.
LEMMA WorldStands ==
  ASSUME world' = world
  PROVE  /\ \A i : Seqno(i)' = Seqno(i)
         /\ \A i : Mine(i)' = Mine(i)
         /\ \A S, bare : Fold(S, bare)' = Fold(S, bare)
         /\ Written => Written'
<1>1. \A i : Seqno(i)' = Seqno(i)
  BY DEF Seqno
<1>2. \A i : Mine(i)' = Mine(i)
  BY DEF Mine
<1>3. \A S, bare : Fold(S, bare)' = Fold(S, bare)
  BY DEF Fold, OpsOf
<1>4. Written => Written'
  BY DEF Written
<1> QED
  BY <1>1, <1>2, <1>3, <1>4

\* It does not matter to a fold which ops that are not in it are bare.
LEMMA BareInTheFold ==
  ASSUME NEW S, NEW bare
  PROVE  Fold(S, bare) = Fold(S, bare \cap S)
<1>1. OpsOf(S, bare) = OpsOf(S, bare \cap S)
  BY DEF OpsOf
<1> QED
  BY <1>1 DEF Fold

LEMMA InsertKeeps ==
  ASSUME IInv, NEW batch \in SUBSET Places, NEW bare, Insert(batch, bare),
         world' = world, unsigned' = bare, unsigned \subseteq bare,
         \A i \in bare \ unsigned : i \in batch \ Held /\ Mine(i)
  PROVE  /\ Held' = Held \cup batch /\ Held' \subseteq Places
         /\ ordered' = Ascending(Held')
         /\ Traced'
<1> DEFINE accepted == batch \ Held
           refold == NeedsRefold(accepted)
<1>1. Held \subseteq Places /\ ordered = Ascending(Held)
  BY DEF IInv, TypeOK
<1>2. accepted \in SUBSET Places /\ Held \cup accepted \in SUBSET Places
      /\ Held \cup accepted = Held \cup batch
  BY <1>1
<1>3. CASE ~refold
  <2>1. ASSUME NEW i \in Held, NEW j \in accepted
        PROVE  i < j
    <3>1. Ascending(Held) # <<>> /\ Last(Ascending(Held)) \in Held
          /\ i <= Last(Ascending(Held))
      BY <1>1, AscendingLast
    <3>2. ~(j < Last(ordered))
      BY <1>1, <1>3, <3>1 DEF NeedsRefold
    <3>3. j \in Nat /\ i \in Nat /\ Last(ordered) \in Nat /\ i # j
      <4>1. i \in Places /\ j \in Places /\ Last(ordered) \in Places /\ j \notin Held
        BY <1>1, <1>2, <3>1
      <4> QED
        BY <4>1 DEF Places
    <3> QED
      BY <1>1, <3>1, <3>2, <3>3
  <2>2. ordered' = ordered \o Ascending(accepted)
    BY <1>3 DEF Insert
  <2>3. ordered' = Ascending(Held \cup accepted)
    BY <1>1, <1>2, <2>1, <2>2, AscendingAppends
  <2>4. Held' = Held \cup accepted
    BY <1>2, <2>3, Ascends DEF Held
  <2>5. PICK B : TracedTo(B)
    BY DEF IInv, Traced
  <2>6. projection' = FoldOnto(projection, OpsOf(accepted, bare))
    BY <1>3 DEF Insert
  <2>7. PICK D : D = B \cup (bare \cap (Held \cup accepted))
    OBVIOUS
  <2>8. D \cap Held = B \cap Held
    BY <1>1, <2>5, <2>7 DEF TracedTo
  <2>9. D \cap accepted = bare \cap accepted
    BY <1>1, <2>5, <2>7 DEF TracedTo
  <2>10. projection' = Fold(Held \cup accepted, D)
    BY <1>1, <1>2, <2>1, <2>5, <2>6, <2>8, <2>9, FoldGrows DEF TracedTo
  <2>11. D \subseteq Held' /\ (\A i \in D \cup bare : Mine(i)) /\ bare \cap Held' \subseteq D
    BY <1>1, <2>4, <2>5, <2>7 DEF TracedTo
  <2>12. TracedTo(D)'
    BY <2>4, <2>10, <2>11, WorldStands DEF TracedTo
  <2> QED
    BY <1>2, <2>3, <2>4, <2>12 DEF Traced
<1>4. CASE refold
  <2>1. ordered' = Ascending(Held \cup accepted)
    BY <1>4 DEF Insert
  <2>2. Held' = Held \cup accepted
    BY <1>2, <2>1, Ascends DEF Held
  <2>3. projection' = Fold(Held \cup accepted, bare)
    BY <1>4 DEF Insert
  <2>4. PICK B : TracedTo(B)
    BY DEF IInv, Traced
  <2>5. \A i \in bare : Mine(i)
    BY <2>4 DEF TracedTo
  <2>6. projection' = Fold(Held', bare \cap Held')
    BY <2>2, <2>3, BareInTheFold
  <2>7. PICK D : D = bare \cap Held'
    OBVIOUS
  <2>8. TracedTo(D)'
    BY <2>5, <2>6, <2>7, WorldStands DEF TracedTo
  <2> QED
    BY <1>2, <2>1, <2>2, <2>8 DEF Traced
<1> QED
  BY <1>3, <1>4

LEMMA InitInvariant == Init => IInv
<1> SUFFICES ASSUME Init PROVE IInv
  OBVIOUS
<1>1. Written
  <2>1. PICK author \in [Places -> Actor], kind \in [Places -> OpKinds] :
          world = [i \in Places |-> OpOf(author[i], kind[i], i)]
    BY DEF Init
  <2> QED
    BY <2>1, OpOfIsWritten DEF Written
<1>2. Held = {}
  BY DEF Init, Held, Range
<1>3. Ascending({}) = <<>>
  <2>1. Ascending({}) \in Seq(Places) /\ Len(Ascending({})) = Cardinality({})
    BY Ascends
  <2>2. Len(Ascending({})) = 0
    BY <2>1, FS_EmptySet
  <2> QED
    BY <2>1, <2>2
<1>4. Fold({}, {}) = Blank
  <2> DEFINE none == OpsOf({}, {})
  <2>1. DOMAIN none = {}
    BY DEF OpsOf
  <2> HIDE DEF none
  <2>2. PICK h : Run(Blank, none, h) /\ FoldOnto(Blank, none) = h[WorldSize]
    BY FoldRuns
  <2>3. 0 \in 0 .. WorldSize
    BY WorldAssumption
  <2>4. h[0] = h[WorldSize]
    BY <2>1, <2>2, <2>3, RunRests
  <2>5. h[0] = Blank
    BY <2>2, RunSteps
  <2> QED
    BY <2>2, <2>4, <2>5 DEF Fold, none
<1>5. TracedTo({})
  BY <1>2, <1>4 DEF TracedTo, Init
<1>6. Blank.auth \in ChamberState /\ Blank.shown \in [Member -> 0 .. WorldSize]
  BY BlankTyped DEF Projection
<1>7. vv \in [Actor -> -1 .. WorldSize] /\ seq \in -1 .. WorldSize /\ (Me \in Actor => vv[Me] <= seq)
  <2>1. -1 \in -1 .. WorldSize
    BY WorldAssumption
  <2> QED
    BY <2>1 DEF Init
<1>8. TypeOK
  BY <1>2, <1>3, <1>6, <1>7 DEF TypeOK, Init
<1>9. Numbered
  BY DEF Numbered, Init
<1> QED
  BY <1>1, <1>5, <1>8, <1>9 DEF IInv, Traced

\* What the projection is a fold of keeps its shape.
LEMMA TracedTyped ==
  ASSUME Written, world' = world, Held' \in SUBSET Places, Traced'
  PROVE  /\ projection'.auth \in ChamberState
         /\ projection'.shown \in [Member -> 0 .. WorldSize]
<1>1. PICK B : TracedTo(B)'
  BY DEF Traced
<1>2. projection' = Fold(Held', B)
  BY <1>1, WorldStands DEF TracedTo
<1>3. projection' \in Projection
  BY <1>2, FoldOfTyped
<1> QED
  BY <1>3 DEF Projection

\* The vector that counts the ops of S in covers them.
Counting(v, S, known) == v = [a \in Actor |-> Observed(a, S, known[a])]

LEMMA VectorCovers ==
  ASSUME Written, NEW S \in SUBSET Places, NEW known \in [Actor -> -1 .. WorldSize],
         NEW v, Counting(v, S, known)
  PROVE  /\ v \in [Actor -> -1 .. WorldSize]
         /\ \A a \in Actor : known[a] <= v[a] /\ v[a] \in SeqsOf(a, S) \cup {known[a]}
         /\ \A i \in S : Seqno(i) <= v[world[i].actor]
<1>1. ASSUME NEW a \in Actor
      PROVE  /\ v[a] \in -1 .. WorldSize
             /\ known[a] <= v[a] /\ v[a] \in SeqsOf(a, S) \cup {known[a]}
             /\ \A i \in S : world[i].actor = a => Seqno(i) <= v[a]
  <2>1. known[a] \in -1 .. WorldSize /\ v[a] = Observed(a, S, known[a])
    BY DEF Counting
  <2> QED
    BY <2>1, ObservedCovers
<1>2. \A i \in S : world[i].actor \in Actor
  BY DEF Written, IsWritten
<1>3. \A i \in S : Seqno(i) <= v[world[i].actor]
  BY <1>1, <1>2
<1>4. v \in [Actor -> -1 .. WorldSize]
  BY <1>1 DEF Counting
<1> QED
  BY <1>1, <1>3, <1>4

\* The vector goes on covering the log when ops of S join it.
LEMMA InsertCounts ==
  ASSUME IInv, NEW batch \in SUBSET Places, NEW bare, Insert(batch, bare), world' = world,
         Held' = Held \cup batch
  PROVE  /\ vv' \in [Actor -> -1 .. WorldSize]
         /\ \A a \in Actor : vv'[a] \in SeqsOf(a, batch \ Held) \cup {vv[a]}
         /\ \A i \in Held' : Seqno(i)' <= vv'[world'[i].actor]
<1> DEFINE S == batch \ Held
<1>1. Written /\ vv \in [Actor -> -1 .. WorldSize] /\ Held \subseteq Places
  BY DEF IInv, TypeOK
<1>2. Counting(vv', S, vv)
  BY DEF Insert, Counting
<1>3. S \in SUBSET Places
  OBVIOUS
<1>4. /\ vv' \in [Actor -> -1 .. WorldSize]
      /\ \A a \in Actor : vv[a] <= vv'[a] /\ vv'[a] \in SeqsOf(a, S) \cup {vv[a]}
      /\ \A i \in S : Seqno(i) <= vv'[world[i].actor]
  BY <1>1, <1>2, <1>3, VectorCovers
<1>5. ASSUME NEW i \in Held PROVE Seqno(i) <= vv'[world[i].actor]
  <2> DEFINE a == world[i].actor
  <2>1. a \in Actor /\ i \in Places
    BY <1>1 DEF Written, IsWritten
  <2>2. Seqno(i) <= vv[a]
    BY DEF IInv, TypeOK
  <2>3. vv[a] <= vv'[a]
    BY <1>4, <2>1
  <2>4. Seqno(i) \in Int /\ vv[a] \in Int /\ vv'[a] \in Int
    <3>1. Seqno(i) \in 0 .. WorldSize
      BY <2>1, SeqnoCounts
    <3>2. vv[a] \in -1 .. WorldSize /\ vv'[a] \in -1 .. WorldSize
      BY <1>1, <1>4, <2>1
    <3> QED
      BY <3>1, <3>2, WorldAssumption
  <2> HIDE DEF a
  <2>5. Seqno(i) <= vv'[a]
    BY <2>2, <2>3, <2>4
  <2> QED
    BY <2>5 DEF a
<1>6. \A i \in Held' : Seqno(i) <= vv'[world[i].actor]
  BY <1>4, <1>5
<1>7. \A i \in Held' : Seqno(i)' <= vv'[world'[i].actor]
  BY <1>6, WorldStands
<1> QED
  BY <1>4, <1>7

LEMMA IngestKeeps ==
  ASSUME IInv, NEW batch \in SUBSET Places, Ingest(batch)
  PROVE  IInv'
<1>1. /\ \A i \in batch : Mine(i) => i \in (Held \cup pruned) \ unsigned
      /\ Insert(batch, unsigned) /\ disk' = disk \cup batch /\ pruned' = pruned \ batch
      /\ world' = world /\ seq' = seq /\ unsigned' = unsigned /\ signing' = signing
  BY DEF Ingest
<1>2. /\ Held \subseteq Places /\ vv \in [Actor -> -1 .. WorldSize] /\ seq \in -1 .. WorldSize
      /\ Me \in Actor => vv[Me] <= seq
      /\ signing \subseteq unsigned /\ signing \subseteq Held /\ unsigned \subseteq Held \cup pruned
      /\ disk = Held \ signing /\ pruned \subseteq Places \ Held /\ Written
  BY DEF IInv, TypeOK
<1>3. Held' = Held \cup batch /\ Held' \subseteq Places /\ ordered' = Ascending(Held') /\ Traced'
  BY <1>1, InsertKeeps
<1>4. Written'
  BY <1>1, <1>2, WorldStands
<1>5. /\ vv' \in [Actor -> -1 .. WorldSize]
      /\ \A a \in Actor : vv'[a] \in SeqsOf(a, batch \ Held) \cup {vv[a]}
      /\ \A i \in Held' : Seqno(i)' <= vv'[world'[i].actor]
  BY <1>1, <1>3, InsertCounts
<1>6. Me \in Actor => vv'[Me] <= seq'
  <2> SUFFICES ASSUME Me \in Actor PROVE vv'[Me] <= seq
    BY <1>1
  <2>1. CASE vv'[Me] = vv[Me]
    BY <1>2, <2>1
  <2>2. CASE vv'[Me] \in SeqsOf(Me, batch \ Held)
    <3>1. PICK i \in batch \ Held : world[i].actor = Me /\ vv'[Me] = Seqno(i)
      BY <2>2 DEF SeqsOf
    <3>2. Mine(i) /\ i \in pruned
      BY <1>1, <3>1 DEF Mine
    <3> QED
      BY <3>1, <3>2 DEF IInv, Numbered
  <2> QED
    BY <1>5, <2>1, <2>2
<1>7. signing \cap batch = {}
  BY <1>1, <1>2 DEF IInv, Traced, TracedTo
<1>8. disk' = Held' \ signing' /\ pruned' \subseteq Places \ Held'
  BY <1>1, <1>2, <1>3, <1>7
<1>9. projection'.auth \in ChamberState /\ projection'.shown \in [Member -> 0 .. WorldSize]
  BY <1>1, <1>2, <1>3, TracedTyped
<1>10. TypeOK'
  BY <1>1, <1>2, <1>3, <1>5, <1>6, <1>8, <1>9 DEF TypeOK
<1>11. Numbered'
  BY <1>1, WorldStands DEF IInv, Numbered
<1> QED
  BY <1>3, <1>4, <1>10, <1>11 DEF IInv

LEMMA DispatchKeeps ==
  ASSUME IInv, NEW i \in Places, Dispatch(i)
  PROVE  IInv'
<1>1. /\ Mine(i) /\ i \notin Held /\ Seqno(i) = seq + 1 /\ seq' = seq + 1
      /\ unsigned' = unsigned \cup {i} /\ Insert({i}, unsigned')
      /\ world' = world /\ pruned' = pruned
      /\ \/ signing' = signing \cup {i} /\ disk' = disk
         \/ disk' = disk \cup {i} /\ signing' = signing
  BY DEF Dispatch
<1>2. /\ Held \subseteq Places /\ vv \in [Actor -> -1 .. WorldSize] /\ seq \in -1 .. WorldSize
      /\ Me \in Actor => vv[Me] <= seq
      /\ signing \subseteq unsigned /\ signing \subseteq Held /\ unsigned \subseteq Held \cup pruned
      /\ disk = Held \ signing /\ pruned \subseteq Places \ Held /\ Written
  BY DEF IInv, TypeOK
<1>3. /\ Held' = Held \cup {i} /\ Held' \subseteq Places /\ ordered' = Ascending(Held')
      /\ Traced'
  <2>1. {i} \in SUBSET Places /\ unsigned \subseteq unsigned'
    BY <1>1
  <2>2. \A j \in unsigned' \ unsigned : j \in {i} \ Held /\ Mine(j)
    BY <1>1
  <2> QED
    BY <1>1, <1>2, <2>1, <2>2, InsertKeeps
<1>4. Written'
  BY <1>1, <1>2, WorldStands
<1>5. /\ vv' \in [Actor -> -1 .. WorldSize]
      /\ \A a \in Actor : vv'[a] \in SeqsOf(a, {i} \ Held) \cup {vv[a]}
      /\ \A j \in Held' : Seqno(j)' <= vv'[world'[j].actor]
  BY <1>1, <1>3, InsertCounts
<1>6. Seqno(i) \in 0 .. WorldSize
  BY SeqnoCounts
<1>7. seq' \in -1 .. WorldSize
  BY <1>1, <1>2, <1>6, WorldAssumption
<1>8. Me \in Actor => vv'[Me] <= seq'
  <2> SUFFICES ASSUME Me \in Actor PROVE vv'[Me] <= seq'
    OBVIOUS
  <2>1. SeqsOf(Me, {i} \ Held) \subseteq {Seqno(i)}
    BY DEF SeqsOf
  <2>2. vv'[Me] = seq + 1 \/ vv'[Me] = vv[Me]
    BY <1>1, <1>5, <2>1
  <2>3. vv[Me] \in Int /\ seq \in Int /\ vv[Me] <= seq
    <3>1. vv[Me] \in -1 .. WorldSize
      BY <1>2
    <3> QED
      BY <1>2, <3>1, WorldAssumption
  <2> QED
    BY <1>1, <2>2, <2>3
<1>9. /\ signing' \subseteq unsigned' /\ signing' \subseteq Held'
      /\ unsigned' \subseteq Held' \cup pruned'
      /\ disk' = Held' \ signing'
  BY <1>1, <1>2, <1>3
<1>10. pruned' \subseteq Places \ Held'
  <2>1. i \notin pruned
    <3>1. ~(seq + 1 <= seq)
      BY <1>2, WorldAssumption
    <3> QED
      BY <1>1, <3>1 DEF IInv, Numbered
  <2> QED
    BY <1>1, <1>2, <1>3, <2>1
<1>11. projection'.auth \in ChamberState /\ projection'.shown \in [Member -> 0 .. WorldSize]
  BY <1>1, <1>2, <1>3, TracedTyped
<1>12. TypeOK'
  BY <1>3, <1>5, <1>7, <1>8, <1>9, <1>10, <1>11 DEF TypeOK
<1>13. Numbered'
  <2> SUFFICES ASSUME NEW j \in pruned, Mine(j) PROVE Seqno(j) <= seq + 1
    BY <1>1, WorldStands DEF Numbered
  <2>1. Seqno(j) <= seq /\ j \in Places
    BY <1>2 DEF IInv, Numbered
  <2>2. Seqno(j) \in Int /\ seq \in Int
    BY <1>2, <2>1, SeqnoCounts, WorldAssumption
  <2> QED
    BY <2>1, <2>2
<1> QED
  BY <1>3, <1>4, <1>12, <1>13 DEF IInv

LEMMA SignAndReleaseKeeps ==
  ASSUME IInv, NEW i, SignAndRelease(i)
  PROVE  IInv'
<1>1. /\ i \in signing /\ signing' = signing \ {i} /\ unsigned' = unsigned \ {i}
      /\ disk' = disk \cup {i} /\ world' = world /\ ordered' = ordered /\ seq' = seq
      /\ vv' = vv /\ projection' = projection /\ pruned' = pruned
  BY DEF SignAndRelease
<1>2. Held' = Held
  BY <1>1 DEF Held
<1>3. Written' /\ Numbered'
  BY <1>1, WorldStands DEF IInv, Numbered
<1>4. Traced'
  <2>1. PICK B : TracedTo(B)
    BY DEF IInv, Traced
  <2>2. TracedTo(B)'
    BY <1>1, <1>2, <2>1, WorldStands DEF TracedTo
  <2> QED
    BY <2>2 DEF Traced
<1>5. \A j \in Held' : Seqno(j)' <= vv'[world'[j].actor]
  BY <1>1, <1>2, WorldStands DEF IInv, TypeOK
<1>6. TypeOK'
  BY <1>1, <1>2, <1>5 DEF IInv, TypeOK
<1> QED
  BY <1>3, <1>4, <1>6 DEF IInv

LEMMA RestartKeeps ==
  ASSUME IInv, Restart
  PROVE  IInv'
<1>1. /\ signing = {} /\ disk # {} /\ ordered' = Ascending(disk)
      /\ vv' = [a \in Actor |-> Observed(a, disk, -1)]
      /\ projection' = Fold(disk, unsigned)
      /\ world' = world /\ seq' = seq /\ unsigned' = unsigned /\ signing' = signing
      /\ disk' = disk /\ pruned' = pruned
  BY DEF Restart
<1>2. /\ Held \subseteq Places /\ vv \in [Actor -> -1 .. WorldSize] /\ seq \in -1 .. WorldSize
      /\ Me \in Actor => vv[Me] <= seq
      /\ \A i \in Held : Seqno(i) <= vv[world[i].actor]
      /\ signing \subseteq unsigned /\ signing \subseteq Held /\ unsigned \subseteq Held \cup pruned
      /\ disk = Held /\ pruned \subseteq Places \ Held /\ Written
  BY <1>1 DEF IInv, TypeOK
<1>3. Held' = Held /\ ordered' = Ascending(Held')
  BY <1>1, <1>2, Ascends DEF Held
<1>4. Written' /\ Numbered'
  BY <1>1, WorldStands DEF IInv, Numbered
<1>5. Traced'
  <2>1. \A i \in unsigned : Mine(i)
    BY DEF IInv, Traced, TracedTo
  <2>2. projection' = Fold(Held', unsigned \cap Held')
    BY <1>1, <1>2, <1>3, BareInTheFold
  <2>3. PICK D : D = unsigned \cap Held'
    OBVIOUS
  <2>4. TracedTo(D)'
    BY <1>1, <2>1, <2>2, <2>3, WorldStands DEF TracedTo
  <2> QED
    BY <2>4 DEF Traced
<1> DEFINE none == [a \in Actor |-> -1]
<1>6. none \in [Actor -> -1 .. WorldSize] /\ Counting(vv', disk, none)
  <2>1. -1 \in -1 .. WorldSize
    BY WorldAssumption
  <2> QED
    BY <1>1, <2>1 DEF Counting
<1>7. /\ vv' \in [Actor -> -1 .. WorldSize]
      /\ \A a \in Actor : vv'[a] \in SeqsOf(a, disk) \cup {none[a]}
      /\ \A i \in disk : Seqno(i) <= vv'[world[i].actor]
  BY <1>2, <1>6, VectorCovers
<1>8. \A i \in Held' : Seqno(i)' <= vv'[world'[i].actor]
  BY <1>1, <1>2, <1>3, <1>7, WorldStands
<1>9. Me \in Actor => vv'[Me] <= seq'
  <2> SUFFICES ASSUME Me \in Actor PROVE vv'[Me] <= seq
    BY <1>1
  <2>1. CASE vv'[Me] = -1
    BY <1>2, <2>1, WorldAssumption
  <2>2. CASE vv'[Me] \in SeqsOf(Me, disk)
    <3>1. PICK i \in disk : world[i].actor = Me /\ vv'[Me] = Seqno(i)
      BY <2>2 DEF SeqsOf
    <3>2. Seqno(i) <= vv[Me] /\ vv[Me] <= seq /\ i \in Places
      BY <1>2, <3>1
    <3>3. Seqno(i) \in Int /\ vv[Me] \in Int /\ seq \in Int
      <4>1. vv[Me] \in -1 .. WorldSize
        BY <1>2
      <4> QED
        BY <1>2, <3>2, <4>1, SeqnoCounts, WorldAssumption
    <3> QED
      BY <3>1, <3>2, <3>3
  <2> QED
    BY <1>7, <2>1, <2>2
<1>10. projection'.auth \in ChamberState /\ projection'.shown \in [Member -> 0 .. WorldSize]
  BY <1>1, <1>2, <1>3, <1>5, TracedTyped
<1>11. TypeOK'
  BY <1>1, <1>2, <1>3, <1>7, <1>8, <1>9, <1>10 DEF TypeOK
<1> QED
  BY <1>4, <1>5, <1>11 DEF IInv

LEMMA PruneKeeps ==
  ASSUME IInv, Prune
  PROVE  IInv'
<1> DEFINE keep == Held \ Prunable
<1>1. /\ signing = {} /\ ordered' = Ascending(keep)
      /\ projection' = Fold(keep, unsigned) /\ disk' = keep
      /\ pruned' = pruned \cup Prunable /\ unsigned' = unsigned
      /\ world' = world /\ seq' = seq /\ vv' = vv /\ signing' = signing
  BY DEF Prune
<1>2. /\ Held \subseteq Places /\ vv \in [Actor -> -1 .. WorldSize] /\ seq \in -1 .. WorldSize
      /\ Me \in Actor => vv[Me] <= seq
      /\ \A i \in Held : Seqno(i) <= vv[world[i].actor]
      /\ unsigned \subseteq Held \cup pruned /\ pruned \subseteq Places \ Held /\ Written
  BY DEF IInv, TypeOK
<1>3. Prunable \subseteq Held
  BY DEF Prunable
<1>4. Held' = keep /\ keep \in SUBSET Places
  BY <1>1, <1>2, Ascends DEF Held
<1> HIDE DEF keep
<1>5. Traced'
  <2>1. \A i \in unsigned : Mine(i)
    BY DEF IInv, Traced, TracedTo
  <2>2. projection' = Fold(Held', unsigned \cap Held')
    BY <1>1, <1>4, BareInTheFold
  <2>3. PICK D : D = unsigned \cap Held'
    OBVIOUS
  <2>4. TracedTo(D)'
    BY <1>1, <2>1, <2>2, <2>3, WorldStands DEF TracedTo
  <2> QED
    BY <2>4 DEF Traced
<1>6. Written'
  BY <1>1, <1>2, WorldStands
<1>7. Numbered'
  <2> SUFFICES ASSUME NEW i \in Prunable, Mine(i) PROVE Seqno(i) <= seq
    BY <1>1, WorldStands DEF IInv, Numbered
  <2>1. i \in Held /\ i \in Places /\ world[i].actor = Me /\ Me \in Actor
    BY <1>2, <1>3 DEF Mine, Written, IsWritten
  <2>2. Seqno(i) <= vv[Me] /\ vv[Me] <= seq
    BY <1>2, <2>1
  <2>3. Seqno(i) \in Int /\ vv[Me] \in Int /\ seq \in Int
    <3>1. vv[Me] \in -1 .. WorldSize
      BY <1>2, <2>1
    <3> QED
      BY <1>2, <2>1, <3>1, SeqnoCounts, WorldAssumption
  <2> QED
    BY <2>2, <2>3
<1>8. \A i \in Held' : Seqno(i)' <= vv'[world'[i].actor]
  BY <1>1, <1>2, <1>4, WorldStands DEF keep
<1>9. projection'.auth \in ChamberState /\ projection'.shown \in [Member -> 0 .. WorldSize]
  BY <1>1, <1>2, <1>4, <1>5, TracedTyped
<1>10. /\ signing' \subseteq unsigned' /\ signing' \subseteq Held' /\ unsigned' \subseteq Held' \cup pruned'
       /\ disk' = Held' \ signing' /\ pruned' \subseteq Places \ Held'
       /\ ordered' = Ascending(Held') /\ Held' \subseteq Places
  BY <1>1, <1>2, <1>3, <1>4 DEF keep
<1>11. TypeOK'
  BY <1>1, <1>2, <1>8, <1>9, <1>10 DEF TypeOK
<1> QED
  BY <1>5, <1>6, <1>7, <1>11 DEF IInv

\* Steps that leave the log and what it is a fold of alone.
LEMMA RestKeeps ==
  ASSUME IInv,
         <<world, ordered, seq, vv, projection, unsigned, signing, disk, pruned>>' =
           <<world, ordered, seq, vv, projection, unsigned, signing, disk, pruned>>
  PROVE  IInv'
<1>1. /\ world' = world /\ ordered' = ordered /\ seq' = seq /\ vv' = vv
      /\ projection' = projection /\ unsigned' = unsigned /\ signing' = signing
      /\ disk' = disk /\ pruned' = pruned
  OBVIOUS
<1>2. Held' = Held
  BY <1>1 DEF Held
<1>3. Written' /\ Numbered'
  BY <1>1, WorldStands DEF IInv, Numbered
<1>4. Traced'
  <2>1. PICK B : TracedTo(B)
    BY DEF IInv, Traced
  <2>2. TracedTo(B)'
    BY <1>1, <1>2, <2>1, WorldStands DEF TracedTo
  <2> QED
    BY <2>2 DEF Traced
<1>5. \A j \in Held' : Seqno(j)' <= vv'[world'[j].actor]
  BY <1>1, <1>2, WorldStands DEF IInv, TypeOK
<1>6. TypeOK'
  BY <1>1, <1>2, <1>5 DEF IInv, TypeOK
<1> QED
  BY <1>3, <1>4, <1>6 DEF IInv

LEMMA NextInvariant == IInv /\ [Next]_vars => IInv'
<1> SUFFICES ASSUME IInv, [Next]_vars PROVE IInv'
  OBVIOUS
<1>1. ASSUME NEW batch \in SUBSET Places, Ingest(batch) PROVE IInv'
  BY <1>1, IngestKeeps
<1>2. ASSUME NEW i \in Places, Dispatch(i) PROVE IInv'
  BY <1>2, DispatchKeeps
<1>3. ASSUME NEW i \in Places, SignAndRelease(i) PROVE IInv'
  BY <1>3, SignAndReleaseKeeps
<1>4. CASE Provision
  BY <1>4, RestKeeps DEF Provision
<1>5. CASE Restart
  BY <1>5, RestartKeeps
<1>6. CASE Prune
  BY <1>6, PruneKeeps
<1>7. CASE UNCHANGED vars
  BY <1>7, RestKeeps DEF vars
<1> QED
  BY <1>1, <1>2, <1>3, <1>4, <1>5, <1>6, <1>7 DEF Next

LEMMA Invariant == Spec => []IInv
<1> QED
  BY InitInvariant, NextInvariant, PTL DEF Spec

-----------------------------------------------------------------------------
(* The theorems *)

\* The log keeps its order and its shape, whatever the batches; its version
\* vector counts all it holds, and a device that advertises the frontier of
\* what it has is sent every op it lacks (Log.insert, advertisedVv, delta).
THEOREM GapsShow == Spec => []LogShowsItsGaps
<1>1. IInv => LogShowsItsGaps
  BY GapsAnswered DEF IInv, TypeOK, LogShowsItsGaps
<1> QED
  BY <1>1, Invariant, PTL

\* The fold of the ops before place n is the fold of the log, stopped there.
Stopped(pre, ops, n) ==
  /\ DOMAIN pre = {j \in DOMAIN ops : j < n} /\ DOMAIN ops \subseteq Places
  /\ \A j \in DOMAIN pre : pre[j] = ops[j]

LEMMA FoldStops ==
  ASSUME NEW base, NEW ops, NEW h, Run(base, ops, h), NEW n \in Places,
         NEW pre, Stopped(pre, ops, n)
  PROVE  FoldOnto(base, pre) = h[n - 1]
<1> USE DEF Stopped
<1>1. PICK g : Run(base, pre, g) /\ FoldOnto(base, pre) = g[WorldSize]
  BY FoldRuns
<1>2. n \in Nat /\ n - 1 \in 0 .. WorldSize /\ n - 1 \in Nat
  BY WorldAssumption DEF Places
<1> DEFINE S == {k \in Nat : k <= n - 1 => g[k] = h[k]}
<1>3. S \in SUBSET Nat /\ 0 \in S
  BY <1>1, RunSteps
<1>4. ASSUME NEW k \in 1 .. n - 1, k - 1 \in S
      PROVE  k \in S
  <2>1. k \in Places /\ k < n /\ k - 1 <= n - 1
    BY <1>2, WorldAssumption DEF Places
  <2>2. g[k - 1] = h[k - 1]
    BY <1>4, <2>1
  <2>3. g[k] = IF k \in DOMAIN pre THEN ApplyAt(g[k - 1], k, pre[k]) ELSE g[k - 1]
    BY <1>1, <2>1, RunSteps
  <2>4. h[k] = IF k \in DOMAIN ops THEN ApplyAt(h[k - 1], k, ops[k]) ELSE h[k - 1]
    BY <2>1, RunSteps
  <2>5. k \in DOMAIN pre <=> k \in DOMAIN ops
    BY <2>1
  <2>6. g[k] = h[k]
    BY <2>2, <2>3, <2>4, <2>5
  <2> QED
    BY <1>2, <2>6
<1>5. 0 .. n - 1 \subseteq S
  <2> HIDE DEF S
  <2> QED
    BY <1>2, <1>3, <1>4, StepByStep
<1>6. g[n - 1] = h[n - 1]
  BY <1>2, <1>5
<1>7. \A i \in DOMAIN pre : i \in Places /\ i <= n - 1
  BY <1>2 DEF Places
<1>8. g[n - 1] = g[WorldSize]
  BY <1>1, <1>2, <1>7, RunRests
<1> QED
  BY <1>1, <1>6, <1>8

\* The fold with some ops unsigned is the fold, if these ops are ordinary.
LEMMA OrdinaryFolds ==
  ASSUME Written, Held \subseteq Places, NEW B \in SUBSET Held,
         \A i \in B : Ordinary(i)
  PROVE  Fold(Held, B) = FoldOfLog
<1> DEFINE half == OpsOf(Held, B)
           full == OpsOf(Held, {})
<1>1. DOMAIN half = Held /\ DOMAIN full = Held
  BY DEF OpsOf
<1>2. \A i \in Held : full[i] = world[i]
  BY DEF OpsOf
<1>3. \A i \in Held : half[i] = IF i \in B THEN [world[i] EXCEPT !.kid = NoKid] ELSE world[i]
  BY DEF OpsOf
<1>4. \A i \in Held : IsOp(full[i])
  BY OpsAreOps
<1>5. ASSUME NEW n \in Places
      PROVE  LET pre == OpsOf({j \in Held : j < n}, {})
             IN  Stopped(pre, full, n)
  BY <1>1 DEF OpsOf, Stopped
<1> HIDE DEF half, full
<1>6. PICK g : Run(Blank, half, g) /\ FoldOnto(Blank, half) = g[WorldSize]
  BY FoldRuns
<1>7. PICK h : Run(Blank, full, h) /\ FoldOnto(Blank, full) = h[WorldSize]
  BY FoldRuns
<1>8. \A n \in 0 .. WorldSize : h[n] \in Projection
  BY <1>1, <1>4, <1>7, BlankTyped, RunTyped
<1> DEFINE S == {n \in Nat : g[n] = h[n]}
<1>9. S \in SUBSET Nat /\ 0 \in S
  BY <1>6, <1>7, RunSteps
<1>10. ASSUME NEW n \in 1 .. WorldSize, n - 1 \in S
       PROVE  n \in S
  <2>1. n \in Places /\ n \in Nat /\ n - 1 \in 0 .. WorldSize /\ g[n - 1] = h[n - 1]
    BY <1>10, WorldAssumption DEF Places
  <2>2. g[n] = IF n \in Held THEN ApplyAt(g[n - 1], n, half[n]) ELSE g[n - 1]
    BY <1>1, <1>6, <2>1, RunSteps
  <2>3. h[n] = IF n \in Held THEN ApplyAt(h[n - 1], n, full[n]) ELSE h[n - 1]
    BY <1>1, <1>7, <2>1, RunSteps
  <2>4. CASE n \notin B
    <3>1. n \in Held => half[n] = full[n]
      BY <1>2, <1>3, <2>4
    <3>2. g[n] = h[n]
      BY <2>1, <2>2, <2>3, <3>1
    <3> QED
      BY <2>1, <3>2
  <2>5. CASE n \in B
    <3> DEFINE p == h[n - 1]
               op == world[n]
               pre == OpsOf({j \in Held : j < n}, {})
    <3>1. FoldOnto(Blank, pre) = p
      <4>1. Stopped(pre, full, n)
        BY <1>5, <2>1
      <4> HIDE DEF pre
      <4> QED
        BY <1>7, <2>1, <4>1, FoldStops
    <3>2. Fold({j \in Held : j < n}, {}) = p
      BY <3>1 DEF Fold
    <3>3. /\ Authorize(p.auth, op)
          /\ ~IsChairKey(ApplyOp(p.auth, op), op.kid)
          /\ op.type # "chair.petition"
      BY <2>5, <3>2 DEF Ordinary
    <3>4. p \in Projection
      BY <1>8, <2>1
    <3>5. IsOp(op) /\ n \in Held /\ full[n] = op
      BY <1>2, <1>4, <2>5
    <3>6. half[n] = [op EXCEPT !.kid = NoKid]
      BY <1>3, <2>5, <3>5
    <3> HIDE DEF p, op, pre
    <3>7. ApplyAt(p, n, half[n]) = ApplyAt(p, n, op)
      BY <3>3, <3>4, <3>5, <3>6, SignatureShowsNoDifference
    <3>8. g[n] = h[n]
      BY <2>1, <2>2, <2>3, <3>5, <3>7 DEF p
    <3> QED
      BY <2>1, <3>8
  <2> QED
    BY <2>4, <2>5
<1>11. WorldSize \in S
  <2> HIDE DEF S
  <2>1. 0 .. WorldSize \subseteq S
    BY <1>9, <1>10, WorldAssumption, StepByStep
  <2> QED
    BY <2>1, WorldAssumption
<1>12. g[WorldSize] = h[WorldSize]
  BY <1>11
<1> QED
  BY <1>6, <1>7, <1>12 DEF Fold, FoldOfLog, half, full

\* What a device shows is what everyone computes from the same ops, in
\* whatever batches they came, as long as its own ops are authorised at their
\* places, are no endorsements and are not signed by a Chair device
\* (Log.insert, dispatch, signAndRelease, init, replaceLog).
THEOREM OrdinaryShown == Spec => []OrdinaryOpsShowTrue
<1>1. IInv => OrdinaryOpsShowTrue
  <2> SUFFICES ASSUME IInv, \A i \in Held : Mine(i) => Ordinary(i)
               PROVE  projection = FoldOfLog
    BY DEF OrdinaryOpsShowTrue
  <2>1. PICK B : TracedTo(B)
    BY DEF IInv, Traced
  <2>2. B \in SUBSET Held /\ \A i \in B : Ordinary(i)
    BY <2>1 DEF TracedTo
  <2>3. Fold(Held, B) = FoldOfLog
    BY <2>2, OrdinaryFolds DEF IInv, TypeOK
  <2> QED
    BY <2>1, <2>3 DEF TracedTo
<1> QED
  BY <1>1, Invariant, PTL

=============================================================================
