-------------------------------- MODULE Gavel --------------------------------
(***************************************************************************)
(* Taking the gavel and a seat on a device: the dialogs of js/auth.js and  *)
(* js/founding.js, over a chamber that several devices write at once.      *)
(*                                                                         *)
(* A flow reads the record, waits for its dialog or for the crypto, and    *)
(* writes; what it read is kept in its task.  As in Legislature, the ops   *)
(* form one sequence in canonical order and a device knows some of them.   *)
(* What it shows is their fold, its own ops taken without a signer until   *)
(* something folds them again (module OpLog).  All of it happens within    *)
(* one unit of the dormancy clock.                                         *)
(***************************************************************************)
EXTENDS ChamberFold, Sequences, SequencesExt

CONSTANTS
  Device,    \* the devices that still run, each with its key
  Word,      \* the passwords people come up with
  NoPass,    \* session.chairAuth, chairRecovery or sessionStorage without one
  Knows,     \* the words the person at each device knows
  Bases,     \* chambers to begin with: the fold of what everybody knows, the
             \* ops that not everybody knows yet, who does, who sits where,
             \* whose tab is unlocked, and whether the devices have their keys
  MaxOps     \* how many ops are written in all

ASSUME DeviceAssumption == Device \subseteq Kid
ASSUME KnowsAssumption == Knows \in [Device -> SUBSET Word]

VARIABLES
  base,        \* the chamber this one began with
  chamber,     \* the ops in canonical order
  known,       \* those each device has, by author and number
  bare,        \* a device's own ops that it folded before it signed them
  seat,        \* identity.memberId
  provisioned, \* the device has its key, and announced it
  unlocked,    \* the chairAuth hash that sessionStorage remembers
  task         \* the flow that is waiting, and what it read; `asked' is all that
               \* the device knew then, kept for the properties

vars == <<base, chamber, known, bare, seat, provisioned, unlocked, task>>

Now == MaxTime
Idle == [flow |-> "none"]

-----------------------------------------------------------------------------
(* The fold, with the passwords *)

\* The record of a password or of a recovery verifier: the salt is fresh, so
\* the op that wrote it tells it from every other.
Written(op) == [word |-> op.word, n |-> op.n, legacy |-> FALSE]

\* Mutant: the password is taken from an op that may not set it.
FoldedUnchecked(s, op) ==
  LET sets == op.type = "session.set"
  IN  [core |-> ApplyOp(s.core, op),
       pass |-> IF sets /\ op.word # NoPass THEN Written(op) ELSE s.pass,
       verifier |-> IF sets /\ op.recovery = "mint" THEN Written(op) ELSE s.verifier,
       seatPass |-> IF op.type = "member.put" /\ op.how = "auth"
                    THEN s.seatPass \cup {op.member} ELSE s.seatPass]

Folded(s, op) ==
  LET may == Authorize(s.core, op)
      sets == may /\ op.type = "session.set"
  IN  [core |-> ApplyOp(s.core, op),
       pass |-> IF sets /\ op.word # NoPass THEN Written(op) ELSE s.pass,
       verifier |-> IF sets /\ op.recovery = "mint" THEN Written(op) ELSE s.verifier,
       seatPass |-> IF may /\ op.type = "member.put" /\ op.how = "auth"
                    THEN s.seatPass \cup {op.member} ELSE s.seatPass]

\* (The singleton is s: it makes TLC evaluate it once.)
FoldOf(ops, has, unsigned) ==
  LET Met(op) == IF op.n \in unsigned THEN [op EXCEPT !.kid = NoKid] ELSE op
      Step(s, op) == CHOOSE r \in {Folded(x, Met(op)) : x \in {s}} : TRUE
      Has(op) == op.n \in has
  IN  FoldLeft(Step, base.start, SelectSeq(ops, Has))

FoldFor(d) == FoldOf(chamber, known[d], bare[d])
FoldNext(d) == FoldOf(chamber', known'[d], bare'[d])

Shown(d) == FoldFor(d).core
PassOn(d) == FoldFor(d).pass
VerifierOn(d) == FoldFor(d).verifier

UnenrolledIn(s, d) == HasChair(s) /\ ~IsChairKey(s, d)
Unenrolled(d) == UnenrolledIn(Shown(d), d)
Unlocked(d) == PassOn(d) # NoPass /\ unlocked[d] = PassOn(d)
OtherDevice(d, m) == MemberOwned(Shown(d), m) /\ ~OwnsMember(Shown(d), m, d)

Init ==
  /\ base \in Bases
  /\ chamber = base.ops
  /\ known = base.known
  /\ bare = [d \in Device |-> {}]
  /\ seat = base.seat
  /\ provisioned = [d \in Device |-> base.provisioned]
  /\ unlocked = base.unlocked
  /\ task = [d \in Device |-> Idle]

-----------------------------------------------------------------------------
(* Writing and hearing *)

Count(d) == Cardinality({i \in DOMAIN chamber : chamber[i].by = d})
LastKnown(d) ==
  LET seen == {i \in DOMAIN chamber : chamber[i].n \in known[d]}
  IN  IF seen = {} THEN 0 ELSE CHOOSE i \in seen : \A j \in seen : j <= i

\* store.dispatch, once per payload: the ops go anywhere behind what their
\* author knows.  `saw' is what it knew, kept for the properties.
Dispatch(d, payloads) ==
  LET ops == [i \in DOMAIN payloads |->
                payloads[i] @@ [n |-> <<d, Count(d) + i>>, by |-> d, kid |-> d,
                                at |-> Now, saw |-> known[d]]]
      ids == {ops[i].n : i \in DOMAIN ops}
  IN  /\ provisioned[d]
      /\ Len(chamber) + Len(ops) <= MaxOps
      /\ \E at \in LastKnown(d) .. Len(chamber) :
           chamber' = SubSeq(chamber, 1, at) \o ops
                        \o SubSeq(chamber, at + 1, Len(chamber))
      /\ known' = [known EXCEPT ![d] = @ \cup ids]
      /\ bare' = [bare EXCEPT ![d] = @ \cup ids]
      /\ UNCHANGED base

Waits(d, next) == task' = [task EXCEPT ![d] = next]
Silent == UNCHANGED <<base, chamber, known, bare>>

\* Mutant: the verifier is the one this device started with.
ProofHoldsCached(d, op) == op.type = "chair.recover" => op.proof = base.start.verifier

\* A proof of the Chair's password is checked against the verifier this device
\* shows at that moment; one that fails is dropped, and asked for again.
ProofHolds(d, op) == op.type = "chair.recover" => op.proof = VerifierOn(d)

\* An op that sorts behind everything known is folded on top; any other one
\* has the whole log folded again, with the signatures it has by now.
Hear(d, n) ==
  /\ n \notin known[d]
  /\ \E i \in DOMAIN chamber :
       /\ chamber[i].n = n
       /\ ProofHolds(d, chamber[i])
       /\ bare' = [bare EXCEPT ![d] = IF i > LastKnown(d) THEN @ ELSE {}]
  /\ known' = [known EXCEPT ![d] = @ \cup {n}]
  /\ UNCHANGED <<base, chamber, seat, provisioned, unlocked, task>>

\* sync.provision: the key is made, and announced by the device's first op.
Provision(d) ==
  /\ ~provisioned[d]
  /\ provisioned' = [provisioned EXCEPT ![d] = TRUE]
  /\ UNCHANGED <<base, chamber, known, bare, seat, unlocked, task>>

\* The page is loaded again: its dialog is gone, its log is folded from storage.
Reload(d) ==
  /\ provisioned[d]
  /\ bare' = [bare EXCEPT ![d] = {}]
  /\ Waits(d, Idle)
  /\ UNCHANGED <<base, chamber, known, seat, provisioned, unlocked>>

-----------------------------------------------------------------------------
(* The gavel *)

\* claimChairKey: the first device founds the gavel, later ones ask for it.
ClaimOp(d) == [type |-> IF Unenrolled(d) THEN "chair.request" ELSE "chair.claim",
               key |-> d]

PasswordOp(w) ==
  [type |-> "session.set", seat |-> NoSeat, word |-> w, recovery |-> "mint"]

\* requireChair on a device that is not unlocked: the dialog opens, for the
\* password read now.
OpenGate(d) ==
  /\ task[d] = Idle /\ ~Unlocked(d)
  /\ Waits(d, [flow |-> "gate", auth |-> PassOn(d)])
  /\ Silent /\ UNCHANGED <<seat, provisioned, unlocked>>

\* No password yet: the key is claimed at once, the password follows.
TakeGavel(d, w) ==
  /\ task[d] = [flow |-> "gate", auth |-> NoPass]
  /\ Dispatch(d, <<ClaimOp(d)>>)
  /\ Waits(d, [flow |-> "taking", word |-> w])
  /\ UNCHANGED <<seat, provisioned, unlocked>>

\* rememberChairUnlock reads the password again, after the dispatch.
Remember(d) == unlocked' = [unlocked EXCEPT ![d] = FoldNext(d).pass]

FinishTaking(d) ==
  /\ task[d].flow = "taking"
  /\ Dispatch(d, <<PasswordOp(task[d].word)>>)
  /\ Remember(d)
  /\ Waits(d, Idle)
  /\ UNCHANGED <<seat, provisioned>>

Proves(d, w) ==
  /\ task[d].flow = "gate" /\ task[d].auth # NoPass
  /\ task[d].auth.word = w

\* The password of an older build is stored again, by a device that may.
Strengthen(d, w) ==
  /\ Proves(d, w) /\ task[d].auth.legacy /\ ~Unenrolled(d)
  /\ Waits(d, [flow |-> "rehash", word |-> w])
  /\ Silent /\ UNCHANGED <<seat, provisioned, unlocked>>

Strengthened(d) ==
  /\ task[d].flow = "rehash"
  /\ Dispatch(d, <<PasswordOp(task[d].word)>>)
  /\ Remember(d)
  /\ Waits(d, IF UnenrolledIn(FoldNext(d).core, d)
              THEN [flow |-> "recovering", word |-> task[d].word,
                    proof |-> FoldNext(d).verifier, asked |-> known'[d]]
              ELSE Idle)
  /\ UNCHANGED <<seat, provisioned>>

\* The gate opens.  A device that is not the Chair's yet proves the password to
\* the chamber, or asks where there is nothing to prove it against.
Unlock(d, w) ==
  /\ Proves(d, w) /\ (task[d].auth.legacy => Unenrolled(d))
  /\ unlocked' = [unlocked EXCEPT ![d] = PassOn(d)]
  /\ UNCHANGED <<seat, provisioned>>
  /\ CASE ~Unenrolled(d) -> Silent /\ Waits(d, Idle)
       [] Unenrolled(d) /\ VerifierOn(d) # NoPass ->
            Silent /\ Waits(d, [flow |-> "recovering", word |-> w,
                                proof |-> VerifierOn(d), asked |-> known[d]])
       [] Unenrolled(d) /\ VerifierOn(d) = NoPass ->
            Dispatch(d, <<ClaimOp(d)>>) /\ Waits(d, Idle)

\* recoverChairDevice: the private half opens with the right word only.
Recover(d) ==
  /\ task[d].flow = "recovering"
  /\ Dispatch(d, <<IF task[d].proof.word = task[d].word
                   THEN [type |-> "chair.recover", key |-> d,
                         proof |-> task[d].proof, asked |-> task[d].asked]
                   ELSE ClaimOp(d)>>)
  /\ Waits(d, Idle)
  /\ UNCHANGED <<seat, provisioned, unlocked>>

OpenChange(d) ==
  /\ task[d] = Idle /\ Unlocked(d)
  /\ Waits(d, [flow |-> "change"])
  /\ Silent /\ UNCHANGED <<seat, provisioned, unlocked>>

ChangePassword(d, w) ==
  /\ task[d].flow = "change"
  /\ Dispatch(d, <<PasswordOp(w)>>)
  /\ Remember(d)
  /\ Waits(d, Idle)
  /\ UNCHANGED <<seat, provisioned>>

Cancel(d) ==
  /\ task[d].flow \in {"gate", "change", "found", "sign in"}
  /\ Waits(d, Idle)
  /\ Silent /\ UNCHANGED <<seat, provisioned, unlocked>>

\* What the Chair's Office lets an unlocked device write.
Administer(d, payloads) ==
  /\ task[d] = Idle /\ Unlocked(d)
  /\ Dispatch(d, payloads)
  /\ UNCHANGED <<provisioned, unlocked, task>>

ApproveChair(d, k) ==
  /\ k \in Shown(d).chairRequests
  /\ Administer(d, <<[type |-> "chair.enroll", key |-> k]>>)
  /\ UNCHANGED seat

Petition(d, to) ==
  /\ task[d] = Idle /\ seat[d] # NoSeat
  /\ to \in LiveMembers(Shown(d)) /\ ChairIsDormant(Shown(d))
  /\ Dispatch(d, <<[type |-> "chair.petition", member |-> seat[d], seat |-> to]>>)
  /\ UNCHANGED <<seat, provisioned, unlocked, task>>

-----------------------------------------------------------------------------
(* Founding a chamber *)

\* Seats ever named, so that a new one is new.
Named == base.start.core.members \cup
  {chamber[i].member : i \in {j \in DOMAIN chamber : "member" \in DOMAIN chamber[j]}}

\* canFound: no seat, no Chair, nothing in the log but the seed, and therefore
\* no announcement of a key.
CanFound(d) ==
  /\ seat[d] = NoSeat /\ ~HasChair(Shown(d))
  /\ ~provisioned[d] /\ known[d] = {}

OpenFounding(d) ==
  /\ task[d] = Idle /\ CanFound(d)
  /\ Waits(d, [flow |-> "found"])
  /\ Silent /\ UNCHANGED <<seat, provisioned, unlocked>>

UpsertOp(m) ==
  [type |-> "member.put", member |-> m, how |-> "upsert", chairFields |-> TRUE,
   patch |-> <<>>]
SeatPassOp(m) ==
  [type |-> "member.put", member |-> m, how |-> "auth", chairFields |-> FALSE,
   patch |-> <<>>]
ClaimSeatOp(d, m, asked) ==
  [type |-> "member.claimKey", member |-> m, key |-> d, asked |-> asked]

\* The samples go, the founder's seat comes, and the key is bound to both.
Found(d, w, m) ==
  /\ task[d].flow = "found" /\ m \notin Named
  /\ Dispatch(d, SetToSeq({[type |-> "member.retract", member |-> x] :
                             x \in LiveMembers(Shown(d))})
                   \o <<UpsertOp(m), ClaimSeatOp(d, m, {}),
                        [type |-> "chair.claim", key |-> d]>>)
  /\ Waits(d, [flow |-> "founding", word |-> w, member |-> m])
  /\ UNCHANGED <<seat, provisioned, unlocked>>

FinishFounding(d) ==
  /\ task[d].flow = "founding"
  /\ Dispatch(d, <<SeatPassOp(task[d].member),
                   [type |-> "session.set", seat |-> task[d].member,
                    word |-> task[d].word, recovery |-> "absent"]>>)
  /\ seat' = [seat EXCEPT ![d] = task[d].member]
  /\ Waits(d, Idle)
  /\ UNCHANGED <<provisioned, unlocked>>

-----------------------------------------------------------------------------
(* Taking a seat *)

\* claimSeat; the person knows the password of the seat, if it has one.
OpenSignIn(d, m) ==
  /\ task[d] = Idle /\ m \in LiveMembers(Shown(d))
  /\ Waits(d, [flow |-> "sign in", member |-> m, asked |-> known[d],
               auth |-> m \in FoldFor(d).seatPass])
  /\ Silent /\ UNCHANGED <<seat, provisioned, unlocked>>

\* The first to sit down binds its key at once and its password after it.
SignInFirst(d) ==
  /\ task[d].flow = "sign in" /\ ~task[d].auth
  /\ Dispatch(d, <<ClaimSeatOp(d, task[d].member, task[d].asked)>>)
  /\ Waits(d, [flow |-> "sitting", member |-> task[d].member])
  /\ UNCHANGED <<seat, provisioned, unlocked>>

FinishSitting(d) ==
  /\ task[d].flow = "sitting"
  /\ Dispatch(d, <<SeatPassOp(task[d].member)>>)
  /\ seat' = [seat EXCEPT ![d] = task[d].member]
  /\ Waits(d, Idle)
  /\ UNCHANGED <<provisioned, unlocked>>

\* Mutant: a second device claims like the first.
SignInAgainClaims(d) ==
  /\ task[d].flow = "sign in" /\ task[d].auth
  /\ Dispatch(d, <<ClaimSeatOp(d, task[d].member, task[d].asked)>>)
  /\ seat' = [seat EXCEPT ![d] = task[d].member]
  /\ Waits(d, Idle)
  /\ UNCHANGED <<provisioned, unlocked>>

\* A seat that another device holds is not claimed but asked for.
SignInAgain(d) ==
  LET m == task[d].member
  IN  /\ task[d].flow = "sign in" /\ task[d].auth
      /\ Dispatch(d, <<IF OtherDevice(d, m)
                       THEN [type |-> "member.requestKey", member |-> m, key |-> d,
                             asked |-> task[d].asked]
                       ELSE ClaimSeatOp(d, m, task[d].asked)>>)
      /\ seat' = [seat EXCEPT ![d] = m]
      /\ Waits(d, Idle)
      /\ UNCHANGED <<provisioned, unlocked>>

\* redeemSeatCode: whether the roster knows the seat is read first, then the
\* code's invite is accepted.
ScanCode(d, m) ==
  /\ task[d] = Idle
  /\ Waits(d, [flow |-> "code", member |-> m, there |-> m \in LiveMembers(Shown(d))])
  /\ Silent /\ UNCHANGED <<seat, provisioned, unlocked>>

SitUnlisted(d) ==
  /\ task[d].flow = "code" /\ ~task[d].there
  /\ seat' = [seat EXCEPT ![d] = task[d].member]
  /\ Waits(d, Idle)
  /\ Silent /\ UNCHANGED <<provisioned, unlocked>>

RedeemCode(d) ==
  LET m == task[d].member
  IN  /\ task[d].flow = "code" /\ task[d].there
      /\ IF OtherDevice(d, m)
         THEN Silent /\ UNCHANGED seat
         ELSE /\ Dispatch(d, <<ClaimSeatOp(d, m, known[d])>>)
              /\ seat' = [seat EXCEPT ![d] = m]
      /\ Waits(d, Idle)
      /\ UNCHANGED <<provisioned, unlocked>>

AddMember(d, m) ==
  /\ m \notin Named
  /\ Administer(d, <<UpsertOp(m), [type |-> "session.set", seat |-> NoSeat,
                                   word |-> NoPass, recovery |-> "absent"]>>)
  /\ UNCHANGED seat

ApproveSeat(d, m, k) ==
  /\ k \in Shown(d).pending[m]
  /\ Administer(d, <<[type |-> "member.enrollKey", member |-> m, key |-> k]>>)
  /\ UNCHANGED seat

ResetSeat(d, m) ==
  /\ m \in LiveMembers(Shown(d))
  /\ Administer(d, <<[type |-> "member.resetKeys", member |-> m]>>)
  /\ UNCHANGED seat

ReleaseSeat(d) ==
  /\ seat[d] # NoSeat
  /\ seat' = [seat EXCEPT ![d] = NoSeat]
  /\ Silent /\ UNCHANGED <<provisioned, unlocked, task>>

-----------------------------------------------------------------------------

Next ==
  \E d \in Device :
    \/ Provision(d) \/ Reload(d) \/ Cancel(d)
    \/ OpenGate(d) \/ FinishTaking(d) \/ Strengthened(d) \/ Recover(d)
    \/ OpenChange(d) \/ OpenFounding(d) \/ FinishFounding(d)
    \/ SignInFirst(d) \/ FinishSitting(d) \/ SignInAgain(d)
    \/ SitUnlisted(d) \/ RedeemCode(d) \/ ReleaseSeat(d)
    \/ \E i \in DOMAIN chamber : Hear(d, chamber[i].n)
    \/ \E w \in Knows[d] :
         \/ TakeGavel(d, w) \/ Strengthen(d, w) \/ Unlock(d, w)
         \/ ChangePassword(d, w)
         \/ \E m \in Member : Found(d, w, m)
    \/ \E k \in Kid : ApproveChair(d, k)
    \/ \E m \in Member :
         \/ Petition(d, m) \/ OpenSignIn(d, m) \/ ScanCode(d, m)
         \/ AddMember(d, m) \/ ResetSeat(d, m)
         \/ \E k \in Kid : ApproveSeat(d, m, k)

Spec == Init /\ [][Next]_vars

-----------------------------------------------------------------------------
(* Properties *)

Op(n) == chamber[CHOOSE i \in DOMAIN chamber : chamber[i].n = n]
Ops(type) == {chamber[i] : i \in {j \in DOMAIN chamber : chamber[j].type = type}}

\* A device that misses nothing which the author of an op it has knew then, or
\* had written before.
Informed(d) ==
  \A i \in DOMAIN chamber : chamber[i].n \in known[d] =>
    /\ chamber[i].saw \subseteq known[d]
    /\ \A k \in 1 .. chamber[i].n[2] : <<chamber[i].by, k>> \in known[d]

\* ... and that folded its log with every signature.
Settled(d) == Informed(d) /\ bare[d] = {}

\* The password in force is a Chair's.  Several devices may find a chamber
\* without a password and set one, each after claiming the gavel; whichever
\* claim the order puts first, the password that a settled device honours was
\* set by a key that holds the gavel there.
PasswordIsAChairs ==
  \A d \in Device :
    Settled(d) /\ HasChair(Shown(d)) /\ PassOn(d) # NoPass
      /\ Shown(d).succession = base.start.core.succession
      => IsChairKey(Shown(d), PassOn(d).n[1])

\* A proof of the password is good wherever the record is as new.  An informed
\* device that knows all that the proving device knew refuses the proof only for
\* what that device had not heard of when it read its verifier: a verifier set
\* since, or a key that got the gavel and makes an earlier one count.
ProofsHoldUp ==
  \A d \in Device, op \in Ops("chair.recover") :
    Informed(d) /\ op.n \notin known[d] /\ op.saw \subseteq known[d]
      /\ ~ProofHolds(d, op)
      => \E o \in UNION {Ops(t) : t \in {"session.set", "chair.claim",
                                         "chair.enroll", "chair.recover"}} :
           /\ o.n \in known[d] \ op.asked
           /\ o.type = "session.set" => o.recovery = "mint"

\* Together: the password in force is a Chair's, and its proofs hold up.
PasswordHoldsUp == PasswordIsAChairs /\ ProofsHoldUp

\* A device that was taking the seat as well: the device that wrote op had not
\* heard both of its claim and of its password when it began.
Rival(op, o) ==
  /\ o.member = op.member /\ o.by # op.by
  /\ ~(/\ o.n \in op.asked
       /\ \E auth \in Ops("member.put") :
            /\ auth.by = o.by /\ auth.member = op.member /\ auth.how = "auth"
            /\ auth.n \in op.asked)

\* Who asked for a seat holds it or waits for it.  The key that a device bound
\* or put forward when it took a seat is one of the seat's keys or on its list,
\* as far as a settled device can tell, unless the seat's devices were cleared,
\* the seat was retired, or another device was taking it at the same time.
SeatedOrWaiting ==
  \A d \in Device : Settled(d) =>
    \A op \in Ops("member.claimKey") \cup Ops("member.requestKey") :
      LET m == op.member
          Heard(type) == {o \in Ops(type) : o.n \in known[d]}
      IN  op.n \in known[d] =>
            \/ op.key \in Shown(d).keys[m] \cup Shown(d).pending[m]
            \/ \E o \in Heard("member.resetKeys") \cup Heard("member.retract") :
                 o.member = m
            \/ \E o \in Heard("member.claimKey") : Rival(op, o)
=============================================================================
