------------------------------- MODULE MCGavel -------------------------------
(***************************************************************************)
(* Chambers in which somebody reaches for the gavel or for a seat.         *)
(***************************************************************************)
EXTENDS Gavel, TLC

CONSTANTS k1, k2, k3, m1, m2, m3, w1, w2

\* The person at k1 thinks of two passwords, the others know of the second.
KnowsOf == (k1 :> {w1, w2}) @@ (k2 :> {w2}) @@ (k3 :> {w2})

Password(word, legacy) == [word |-> word, n |-> <<k1, 0>>, legacy |-> legacy]
Unknown == [d \in Device |-> {}]
Gallery == [d \in Device |-> NoSeat]

Begun(sitting, core, pass, verifier, seats) ==
  [sitting |-> sitting, ops |-> <<>>, known |-> Unknown, seat |-> seats,
   provisioned |-> sitting # "founding",
   unlocked |-> [d \in Device |-> IF sitting \in {"seats", "codes"} /\ d = k1 THEN pass ELSE NoPass],
   start |-> [core |-> core, pass |-> pass, verifier |-> verifier,
              seatPass |-> {m \in Member : core.keys[m] # {}}]]

\* The Chair, k1, sits on the first seat; the second one has not been taken.
Founded ==
  [Seeded({m1, m2}) EXCEPT !.chairKeys = {k1}, !.chairSeat = m1, !.keys[m1] = {k1},
                           !.recovery = TRUE, !.lastOpAt = Now, !.chairLastSeen = Now]

\* Three seats, each with its device; the Chair has been silent.
Seats == (k1 :> m1) @@ (k2 :> m2) @@ (k3 :> m3)
Abandoned ==
  [Seeded(Member) EXCEPT !.chairKeys = {k1}, !.chairSeat = m1, !.recovery = TRUE,
                         !.keys = [m \in Member |-> {k \in Kid : Seats[k] = m}],
                         !.lastOpAt = Now, !.chairLastSeen = 1]

\* The last thing the Chair's device did was to set a password of the kind that
\* can be proved; one of the others has heard of it.
LastAct ==
  PasswordOp(w2) @@ [n |-> <<k1, 1>>, by |-> k1, kid |-> k1, at |-> Now, saw |-> {}]

Chambers ==
  {Begun("opening", Seeded({m1}), NoPass, NoPass, Gallery),
   Begun("founding", Seeded({m1}), NoPass, NoPass, Gallery),
   Begun("seats", Founded, Password(w1, FALSE), NoPass, Gallery),
   Begun("codes", Founded, Password(w1, FALSE), NoPass, Gallery),
   Begun("gavel", Founded, Password(w2, FALSE), Password(w2, FALSE), Gallery),
   Begun("gavel", [Founded EXCEPT !.recovery = FALSE], Password(w2, TRUE), NoPass,
         Gallery),
   Begun("silence", Abandoned, Password(w2, FALSE), Password(w2, FALSE), Seats)}
  \cup {[Begun("loss", [Founded EXCEPT !.recovery = FALSE], Password(w1, FALSE), NoPass,
               Gallery)
          EXCEPT !.ops = <<LastAct>>,
                 !.known = [d \in Device |-> IF d \in {k1, witness} THEN {LastAct.n}
                                             ELSE {}]] : witness \in {k2, k3}}

\* At a gate, everything but setting a first password.
Gate(d) ==
  \/ OpenGate(d) \/ Strengthened(d) \/ Recover(d)
  \/ \E w \in Knows[d] : Strengthen(d, w) \/ Unlock(d, w)

Opening ==
  \/ \E d \in {k1, k2} :
       \/ Gate(d) \/ FinishTaking(d) \/ Cancel(d)
       \/ \E w \in Knows[d] : TakeGavel(d, w)
  \/ ApproveChair(k1, k2)

Founding ==
  \/ \E d \in {k1, k2} :
       \/ Provision(d) \/ OpenFounding(d) \/ FinishFounding(d)
  \/ Found(k1, w1, m2) \/ Found(k2, w2, m3)

Seating ==
  \/ \E d \in {k2, k3} :
       \/ OpenSignIn(d, m2) \/ SignInFirst(d) \/ FinishSitting(d) \/ SignInAgain(d)
  \/ ApproveSeat(k1, m2, k3)

Inviting ==
  \/ \E d \in {k2, k3} :
       \/ ScanCode(d, m2) \/ SitUnlisted(d) \/ RedeemCode(d)
  \/ AddMember(k1, m3) \/ ScanCode(k2, m3) \/ ResetSeat(k1, m2) \/ ReleaseSeat(k2)

Keeping ==
  \/ \E d \in {k1, k2, k3} : Gate(d)
  \/ OpenChange(k1) \/ \E w \in Knows[k1] : ChangePassword(k1, w)
  \/ Reload(k2)

Silence == \E d \in {k2, k3} : Gate(d) \/ Petition(d, m2)

\* The lost device does nothing any more, and nobody changes the password.
Loss == Gate(k2) \/ Cancel(k2) \/ OpenGate(k3) \/ Cancel(k3)

\* Bounds: the number of ops in each sitting.
SittingNext ==
  \/ base.sitting = "opening" /\ Opening /\ Len(chamber') <= 5
  \/ base.sitting = "founding" /\ Founding
  \/ base.sitting = "seats" /\ Seating /\ Len(chamber') <= 4
  \/ base.sitting = "codes" /\ Inviting /\ Len(chamber') <= 3
  \/ base.sitting = "gavel" /\ Keeping /\ Len(chamber') <= 3
  \/ base.sitting = "silence" /\ Silence /\ Len(chamber') <= 3
  \/ base.sitting = "loss" /\ Loss
  \/ \E d \in Device : \E i \in DOMAIN chamber : Hear(d, chamber[i].n)

SittingSpec == Init /\ [][SittingNext]_vars

\* In the sitting about a lost Chair's device: sync goes on, and the person at
\* k2 goes to the gate again and again, types the password if it is one that
\* they know, and lets the page finish.
InLoss(A) == base.sitting = "loss" /\ A
Fairness ==
  /\ WF_vars(InLoss(OpenGate(k2)))
  /\ WF_vars(InLoss(Cancel(k2)))
  /\ SF_vars(InLoss(\E w \in Knows[k2] : Unlock(k2, w)))
  /\ WF_vars(InLoss(Recover(k2)))
  /\ \A d \in {k2, k3}, n \in {LastAct.n, <<k2, 1>>} : WF_vars(InLoss(Hear(d, n)))

FairSpec == SittingSpec /\ Fairness

\* The password brings the gavel back.  When the only Chair's device is gone for
\* good and nobody changes the password, whoever knows it ends up a Chair on
\* every device that is still there, in whatever order these hear of the
\* verifier and of the proof (js/crypto.js, js/auth.js).
PasswordRegainsTheGavel ==
  base.sitting = "loss" => <>[](\A d \in {k2, k3} : IsChairKey(Shown(d), k2))

\* In the silent chamber, the cousin who is to follow goes to the gate, types the
\* password and lets every dialog finish; no step can be undone here, so it is
\* enough that the two devices do not stop.
HeirNext ==
  /\ \/ Gate(k2)
     \/ \E d \in {k2, k3} : Petition(d, m2)
     \/ \E d \in {k2, k3} : \E i \in DOMAIN chamber : Hear(d, chamber[i].n)
  /\ Len(chamber') <= 3

HeirSpec ==
  Init /\ base.sitting = "silence" /\ [][HeirNext]_vars /\ WF_vars(HeirNext)

\* "Two-thirds of the seated chamber may move the gavel to another seat"
\* (docs/CC-SEAL.md): once the cousins have moved it, somebody gets to hold it.
SuccessionEndsWithAChair ==
  (\A d \in {k2, k3} : Shown(d).succession.seat = m2 /\ ~HasChair(Shown(d)))
    ~> (\E d \in {k2, k3} : HasChair(Shown(d)))
=============================================================================
