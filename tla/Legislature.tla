----------------------------- MODULE Legislature -----------------------------
(***************************************************************************)
(* Votes, ballots, proxies, bills and sign-ons: the handlers of            *)
(* js/actions.js that members and the Chair use from several devices at    *)
(* once, and the tally.                                                    *)
(***************************************************************************)
EXTENDS Floor

Choice == {"yea", "nay", "present"}

-----------------------------------------------------------------------------
(* The tally *)
\* Mutant: a proxy outranks the seat's own ballot.
CountedByProxyFirst(s, v, m) ==
  LET proxy == s.proxies[m]
      held == Alive(proxy) /\ proxy.to # NoSeat
  IN  IF held /\ s.ballots[v][proxy.to] # "none" THEN s.ballots[v][proxy.to]
      ELSE s.ballots[v][m]

\* The choice counted for a seat: its own ballot, or else the own ballot of the
\* seat that holds its proxy, whoever that seat delegated to itself.
Counted(s, v, m) ==
  LET proxy == s.proxies[m]
      own == s.ballots[v][m]
  IN  IF own = "none" /\ Alive(proxy) /\ proxy.to # NoSeat
      THEN s.ballots[v][proxy.to] ELSE own

Counts(s, v) ==
  [c \in Choice |-> Cardinality({m \in LiveMembers(s) : Counted(s, v, m) = c})]

Carries(threshold, counts) ==
  LET decisive == counts.yea + counts.nay
      needed == CASE threshold = "majority" -> decisive \div 2 + 1
                  [] threshold = "twothirds" -> (2 * decisive + 2) \div 3
                  [] threshold = "unanimous" -> decisive
  IN  decisive > 0 /\ counts.yea >= needed

Verdict(passing) == IF passing THEN "passed" ELSE "failed"

-----------------------------------------------------------------------------
(* The pages: voting, proxies, bills *)

OpenVote(d, v) ==
  /\ Chairs(d)
  /\ v \notin Demo \cup Named("vote")
  /\ Writes(d, <<[type |-> "vote.open", vote |-> v]>>)

Cast(d, v, c) ==
  /\ Seated(d)
  /\ Alive(Shown(d).votes[v]) /\ Shown(d).votes[v].state = "open"
  /\ Writes(d, <<[type |-> "ballot.cast", vote |-> v, member |-> seat[d],
                    choice |-> c]>>)

\* The button is drawn for a vote this device knows of, and still works once
\* others have closed or cleared it; the result and the counts are frozen as the
\* device sees them when it is pressed.
Heard(d, v) ==
  v \in Demo \/ \E i \in Known(d) : chamber[i].type = "vote.open" /\ chamber[i].vote = v

CloseVote(d, v) ==
  LET vote == Shown(d).votes[v]
      counts == Counts(Shown(d), v)
  IN  /\ Chairs(d)
      /\ Heard(d, v)
      /\ Writes(d, <<[type |-> "vote.close", vote |-> v, final |-> counts,
                        result |-> Verdict(Carries(vote.threshold, counts))]>>)

DelegateProxy(d, to) ==
  /\ Seated(d)
  /\ to # seat[d] /\ to \in LiveMembers(Shown(d))
  /\ Writes(d, <<[type |-> "proxy.delegate", member |-> seat[d], to |-> to]>>)

RevokeProxy(d) ==
  /\ Seated(d)
  /\ Writes(d, <<[type |-> "proxy.revoke", member |-> seat[d]]>>)

\* The sponsor signs on to the bill it introduces.
SubmitBill(d, b) ==
  /\ Seated(d)
  /\ b \notin Demo \cup Named("bill")
  /\ Writes(d, <<[type |-> "bill.upsert", bill |-> b, member |-> seat[d]],
                   [type |-> "cosponsor.add", bill |-> b, member |-> seat[d]]>>)

\* Mutant: the last stop leads back to the first.
NextStageWraps(stage) ==
  LET at == CHOOSE i \in DOMAIN Stages :
              Stages[i] = IF stage = "none" THEN "drafted" ELSE stage
  IN  Stages[(at % Len(Stages)) + 1]

\* One stop further; "drafted" stands for no stage at all.
NextStage(stage) ==
  LET at == CHOOSE i \in DOMAIN Stages :
              Stages[i] = IF stage = "none" THEN "drafted" ELSE stage
  IN  Stages[IF at = Len(Stages) THEN at ELSE at + 1]

AdvanceStage(d, b) ==
  LET bill == Shown(d).bills[b]
  IN  /\ Chairs(d)
      /\ Alive(bill) /\ NextStage(bill.stage) # bill.stage
      /\ Writes(d, <<[type |-> "bill.stage", bill |-> b,
                        stage |-> NextStage(bill.stage)]>>)

Cosponsor(d, b) ==
  /\ Seated(d)
  /\ Alive(Shown(d).bills[b])
  /\ Writes(d, <<[type |-> IF seat[d] \in Shown(d).signed[b]
                             THEN "cosponsor.remove" ELSE "cosponsor.add",
                    bill |-> b, member |-> seat[d]]>>)

LegislatureNext ==
  \/ \E d \in Device, v \in Vote :
       \/ OpenVote(d, v)
       \/ \E c \in Choice : Cast(d, v, c)
       \/ CloseVote(d, v)
  \/ \E d \in Device, b \in Bill :
       \/ SubmitBill(d, b)
       \/ AdvanceStage(d, b)
       \/ Cosponsor(d, b)
  \/ \E d \in Device, m \in Member : DelegateProxy(d, m)
  \/ \E d \in Device : RevokeProxy(d)

-----------------------------------------------------------------------------
(* Properties *)

Ballots(d, v, m) ==
  {i \in Known(d) : /\ chamber[i].type = "ballot.cast"
                    /\ chamber[i].vote = v /\ chamber[i].member = m}
LastBallot(d, v, m) ==
  IF Ballots(d, v, m) = {} THEN "none" ELSE LastWord(Ballots(d, v, m)).choice

\* The seat that m delegated to last; once m has revoked a proxy it delegates in
\* vain, for the tombstone of the revocation is never lifted.
Proxies(d, m, type) ==
  {i \in Known(d) : chamber[i].type = type /\ chamber[i].member = m}
Delegate(d, m) ==
  IF Proxies(d, m, "proxy.delegate") # {} /\ Proxies(d, m, "proxy.revoke") = {}
  THEN LastWord(Proxies(d, m, "proxy.delegate")).to ELSE NoSeat

\* The tally is a function of last words alone.  Whatever the order in which
\* ballots and delegations arrive and however many devices of a seat wrote them,
\* a seat counts once: for its own latest ballot, and only without one for the
\* latest ballot of the seat it delegated to.
TallyIsTheLastWord ==
  \A d \in Device : LET s == Shown(d) IN \A v \in Vote, m \in Member :
    LET own == LastBallot(d, v, m)
        holder == Delegate(d, m)
    IN  Counted(s, v, m) =
          IF own # "none" THEN own
          ELSE IF holder # NoSeat THEN LastBallot(d, v, holder) ELSE "none"

\* A delegation made after an earlier proxy was revoked counts like the first:
\* "a delegation that arrives late still retroactively counts" (js/crdt.js).
LatestDelegationCounts ==
  \A d \in Device, v \in Vote, m \in Member :
    LET proxied == Proxies(d, m, "proxy.delegate") \cup Proxies(d, m, "proxy.revoke")
    IN  /\ proxied # {} /\ LastBallot(d, v, m) = "none"
        /\ LastWord(proxied).type = "proxy.delegate"
        => Counted(Shown(d), v, m) = LastBallot(d, v, LastWord(proxied).to)

\* What a closed roll call says holds together.  Two Chair devices may close the
\* same vote on different ballots, and the closings are merged field by field;
\* the result shown is always the verdict on the counts frozen beside it.
VerdictOfItsTally ==
  \A d \in Device : LET s == Shown(d) IN \A v \in Vote :
    LET vote == s.votes[v]
    IN  vote.state = "closed" /\ Heard(d, v) =>
          vote.result = Verdict(Carries(vote.threshold, vote.final))

\* Together: an open vote counts the last words, a closed one says what its
\* tally said.
VotesCountRight == TallyIsTheLastWord /\ VerdictOfItsTally

StageOf(s, b) ==
  IF s.bills[b].stage = "none" THEN 0
  ELSE CHOOSE i \in DOMAIN Stages : Stages[i] = s.bills[b].stage

\* A bill goes back a stage on a device only where two Chair devices moved it
\* along without knowing of each other; one Chair device never sends it back,
\* however its ops are reordered or lost on the way.
BillsGoBackOnlyByAccident ==
  [][\A d \in Device : LET s == Shown(d) IN \A b \in Bill :
       StageOf(Shown(d)', b) < StageOf(s, b) =>
         \E i, j \in DOMAIN chamber' :
           /\ {chamber'[i].type, chamber'[j].type} = {"bill.stage"}
           /\ chamber'[i].bill = b /\ chamber'[j].bill = b
           /\ chamber'[i].by # chamber'[j].by
           /\ chamber'[i].n \notin chamber'[j].saw
           /\ chamber'[j].n \notin chamber'[i].saw]_floor
=============================================================================
