------------------------------- MODULE MCOpLog -------------------------------
(* Small instances of OpLog: one seat, two writers, the ops whose effect       *)
(* depends on where they stand in the canonical order.                         *)
EXTENDS OpLog

CONSTANTS m1, k1, k2, a1, a2

KeyOfActor == (a1 :> k1) @@ (a2 :> k2)

Presence(m) ==
  [type |-> "member.put", how |-> "presence", chairFields |-> FALSE, member |-> m,
   patch |-> <<>>]
ClaimTheChair == [type |-> "chair.claim"]
ClaimTheSeat(m) == [type |-> "member.claimKey", member |-> m]
ResetTheSeat(m) == [type |-> "member.resetKeys", member |-> m]

SeatKinds == {ClaimTheChair, ClaimTheSeat(m1), ResetTheSeat(m1), Presence(m1)}
=============================================================================
