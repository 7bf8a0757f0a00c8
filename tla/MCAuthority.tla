----------------------------- MODULE MCAuthority -----------------------------
(* Small instance of Authority, with the symmetry of seats and of keys. *)
EXTENDS Authority, TLC

Symmetry == Permutations(Member) \cup Permutations(Kid)

\* A put that writes out none of the bindings, one that gives up a seat's keys
\* and lifts its tombstone, and one that lists every key as waiting.
SomePatches ==
  {<<>>, [keys |-> {}, _deleted |-> FALSE], [pendingKeys |-> Kid]}

\* Bound: states with more endorsements on the table are not explored further.
FewPetitions == Cardinality(state.petitions) <= 2

\* What the future of a state and the properties read of it; states that agree
\* on it are explored once.  No guard or property reads the requests for the
\* gavel, the Chair's seat or the two histories of the last op that a step starts
\* from, nor the record of a succession but to see that it changed, and a new one
\* bears the newest stamp.  What a key signed, and when the Chair and the backers
\* last spoke, are read only of and under a key that holds the gavel; a key that
\* gains it does so by an op of a holder, itself included, which is no older than
\* anything and sweeps the petitions.
Relevant(e) == IF HasChair(state) THEN e ELSE [e EXCEPT !.at = 0]
View ==
  <<[state EXCEPT
       !.chairRequests = {}, !.chairSeat = NoSeat,
       !.succession = IF @.at = state.lastOpAt THEN @ ELSE NoSuccession,
       !.chairLastSeen = IF HasChair(state) THEN @ ELSE 0,
       !.petitions = {Relevant(e) : e \in @}],
    [k \in Kid |-> IF k \in state.chairKeys THEN acted[k] ELSE 0]>>
=============================================================================
