---------------------------- MODULE RecordKeeping ----------------------------
(***************************************************************************)
(* What replication promises, without saying how: every device keeps a     *)
(* growing set of ops, an op is named by its author and the author's       *)
(* sequence number, no name is ever given to two ops, and a device only    *)
(* learns what some device holds.                                          *)
(***************************************************************************)
CONSTANTS Replica, Op  \* an op is a record with an actor and a seq

VARIABLE held  \* held[r]: the ops device r keeps

Everywhere == UNION {held[r] : r \in Replica}
SameName(o, p) == o.actor = p.actor /\ o.seq = p.seq

Init ==
  /\ held \in [Replica -> SUBSET Op]
  /\ \A o, p \in Everywhere : SameName(o, p) => o = p

\* Device r comes to keep some more of the ops that are kept somewhere.
Learn(r) ==
  /\ held[r] \subseteq held'[r] /\ held'[r] \subseteq Everywhere
  /\ held' = [held EXCEPT ![r] = held'[r]]

\* An author writes an op under a name nobody holds another op by.
Write(r, o) ==
  /\ o.actor = r
  /\ \A p \in Everywhere : ~SameName(o, p)
  /\ held' = [held EXCEPT ![r] = @ \cup {o}]

Next == \E r \in Replica : Learn(r) \/ \E o \in Op : Write(r, o)

Spec == Init /\ [][Next]_held
=============================================================================
