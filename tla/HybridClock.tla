----------------------------- MODULE HybridClock -----------------------------
(***************************************************************************)
(* The hybrid logical clocks that stamp ops: `Clock' of js/crdt.js, the    *)
(* plausibility window of store.ingest, and the copy that is saved next to *)
(* the log.                                                                *)
(*                                                                         *)
(* Every replica has a wall clock that its owner or its operating system   *)
(* may set to anything; a fast, slow or stepped clock is a WallMoves step. *)
(***************************************************************************)
EXTENDS Naturals, FiniteSets

CONSTANTS
  Replica,
  CountCap,   \* COUNT_CAP, the counts a stamp's second field can hold
  Skew,       \* MAX_CLOCK_SKEW_MS: how far a stamp may pull a clock ahead
  Future,     \* MAX_FUTURE_MS: how far ahead an op may be and still be folded
  Past,       \* MAX_PAST_MS
  Floor,      \* CLOCK_FLOOR_MS: before it, a wall clock is obviously wrong
  Latest,     \* the largest ms the envelope check lets through
  MaxWall,    \* bound: the largest wall time
  MaxStamps   \* bound: how many ops are stamped

ASSUME CapAssumption == CountCap \in Nat \ {0}
ASSUME WindowAssumption ==
  /\ Skew \in Nat /\ Future \in Nat /\ Past \in Nat /\ Floor \in Nat
  /\ Latest \in Nat /\ MaxWall \in Nat /\ MaxStamps \in Nat

VARIABLES
  wall,      \* Date.now() of each replica
  clock,     \* store.clock
  saved,     \* the clock meta in storage
  stamps,    \* every stamp ever written
  accepted,  \* the stamps of the ops a replica ingested
  near,      \* history: ... that were within Skew of its wall clock then
  high,      \* history: the latest wall time a replica has had
  intact     \* history: replicas no restart has found an older clock for

vars == <<wall, clock, saved, stamps, accepted, near, high, intact>>

Reading == [ms : Nat, count : Nat]
Stamp == [ms : Nat, count : Nat, actor : Replica]

Before(a, b) == a.ms < b.ms \/ (a.ms = b.ms /\ a.count < b.count)

Least(a, b) == IF a < b THEN a ELSE b
Greatest(a, b) == IF a > b THEN a ELSE b

-----------------------------------------------------------------------------
(* Clock *)

\* Mutant: the counter grows past its field.
NormalizedNever(c) == c

\* The counter never exceeds CountCap here, so the code's loop runs once.
Normalized(c) ==
  IF c.count >= CountCap
  THEN [ms |-> c.ms + 1, count |-> c.count - CountCap]
  ELSE c

\* Mutant: the clock follows the wall clock back.
TickedByWall(c, now) ==
  Normalized(IF now # c.ms THEN [ms |-> now, count |-> 0]
                           ELSE [c EXCEPT !.count = @ + 1])

Ticked(c, now) ==
  Normalized(IF now > c.ms THEN [ms |-> now, count |-> 0]
                           ELSE [c EXCEPT !.count = @ + 1])

\* Mutant: a later time is adopted without its counter.
AdoptedFromZero(c, ms, count) ==
  IF ms > c.ms THEN [ms |-> ms, count |-> 0]
  ELSE IF ms = c.ms THEN [c EXCEPT !.count = Greatest(@, count) + 1]
  ELSE c

Adopted(c, ms, count) ==
  IF ms > c.ms THEN [ms |-> ms, count |-> count + 1]
  ELSE IF ms = c.ms THEN [c EXCEPT !.count = Greatest(@, count) + 1]
  ELSE c

\* Mutant: a stamp pulls the clock as far as it likes.
ObservedUnclamped(c, stamp, now) ==
  LET next == Adopted(c, stamp.ms, Least(stamp.count, CountCap - 1))
  IN  Normalized(IF now > next.ms THEN [ms |-> now, count |-> 0] ELSE next)

Observed(c, stamp, now) ==
  LET next == Adopted(c, Least(stamp.ms, now + Skew),
                         Least(stamp.count, CountCap - 1))
  IN  Normalized(IF now > next.ms THEN [ms |-> now, count |-> 0] ELSE next)

\* validateEnvelope and withinClockWindow.
Plausible(stamp, now) ==
  /\ stamp.ms <= Latest /\ stamp.count < CountCap
  /\ stamp.ms >= Floor
  /\ now >= Floor => stamp.ms <= now + Future /\ now <= stamp.ms + Past

-----------------------------------------------------------------------------
(* The steps of a replica *)

Init ==
  /\ wall \in [Replica -> 0 .. MaxWall]
  /\ clock = [r \in Replica |-> [ms |-> 0, count |-> 0]]
  /\ saved = clock
  /\ stamps = {}
  /\ accepted = [r \in Replica |-> {}]
  /\ near = accepted
  /\ high = wall
  /\ intact = Replica

\* store.dispatch stamps an op.
Write(r) ==
  /\ Cardinality(stamps) < MaxStamps
  /\ clock' = [clock EXCEPT ![r] = Ticked(@, wall[r])]
  /\ stamps' = stamps \cup
       {[ms |-> clock'[r].ms, count |-> clock'[r].count, actor |-> r]}
  /\ UNCHANGED <<wall, saved, accepted, near, high, intact>>

\* store.ingest folds an op and observes its stamp.
Accept(r, stamp) ==
  /\ stamp.actor # r /\ stamp \notin accepted[r]
  /\ Plausible(stamp, wall[r])
  /\ clock' = [clock EXCEPT ![r] = Observed(@, stamp, wall[r])]
  /\ accepted' = [accepted EXCEPT ![r] = @ \cup {stamp}]
  /\ near' = [near EXCEPT ![r] =
                IF stamp.ms <= wall[r] + Skew THEN @ \cup {stamp} ELSE @]
  /\ UNCHANGED <<wall, saved, stamps, high, intact>>

\* The clock part of store.#persist, behind the op that moved it.
Save(r) ==
  /\ saved' = [saved EXCEPT ![r] = clock[r]]
  /\ UNCHANGED <<wall, clock, stamps, accepted, near, high, intact>>

\* store.init: the clock comes back from its own record, which may be older than
\* the log's ops.  Their stamps are not observed.
Restart(r) ==
  /\ clock' = [clock EXCEPT ![r] = saved[r]]
  /\ intact' = IF saved[r] = clock[r] THEN intact ELSE intact \ {r}
  /\ UNCHANGED <<wall, saved, stamps, accepted, near, high>>

WallMoves(r, now) ==
  /\ wall' = [wall EXCEPT ![r] = now]
  /\ high' = [high EXCEPT ![r] = Greatest(@, now)]
  /\ UNCHANGED <<clock, saved, stamps, accepted, near, intact>>

Next ==
  \E r \in Replica :
    \/ Write(r)
    \/ \E stamp \in stamps : Accept(r, stamp)
    \/ Save(r)
    \/ Restart(r)
    \/ \E now \in 0 .. MaxWall : WallMoves(r, now)

Spec == Init /\ [][Next]_vars

-----------------------------------------------------------------------------
(* Properties *)

\* A stamp fits its fields: no count reaches the cap, so stamps of one width
\* sort as text the way they sort as numbers.
TypeOK ==
  /\ wall \in [Replica -> 0 .. MaxWall] /\ high \in [Replica -> 0 .. MaxWall]
  /\ clock \in [Replica -> Reading] /\ saved \in [Replica -> Reading]
  /\ stamps \subseteq Stamp
  /\ \A r \in Replica : clock[r].count < CountCap /\ saved[r].count < CountCap
  /\ intact \subseteq Replica
  /\ accepted \in [Replica -> SUBSET stamps] /\ near \in [Replica -> SUBSET stamps]

\* A replica's stamps only go up, however its wall clock is set and whatever it
\* ingests, so no stamp is written twice, until a restart finds an older clock.
OwnStampsRise ==
  [][\A s \in stamps' \ stamps, t \in stamps :
       s.actor \in intact /\ s.actor = t.actor => Before(t, s)]_vars

\* A write that follows the ingestion of a stamp within Skew sorts after it,
\* again until a restart finds an older clock.
WritesFollowTheNear ==
  \A r \in intact : \A s \in near[r] : ~Before(clock[r], s)

\* Together: readings keep to their fields, and follow what was seen nearby.
ClockFollowsTheNear == TypeOK /\ WritesFollowTheNear

\* Nothing a replica ingests moves its clock further than Skew past its own
\* wall time: beyond that it gains one count per op written or ingested.
Flat(c) == c.ms * CountCap + c.count
OpsOf(r) == Cardinality({s \in stamps : s.actor = r}) + Cardinality(accepted[r])
NoRunaway ==
  \A r \in Replica : Flat(clock[r]) <= (high[r] + Skew) * CountCap + CountCap + OpsOf(r)
=============================================================================
