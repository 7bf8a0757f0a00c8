----------------------------- MODULE OrderProofs -----------------------------
(***************************************************************************)
(* Theorems about the order of the ops: the hybrid clocks that stamp them, *)
(* and the chamber that their fold shows.                                  *)
(*                                                                         *)
(* The clocks, for any number of replicas, any skew and window, any wall   *)
(* clocks and any cap on the counter.  Everything rests on what tick and   *)
(* observe do to one reading: a reading stays within its fields and never  *)
(* moves back, a tick moves it forward, and an observed stamp within the   *)
(* skew ends up behind it.                                                 *)
(*                                                                         *)
(* The floor, for any devices, seats, votes, bills and papers and any      *)
(* number of ops.  What a device shows is a fold, so each property is      *)
(* first a fact about folding any sequence of fit ops of which some were   *)
(* heard, step by step along the sequence; the invariant then is that the  *)
(* chamber is such a sequence, kept by every page that writes.             *)
(***************************************************************************)
EXTENDS HybridClock, Chamber, FiniteSetTheorems, WellFoundedInduction, TLAPS

-----------------------------------------------------------------------------
(* The clocks: one reading *)

\* A reading whose count fits its field.
Fits(c) == c \in Reading /\ c.count < CountCap

LEMMA TickedMovesOn ==
  ASSUME NEW c, Fits(c), NEW now \in Nat
  PROVE  Fits(Ticked(c, now)) /\ Before(c, Ticked(c, now))
<1> DEFINE d == IF now > c.ms THEN [ms |-> now, count |-> 0]
                              ELSE [c EXCEPT !.count = @ + 1]
<1>1. /\ d \in Reading /\ d.count <= CountCap
      /\ d.ms >= c.ms /\ Before(c, d)
  BY CapAssumption DEF Fits, Reading, Before
<1>2. Ticked(c, now) = Normalized(d)
  BY DEF Ticked
<1> HIDE DEF d
<1>3. Fits(Normalized(d)) /\ Before(c, Normalized(d))
  BY <1>1, CapAssumption DEF Normalized, Fits, Reading, Before
<1> QED
  BY <1>2, <1>3

LEMMA ObservedMovesOn ==
  ASSUME NEW c, Fits(c), NEW stamp \in Stamp, NEW now \in Nat
  PROVE  /\ Fits(Observed(c, stamp, now))
         /\ ~Before(Observed(c, stamp, now), c)
         /\ stamp.ms <= now + Skew /\ stamp.count < CountCap =>
              Before(stamp, Observed(c, stamp, now))
<1> DEFINE ms == Least(stamp.ms, now + Skew)
           count == Least(stamp.count, CountCap - 1)
           next == Adopted(c, ms, count)
           d == IF now > next.ms THEN [ms |-> now, count |-> 0] ELSE next
<1>1. /\ ms \in Nat /\ count \in Nat /\ count < CountCap
      /\ stamp.ms <= now + Skew => ms = stamp.ms
      /\ stamp.count < CountCap => count = stamp.count
  BY CapAssumption, WindowAssumption DEF Least, Stamp
<1> HIDE DEF ms, count
<1>2. /\ next \in Reading /\ next.count <= CountCap
      /\ ~Before(next, c)
      /\ next.ms > ms \/ (next.ms = ms /\ next.count > count)
  <2>1. c.ms \in Nat /\ c.count \in Nat /\ c.count < CountCap /\ c \in Reading
    BY DEF Fits, Reading
  <2>2. CASE ms > c.ms
    BY <1>1, <2>1, <2>2, CapAssumption DEF Adopted, Reading, Before
  <2>3. CASE ms = c.ms
    BY <1>1, <2>1, <2>3, CapAssumption DEF Adopted, Reading, Before, Greatest
  <2>4. CASE ms < c.ms
    BY <1>1, <2>1, <2>4, CapAssumption DEF Adopted, Reading, Before
  <2> QED
    BY <1>1, <2>1, <2>2, <2>3, <2>4
<1> HIDE DEF next
<1>3. /\ d \in Reading /\ d.count <= CountCap
      /\ ~Before(d, c)
      /\ d.ms > ms \/ (d.ms = ms /\ d.count > count)
  BY <1>1, <1>2, CapAssumption DEF Reading, Before, Fits
<1>4. Observed(c, stamp, now) = Normalized(d)
  BY DEF Observed, ms, count, next
<1> HIDE DEF d
<1>5. /\ Fits(Normalized(d))
      /\ ~Before(Normalized(d), c)
      /\ Normalized(d).ms > ms \/ (Normalized(d).ms = ms /\ Normalized(d).count > count)
  <2>1. CASE d.count >= CountCap
    BY <1>1, <1>3, <2>1, CapAssumption DEF Normalized, Fits, Reading, Before
  <2>2. CASE d.count < CountCap
    BY <1>1, <1>3, <2>2, CapAssumption DEF Normalized, Fits, Reading, Before
  <2> QED
    BY <1>3, <2>1, <2>2, CapAssumption DEF Reading
<1>6. stamp.ms <= now + Skew /\ stamp.count < CountCap => Before(stamp, Normalized(d))
  BY <1>1, <1>5 DEF Before
<1> QED
  BY <1>4, <1>5, <1>6

-----------------------------------------------------------------------------
(* The inductive invariant *)

\* Where no restart found an older clock, no clock is behind a stamp its replica
\* wrote.
ClockCoversItsStamps ==
  \A s \in stamps : s.actor \in intact => ~Before(clock[s.actor], s)

IInv ==
  /\ TypeOK
  /\ \A s \in stamps : s.count < CountCap
  /\ ClockCoversItsStamps
  /\ WritesFollowTheNear

LEMMA BeforeIsAnOrder ==
  ASSUME NEW a, NEW b, NEW c, a.ms \in Nat, a.count \in Nat, b.ms \in Nat,
         b.count \in Nat, c.ms \in Nat, c.count \in Nat
  PROVE  /\ ~Before(b, a) /\ ~Before(c, b) => ~Before(c, a)
         /\ Before(a, b) => ~Before(b, a)
         /\ ~Before(b, a) /\ Before(b, c) => Before(a, c)
  BY DEF Before

LEMMA InitInvariant == Init => IInv
  BY CapAssumption, WindowAssumption
     DEF Init, IInv, TypeOK, ClockCoversItsStamps, WritesFollowTheNear, Reading

LEMMA WriteInvariant ==
  ASSUME IInv, NEW r \in Replica, Write(r)
  PROVE  IInv'
<1> DEFINE s == [ms |-> clock'[r].ms, count |-> clock'[r].count, actor |-> r]
<1>1. Fits(clock[r]) /\ wall[r] \in Nat
  BY WindowAssumption DEF IInv, TypeOK, Fits
<1>2. clock'[r] = Ticked(clock[r], wall[r])
  BY DEF Write, IInv, TypeOK
<1>3. Fits(clock'[r]) /\ Before(clock[r], clock'[r])
  BY <1>1, <1>2, TickedMovesOn
<1>4. /\ stamps' = stamps \cup {s}
      /\ clock' = [clock EXCEPT ![r] = clock'[r]]
      /\ UNCHANGED <<wall, saved, accepted, near, high, intact>>
  BY <1>2 DEF Write
<1>5. s \in Stamp /\ s.count < CountCap
  BY <1>3 DEF Fits, Reading, Stamp
<1>6. TypeOK'
  BY <1>3, <1>4, <1>5 DEF IInv, TypeOK, Fits
<1>7. ClockCoversItsStamps'
  <2> SUFFICES ASSUME NEW t \in stamps', t.actor \in intact PROVE ~Before(clock'[t.actor], t)
    BY <1>4 DEF ClockCoversItsStamps
  <2>1. CASE t = s
    BY <1>3, <2>1 DEF Before, Fits, Reading
  <2>2. CASE t \in stamps /\ t.actor = r
    <3>1. ~Before(clock[r], t)
      BY <2>2 DEF IInv, ClockCoversItsStamps
    <3>2. t \in Stamp
      BY <2>2 DEF IInv, TypeOK
    <3> QED
      BY <1>1, <1>3, <2>2, <3>1, <3>2 DEF Before, Fits, Reading, Stamp
  <2>3. CASE t \in stamps /\ t.actor # r
    <3>1. t.actor \in Replica
      BY <2>3 DEF IInv, TypeOK, Stamp
    <3> QED
      BY <1>4, <2>3, <3>1 DEF IInv, TypeOK, ClockCoversItsStamps
  <2> QED
    BY <1>4, <2>1, <2>2, <2>3
<1>8. WritesFollowTheNear'
  <2> SUFFICES ASSUME NEW q \in intact, NEW t \in near'[q]
               PROVE  ~Before(clock'[q], t)
    BY <1>4 DEF WritesFollowTheNear
  <2>1. q \in Replica /\ t \in near[q] /\ t \in Stamp /\ ~Before(clock[q], t)
    BY <1>4 DEF IInv, TypeOK, WritesFollowTheNear
  <2>2. CASE q = r
    BY <1>1, <1>3, <2>1, <2>2 DEF Before, Fits, Reading, Stamp
  <2>3. CASE q # r
    BY <1>4, <2>1, <2>3 DEF IInv, TypeOK
  <2> QED
    BY <2>2, <2>3
<1> QED
  BY <1>4, <1>5, <1>6, <1>7, <1>8 DEF IInv

LEMMA AcceptInvariant ==
  ASSUME IInv, NEW r \in Replica, NEW s \in stamps, Accept(r, s)
  PROVE  IInv'
<1>1. Fits(clock[r]) /\ wall[r] \in Nat /\ s \in Stamp /\ s.count < CountCap
  BY WindowAssumption DEF IInv, TypeOK, Fits
<1>2. clock'[r] = Observed(clock[r], s, wall[r])
  BY DEF Accept, IInv, TypeOK
<1>3. /\ Fits(clock'[r]) /\ ~Before(clock'[r], clock[r])
      /\ s.ms <= wall[r] + Skew => Before(s, clock'[r])
  BY <1>1, <1>2, ObservedMovesOn
<1>4. /\ clock' = [clock EXCEPT ![r] = clock'[r]]
      /\ accepted' = [accepted EXCEPT ![r] = @ \cup {s}]
      /\ near' = [near EXCEPT ![r] =
                    IF s.ms <= wall[r] + Skew THEN @ \cup {s} ELSE @]
      /\ UNCHANGED <<wall, saved, stamps, high, intact>>
  BY <1>2 DEF Accept
<1>5. TypeOK'
  BY <1>3, <1>4 DEF IInv, TypeOK, Fits
<1>6. ClockCoversItsStamps'
  <2> SUFFICES ASSUME NEW t \in stamps, t.actor \in intact
               PROVE  ~Before(clock'[t.actor], t)
    BY <1>4 DEF ClockCoversItsStamps
  <2>1. t \in Stamp /\ t.actor \in Replica /\ ~Before(clock[t.actor], t)
    BY DEF IInv, TypeOK, ClockCoversItsStamps, Stamp
  <2>2. CASE t.actor = r
    BY <1>1, <1>3, <2>1, <2>2 DEF Before, Fits, Reading, Stamp
  <2>3. CASE t.actor # r
    BY <1>4, <2>1, <2>3 DEF IInv, TypeOK
  <2> QED
    BY <2>2, <2>3
<1>7. WritesFollowTheNear'
  <2> SUFFICES ASSUME NEW q \in intact, NEW t \in near'[q]
               PROVE  ~Before(clock'[q], t)
    BY <1>4 DEF WritesFollowTheNear
  <2>1. t \in near[q] \/ (q = r /\ t = s /\ s.ms <= wall[r] + Skew)
    BY <1>4 DEF IInv, TypeOK
  <2>2. CASE t \in near[q]
    <3>1. q \in Replica /\ t \in Stamp /\ ~Before(clock[q], t)
      BY <2>2 DEF IInv, TypeOK, WritesFollowTheNear
    <3>2. CASE q = r
      BY <1>1, <1>3, <3>1, <3>2 DEF Before, Fits, Reading, Stamp
    <3>3. CASE q # r
      BY <1>4, <3>1, <3>3 DEF IInv, TypeOK
    <3> QED
      BY <3>2, <3>3
  <2>3. CASE q = r /\ t = s /\ s.ms <= wall[r] + Skew
    BY <1>1, <1>3, <2>3 DEF Before, Fits, Reading, Stamp
  <2> QED
    BY <2>1, <2>2, <2>3
<1> QED
  BY <1>4, <1>5, <1>6, <1>7 DEF IInv

\* Saving, restarting on what was saved, and setting the wall clock.
LEMMA OtherStepsInvariant ==
  ASSUME IInv, NEW r \in Replica,
         \/ Save(r) \/ Restart(r)
         \/ \E now \in 0 .. MaxWall : WallMoves(r, now)
  PROVE  IInv'
<1>1. CASE Save(r)
  BY <1>1 DEF Save, IInv, TypeOK, ClockCoversItsStamps, WritesFollowTheNear
<1>2. CASE Restart(r)
  <2>1. TypeOK' /\ \A s \in stamps' : s.count < CountCap
    BY <1>2 DEF Restart, IInv, TypeOK
  <2>2. intact' \subseteq intact /\ \A q \in intact' : clock'[q] = clock[q]
    BY <1>2 DEF Restart, IInv, TypeOK
  <2> QED
    BY <1>2, <2>1, <2>2
       DEF Restart, IInv, ClockCoversItsStamps, WritesFollowTheNear
<1>3. CASE \E now \in 0 .. MaxWall : WallMoves(r, now)
  BY <1>3, WindowAssumption
     DEF WallMoves, Greatest, IInv, TypeOK, ClockCoversItsStamps,
         WritesFollowTheNear
<1> QED
  BY <1>1, <1>2, <1>3

LEMMA Invariance == Spec => []IInv
<1>1. IInv /\ [Next]_vars => IInv'
  <2> SUFFICES ASSUME IInv, [Next]_vars PROVE IInv'
    OBVIOUS
  <2>1. CASE Next
    BY <2>1, WriteInvariant, AcceptInvariant, OtherStepsInvariant DEF Next
  <2>2. CASE UNCHANGED vars
    BY <2>2 DEF vars, IInv, TypeOK, ClockCoversItsStamps, WritesFollowTheNear
  <2> QED
    BY <2>1, <2>2
<1> QED
  BY InitInvariant, <1>1, PTL DEF Spec

\* Readings and stamps keep to their fields, restarts on stale clocks included.
THEOREM TypeCorrect == Spec => []TypeOK
  BY Invariance, PTL DEF IInv

\* Until a restart finds an older clock, what is written after an op was
\* ingested sorts after it, if its stamp was within the skew.
THEOREM NearIsFollowed == Spec => []WritesFollowTheNear
  BY Invariance, PTL DEF IInv

\* Readings keep to their fields and follow what was ingested from nearby.
THEOREM ClockFollows == Spec => []ClockFollowsTheNear
  BY TypeCorrect, NearIsFollowed, PTL DEF ClockFollowsTheNear

\* Until a restart finds an older clock, a replica's stamps only go up.
THEOREM StampsRise == Spec => OwnStampsRise
<1> DEFINE Rise == \A s \in stamps' \ stamps, t \in stamps :
                     s.actor \in intact /\ s.actor = t.actor => Before(t, s)
<1>1. IInv /\ [Next]_vars => [Rise]_vars
  <2> SUFFICES ASSUME IInv, Next, NEW s \in stamps' \ stamps, NEW t \in stamps,
                      s.actor \in intact, s.actor = t.actor
               PROVE  Before(t, s)
    OBVIOUS
  <2>1. PICK r \in Replica : Write(r)
    BY DEF Next, Accept, Save, Restart, WallMoves
  <2>2. /\ clock'[r] = Ticked(clock[r], wall[r])
        /\ s = [ms |-> clock'[r].ms, count |-> clock'[r].count, actor |-> r]
    BY <2>1 DEF Write, IInv, TypeOK
  <2>3. Fits(clock[r]) /\ wall[r] \in Nat
    BY WindowAssumption DEF IInv, TypeOK, Fits
  <2>4. Fits(clock'[r]) /\ Before(clock[r], clock'[r])
    BY <2>2, <2>3, TickedMovesOn
  <2>5. t \in Stamp /\ ~Before(clock[r], t)
    BY <2>2 DEF IInv, TypeOK, ClockCoversItsStamps
  <2> QED
    BY <2>2, <2>3, <2>4, <2>5 DEF Before, Fits, Reading, Stamp
<1> HIDE DEF Rise
<1>2. Spec => [][Rise]_vars
  BY <1>1, Invariance, PTL DEF Spec
<1> QED
  BY <1>2 DEF Rise, OwnStampsRise

-----------------------------------------------------------------------------
(* How far a clock can be pulled *)

Pull(r) == (high[r] + Skew) * CountCap + CountCap
Limit(r) == Pull(r) + OpsOf(r)

\* A restart may find an older clock, and then an op is stamped that was stamped
\* before: it adds nothing to OpsOf, and what it was when it was new bounds the
\* clock now.
Reined ==
  /\ IsFiniteSet(stamps)
  /\ \A r \in Replica : wall[r] <= high[r]
  /\ \A r \in Replica : Flat(clock[r]) <= Limit(r) /\ Flat(saved[r]) <= Limit(r)
  /\ \A s \in stamps : Flat(s) <= Limit(s.actor)

\* Readings laid flat: carries do not change them, and a later one is larger.
LEMMA Products ==
  ASSUME NEW a \in Nat, NEW b \in Nat
  PROVE  /\ a * CountCap \in Nat
         /\ (a + 1) * CountCap = a * CountCap + CountCap
         /\ a <= b => a * CountCap <= b * CountCap
<1>1. a * CountCap \in Nat /\ (a + 1) * CountCap = a * CountCap + CountCap
  BY CapAssumption
<1>2. ASSUME a <= b PROVE a * CountCap <= b * CountCap
  <2>1. b - a \in Nat /\ b = a + (b - a)
    BY <1>2
  <2>2. (a + (b - a)) * CountCap = a * CountCap + (b - a) * CountCap
    BY <2>1, CapAssumption
  <2>3. (b - a) * CountCap \in Nat
    BY <2>1, CapAssumption
  <2> QED
    BY <1>1, <2>1, <2>2, <2>3
<1> QED
  BY <1>1, <1>2

LEMMA NormalizedStaysFlat ==
  ASSUME NEW c \in Reading
  PROVE  Flat(Normalized(c)) = Flat(c)
<1>1. (c.ms + 1) * CountCap = c.ms * CountCap + CountCap
  BY Products DEF Reading
<1>2. CASE c.count >= CountCap
  BY <1>1, <1>2, CapAssumption, Products DEF Normalized, Flat, Reading
<1>3. CASE ~(c.count >= CountCap)
  BY <1>3 DEF Normalized
<1> QED
  BY <1>2, <1>3

\* A tick moves a clock on by one count, or to its wall clock.
LEMMA TickedByOne ==
  ASSUME NEW c \in Reading, NEW now \in Nat, NEW top \in Nat, now <= top
  PROVE  \/ Flat(Ticked(c, now)) <= Flat(c) + 1
         \/ Flat(Ticked(c, now)) <= (top + Skew) * CountCap + CountCap
<1> DEFINE d == IF now > c.ms THEN [ms |-> now, count |-> 0] ELSE [c EXCEPT !.count = @ + 1]
<1>1. d \in Reading /\ Flat(Ticked(c, now)) = Flat(d)
  BY NormalizedStaysFlat DEF Ticked, Reading
<1>2. CASE now > c.ms
  <2>1. Flat(d) = now * CountCap /\ now * CountCap <= (top + Skew) * CountCap
    BY <1>2, Products, CapAssumption, WindowAssumption DEF Flat
  <2>2. now * CountCap \in Nat /\ (top + Skew) * CountCap \in Nat
    BY Products, WindowAssumption
  <2> QED
    BY <1>1, <2>1, <2>2, CapAssumption
<1>3. CASE ~(now > c.ms)
  <2>1. Flat(d) = Flat(c) + 1
    BY <1>3, Products, CapAssumption DEF Flat, Reading
  <2>2. Flat(d) \in Nat
    BY <1>1, Products, CapAssumption DEF Flat, Reading
  <2> QED
    BY <1>1, <2>1, <2>2
<1> QED
  BY <1>2, <1>3

\* A stamp that is observed does the same, wherever it comes from.
LEMMA ObservedByOne ==
  ASSUME NEW c \in Reading, NEW s \in Stamp, NEW now \in Nat, NEW top \in Nat, now <= top
  PROVE  \/ Flat(Observed(c, s, now)) <= Flat(c) + 1
         \/ Flat(Observed(c, s, now)) <= (top + Skew) * CountCap + CountCap
<1> DEFINE ms == Least(s.ms, now + Skew)
           count == Least(s.count, CountCap - 1)
           next == Adopted(c, ms, count)
           d == IF now > next.ms THEN [ms |-> now, count |-> 0] ELSE next
           edge == (top + Skew) * CountCap
<1>1. /\ ms \in Nat /\ count \in Nat /\ count < CountCap /\ ms <= top + Skew
  BY CapAssumption, WindowAssumption DEF Least, Stamp
<1>2. edge \in Nat /\ ms * CountCap \in Nat /\ ms * CountCap <= edge
  BY <1>1, Products, WindowAssumption
<1> HIDE DEF ms, count, edge
<1>3. /\ next \in Reading
      /\ Flat(next) <= Flat(c) + 1 \/ Flat(next) <= edge + CountCap
  <2>1. CASE ms > c.ms
    BY <1>1, <1>2, <2>1, CapAssumption DEF Adopted, Reading, Flat
  <2>2. CASE ms = c.ms
    <3>1. c.ms * CountCap \in Nat
      BY Products DEF Reading
    <3> QED
      BY <1>1, <1>2, <2>2, <3>1, CapAssumption DEF Adopted, Reading, Flat, Greatest
  <2>3. CASE ms < c.ms
    <3>1. next = c /\ c.ms * CountCap \in Nat
      BY <1>1, <2>3, Products DEF Adopted, Reading
    <3> QED
      BY <3>1 DEF Flat, Reading
  <2> QED
    BY <1>1, <2>1, <2>2, <2>3 DEF Reading
<1> HIDE DEF next
<1>4. /\ d \in Reading
      /\ Flat(d) <= Flat(c) + 1 \/ Flat(d) <= edge + CountCap
  <2>1. now * CountCap \in Nat /\ now * CountCap <= edge
    BY Products, WindowAssumption DEF edge
  <2> QED
    BY <1>2, <1>3, <2>1, CapAssumption DEF Reading, Flat
<1>5. Flat(Observed(c, s, now)) = Flat(d)
  BY <1>4, NormalizedStaysFlat DEF Observed, ms, count, next
<1> QED
  BY <1>4, <1>5 DEF edge

LEMMA LimitIsANumber ==
  ASSUME TypeOK, IsFiniteSet(stamps), NEW r \in Replica
  PROVE  /\ OpsOf(r) \in Nat /\ Pull(r) \in Nat
         /\ IsFiniteSet({s \in stamps : s.actor = r}) /\ IsFiniteSet(accepted[r])
<1>1. /\ {s \in stamps : s.actor = r} \in SUBSET stamps /\ accepted[r] \in SUBSET stamps
      /\ high[r] \in Nat
  BY WindowAssumption DEF TypeOK
<1>2. IsFiniteSet({s \in stamps : s.actor = r}) /\ IsFiniteSet(accepted[r])
  BY <1>1, FS_Subset
<1>3. OpsOf(r) \in Nat
  BY <1>2, FS_CardinalityType DEF OpsOf
<1>4. Pull(r) \in Nat
  BY <1>1, Products, CapAssumption, WindowAssumption DEF Pull
<1> QED
  BY <1>2, <1>3, <1>4

LEMMA FlatIsANumber ==
  ASSUME NEW c, c.ms \in Nat, c.count \in Nat
  PROVE  Flat(c) \in Nat
  BY Products DEF Flat

LEMMA WriteReined ==
  ASSUME IInv, Reined, NEW r \in Replica, Write(r), TypeOK'
  PROVE  Reined'
<1> DEFINE s == [ms |-> clock'[r].ms, count |-> clock'[r].count, actor |-> r]
           mine == {t \in stamps : t.actor = r}
<1>1. /\ clock[r] \in Reading /\ wall[r] \in Nat /\ high[r] \in Nat /\ Flat(clock[r]) \in Nat
  BY FlatIsANumber, WindowAssumption DEF IInv, TypeOK, Reading
<1>2. /\ clock'[r] = Ticked(clock[r], wall[r])
      /\ clock' = [clock EXCEPT ![r] = clock'[r]]
      /\ stamps' = stamps \cup {s}
      /\ UNCHANGED <<wall, saved, accepted, near, high, intact>>
  BY DEF Write, IInv, TypeOK
<1>3. Flat(s) = Flat(clock'[r]) /\ Flat(s) \in Nat
  <2>1. clock'[r].ms \in Nat /\ clock'[r].count \in Nat
    BY DEF TypeOK, Reading
  <2> QED
    BY <2>1, FlatIsANumber DEF Flat
<1>4. IsFiniteSet(stamps')
  BY <1>2, FS_AddElement DEF Reined
<1>5. \A q \in Replica : /\ OpsOf(q) \in Nat /\ OpsOf(q)' \in Nat /\ OpsOf(q) <= OpsOf(q)'
                         /\ Pull(q) \in Nat /\ Pull(q)' = Pull(q)
  <2> SUFFICES ASSUME NEW q \in Replica
               PROVE  /\ OpsOf(q) \in Nat /\ OpsOf(q)' \in Nat /\ OpsOf(q) <= OpsOf(q)'
                      /\ Pull(q) \in Nat /\ Pull(q)' = Pull(q)
    OBVIOUS
  <2>1. /\ OpsOf(q) \in Nat /\ Pull(q) \in Nat /\ IsFiniteSet(accepted[q])
        /\ IsFiniteSet({t \in stamps : t.actor = q})
    BY LimitIsANumber DEF IInv, Reined
  <2>2. IsFiniteSet({t \in stamps' : t.actor = q})
    BY <1>4, FS_Subset
  <2>3. Cardinality({t \in stamps : t.actor = q}) <= Cardinality({t \in stamps' : t.actor = q})
    BY <1>2, <2>2, FS_Subset
  <2> QED
    BY <1>2, <2>1, <2>2, <2>3, FS_CardinalityType DEF OpsOf, Pull
<1>6. Flat(s) <= Limit(r)'
  <2>1. CASE s \in stamps
    BY <1>5, <2>1, <1>3 DEF Reined, Limit
  <2>2. CASE s \notin stamps
    <3>1. {t \in stamps' : t.actor = r} = mine \cup {s} /\ s \notin mine
      BY <1>2, <2>2
    <3>2. OpsOf(r)' = OpsOf(r) + 1
      <4>1. IsFiniteSet(mine) /\ IsFiniteSet(accepted[r])
        BY LimitIsANumber DEF IInv, Reined
      <4>2. Cardinality(mine \cup {s}) = Cardinality(mine) + 1
        BY <3>1, <4>1, FS_AddElement
      <4>3. Cardinality(mine) \in Nat /\ Cardinality(accepted[r]) \in Nat
        BY <4>1, FS_CardinalityType
      <4>4. OpsOf(r) = Cardinality(mine) + Cardinality(accepted[r])
        BY DEF OpsOf
      <4>5. OpsOf(r)' = Cardinality({t \in stamps' : t.actor = r}) + Cardinality(accepted[r])
        BY <1>2 DEF OpsOf
      <4> HIDE DEF s, mine
      <4> QED
        BY <3>1, <4>2, <4>3, <4>4, <4>5
    <3>3. wall[r] <= high[r] /\ Flat(clock[r]) <= Limit(r)
      BY DEF Reined
    <3>4. Flat(clock'[r]) <= Flat(clock[r]) + 1 \/ Flat(clock'[r]) <= Pull(r)
      BY <1>1, <1>2, <3>3, TickedByOne DEF Pull
    <3> QED
      BY <1>1, <1>3, <1>5, <3>2, <3>3, <3>4 DEF Limit
  <2> QED
    BY <2>1, <2>2
<1>7. \A q \in Replica : Flat(clock'[q]) <= Limit(q)' /\ Flat(saved'[q]) <= Limit(q)'
  <2> SUFFICES ASSUME NEW q \in Replica
               PROVE  Flat(clock'[q]) <= Limit(q)' /\ Flat(saved'[q]) <= Limit(q)'
    OBVIOUS
  <2>1. Flat(clock[q]) \in Nat /\ Flat(saved[q]) \in Nat
    BY FlatIsANumber DEF IInv, TypeOK, Reading
  <2>2. q # r => clock'[q] = clock[q]
    BY <1>2 DEF IInv, TypeOK
  <2> QED
    BY <1>2, <1>3, <1>5, <1>6, <2>1, <2>2 DEF Reined, Limit
<1>8. \A t \in stamps' : Flat(t) <= Limit(t.actor)'
  <2> SUFFICES ASSUME NEW t \in stamps', t # s PROVE Flat(t) <= Limit(t.actor)'
    BY <1>6
  <2>1. t \in stamps /\ t.actor \in Replica /\ Flat(t) \in Nat
    BY <1>2, FlatIsANumber DEF IInv, TypeOK, Stamp
  <2> QED
    BY <1>5, <2>1 DEF Reined, Limit
<1> QED
  BY <1>2, <1>4, <1>7, <1>8 DEF Reined

LEMMA AcceptReined ==
  ASSUME IInv, Reined, NEW r \in Replica, NEW s \in stamps, Accept(r, s), TypeOK'
  PROVE  Reined'
<1>1. /\ clock[r] \in Reading /\ wall[r] \in Nat /\ high[r] \in Nat /\ s \in Stamp
      /\ Flat(clock[r]) \in Nat /\ Flat(clock'[r]) \in Nat
  BY FlatIsANumber, WindowAssumption DEF IInv, TypeOK, Reading
<1>2. /\ clock'[r] = Observed(clock[r], s, wall[r])
      /\ clock' = [clock EXCEPT ![r] = clock'[r]]
      /\ s \notin accepted[r] /\ accepted' = [accepted EXCEPT ![r] = @ \cup {s}]
      /\ UNCHANGED <<wall, saved, stamps, high, intact>>
  BY DEF Accept, IInv, TypeOK
<1>3. \A q \in Replica :
        /\ OpsOf(q) \in Nat /\ Pull(q) \in Nat /\ Pull(q)' = Pull(q)
        /\ OpsOf(q)' = IF q = r THEN OpsOf(q) + 1 ELSE OpsOf(q)
  <2> SUFFICES ASSUME NEW q \in Replica
               PROVE  /\ OpsOf(q) \in Nat /\ Pull(q) \in Nat /\ Pull(q)' = Pull(q)
                      /\ OpsOf(q)' = IF q = r THEN OpsOf(q) + 1 ELSE OpsOf(q)
    OBVIOUS
  <2>1. /\ OpsOf(q) \in Nat /\ Pull(q) \in Nat /\ IsFiniteSet(accepted[q])
        /\ IsFiniteSet({t \in stamps : t.actor = q})
    BY LimitIsANumber DEF IInv, Reined
  <2>2. /\ Cardinality({t \in stamps : t.actor = q}) \in Nat
        /\ Cardinality(accepted[q]) \in Nat
    BY <2>1, FS_CardinalityType
  <2>3. OpsOf(q)' = Cardinality({t \in stamps : t.actor = q}) + Cardinality(accepted'[q])
    BY <1>2 DEF OpsOf
  <2>4. CASE q = r
    <3>1. accepted'[q] = accepted[q] \cup {s}
      BY <1>2, <2>4 DEF IInv, TypeOK
    <3>2. Cardinality(accepted'[q]) = Cardinality(accepted[q]) + 1
      BY <1>2, <2>1, <2>4, <3>1, FS_AddElement
    <3> QED
      BY <1>2, <2>1, <2>2, <2>3, <2>4, <3>2 DEF OpsOf, Pull
  <2>5. CASE q # r
    <3>1. accepted'[q] = accepted[q]
      BY <1>2, <2>5 DEF IInv, TypeOK
    <3> QED
      BY <1>2, <2>1, <2>3, <2>5, <3>1 DEF OpsOf, Pull
  <2> QED
    BY <2>4, <2>5
<1>4. Flat(clock'[r]) <= Limit(r)'
  <2>1. wall[r] <= high[r] /\ Flat(clock[r]) <= Limit(r)
    BY DEF Reined
  <2>2. Flat(clock'[r]) <= Flat(clock[r]) + 1 \/ Flat(clock'[r]) <= Pull(r)
    BY <1>1, <1>2, <2>1, ObservedByOne DEF Pull
  <2> QED
    BY <1>1, <1>3, <2>1, <2>2 DEF Limit
<1>5. \A q \in Replica : Flat(clock'[q]) <= Limit(q)' /\ Flat(saved'[q]) <= Limit(q)'
  <2> SUFFICES ASSUME NEW q \in Replica
               PROVE  Flat(clock'[q]) <= Limit(q)' /\ Flat(saved'[q]) <= Limit(q)'
    OBVIOUS
  <2>1. Flat(clock[q]) \in Nat /\ Flat(saved[q]) \in Nat
    BY FlatIsANumber DEF IInv, TypeOK, Reading
  <2>2. q # r => clock'[q] = clock[q]
    BY <1>2 DEF IInv, TypeOK
  <2> QED
    BY <1>2, <1>3, <1>4, <2>1, <2>2 DEF Reined, Limit
<1>6. \A t \in stamps' : Flat(t) <= Limit(t.actor)'
  <2> SUFFICES ASSUME NEW t \in stamps PROVE Flat(t) <= Limit(t.actor)'
    BY <1>2
  <2>1. t.actor \in Replica /\ Flat(t) \in Nat
    BY FlatIsANumber DEF IInv, TypeOK, Stamp
  <2> QED
    BY <1>3, <2>1 DEF Reined, Limit
<1> QED
  BY <1>2, <1>5, <1>6 DEF Reined

\* Saving and restarting move readings about; the highest wall time only rises.
LEMMA OtherStepsReined ==
  ASSUME IInv, Reined, NEW r \in Replica, TypeOK',
         \/ Save(r) \/ Restart(r)
         \/ \E now \in 0 .. MaxWall : WallMoves(r, now)
  PROVE  Reined'
<1>1. UNCHANGED <<stamps, accepted>>
  BY DEF Save, Restart, WallMoves
<1>2. \A q \in Replica : OpsOf(q)' = OpsOf(q) /\ OpsOf(q) \in Nat /\ Pull(q) \in Nat
  BY <1>1, LimitIsANumber DEF OpsOf, IInv, Reined
<1>3. CASE Save(r)
  <2>1. \A q \in Replica : Limit(q)' = Limit(q)
    BY <1>2, <1>3 DEF Limit, Pull, Save
  <2>2. \A q \in Replica : saved'[q] \in {saved[q], clock[q]} /\ clock'[q] = clock[q]
    BY <1>3 DEF Save, IInv, TypeOK
  <2>3. \A t \in stamps : t.actor \in Replica
    BY DEF IInv, TypeOK, Stamp
  <2> QED
    BY <1>1, <1>3, <2>1, <2>2, <2>3 DEF Reined, Save
<1>4. CASE Restart(r)
  <2>1. \A q \in Replica : Limit(q)' = Limit(q)
    BY <1>2, <1>4 DEF Limit, Pull, Restart
  <2>2. \A q \in Replica : clock'[q] \in {saved[q], clock[q]} /\ saved'[q] = saved[q]
    BY <1>4 DEF Restart, IInv, TypeOK
  <2>3. \A t \in stamps : t.actor \in Replica
    BY DEF IInv, TypeOK, Stamp
  <2> QED
    BY <1>1, <1>4, <2>1, <2>2, <2>3 DEF Reined, Restart
<1>5. ASSUME NEW now \in 0 .. MaxWall, WallMoves(r, now) PROVE Reined'
  <2>1. \A q \in Replica :
          /\ wall'[q] <= high'[q] /\ high[q] <= high'[q] /\ high[q] \in Nat /\ high'[q] \in Nat
    BY <1>5, WindowAssumption DEF WallMoves, Greatest, IInv, TypeOK, Reined
  <2>2. \A q \in Replica : Pull(q) \in Nat /\ Pull(q)' \in Nat /\ Pull(q) <= Pull(q)'
    <3> SUFFICES ASSUME NEW q \in Replica
                 PROVE  Pull(q) \in Nat /\ Pull(q)' \in Nat /\ Pull(q) <= Pull(q)'
      OBVIOUS
    <3>1. /\ high[q] + Skew \in Nat /\ high'[q] + Skew \in Nat
          /\ high[q] + Skew <= high'[q] + Skew
      BY <2>1, WindowAssumption
    <3> HIDE DEF IInv
    <3>2. /\ (high[q] + Skew) * CountCap \in Nat /\ (high'[q] + Skew) * CountCap \in Nat
          /\ (high[q] + Skew) * CountCap <= (high'[q] + Skew) * CountCap
      BY <3>1, Products
    <3> QED
      BY <3>2, CapAssumption DEF Pull
  <2>3. \A q \in Replica : Limit(q) \in Nat /\ Limit(q)' \in Nat /\ Limit(q) <= Limit(q)'
    BY <1>2, <2>2 DEF Limit
  <2>4. \A t \in stamps : t.actor \in Replica /\ Flat(t) \in Nat
    BY FlatIsANumber DEF IInv, TypeOK, Stamp
  <2>5. \A q \in Replica : Flat(clock[q]) \in Nat /\ Flat(saved[q]) \in Nat
    BY FlatIsANumber DEF IInv, TypeOK, Reading
  <2>6. UNCHANGED <<clock, saved, stamps>>
    BY <1>5 DEF WallMoves
  <2>7. \A q \in Replica : Flat(clock'[q]) <= Limit(q)' /\ Flat(saved'[q]) <= Limit(q)'
    BY <2>3, <2>5, <2>6 DEF Reined
  <2>8. \A t \in stamps' : Flat(t) <= Limit(t.actor)'
    BY <2>3, <2>4, <2>6 DEF Reined
  <2> QED
    BY <2>1, <2>6, <2>7, <2>8 DEF Reined
<1> QED
  BY <1>3, <1>4, <1>5

LEMMA InitReined == Init => Reined
<1> SUFFICES ASSUME Init PROVE Reined
  OBVIOUS
<1>1. IInv
  BY InitInvariant
<1>2. IsFiniteSet(stamps)
  BY FS_EmptySet DEF Init
<1>3. \A r \in Replica : OpsOf(r) \in Nat /\ Pull(r) \in Nat
  BY <1>1, <1>2, LimitIsANumber DEF IInv
<1>4. \A r \in Replica : Flat(clock[r]) = 0 /\ Flat(saved[r]) = 0
  BY CapAssumption DEF Init, Flat
<1>5. \A r \in Replica : wall[r] <= high[r]
  BY WindowAssumption DEF Init
<1> QED
  BY <1>2, <1>3, <1>4, <1>5 DEF Init, Reined, Limit

\* However wrong the wall clocks of others are, and however often this one is
\* set or restarts, a clock is never further ahead of its highest wall time than
\* the skew and one count for each op.
THEOREM NoClockRunsAway == Spec => []NoRunaway
<1>1. IInv /\ IInv' /\ Reined /\ [Next]_vars => Reined'
  <2> SUFFICES ASSUME IInv, IInv', Reined, [Next]_vars PROVE Reined'
    OBVIOUS
  <2>1. TypeOK'
    BY DEF IInv
  <2>2. CASE Next
    BY <2>1, <2>2, WriteReined, AcceptReined, OtherStepsReined DEF Next
  <2>3. CASE UNCHANGED vars
    BY <2>3 DEF vars, Reined, Limit, Pull, OpsOf
  <2> QED
    BY <2>2, <2>3
<1>2. Reined => NoRunaway
  BY DEF Reined, Limit, Pull, NoRunaway
<1> QED
  BY InitReined, Invariance, <1>1, <1>2, PTL DEF Spec

-----------------------------------------------------------------------------
(* The floor: counting up *)

\* Any numbers have a smallest.
LEMMA Smallest ==
  ASSUME NEW S \in SUBSET Nat, S # {}
  PROVE  \E n \in S : \A k \in S : n <= k
<1> DEFINE R == OpToRel(<, Nat)
<1>1. IsWellFoundedOn(R, Nat)
  BY NatLessThanWellFounded DEF OpToRel
<1>2. \A x, y \in Nat : y < x => <<y, x>> \in R
  BY DEF OpToRel
<1> HIDE DEF R
<1>3. PICK n \in S : \A k \in S : ~ (<<k, n>> \in R)
  BY <1>1, WFMin
<1>4. \A k \in S : ~ (k < n)
  BY <1>2, <1>3
<1> QED
  BY <1>3, <1>4

\* What holds at 0 and is handed on from each number to the next holds to the
\* end.
LEMMA StepByStep ==
  ASSUME NEW S \in SUBSET Nat, NEW last \in Nat, 0 \in S,
         \A n \in 1 .. last : n - 1 \in S => n \in S
  PROVE  0 .. last \subseteq S
<1> DEFINE missing == (0 .. last) \ S
<1> SUFFICES ASSUME missing # {} PROVE FALSE
  OBVIOUS
<1>1. missing \in SUBSET Nat
  OBVIOUS
<1>2. PICK n \in missing : \A k \in missing : n <= k
  BY <1>1, Smallest
<1>3. n \in 1 .. last
  BY <1>2
<1>4. n - 1 \in 0 .. last /\ n - 1 \notin missing
  BY <1>2, <1>3
<1> QED
  BY <1>2, <1>3, <1>4

\* The last of some places.
LEMMA LastOne ==
  ASSUME NEW S, NEW last \in Nat, S \subseteq 1 .. last, S # {}
  PROVE  Max(S) \in S /\ \A k \in S : k <= Max(S)
<1> DEFINE T == {n \in Nat : \A k \in S : k <= n}
<1>1. T \in SUBSET Nat /\ last \in T
  OBVIOUS
<1>2. PICK n \in T : \A k \in T : n <= k
  BY <1>1, Smallest
<1>3. n \in S
  <2> SUFFICES ASSUME n \notin S PROVE FALSE
    OBVIOUS
  <2>1. \A k \in S : k <= n /\ k # n /\ k \in 1 .. last
    BY <1>2
  <2>2. PICK k \in S : TRUE
    OBVIOUS
  <2>3. n - 1 \in T
    BY <2>1, <2>2, <1>2
  <2> QED
    BY <2>3, <1>2
<1>4. \A k \in S : n >= k
  BY <1>2
<1> QED
  BY <1>3, <1>4 DEF Max

-----------------------------------------------------------------------------
(* The fold *)

\* h[n] is the chamber as the first n ops leave it, of those in has.
RunTo(last, ops, has, h) ==
  h = [n \in 0 .. last |->
         IF n = 0 THEN Seed
         ELSE IF ops[n].n \in has THEN ApplyOp(h[n - 1], ops[n])
         ELSE h[n - 1]]

\* The fold goes through the ops one by one.
LEMMA FoldRuns ==
  ASSUME NEW ops, NEW has, Len(ops) \in Nat
  PROVE  \E h : /\ Fold(ops, has) = h[Len(ops)]
                /\ h[0] = Seed
                /\ \A n \in 1 .. Len(ops) :
                     h[n] = IF ops[n].n \in has THEN ApplyOp(h[n - 1], ops[n]) ELSE h[n - 1]
<1> DEFINE S == {n \in Nat : \E h : RunTo(n, ops, has, h)}
<1>1. 0 \in S
  <2> DEFINE h == [n \in 0 .. 0 |-> Seed]
  <2>1. RunTo(0, ops, has, h)
    BY DEF RunTo
  <2> QED
    BY <2>1
<1>2. ASSUME NEW n \in 1 .. Len(ops), n - 1 \in S
      PROVE  n \in S
  <2>1. PICK g : RunTo(n - 1, ops, has, g)
    BY <1>2
  <2> DEFINE step == IF ops[n].n \in has THEN ApplyOp(g[n - 1], ops[n]) ELSE g[n - 1]
             h == [k \in 0 .. n |-> IF k = n THEN step ELSE g[k]]
  <2>2. /\ DOMAIN g = 0 .. n - 1
        /\ \A k \in 0 .. n - 1 :
             g[k] = IF k = 0 THEN Seed
                    ELSE IF ops[k].n \in has THEN ApplyOp(g[k - 1], ops[k])
                    ELSE g[k - 1]
    BY <2>1 DEF RunTo
  <2>3. /\ DOMAIN h = 0 .. n /\ h = [k \in 0 .. n |-> h[k]]
        /\ h[n] = step /\ \A k \in 0 .. n - 1 : h[k] = g[k]
    OBVIOUS
  <2> HIDE DEF h
  <2>4. \A k \in 0 .. n :
           h[k] = IF k = 0 THEN Seed
                  ELSE IF ops[k].n \in has THEN ApplyOp(h[k - 1], ops[k])
                  ELSE h[k - 1]
    <3> SUFFICES ASSUME NEW k \in 0 .. n
                 PROVE  h[k] = IF k = 0 THEN Seed
                               ELSE IF ops[k].n \in has THEN ApplyOp(h[k - 1], ops[k])
                               ELSE h[k - 1]
      OBVIOUS
    <3>1. CASE k = n
      <4>1. k # 0 /\ k - 1 \in 0 .. n - 1
        BY <3>1
      <4>2. h[k - 1] = g[n - 1]
        BY <3>1, <4>1, <2>3
      <4> QED
        BY <3>1, <4>1, <4>2, <2>3
    <3>2. CASE k # n /\ k # 0
      <4>1. k \in 0 .. n - 1 /\ k - 1 \in 0 .. n - 1
        BY <3>2
      <4> QED
        BY <3>2, <4>1, <2>2, <2>3
    <3>3. CASE k # n /\ k = 0
      BY <3>3, <2>2, <2>3
    <3> QED
      BY <3>1, <3>2, <3>3
  <2>5. RunTo(n, ops, has, h)
    BY <2>3, <2>4 DEF RunTo
  <2> QED
    BY <2>5
<1>3. Len(ops) \in S
  <2> HIDE DEF S
  <2>1. S \in SUBSET Nat
    BY DEF S
  <2>2. 0 .. Len(ops) \subseteq S
    BY <1>1, <1>2, <2>1, StepByStep
  <2> QED
    BY <2>2
<1>4. PICK h : RunTo(Len(ops), ops, has, h)
  BY <1>3
<1> DEFINE after == CHOOSE g : RunTo(Len(ops), ops, has, g)
<1>5. RunTo(Len(ops), ops, has, after)
  BY <1>4
<1>6. Fold(ops, has) = after[Len(ops)]
  BY DEF Fold, RunTo
<1> HIDE DEF after
<1>7. \A n \in 0 .. Len(ops) :
        after[n] = IF n = 0 THEN Seed
                   ELSE IF ops[n].n \in has THEN ApplyOp(after[n - 1], ops[n])
                   ELSE after[n - 1]
  BY <1>5 DEF RunTo
<1>8. /\ after[0] = Seed
      /\ \A n \in 1 .. Len(ops) :
           after[n] = IF ops[n].n \in has THEN ApplyOp(after[n - 1], ops[n])
                      ELSE after[n - 1]
  BY <1>7
<1> QED
  BY <1>6, <1>8

-----------------------------------------------------------------------------
(* What pages write *)

SessionFields == {"locked", "stun", "chatPolicy", "talkiePolicy", "canChat", "demo"}
SwitchFields == {"frozen", "canTalk", "canChat", "dnd", "presence"}
LaterStages == {"committee", "floor", "enacted"}

\* An op as some page writes it: who may write it does not depend on what a
\* device shows, unless it creates a record or takes back a share.
Fit(op) ==
  /\ op.by \in Device
  /\ \/ op.type = "session.set" /\ op.by \in Gavel /\ DOMAIN op.patch \subseteq SessionFields
     \/ op.type = "member.upsert" /\ op.by \in Gavel /\ op.member \in Member
     \/ /\ op.type = "member.presence" /\ op.member \in Member
        /\ DOMAIN op.patch \subseteq SwitchFields
        /\ \/ op.by \in Gavel
           \/ (DOMAIN op.patch \cap ChairFields = {} /\ Speaks(op.member, op.by))
     \/ op.type \in {"member.auth", "member.retract"} /\ op.by \in Gavel /\ op.member \in Member
     \/ op.type \in {"vote.open", "vote.retract"} /\ op.by \in Gavel /\ op.vote \in Vote
     \/ /\ op.type = "vote.close" /\ op.by \in Gavel /\ op.vote \in Vote
        /\ op.result = Verdict(Carries(Threshold[op.vote], op.final))
     \/ /\ op.type = "ballot.cast" /\ Speaks(op.member, op.by) /\ op.member \in Member
        /\ op.vote \in Vote /\ op.choice \in Choice
     \/ /\ op.type = "proxy.delegate" /\ Speaks(op.member, op.by)
        /\ op.member \in Member /\ op.to \in Member
     \/ op.type = "proxy.revoke" /\ Speaks(op.member, op.by) /\ op.member \in Member
     \/ /\ op.type = "bill.upsert" /\ Speaks(op.member, op.by) /\ op.member \in Member
        /\ op.bill \in Bill \ Demo /\ "bill" \in DOMAIN op
     \/ /\ op.type = "bill.stage" /\ op.by \in Gavel
        /\ op.bill \in Bill /\ "bill" \in DOMAIN op /\ op.stage \in LaterStages
     \/ op.type = "bill.retract" /\ op.by \in Gavel /\ op.bill \in Bill \cap Demo
     \/ op.type \in {"cosponsor.add", "cosponsor.remove"} /\ op.bill \in Bill
     \/ op.type \in Range(PostTypes) /\ op.paper \in Paper
     \/ op.type \in Range(RetractTypes) /\ op.by \in Gavel /\ op.paper \in Paper
     \/ /\ op.type = "share.grant" /\ Speaks(op.member, op.by)
        /\ op.share \in Share /\ "share" \in DOMAIN op
     \/ op.type = "share.revoke" /\ op.share \in Share /\ "share" \in DOMAIN op
     \/ /\ op.type = "device.seen" /\ op.kid \in Device
        /\ DOMAIN op.patch \subseteq {"revoked"}
     \/ op.type = "device.revoke" /\ op.by \in Gavel /\ op.kid \in Device

\* The tables and their fields are all there.
Complete(s) ==
  /\ DOMAIN s = {"session", "members", "votes", "ballots", "proxies", "bills",
                 "signed", "papers", "shares", "devices"}
  /\ DOMAIN s.session = SessionFields
  /\ DOMAIN s.members = Member
  /\ \A m \in Member : DOMAIN s.members[m] = {"there", "gone", "auth"} \cup SwitchFields
  /\ DOMAIN s.votes = Vote
  /\ \A v \in Vote :
       DOMAIN s.votes[v] = {"there", "gone", "state", "threshold", "result", "final"}
  /\ DOMAIN s.ballots = Vote /\ \A v \in Vote : DOMAIN s.ballots[v] = Member
  /\ DOMAIN s.proxies = Member
  /\ \A m \in Member : DOMAIN s.proxies[m] = {"there", "gone", "to"}
  /\ DOMAIN s.bills = Bill
  /\ \A b \in Bill : DOMAIN s.bills[b] = {"there", "gone", "sponsor", "stage"}
  /\ DOMAIN s.signed = Bill
  /\ DOMAIN s.papers = Paper
  /\ \A p \in Paper : DOMAIN s.papers[p] = {"there", "gone", "owner"}
  /\ DOMAIN s.shares = Share
  /\ \A x \in Share : DOMAIN s.shares[x] = {"there", "revoked", "byKid"}
  /\ DOMAIN s.devices = Device
  /\ \A d \in Device : DOMAIN s.devices[d] = {"there", "revoked"}

\* The kinds of op that papers are posted and taken back with.
LEMMA Types ==
  /\ Range(PostTypes) = {"status.post", "chat.post", "amendment.file", "comment.post",
                         "news.post", "docket.add", "announce.post"}
  /\ Range(RetractTypes) = {"status.retract", "amendment.withdraw", "comment.retract",
                            "news.retract", "docket.remove"}
<1>1. /\ DOMAIN PostTypes = Tables
      /\ DOMAIN RetractTypes = {"statuses", "amendments", "comments", "news", "docket"}
  BY DEF PostTypes, RetractTypes, Tables
<1> QED
  BY <1>1 DEF PostTypes, RetractTypes, Range, Tables

\* What Settle does to the settings, field by field.
LEMMA SettleFields ==
  ASSUME NEW session, NEW patch, DOMAIN patch \subseteq DOMAIN session
  PROVE  /\ DOMAIN Settle(session, patch) = DOMAIN session
         /\ \A f \in DOMAIN session :
              Settle(session, patch)[f] = IF f \in DOMAIN patch THEN patch[f] ELSE session[f]
BY DEF Settle, Merged

\* An op that a page writes, and that creates nothing and takes back no share,
\* is authorised in every chamber.
LEMMA FitIsAuthorized ==
  ASSUME NEW s, NEW op, Fit(op), op.type \notin Range(PostTypes),
         op.type \notin {"bill.upsert", "share.grant", "share.revoke",
                         "cosponsor.add", "cosponsor.remove"}
  PROVE  Authorized(s, op)
BY Types DEF Fit, Authorized, MemberScoped, RecordScoped, Choice

-----------------------------------------------------------------------------
(* What an op does to the tables *)

\* What an op that a page writes does to each table.
Patched(op) ==
  CASE op.type = "member.upsert" ->
         [presence |-> "away", canChat |-> op.canChat, canTalk |-> op.canTalk]
    [] op.type = "member.presence" -> op.patch
    [] op.type = "member.auth" -> [auth |-> FALSE]
    [] op.type = "member.retract" -> [gone |-> TRUE]
    [] op.type = "vote.open" -> [state |-> "open", threshold |-> Threshold[op.vote]]
    [] op.type = "vote.close" -> [state |-> "closed", result |-> op.result, final |-> op.final]
    [] op.type = "vote.retract" -> [gone |-> TRUE]
    [] op.type = "device.seen" -> op.patch
    [] op.type = "device.revoke" -> [revoked |-> TRUE]
    [] op.type = "proxy.delegate" -> [to |-> op.to]
    [] op.type = "proxy.revoke" -> [gone |-> TRUE, to |-> NoSeat]

MemberTypes == {"member.upsert", "member.presence", "member.auth", "member.retract"}
VoteTypes == {"vote.open", "vote.close", "vote.retract"}
DeviceTypes == {"device.seen", "device.revoke"}
ProxyTypes == {"proxy.delegate", "proxy.revoke"}

\* Only session.set touches the settings.
LEMMA SessionEffect ==
  ASSUME NEW s, Complete(s), NEW op, Fit(op)
  PROVE  ApplyOp(s, op).session =
           IF op.type = "session.set" THEN Settle(s.session, op.patch) ELSE s.session
<1>1. CASE op.type = "session.set"
  <2>1. Authorized(s, op)
    BY <1>1, FitIsAuthorized, Types
  <2>2. Reduce(s, op) = [s EXCEPT !.session = Settle(@, op.patch)]
    BY <1>1, Types DEF Reduce
  <2> QED
    BY <1>1, <2>1, <2>2 DEF ApplyOp, Complete
<1>2. CASE op.type # "session.set"
  <2>1. Reduce(s, op).session = s.session
    BY <1>2, Types DEF Fit, Reduce, Complete
  <2> QED
    BY <1>2, <2>1 DEF ApplyOp
<1> QED
  BY <1>1, <1>2

\* A member's record changes by the ops about it.
LEMMA MemberEffect ==
  ASSUME NEW s, Complete(s), NEW op, Fit(op), NEW m \in Member
  PROVE  /\ DOMAIN ApplyOp(s, op).members = Member
         /\ ApplyOp(s, op).members[m] =
              IF op.type \in MemberTypes /\ op.member = m
              THEN Put(s.members[m], Patched(op)) ELSE s.members[m]
<1>1. CASE op.type \in MemberTypes
  <2>1. Authorized(s, op)
    BY <1>1, FitIsAuthorized, Types DEF MemberTypes
  <2>2. op.member \in Member
    BY <1>1, Types DEF Fit, MemberTypes
  <2>3. Reduce(s, op) = [s EXCEPT !.members[op.member] = Put(@, Patched(op))]
    BY <1>1, Types DEF Reduce, Patched, MemberTypes
  <2> QED
    BY <1>1, <2>1, <2>2, <2>3 DEF ApplyOp, Complete
<1>2. CASE op.type \notin MemberTypes
  <2>1. Reduce(s, op).members = s.members
    BY <1>2, Types DEF Fit, Reduce, Complete, MemberTypes
  <2> QED
    BY <1>2, <2>1 DEF ApplyOp, Complete
<1> QED
  BY <1>1, <1>2

\* So does a vote.
LEMMA VoteEffect ==
  ASSUME NEW s, Complete(s), NEW op, Fit(op), NEW v \in Vote
  PROVE  /\ DOMAIN ApplyOp(s, op).votes = Vote
         /\ ApplyOp(s, op).votes[v] =
              IF op.type \in VoteTypes /\ op.vote = v
              THEN Put(s.votes[v], Patched(op)) ELSE s.votes[v]
<1>1. CASE op.type \in VoteTypes
  <2>1. Authorized(s, op)
    BY <1>1, FitIsAuthorized, Types DEF VoteTypes
  <2>2. op.vote \in Vote
    BY <1>1, Types DEF Fit, VoteTypes
  <2>3. Reduce(s, op) = [s EXCEPT !.votes[op.vote] = Put(@, Patched(op))]
    BY <1>1, Types DEF Reduce, Patched, VoteTypes
  <2> QED
    BY <1>1, <2>1, <2>2, <2>3 DEF ApplyOp, Complete
<1>2. CASE op.type \notin VoteTypes
  <2>1. Reduce(s, op).votes = s.votes
    BY <1>2, Types DEF Fit, Reduce, Complete, VoteTypes
  <2> QED
    BY <1>2, <2>1 DEF ApplyOp, Complete
<1> QED
  BY <1>1, <1>2

\* And a device.
LEMMA DeviceEffect ==
  ASSUME NEW s, Complete(s), NEW op, Fit(op), NEW d \in Device
  PROVE  /\ DOMAIN ApplyOp(s, op).devices = Device
         /\ ApplyOp(s, op).devices[d] =
              IF op.type \in DeviceTypes /\ op.kid = d
              THEN Put(s.devices[d], Patched(op)) ELSE s.devices[d]
<1>1. CASE op.type \in DeviceTypes
  <2>1. Authorized(s, op)
    BY <1>1, FitIsAuthorized, Types DEF DeviceTypes
  <2>2. op.kid \in Device
    BY <1>1, Types DEF Fit, DeviceTypes
  <2>3. Reduce(s, op) = [s EXCEPT !.devices[op.kid] = Put(@, Patched(op))]
    BY <1>1, Types DEF Reduce, Patched, DeviceTypes
  <2> QED
    BY <1>1, <2>1, <2>2, <2>3 DEF ApplyOp, Complete
<1>2. CASE op.type \notin DeviceTypes
  <2>1. Reduce(s, op).devices = s.devices
    BY <1>2, Types DEF Fit, Reduce, Complete, DeviceTypes
  <2> QED
    BY <1>2, <2>1 DEF ApplyOp, Complete
<1> QED
  BY <1>1, <1>2

\* And a proxy.
LEMMA ProxyEffect ==
  ASSUME NEW s, Complete(s), NEW op, Fit(op), NEW m \in Member
  PROVE  /\ DOMAIN ApplyOp(s, op).proxies = Member
         /\ ApplyOp(s, op).proxies[m] =
              IF op.type \in ProxyTypes /\ op.member = m
              THEN Put(s.proxies[m], Patched(op)) ELSE s.proxies[m]
<1>1. CASE op.type \in ProxyTypes
  <2>1. Authorized(s, op)
    BY <1>1, FitIsAuthorized, Types DEF ProxyTypes
  <2>2. op.member \in Member
    BY <1>1, Types DEF Fit, ProxyTypes
  <2>3. Reduce(s, op) = [s EXCEPT !.proxies[op.member] = Put(@, Patched(op))]
    BY <1>1, Types DEF Reduce, Patched, ProxyTypes
  <2> QED
    BY <1>1, <2>1, <2>2, <2>3 DEF ApplyOp, Complete
<1>2. CASE op.type \notin ProxyTypes
  <2>1. Reduce(s, op).proxies = s.proxies
    BY <1>2, Types DEF Fit, Reduce, Complete, ProxyTypes
  <2> QED
    BY <1>2, <2>1 DEF ApplyOp, Complete
<1> QED
  BY <1>1, <1>2

\* A ballot is the last one cast.
LEMMA BallotEffect ==
  ASSUME NEW s, Complete(s), NEW op, Fit(op), NEW v \in Vote, NEW m \in Member
  PROVE  /\ DOMAIN ApplyOp(s, op).ballots = Vote
         /\ DOMAIN ApplyOp(s, op).ballots[v] = Member
         /\ ApplyOp(s, op).ballots[v][m] =
              IF op.type = "ballot.cast" /\ op.vote = v /\ op.member = m
              THEN op.choice ELSE s.ballots[v][m]
<1>1. CASE op.type = "ballot.cast"
  <2>1. Authorized(s, op)
    BY <1>1, FitIsAuthorized, Types
  <2>2. op.vote \in Vote /\ op.member \in Member
    BY <1>1, Types DEF Fit
  <2>3. Reduce(s, op) = [s EXCEPT !.ballots[op.vote][op.member] = op.choice]
    BY <1>1, Types DEF Reduce
  <2> QED
    BY <1>1, <2>1, <2>2, <2>3 DEF ApplyOp, Complete
<1>2. CASE op.type # "ballot.cast"
  <2>1. Reduce(s, op).ballots = s.ballots
    BY <1>2, Types DEF Fit, Reduce, Complete
  <2> QED
    BY <1>2, <2>1 DEF ApplyOp, Complete
<1> QED
  BY <1>1, <1>2

BillTypes == {"bill.upsert", "bill.stage", "bill.retract"}
ShareTypes == {"share.grant", "share.revoke"}

\* A bill is taken up by its sponsor, or by whoever may already write it.
LEMMA BillEffect ==
  ASSUME NEW s, Complete(s), NEW op, Fit(op), NEW b \in Bill
  PROVE  /\ DOMAIN ApplyOp(s, op).bills = Bill
         /\ op.type = "bill.stage" /\ op.bill = b =>
              ApplyOp(s, op).bills[b] = Put(s.bills[b], [stage |-> op.stage])
         /\ op.type = "bill.retract" /\ op.bill = b =>
              ApplyOp(s, op).bills[b] = Put(s.bills[b], [gone |-> TRUE])
         /\ op.type = "bill.upsert" /\ op.bill = b =>
              \/ ApplyOp(s, op).bills[b] =
                   Put(s.bills[b], [sponsor |-> op.member, stage |-> "introduced"])
              \/ s.bills[b].there /\ ApplyOp(s, op).bills[b] = s.bills[b]
         /\ ~(op.type \in BillTypes /\ op.bill = b) =>
              ApplyOp(s, op).bills[b] = s.bills[b]
<1>1. CASE op.type = "bill.stage"
  <2>1. Authorized(s, op)
    BY <1>1, FitIsAuthorized, Types
  <2>2. op.bill \in Bill
    BY <1>1, Types DEF Fit
  <2>3. Reduce(s, op) = [s EXCEPT !.bills[op.bill] = Put(@, [stage |-> op.stage])]
    BY <1>1, Types DEF Reduce
  <2> QED
    BY <1>1, <2>1, <2>2, <2>3 DEF ApplyOp, Complete, BillTypes
<1>2. CASE op.type = "bill.retract"
  <2>1. Authorized(s, op)
    BY <1>2, FitIsAuthorized, Types
  <2>2. op.bill \in Bill
    BY <1>2, Types DEF Fit
  <2>3. Reduce(s, op) = [s EXCEPT !.bills[op.bill] = Put(@, [gone |-> TRUE])]
    BY <1>2, Types DEF Reduce
  <2> QED
    BY <1>2, <2>1, <2>2, <2>3 DEF ApplyOp, Complete, BillTypes
<1>3. CASE op.type = "bill.upsert"
  <2>1. op.bill \in Bill /\ Speaks(op.member, op.by)
    BY <1>3, Types DEF Fit
  <2>2. ~s.bills[op.bill].there => Authorized(s, op)
    BY <1>3, <2>1, Types DEF Authorized, MemberScoped
  <2>3. Reduce(s, op) = [s EXCEPT !.bills[op.bill] =
                           Put(@, [sponsor |-> op.member, stage |-> "introduced"])]
    BY <1>3, Types DEF Reduce
  <2> QED
    BY <1>3, <2>1, <2>2, <2>3 DEF ApplyOp, Complete, BillTypes
<1>4. CASE op.type \notin BillTypes
  <2>1. Reduce(s, op).bills = s.bills
    BY <1>4, Types DEF Fit, Reduce, Complete, BillTypes
  <2> QED
    BY <1>4, <2>1 DEF ApplyOp, Complete, BillTypes
<1> QED
  BY <1>1, <1>2, <1>3, <1>4 DEF BillTypes

\* A paper changes by posting it or by taking it back, if at all.
LEMMA PaperEffect ==
  ASSUME NEW s, Complete(s), NEW op, Fit(op), NEW p \in Paper
  PROVE  /\ DOMAIN ApplyOp(s, op).papers = Paper
         /\ op.type \in Range(RetractTypes) /\ op.paper = p =>
              ApplyOp(s, op).papers[p] = Put(s.papers[p], [gone |-> TRUE])
         /\ ~(op.type \in Range(RetractTypes) /\ op.paper = p) =>
              \/ ApplyOp(s, op).papers[p] = s.papers[p]
              \/ ApplyOp(s, op).papers[p] = Put(s.papers[p], [owner |-> op.owner])
<1>1. CASE op.type \in Range(RetractTypes)
  <2>1. Authorized(s, op)
    BY <1>1, FitIsAuthorized, Types
  <2>2. op.paper \in Paper
    BY <1>1, Types DEF Fit
  <2>3. Reduce(s, op) = [s EXCEPT !.papers[op.paper] = Put(@, [gone |-> TRUE])]
    BY <1>1, Types DEF Reduce
  <2> QED
    BY <1>1, <2>1, <2>2, <2>3 DEF ApplyOp, Complete
<1>2. CASE op.type \in Range(PostTypes)
  <2>1. op.paper \in Paper
    BY <1>2, Types DEF Fit
  <2>2. Reduce(s, op) = [s EXCEPT !.papers[op.paper] = Put(@, [owner |-> op.owner])]
    BY <1>2, Types DEF Reduce
  <2>3. op.type \notin Range(RetractTypes)
    BY <1>2, Types
  <2> QED
    BY <2>1, <2>2, <2>3 DEF ApplyOp, Complete
<1>3. CASE op.type \notin Range(RetractTypes) \cup Range(PostTypes)
  <2>1. Reduce(s, op).papers = s.papers
    BY <1>3, Types DEF Fit, Reduce, Complete
  <2> QED
    BY <1>3, <2>1 DEF ApplyOp, Complete
<1> QED
  BY <1>1, <1>2, <1>3

\* A share changes by granting it or by taking it back, if at all.
LEMMA ShareEffect ==
  ASSUME NEW s, Complete(s), NEW op, Fit(op), NEW h \in Share
  PROVE  /\ DOMAIN ApplyOp(s, op).shares = Share
         /\ op.type = "share.grant" /\ op.share = h =>
              \/ s.shares[h].there /\ ApplyOp(s, op).shares[h] = s.shares[h]
              \/ ApplyOp(s, op).shares[h] =
                   Put(s.shares[h], [revoked |-> FALSE, byKid |-> op.by])
         /\ op.type = "share.revoke" /\ op.share = h =>
              \/ /\ s.shares[h].there /\ op.by \notin Gavel /\ s.shares[h].byKid # op.by
                 /\ ApplyOp(s, op).shares[h] = s.shares[h]
              \/ ApplyOp(s, op).shares[h] = Put(s.shares[h], [revoked |-> TRUE])
         /\ ~(op.type \in ShareTypes /\ op.share = h) =>
              ApplyOp(s, op).shares[h] = s.shares[h]
<1>1. CASE op.type = "share.grant"
  <2>1. op.share \in Share /\ Speaks(op.member, op.by)
    BY <1>1, Types DEF Fit
  <2>2. ~s.shares[op.share].there => Authorized(s, op)
    BY <1>1, <2>1, Types DEF Authorized, MemberScoped
  <2>3. Reduce(s, op) = [s EXCEPT !.shares[op.share] =
                           Put(@, [revoked |-> FALSE, byKid |-> op.by])]
    BY <1>1, Types DEF Reduce
  <2> QED
    BY <1>1, <2>1, <2>2, <2>3 DEF ApplyOp, Complete, ShareTypes
<1>2. CASE op.type = "share.revoke"
  <2>1. op.share \in Share
    BY <1>2, Types DEF Fit
  <2>2. \/ Authorized(s, op)
        \/ /\ s.shares[op.share].there /\ op.by \notin Gavel
           /\ s.shares[op.share].byKid # op.by
    BY <1>2, <2>1, Types DEF Authorized
  <2>3. Reduce(s, op) = [s EXCEPT !.shares[op.share] = Put(@, [revoked |-> TRUE])]
    BY <1>2, Types DEF Reduce
  <2> QED
    BY <1>2, <2>1, <2>2, <2>3 DEF ApplyOp, Complete, ShareTypes
<1>3. CASE op.type \notin ShareTypes
  <2>1. Reduce(s, op).shares = s.shares
    BY <1>3, Types DEF Fit, Reduce, Complete, ShareTypes
  <2> QED
    BY <1>3, <2>1 DEF ApplyOp, Complete, ShareTypes
<1> QED
  BY <1>1, <1>2, <1>3 DEF ShareTypes

\* No op adds a record or drops one.
LEMMA TablesStay ==
  ASSUME NEW s, Complete(s), NEW op, Fit(op)
  PROVE  /\ DOMAIN ApplyOp(s, op) = DOMAIN s
         /\ DOMAIN ApplyOp(s, op).members = Member
         /\ DOMAIN ApplyOp(s, op).votes = Vote
         /\ DOMAIN ApplyOp(s, op).ballots = Vote
         /\ DOMAIN ApplyOp(s, op).proxies = Member
         /\ DOMAIN ApplyOp(s, op).bills = Bill
         /\ DOMAIN ApplyOp(s, op).signed = Bill
         /\ DOMAIN ApplyOp(s, op).papers = Paper
         /\ DOMAIN ApplyOp(s, op).shares = Share
         /\ DOMAIN ApplyOp(s, op).devices = Device
<1>1. DOMAIN Reduce(s, op) = DOMAIN s
  BY Types DEF Fit, Reduce, Complete
<1>2. DOMAIN Reduce(s, op).members = DOMAIN s.members
  BY Types DEF Fit, Reduce, Complete
<1>3. DOMAIN Reduce(s, op).votes = DOMAIN s.votes
  BY Types DEF Fit, Reduce, Complete
<1>4. DOMAIN Reduce(s, op).ballots = DOMAIN s.ballots
  BY Types DEF Fit, Reduce, Complete
<1>5. DOMAIN Reduce(s, op).proxies = DOMAIN s.proxies
  BY Types DEF Fit, Reduce, Complete
<1>6. DOMAIN Reduce(s, op).bills = DOMAIN s.bills
  BY Types DEF Fit, Reduce, Complete
<1>7. DOMAIN Reduce(s, op).signed = DOMAIN s.signed
  BY Types DEF Fit, Reduce, Complete
<1>8. DOMAIN Reduce(s, op).papers = DOMAIN s.papers
  BY Types DEF Fit, Reduce, Complete
<1>9. DOMAIN Reduce(s, op).shares = DOMAIN s.shares
  BY Types DEF Fit, Reduce, Complete
<1>10. DOMAIN Reduce(s, op).devices = DOMAIN s.devices
  BY Types DEF Fit, Reduce, Complete
<1> QED
  BY <1>1, <1>2, <1>3, <1>4, <1>5, <1>6, <1>7, <1>8, <1>9, <1>10 DEF ApplyOp, Complete

\* A patch of known fields leaves a record its fields.
LEMMA PutKeepsFields ==
  ASSUME NEW record, NEW patch, DOMAIN patch \subseteq DOMAIN record
  PROVE  DOMAIN Put(record, patch) = DOMAIN record
BY DEF Put, Merged

\* The fields that a page patches are known ones.
LEMMA PatchedFields ==
  ASSUME NEW op, Fit(op)
  PROVE  /\ op.type \in MemberTypes =>
              DOMAIN Patched(op) \subseteq {"gone", "auth"} \cup SwitchFields
         /\ op.type \in VoteTypes =>
              DOMAIN Patched(op) \subseteq {"gone", "state", "threshold", "result", "final"}
         /\ op.type \in ProxyTypes => DOMAIN Patched(op) \subseteq {"gone", "to"}
         /\ op.type \in DeviceTypes => DOMAIN Patched(op) \subseteq {"revoked"}
BY Types DEF Fit, Patched, MemberTypes, VoteTypes, ProxyTypes, DeviceTypes, SwitchFields

\* Whatever is folded, every table keeps its records and every record its fields.
LEMMA StaysComplete ==
  ASSUME NEW s, Complete(s), NEW op, Fit(op)
  PROVE  Complete(ApplyOp(s, op))
<1> DEFINE t == ApplyOp(s, op)
<1>1. DOMAIN t.session = SessionFields
  <2>1. op.type = "session.set" => DOMAIN op.patch \subseteq SessionFields
    BY Types DEF Fit
  <2> QED
    BY <2>1, SessionEffect, SettleFields DEF Complete
<1>2. \A m \in Member : DOMAIN t.members[m] = {"there", "gone", "auth"} \cup SwitchFields
  <2> SUFFICES ASSUME NEW m \in Member
               PROVE  DOMAIN t.members[m] = {"there", "gone", "auth"} \cup SwitchFields
    OBVIOUS
  <2>1. DOMAIN s.members[m] = {"there", "gone", "auth"} \cup SwitchFields
    BY DEF Complete
  <2>2. op.type \in MemberTypes => DOMAIN Patched(op) \subseteq DOMAIN s.members[m]
    BY <2>1, PatchedFields
  <2>3. op.type \in MemberTypes => DOMAIN Put(s.members[m], Patched(op)) = DOMAIN s.members[m]
    BY <2>2, PutKeepsFields
  <2> QED
    BY <2>1, <2>3, MemberEffect
<1>3. \A v \in Vote :
        DOMAIN t.votes[v] = {"there", "gone", "state", "threshold", "result", "final"}
  <2> SUFFICES ASSUME NEW v \in Vote
               PROVE  DOMAIN t.votes[v] = {"there", "gone", "state", "threshold", "result", "final"}
    OBVIOUS
  <2>1. DOMAIN s.votes[v] = {"there", "gone", "state", "threshold", "result", "final"}
    BY DEF Complete
  <2>2. op.type \in VoteTypes => DOMAIN Patched(op) \subseteq DOMAIN s.votes[v]
    BY <2>1, PatchedFields
  <2>3. op.type \in VoteTypes => DOMAIN Put(s.votes[v], Patched(op)) = DOMAIN s.votes[v]
    BY <2>2, PutKeepsFields
  <2> QED
    BY <2>1, <2>3, VoteEffect
<1>4. \A v \in Vote : DOMAIN t.ballots[v] = Member
  <2> SUFFICES ASSUME NEW v \in Vote PROVE DOMAIN t.ballots[v] = Member
    OBVIOUS
  <2>1. CASE op.type = "ballot.cast"
    BY <2>1, Types DEF ApplyOp, Reduce, Complete
  <2>2. CASE op.type # "ballot.cast"
    <3>1. Reduce(s, op).ballots = s.ballots
      BY <2>2, Types DEF Fit, Reduce, Complete
    <3> QED
      BY <3>1 DEF ApplyOp, Complete
  <2> QED
    BY <2>1, <2>2
<1>5. \A m \in Member : DOMAIN t.proxies[m] = {"there", "gone", "to"}
  <2> SUFFICES ASSUME NEW m \in Member PROVE DOMAIN t.proxies[m] = {"there", "gone", "to"}
    OBVIOUS
  <2>1. DOMAIN s.proxies[m] = {"there", "gone", "to"}
    BY DEF Complete
  <2>2. op.type \in ProxyTypes => DOMAIN Patched(op) \subseteq DOMAIN s.proxies[m]
    BY <2>1, PatchedFields
  <2>3. op.type \in ProxyTypes => DOMAIN Put(s.proxies[m], Patched(op)) = DOMAIN s.proxies[m]
    BY <2>2, PutKeepsFields
  <2> QED
    BY <2>1, <2>3, ProxyEffect
<1>6. \A d \in Device : DOMAIN t.devices[d] = {"there", "revoked"}
  <2> SUFFICES ASSUME NEW d \in Device PROVE DOMAIN t.devices[d] = {"there", "revoked"}
    OBVIOUS
  <2>1. DOMAIN s.devices[d] = {"there", "revoked"}
    BY DEF Complete
  <2>2. op.type \in DeviceTypes => DOMAIN Patched(op) \subseteq DOMAIN s.devices[d]
    BY <2>1, PatchedFields
  <2>3. op.type \in DeviceTypes => DOMAIN Put(s.devices[d], Patched(op)) = DOMAIN s.devices[d]
    BY <2>2, PutKeepsFields
  <2> QED
    BY <2>1, <2>3, DeviceEffect
<1>7. \A b \in Bill : DOMAIN t.bills[b] = {"there", "gone", "sponsor", "stage"}
  <2> SUFFICES ASSUME NEW b \in Bill
               PROVE  DOMAIN t.bills[b] = {"there", "gone", "sponsor", "stage"}
    OBVIOUS
  <2>1. DOMAIN s.bills[b] = {"there", "gone", "sponsor", "stage"}
    BY DEF Complete
  <2>2. /\ DOMAIN [stage |-> op.stage] \subseteq DOMAIN s.bills[b]
        /\ DOMAIN [gone |-> TRUE] \subseteq DOMAIN s.bills[b]
        /\ DOMAIN [sponsor |-> op.member, stage |-> "introduced"] \subseteq DOMAIN s.bills[b]
    BY <2>1
  <2>3. /\ DOMAIN Put(s.bills[b], [stage |-> op.stage]) = DOMAIN s.bills[b]
        /\ DOMAIN Put(s.bills[b], [gone |-> TRUE]) = DOMAIN s.bills[b]
        /\ DOMAIN Put(s.bills[b], [sponsor |-> op.member, stage |-> "introduced"]) =
             DOMAIN s.bills[b]
    BY <2>2, PutKeepsFields
  <2> QED
    BY <2>1, <2>3, BillEffect DEF BillTypes
<1>8. \A p \in Paper : DOMAIN t.papers[p] = {"there", "gone", "owner"}
  <2> SUFFICES ASSUME NEW p \in Paper
               PROVE  DOMAIN t.papers[p] = {"there", "gone", "owner"}
    OBVIOUS
  <2>1. DOMAIN s.papers[p] = {"there", "gone", "owner"}
    BY DEF Complete
  <2>2. /\ DOMAIN [owner |-> op.owner] \subseteq DOMAIN s.papers[p]
        /\ DOMAIN [gone |-> TRUE] \subseteq DOMAIN s.papers[p]
    BY <2>1
  <2>3. /\ DOMAIN Put(s.papers[p], [owner |-> op.owner]) = DOMAIN s.papers[p]
        /\ DOMAIN Put(s.papers[p], [gone |-> TRUE]) = DOMAIN s.papers[p]
    BY <2>2, PutKeepsFields
  <2> QED
    BY <2>1, <2>3, PaperEffect
<1>9. \A h \in Share : DOMAIN t.shares[h] = {"there", "revoked", "byKid"}
  <2> SUFFICES ASSUME NEW h \in Share
               PROVE  DOMAIN t.shares[h] = {"there", "revoked", "byKid"}
    OBVIOUS
  <2>1. DOMAIN s.shares[h] = {"there", "revoked", "byKid"}
    BY DEF Complete
  <2>2. /\ DOMAIN [revoked |-> TRUE] \subseteq DOMAIN s.shares[h]
        /\ DOMAIN [revoked |-> FALSE, byKid |-> op.by] \subseteq DOMAIN s.shares[h]
    BY <2>1
  <2>3. /\ DOMAIN Put(s.shares[h], [revoked |-> TRUE]) = DOMAIN s.shares[h]
        /\ DOMAIN Put(s.shares[h], [revoked |-> FALSE, byKid |-> op.by]) = DOMAIN s.shares[h]
    BY <2>2, PutKeepsFields
  <2> QED
    BY <2>1, <2>3, ShareEffect DEF ShareTypes
<1> HIDE DEF t
<1> QED
  BY <1>1, <1>2, <1>3, <1>4, <1>5, <1>6, <1>7, <1>8, <1>9, TablesStay DEF t, Complete

\* The shipped chamber has every table, record and field.
LEMMA SeedComplete == Complete(Seed)
<1>1. /\ DOMAIN NoMember = {"there", "gone", "auth"} \cup SwitchFields
      /\ DOMAIN NoVote = {"there", "gone", "state", "threshold", "result", "final"}
      /\ DOMAIN NoProxy = {"there", "gone", "to"}
      /\ DOMAIN NoBill = {"there", "gone", "sponsor", "stage"}
      /\ DOMAIN NoPaper = {"there", "gone", "owner"}
      /\ DOMAIN NoShare = {"there", "revoked", "byKid"}
      /\ DOMAIN NoDevice = {"there", "revoked"}
  BY DEF NoMember, NoVote, NoProxy, NoBill, NoPaper, NoShare, NoDevice, SwitchFields
<1>2. ASSUME NEW a
      PROVE  /\ DOMAIN Put(NoMember, [presence |-> "away", auth |-> a]) = DOMAIN NoMember
             /\ DOMAIN Put(NoVote, [state |-> "open", threshold |-> a]) = DOMAIN NoVote
  <2>1. /\ DOMAIN [presence |-> "away", auth |-> a] \subseteq DOMAIN NoMember
        /\ DOMAIN [state |-> "open", threshold |-> a] \subseteq DOMAIN NoVote
    BY <1>1 DEF SwitchFields
  <2> QED
    BY <2>1, PutKeepsFields
<1>3. /\ DOMAIN Put(NoBill, [stage |-> "introduced"]) = DOMAIN NoBill
      /\ DOMAIN Put(NoPaper, << >>) = DOMAIN NoPaper
  <2>1. /\ DOMAIN [stage |-> "introduced"] \subseteq DOMAIN NoBill
        /\ DOMAIN << >> \subseteq DOMAIN NoPaper
    BY <1>1
  <2> QED
    BY <2>1, PutKeepsFields
<1> QED
  BY <1>1, <1>2, <1>3 DEF Seed, Complete, SessionFields

-----------------------------------------------------------------------------
(* The fold of a sequence of ops *)

\* A sequence of ops that pages wrote.
Chronicle(ops) ==
  /\ Len(ops) \in Nat /\ DOMAIN ops = 1 .. Len(ops)
  /\ \A i \in DOMAIN ops : Fit(ops[i])

\* h[n] is what the first n ops come to.
Run(ops, has, h) ==
  /\ h[0] = Seed
  /\ \A n \in 1 .. Len(ops) :
       h[n] = IF ops[n].n \in has THEN ApplyOp(h[n - 1], ops[n]) ELSE h[n - 1]

\* So does the chamber after each op.
LEMMA RunComplete ==
  ASSUME NEW ops, Chronicle(ops), NEW has, NEW h, Run(ops, has, h)
  PROVE  \A n \in 0 .. Len(ops) : Complete(h[n])
<1> DEFINE S == {n \in 0 .. Len(ops) : Complete(h[n])}
<1>1. 0 \in S
  BY SeedComplete DEF Chronicle, Run
<1>2. ASSUME NEW n \in 1 .. Len(ops), n - 1 \in S
      PROVE  n \in S
  <2>1. Complete(h[n - 1]) /\ Fit(ops[n])
    BY <1>2 DEF Chronicle
  <2>2. Complete(ApplyOp(h[n - 1], ops[n]))
    BY <2>1, StaysComplete
  <2>3. Complete(h[n])
    BY <2>1, <2>2 DEF Run
  <2> QED
    BY <2>3
<1>3. S \in SUBSET Nat /\ Len(ops) \in Nat
  BY DEF Chronicle
<1>4. 0 .. Len(ops) \subseteq S
  <2> HIDE DEF S
  <2> QED
    BY <1>1, <1>2, <1>3, StepByStep
<1> QED
  BY <1>4

\* What is known of one step of the fold.
LEMMA RunStep ==
  ASSUME NEW ops, Chronicle(ops), NEW has, NEW h, Run(ops, has, h), NEW n \in 1 .. Len(ops)
  PROVE  /\ Complete(h[n - 1]) /\ Fit(ops[n])
         /\ h[n] = IF ops[n].n \in has THEN ApplyOp(h[n - 1], ops[n]) ELSE h[n - 1]
<1>1. n - 1 \in 0 .. Len(ops) /\ n \in DOMAIN ops
  BY DEF Chronicle
<1>2. Complete(h[n - 1])
  BY <1>1, RunComplete
<1> QED
  BY <1>1, <1>2 DEF Chronicle, Run

-----------------------------------------------------------------------------
(* Tombstones *)

\* The tombstone that a retraction sets.
Tombstone(s, op) ==
  /\ op.type = "member.retract" => s.members[op.member].gone = TRUE
  /\ op.type = "vote.retract" => s.votes[op.vote].gone = TRUE
  /\ op.type = "bill.retract" => s.bills[op.bill].gone = TRUE
  /\ op.type \in Range(RetractTypes) => s.papers[op.paper].gone = TRUE

\* No patch clears a tombstone.
LEMMA PatchedGone ==
  ASSUME NEW op, Fit(op), "gone" \in DOMAIN Patched(op),
         op.type \in MemberTypes \cup VoteTypes \cup ProxyTypes
  PROVE  Patched(op).gone = TRUE
BY Types DEF Fit, Patched, MemberTypes, VoteTypes, ProxyTypes, SwitchFields

\* No op lifts a tombstone.
LEMMA GoneStays ==
  ASSUME NEW s, Complete(s), NEW op, Fit(op), NEW old, Fit(old), Tombstone(s, old)
  PROVE  Tombstone(ApplyOp(s, op), old)
<1> DEFINE t == ApplyOp(s, op)
<1>1. ASSUME old.type = "member.retract" PROVE t.members[old.member].gone = TRUE
  <2> DEFINE m == old.member
             r == s.members[m]
  <2>1. m \in Member
    BY <1>1, Types DEF Fit
  <2>2. r.gone = TRUE /\ DOMAIN r = {"there", "gone", "auth"} \cup SwitchFields
    BY <1>1, <2>1 DEF Tombstone, Complete
  <2>3. op.type \in MemberTypes => Put(r, Patched(op)).gone = TRUE
    BY <2>2, PatchedGone DEF Put, Merged, SwitchFields
  <2> QED
    BY <2>1, <2>2, <2>3, MemberEffect
<1>2. ASSUME old.type = "vote.retract" PROVE t.votes[old.vote].gone = TRUE
  <2> DEFINE v == old.vote
             r == s.votes[v]
  <2>1. v \in Vote
    BY <1>2, Types DEF Fit
  <2>2. r.gone = TRUE /\ DOMAIN r = {"there", "gone", "state", "threshold", "result", "final"}
    BY <1>2, <2>1 DEF Tombstone, Complete
  <2>3. op.type \in VoteTypes => Put(r, Patched(op)).gone = TRUE
    BY <2>2, PatchedGone DEF Put, Merged
  <2> QED
    BY <2>1, <2>2, <2>3, VoteEffect
<1>3. ASSUME old.type = "bill.retract" PROVE t.bills[old.bill].gone = TRUE
  <2> DEFINE b == old.bill
             r == s.bills[b]
  <2>1. b \in Bill
    BY <1>3, Types DEF Fit
  <2>2. r.gone = TRUE /\ DOMAIN r = {"there", "gone", "sponsor", "stage"}
    BY <1>3, <2>1 DEF Tombstone, Complete
  <2>3. /\ Put(r, [stage |-> op.stage]).gone = TRUE
        /\ Put(r, [gone |-> TRUE]).gone = TRUE
        /\ Put(r, [sponsor |-> op.member, stage |-> "introduced"]).gone = TRUE
    BY <2>2 DEF Put, Merged
  <2> QED
    BY <2>1, <2>2, <2>3, BillEffect DEF BillTypes
<1>4. ASSUME old.type \in Range(RetractTypes) PROVE t.papers[old.paper].gone = TRUE
  <2> DEFINE p == old.paper
             r == s.papers[p]
  <2>1. p \in Paper
    BY <1>4, Types DEF Fit
  <2>2. r.gone = TRUE /\ DOMAIN r = {"there", "gone", "owner"}
    BY <1>4, <2>1 DEF Tombstone, Complete
  <2>3. Put(r, [gone |-> TRUE]).gone = TRUE /\ Put(r, [owner |-> op.owner]).gone = TRUE
    BY <2>2 DEF Put, Merged
  <2> QED
    BY <2>1, <2>2, <2>3, PaperEffect
<1> QED
  BY <1>1, <1>2, <1>3, <1>4 DEF Tombstone

\* A retraction sets its tombstone.
LEMMA RetractionTakes ==
  ASSUME NEW s, Complete(s), NEW op, Fit(op)
  PROVE  Tombstone(ApplyOp(s, op), op)
<1> DEFINE t == ApplyOp(s, op)
<1>1. ASSUME op.type = "member.retract" PROVE t.members[op.member].gone = TRUE
  <2>1. op.member \in Member /\ op.type \in MemberTypes
    BY <1>1, Types DEF Fit, MemberTypes
  <2>2. Patched(op) = [gone |-> TRUE]
    BY <1>1, Types DEF Patched
  <2>3. Put(s.members[op.member], [gone |-> TRUE]).gone = TRUE
    BY <2>1 DEF Put, Merged, Complete
  <2>4. t.members[op.member] = Put(s.members[op.member], Patched(op))
    BY <2>1, MemberEffect
  <2> QED
    BY <2>2, <2>3, <2>4
<1>2. ASSUME op.type = "vote.retract" PROVE t.votes[op.vote].gone = TRUE
  <2>1. op.vote \in Vote /\ op.type \in VoteTypes
    BY <1>2, Types DEF Fit, VoteTypes
  <2>2. Patched(op) = [gone |-> TRUE]
    BY <1>2, Types DEF Patched
  <2>3. Put(s.votes[op.vote], [gone |-> TRUE]).gone = TRUE
    BY <2>1 DEF Put, Merged, Complete
  <2>4. t.votes[op.vote] = Put(s.votes[op.vote], Patched(op))
    BY <2>1, VoteEffect
  <2> QED
    BY <2>2, <2>3, <2>4
<1>3. ASSUME op.type = "bill.retract" PROVE t.bills[op.bill].gone = TRUE
  <2>1. op.bill \in Bill
    BY <1>3, Types DEF Fit
  <2>2. Put(s.bills[op.bill], [gone |-> TRUE]).gone = TRUE
    BY <2>1 DEF Put, Merged, Complete
  <2> QED
    BY <1>3, <2>1, <2>2, BillEffect
<1>4. ASSUME op.type \in Range(RetractTypes) PROVE t.papers[op.paper].gone = TRUE
  <2>1. op.paper \in Paper
    BY <1>4, Types DEF Fit
  <2>2. Put(s.papers[op.paper], [gone |-> TRUE]).gone = TRUE
    BY <2>1 DEF Put, Merged, Complete
  <2> QED
    BY <1>4, <2>1, <2>2, PaperEffect
<1> QED
  BY <1>1, <1>2, <1>3, <1>4 DEF Tombstone

\* So the fold shows every tombstone it was given.
LEMMA RetiredInFold ==
  ASSUME NEW ops, Chronicle(ops), NEW has, NEW h, Run(ops, has, h)
  PROVE  \A i \in DOMAIN ops : ops[i].n \in has => Tombstone(h[Len(ops)], ops[i])
<1> DEFINE P(n) == \A i \in 1 .. n : ops[i].n \in has => Tombstone(h[n], ops[i])
           S == {n \in 0 .. Len(ops) : P(n)}
<1>1. 0 \in S
  BY DEF Chronicle
<1>2. ASSUME NEW n \in 1 .. Len(ops), n - 1 \in S
      PROVE  n \in S
  <2> SUFFICES ASSUME NEW i \in 1 .. n, ops[i].n \in has
               PROVE  Tombstone(h[n], ops[i])
    OBVIOUS
  <2>0. Fit(ops[i])
    BY DEF Chronicle
  <2>1. /\ Complete(h[n - 1]) /\ Fit(ops[n])
        /\ h[n] = IF ops[n].n \in has THEN ApplyOp(h[n - 1], ops[n]) ELSE h[n - 1]
    BY RunStep
  <2>2. CASE i = n
    BY <2>1, <2>2, RetractionTakes
  <2>3. CASE i # n
    <3>1. i \in 1 .. n - 1
      BY <2>3
    <3>2. Tombstone(h[n - 1], ops[i])
      BY <1>2, <3>1
    <3> QED
      BY <2>0, <2>1, <3>2, GoneStays
  <2> QED
    BY <2>2, <2>3
<1>3. S \in SUBSET Nat /\ Len(ops) \in Nat
  BY DEF Chronicle
<1>4. 0 .. Len(ops) \subseteq S
  <2> HIDE DEF S
  <2> QED
    BY <1>1, <1>2, <1>3, StepByStep
<1>5. P(Len(ops))
  BY <1>3, <1>4
<1> QED
  BY <1>5 DEF Chronicle

-----------------------------------------------------------------------------
(* Shares *)

\* Shares are granted before they are taken back, by the same key or the Chair.
Granted(ops) ==
  \A i, j \in DOMAIN ops :
    ops[i].type = "share.grant" /\ ops[j].type = "share.revoke" /\ ops[i].share = ops[j].share
      => i < j /\ (ops[j].by \in Gavel \/ ops[j].by = ops[i].by)

\* A share was taken back, or given by a key, among the first n ops.
Taken(ops, has, n, x) ==
  \E i \in 1 .. n : ops[i].n \in has /\ ops[i].type = "share.revoke" /\ ops[i].share = x
GivenBy(ops, has, n, x, kid) ==
  \E i \in 1 .. n : /\ ops[i].n \in has /\ ops[i].type = "share.grant"
                    /\ ops[i].share = x /\ ops[i].by = kid

\* A share stands as granted, under the key of its grant, until it is taken back.
ShareStands(s, ops, has, n, x) ==
  IF Taken(ops, has, n, x) THEN s.shares[x].revoked = TRUE
  ELSE s.shares[x].there => GivenBy(ops, has, n, x, s.shares[x].byKid)

\* The fold shows that.
LEMMA SharesInFold ==
  ASSUME NEW ops, Chronicle(ops), Granted(ops), NEW has, NEW h, Run(ops, has, h),
         NEW x \in Share
  PROVE  ShareStands(h[Len(ops)], ops, has, Len(ops), x)
<1> DEFINE P(n) == ShareStands(h[n], ops, has, n, x)
           S == {n \in 0 .. Len(ops) : P(n)}
<1>1. 0 \in S
  <2>1. ~Seed.shares[x].there
    BY DEF Seed, NoShare
  <2>2. ~Taken(ops, has, 0, x)
    BY DEF Taken
  <2>3. h[0] = Seed /\ 0 \in 0 .. Len(ops)
    BY DEF Run, Chronicle
  <2> QED
    BY <2>1, <2>2, <2>3 DEF ShareStands
<1>2. ASSUME NEW n \in 1 .. Len(ops), n - 1 \in S
      PROVE  n \in S
  <2> DEFINE s == h[n - 1]
             op == ops[n]
             t == h[n]
             about == op.n \in has /\ op.type \in ShareTypes /\ op.share = x
  <2>1. /\ Complete(s) /\ Fit(op)
        /\ t = IF op.n \in has THEN ApplyOp(s, op) ELSE s
    BY RunStep
  <2>2. 1 .. n = (1 .. n - 1) \cup {n} /\ n \in DOMAIN ops /\ 1 .. n - 1 \subseteq DOMAIN ops
    BY DEF Chronicle
  <2>3. ShareStands(s, ops, has, n - 1, x)
    BY <1>2
  <2>4. ASSUME Taken(ops, has, n - 1, x) PROVE Taken(ops, has, n, x)
    BY <2>2, <2>4 DEF Taken
  <2>5. ASSUME NEW kid, GivenBy(ops, has, n - 1, x, kid) PROVE GivenBy(ops, has, n, x, kid)
    BY <2>2, <2>5 DEF GivenBy
  <2>6. DOMAIN s.shares[x] = {"there", "revoked", "byKid"}
    BY <2>1 DEF Complete
  <2> HIDE DEF s, t
  <2>7. CASE ~about
    <3>1. t.shares[x] = s.shares[x]
      BY <2>1, <2>7, ShareEffect
    <3>2. Taken(ops, has, n, x) <=> Taken(ops, has, n - 1, x)
      BY <2>2, <2>7 DEF Taken, ShareTypes
    <3> QED
      BY <2>3, <2>5, <3>1, <3>2 DEF ShareStands, t
  <2>8. CASE about /\ op.type = "share.grant"
    <3>1. ~Taken(ops, has, n, x)
      <4> SUFFICES ASSUME NEW i \in 1 .. n, ops[i].type = "share.revoke", ops[i].share = x
                   PROVE  FALSE
        BY DEF Taken
      <4>1. i \in DOMAIN ops /\ n \in DOMAIN ops
        BY <2>2
      <4>2. n < i
        BY <2>8, <4>1 DEF Granted
      <4> QED
        BY <4>2
    <3>2. ~Taken(ops, has, n - 1, x)
      BY <2>4, <3>1
    <3>3. \/ s.shares[x].there /\ t.shares[x] = s.shares[x]
          \/ t.shares[x] = Put(s.shares[x], [revoked |-> FALSE, byKid |-> op.by])
      BY <2>1, <2>8, ShareEffect
    <3>4. CASE s.shares[x].there /\ t.shares[x] = s.shares[x]
      BY <2>3, <2>5, <3>1, <3>2, <3>4 DEF ShareStands, t
    <3>5. CASE t.shares[x] = Put(s.shares[x], [revoked |-> FALSE, byKid |-> op.by])
      <4>1. t.shares[x].byKid = op.by
        BY <2>6, <3>5 DEF Put, Merged
      <4>2. GivenBy(ops, has, n, x, op.by)
        BY <2>2, <2>8 DEF GivenBy
      <4> QED
        BY <3>1, <4>1, <4>2 DEF ShareStands, t
    <3> QED
      BY <3>3, <3>4, <3>5
  <2>9. CASE about /\ op.type = "share.revoke"
    <3>1. Taken(ops, has, n, x)
      BY <2>2, <2>9 DEF Taken
    <3>2. \/ /\ s.shares[x].there /\ op.by \notin Gavel /\ s.shares[x].byKid # op.by
             /\ t.shares[x] = s.shares[x]
          \/ t.shares[x] = Put(s.shares[x], [revoked |-> TRUE])
      BY <2>1, <2>9, ShareEffect
    <3>3. CASE t.shares[x] = Put(s.shares[x], [revoked |-> TRUE])
      <4>1. t.shares[x].revoked = TRUE
        BY <2>6, <3>3 DEF Put, Merged
      <4> QED
        BY <3>1, <4>1 DEF ShareStands, t
    <3>4. CASE /\ s.shares[x].there /\ op.by \notin Gavel /\ s.shares[x].byKid # op.by
               /\ t.shares[x] = s.shares[x]
      <4>1. CASE Taken(ops, has, n - 1, x)
        BY <2>3, <3>1, <3>4, <4>1 DEF ShareStands, t
      <4>2. CASE ~Taken(ops, has, n - 1, x)
        <5>1. GivenBy(ops, has, n - 1, x, s.shares[x].byKid)
          BY <2>3, <3>4, <4>2 DEF ShareStands
        <5>2. PICK i \in 1 .. n - 1 : /\ ops[i].type = "share.grant" /\ ops[i].share = x
                                      /\ ops[i].by = s.shares[x].byKid
          BY <5>1 DEF GivenBy
        <5>3. i \in DOMAIN ops /\ n \in DOMAIN ops
          BY <2>2
        <5>4. op.by \in Gavel \/ op.by = ops[i].by
          BY <2>9, <5>2, <5>3 DEF Granted
        <5> QED
          BY <3>4, <5>2, <5>4
      <4> QED
        BY <4>1, <4>2
    <3> QED
      BY <3>2, <3>3, <3>4
  <2> QED
    BY <2>7, <2>8, <2>9 DEF ShareTypes
<1>3. S \in SUBSET Nat /\ Len(ops) \in Nat
  BY DEF Chronicle
<1>4. 0 .. Len(ops) \subseteq S
  <2> HIDE DEF S
  <2> QED
    BY <1>1, <1>2, <1>3, StepByStep
<1> QED
  BY <1>3, <1>4

-----------------------------------------------------------------------------
(* Switches *)

\* What the words of an op are about.
LEMMA WordsOf ==
  ASSUME NEW op, Fit(op)
  PROVE  /\ op.type = "session.set" =>
              /\ \A place : place \in DOMAIN Words(op) <=>
                   \E f \in DOMAIN op.patch : place = <<"session", "session", f>>
              /\ \A f \in DOMAIN op.patch :
                   Words(op)[<<"session", "session", f>>] = op.patch[f]
         /\ op.type \in {"member.presence", "member.upsert"} =>
              /\ \A place : place \in DOMAIN Words(op) <=>
                   \E f \in DOMAIN Patched(op) : place = <<"members", op.member, f>>
              /\ \A f \in DOMAIN Patched(op) :
                   Words(op)[<<"members", op.member, f>>] = Patched(op)[f]
         /\ op.type \in DeviceTypes =>
              /\ \A place : place \in DOMAIN Words(op) <=>
                   \E f \in DOMAIN Patched(op) : place = <<"devices", op.kid, f>>
              /\ \A f \in DOMAIN Patched(op) :
                   Words(op)[<<"devices", op.kid, f>>] = Patched(op)[f]
         /\ op.type \notin {"session.set", "member.presence", "member.upsert"} \cup DeviceTypes
              => DOMAIN Words(op) = {}
<1> DEFINE said(table, key, patch) ==
             [place \in {<<table, key, f>> : f \in DOMAIN patch} |-> patch[place[3]]]
<1>2. Words(op) =
        CASE op.type = "session.set" -> said("session", "session", op.patch)
          [] op.type = "member.presence" -> said("members", op.member, op.patch)
          [] op.type = "member.upsert" ->
               said("members", op.member, [presence |-> "away", canChat |-> op.canChat,
                                           canTalk |-> op.canTalk])
          [] op.type = "device.seen" -> said("devices", op.kid, op.patch)
          [] op.type = "device.revoke" -> said("devices", op.kid, [revoked |-> TRUE])
          [] OTHER -> << >>
  BY DEF Words
<1> HIDE DEF said
<1>3. CASE op.type = "session.set"
  <2>1. Words(op) = said("session", "session", op.patch)
    BY <1>2, <1>3
  <2>2. /\ \A place : place \in DOMAIN Words(op) <=>
             \E f \in DOMAIN op.patch : place = <<"session", "session", f>>
        /\ \A f \in DOMAIN op.patch : Words(op)[<<"session", "session", f>>] = op.patch[f]
    BY <2>1 DEF said
  <2> QED
    BY <1>3, <2>2 DEF DeviceTypes
<1>4. CASE op.type \in {"member.presence", "member.upsert"}
  <2>1. Words(op) = said("members", op.member, Patched(op))
    BY <1>2, <1>4 DEF Patched
  <2>2. /\ \A place : place \in DOMAIN Words(op) <=>
             \E f \in DOMAIN Patched(op) : place = <<"members", op.member, f>>
        /\ \A f \in DOMAIN Patched(op) : Words(op)[<<"members", op.member, f>>] = Patched(op)[f]
    BY <2>1 DEF said
  <2> QED
    BY <1>4, <2>2 DEF DeviceTypes
<1>5. CASE op.type \in DeviceTypes
  <2>1. Words(op) = said("devices", op.kid, Patched(op))
    BY <1>2, <1>5 DEF Patched, DeviceTypes
  <2>2. /\ \A place : place \in DOMAIN Words(op) <=>
             \E f \in DOMAIN Patched(op) : place = <<"devices", op.kid, f>>
        /\ \A f \in DOMAIN Patched(op) : Words(op)[<<"devices", op.kid, f>>] = Patched(op)[f]
    BY <2>1 DEF said
  <2> QED
    BY <1>5, <2>2 DEF DeviceTypes
<1>6. CASE op.type \notin {"session.set", "member.presence", "member.upsert"} \cup DeviceTypes
  <2>1. Words(op) = << >>
    BY <1>2, <1>6 DEF DeviceTypes
  <2> QED
    BY <1>6, <2>1 DEF DeviceTypes
<1> QED
  BY <1>3, <1>4, <1>5, <1>6

\* Where words can be about.
LEMMA PlacesOfWords ==
  ASSUME NEW op, Fit(op), NEW place \in DOMAIN Words(op)
  PROVE  \/ \E f \in SessionFields :
              /\ op.type = "session.set" /\ f \in DOMAIN op.patch
              /\ place = <<"session", "session", f>> /\ Words(op)[place] = op.patch[f]
         \/ \E f \in SwitchFields :
              /\ op.type \in {"member.presence", "member.upsert"} /\ op.member \in Member
              /\ f \in DOMAIN Patched(op)
              /\ place = <<"members", op.member, f>> /\ Words(op)[place] = Patched(op)[f]
         \/ /\ op.type \in DeviceTypes /\ op.kid \in Device /\ "revoked" \in DOMAIN Patched(op)
            /\ place = <<"devices", op.kid, "revoked">>
            /\ Words(op)[place] = Patched(op).revoked
<1>1. CASE op.type = "session.set"
  <2>1. DOMAIN op.patch \subseteq SessionFields
    BY <1>1, Types DEF Fit
  <2>2. PICK f \in DOMAIN op.patch : place = <<"session", "session", f>>
    BY <1>1, WordsOf
  <2>3. Words(op)[place] = op.patch[f]
    BY <1>1, <2>2, WordsOf
  <2> QED
    BY <1>1, <2>1, <2>2, <2>3
<1>2. CASE op.type \in {"member.presence", "member.upsert"}
  <2>1. DOMAIN Patched(op) \subseteq SwitchFields /\ op.member \in Member
    <3>1. CASE op.type = "member.presence"
      BY <3>1, Types DEF Fit, Patched
    <3>2. CASE op.type = "member.upsert"
      BY <3>2, Types DEF Fit, Patched, SwitchFields
    <3> QED
      BY <1>2, <3>1, <3>2
  <2>2. PICK f \in DOMAIN Patched(op) : place = <<"members", op.member, f>>
    BY <1>2, WordsOf
  <2>3. Words(op)[place] = Patched(op)[f]
    BY <1>2, <2>2, WordsOf
  <2> QED
    BY <1>2, <2>1, <2>2, <2>3
<1>3. CASE op.type \in DeviceTypes
  <2>1. DOMAIN Patched(op) \subseteq {"revoked"} /\ op.kid \in Device
    BY <1>3, PatchedFields, Types DEF Fit, DeviceTypes
  <2>2. PICK f \in DOMAIN Patched(op) : place = <<"devices", op.kid, f>>
    BY <1>3, WordsOf
  <2>3. Words(op)[place] = Patched(op)[f] /\ f = "revoked"
    BY <1>3, <2>1, <2>2, WordsOf
  <2> QED
    BY <1>3, <2>1, <2>2, <2>3
<1>4. CASE op.type \notin {"session.set", "member.presence", "member.upsert"} \cup DeviceTypes
  BY <1>4, WordsOf
<1> QED
  BY <1>1, <1>2, <1>3, <1>4

\* The fold shows what an op says at once.
LEMMA WordsAreHeard ==
  ASSUME NEW s, Complete(s), NEW op, Fit(op), NEW place \in DOMAIN Words(op)
  PROVE  Switch(ApplyOp(s, op), place) = Words(op)[place]
<1> DEFINE t == ApplyOp(s, op)
<1>1. ASSUME NEW f \in SessionFields, op.type = "session.set", f \in DOMAIN op.patch
      PROVE  Switch(t, <<"session", "session", f>>) = op.patch[f]
  <2>1. t.session = Settle(s.session, op.patch)
    BY <1>1, SessionEffect
  <2>2. Settle(s.session, op.patch)[f] = op.patch[f]
    BY <1>1 DEF Settle, Merged, Complete
  <2> QED
    BY <2>1, <2>2 DEF Switch
<1>2. ASSUME NEW f \in SwitchFields, op.type \in {"member.presence", "member.upsert"},
             op.member \in Member, f \in DOMAIN Patched(op)
      PROVE  Switch(t, <<"members", op.member, f>>) = Patched(op)[f]
  <2>1. t.members[op.member] = Put(s.members[op.member], Patched(op))
    BY <1>2, MemberEffect DEF MemberTypes
  <2>2. Put(s.members[op.member], Patched(op))[f] = Patched(op)[f]
    BY <1>2 DEF Put, Merged
  <2> QED
    BY <2>1, <2>2 DEF Switch
<1>3. ASSUME op.type \in DeviceTypes, op.kid \in Device, "revoked" \in DOMAIN Patched(op)
      PROVE  Switch(t, <<"devices", op.kid, "revoked">>) = Patched(op).revoked
  <2>1. t.devices[op.kid] = Put(s.devices[op.kid], Patched(op))
    BY <1>3, DeviceEffect
  <2>2. Put(s.devices[op.kid], Patched(op)).revoked = Patched(op).revoked
    BY <1>3 DEF Put, Merged
  <2> QED
    BY <2>1, <2>2 DEF Switch
<1> HIDE DEF t
<1> QED
  BY <1>1, <1>2, <1>3, PlacesOfWords DEF t

\* An op that says nothing of a switch leaves it alone.
LEMMA OthersKeepSwitches ==
  ASSUME NEW s, Complete(s), NEW op, Fit(op), NEW old, Fit(old),
         NEW place \in DOMAIN Words(old), place \notin DOMAIN Words(op)
  PROVE  Switch(ApplyOp(s, op), place) = Switch(s, place)
<1> DEFINE t == ApplyOp(s, op)
<1>1. ASSUME NEW f \in SessionFields, place = <<"session", "session", f>>
      PROVE  t.session[f] = s.session[f]
  <2>1. CASE op.type = "session.set"
    <3>1. f \notin DOMAIN op.patch
      BY <1>1, <2>1, WordsOf
    <3>2. t.session = Settle(s.session, op.patch)
      BY <2>1, SessionEffect
    <3>3. Settle(s.session, op.patch)[f] = s.session[f]
      BY <1>1, <3>1 DEF Settle, Merged, Complete
    <3> QED
      BY <3>2, <3>3
  <2>2. CASE op.type # "session.set"
    BY <2>2, SessionEffect
  <2> QED
    BY <2>1, <2>2
<1>2. ASSUME NEW m \in Member, NEW f \in SwitchFields, place = <<"members", m, f>>
      PROVE  t.members[m][f] = s.members[m][f]
  <2>1. CASE op.type \in MemberTypes /\ op.member = m
    <3>1. f \notin DOMAIN Patched(op)
      <4>1. CASE op.type \in {"member.presence", "member.upsert"}
        BY <1>2, <2>1, <4>1, WordsOf
      <4>2. CASE op.type = "member.auth"
        BY <1>2, <4>2 DEF Patched, SwitchFields
      <4>3. CASE op.type = "member.retract"
        BY <1>2, <4>3 DEF Patched, SwitchFields
      <4> QED
        BY <2>1, <4>1, <4>2, <4>3 DEF MemberTypes
    <3>2. t.members[m] = Put(s.members[m], Patched(op))
      BY <2>1, MemberEffect
    <3>3. f \in DOMAIN s.members[m] /\ f # "there"
      BY DEF Complete, SwitchFields
    <3>4. Put(s.members[m], Patched(op))[f] = s.members[m][f]
      BY <3>1, <3>3 DEF Put, Merged
    <3> QED
      BY <3>2, <3>4
  <2>2. CASE ~(op.type \in MemberTypes /\ op.member = m)
    BY <2>2, MemberEffect
  <2> QED
    BY <2>1, <2>2
<1>3. ASSUME NEW d \in Device, place = <<"devices", d, "revoked">>
      PROVE  t.devices[d].revoked = s.devices[d].revoked
  <2>1. CASE op.type \in DeviceTypes /\ op.kid = d
    <3>1. "revoked" \notin DOMAIN Patched(op)
      BY <1>3, <2>1, WordsOf
    <3>2. t.devices[d] = Put(s.devices[d], Patched(op))
      BY <2>1, DeviceEffect
    <3>3. "revoked" \in DOMAIN s.devices[d]
      BY DEF Complete
    <3>4. Put(s.devices[d], Patched(op)).revoked = s.devices[d].revoked
      BY <3>1, <3>3 DEF Put, Merged
    <3> QED
      BY <3>2, <3>4
  <2>2. CASE ~(op.type \in DeviceTypes /\ op.kid = d)
    BY <2>2, DeviceEffect
  <2> QED
    BY <2>1, <2>2
<1> HIDE DEF t
<1> QED
  BY <1>1, <1>2, <1>3, PlacesOfWords DEF t, Switch

\* Each switch stands as the last of the ops says that says anything of it.
Stands(s, ops, has, n, i) ==
  \A place \in DOMAIN Words(ops[i]) :
    \/ \E j \in i + 1 .. n : ops[j].n \in has /\ place \in DOMAIN Words(ops[j])
    \/ Switch(s, place) = Words(ops[i])[place]

\* The fold shows that.
LEMMA SwitchesInFold ==
  ASSUME NEW ops, Chronicle(ops), NEW has, NEW h, Run(ops, has, h)
  PROVE  \A i \in DOMAIN ops : ops[i].n \in has => Stands(h[Len(ops)], ops, has, Len(ops), i)
<1> DEFINE P(n) == \A i \in 1 .. n : ops[i].n \in has => Stands(h[n], ops, has, n, i)
           S == {n \in 0 .. Len(ops) : P(n)}
<1>1. 0 \in S
  BY DEF Chronicle
<1>2. ASSUME NEW n \in 1 .. Len(ops), n - 1 \in S
      PROVE  n \in S
  <2> SUFFICES ASSUME NEW i \in 1 .. n, ops[i].n \in has
               PROVE  Stands(h[n], ops, has, n, i)
    OBVIOUS
  <2>1. /\ Complete(h[n - 1]) /\ Fit(ops[n])
        /\ h[n] = IF ops[n].n \in has THEN ApplyOp(h[n - 1], ops[n]) ELSE h[n - 1]
    BY RunStep
  <2>2. CASE i = n
    BY <2>1, <2>2, WordsAreHeard DEF Stands
  <2>3. CASE i # n
    <3>1. i \in 1 .. n - 1 /\ n \in i + 1 .. n /\ i + 1 .. n - 1 \subseteq i + 1 .. n
      BY <2>3
    <3>2. Stands(h[n - 1], ops, has, n - 1, i) /\ Fit(ops[i])
      BY <1>2, <3>1 DEF Chronicle
    <3>3. ASSUME NEW place \in DOMAIN Words(ops[i]),
                 ~ \E j \in i + 1 .. n : ops[j].n \in has /\ place \in DOMAIN Words(ops[j])
          PROVE  Switch(h[n], place) = Words(ops[i])[place]
      <4>1. Switch(h[n - 1], place) = Words(ops[i])[place]
        BY <3>1, <3>2, <3>3 DEF Stands
      <4>2. ops[n].n \in has => place \notin DOMAIN Words(ops[n])
        BY <3>1, <3>3
      <4> QED
        BY <2>1, <3>2, <4>1, <4>2, OthersKeepSwitches
    <3> QED
      BY <3>3 DEF Stands
  <2> QED
    BY <2>2, <2>3
<1>3. S \in SUBSET Nat /\ Len(ops) \in Nat
  BY DEF Chronicle
<1>4. 0 .. Len(ops) \subseteq S
  <2> HIDE DEF S
  <2> QED
    BY <1>1, <1>2, <1>3, StepByStep
<1>5. P(Len(ops))
  BY <1>3, <1>4
<1> QED
  BY <1>5 DEF Chronicle

-----------------------------------------------------------------------------
(* Ballots *)

\* The ballots of a seat among the first n ops.
BallotsIn(ops, has, n, v, m) ==
  {i \in 1 .. n : /\ ops[i].n \in has /\ ops[i].type = "ballot.cast"
                  /\ ops[i].vote = v /\ ops[i].member = m}
IsLast(i, places) == i \in places /\ \A j \in places : j <= i

\* The ballot shown is the last of them.
BallotStands(s, ops, has, n, v, m) ==
  /\ BallotsIn(ops, has, n, v, m) = {} => s.ballots[v][m] = "none"
  /\ \A i : IsLast(i, BallotsIn(ops, has, n, v, m)) => s.ballots[v][m] = ops[i].choice

\* The fold shows that.
LEMMA BallotsInFold ==
  ASSUME NEW ops, Chronicle(ops), NEW has, NEW h, Run(ops, has, h),
         NEW v \in Vote, NEW m \in Member
  PROVE  BallotStands(h[Len(ops)], ops, has, Len(ops), v, m)
<1> DEFINE B(n) == BallotsIn(ops, has, n, v, m)
           S == {n \in 0 .. Len(ops) : BallotStands(h[n], ops, has, n, v, m)}
<1>1. 0 \in S
  <2>1. Seed.ballots[v][m] = "none"
    BY DEF Seed
  <2>2. B(0) = {}
    BY DEF BallotsIn
  <2>3. h[0] = Seed /\ 0 \in 0 .. Len(ops)
    BY DEF Run, Chronicle
  <2> QED
    BY <2>1, <2>2, <2>3 DEF BallotStands, IsLast
<1>2. ASSUME NEW n \in 1 .. Len(ops), n - 1 \in S
      PROVE  n \in S
  <2> DEFINE casts == ops[n].n \in has /\ ops[n].type = "ballot.cast"
                        /\ ops[n].vote = v /\ ops[n].member = m
  <2>1. /\ Complete(h[n - 1]) /\ Fit(ops[n])
        /\ h[n] = IF ops[n].n \in has THEN ApplyOp(h[n - 1], ops[n]) ELSE h[n - 1]
    BY RunStep
  <2>2. BallotStands(h[n - 1], ops, has, n - 1, v, m)
    BY <1>2
  <2>3. h[n].ballots[v][m] = IF casts THEN ops[n].choice ELSE h[n - 1].ballots[v][m]
    BY <2>1, BallotEffect
  <2>4. CASE casts
    <3>1. n \in B(n)
      BY <2>4 DEF BallotsIn
    <3>2. \A i : IsLast(i, B(n)) => i = n
      BY <3>1 DEF IsLast, BallotsIn
    <3> QED
      BY <2>3, <2>4, <3>1, <3>2 DEF BallotStands
  <2>5. CASE ~casts
    <3>1. B(n) = B(n - 1)
      BY <2>5 DEF BallotsIn
    <3> QED
      BY <2>2, <2>3, <2>5, <3>1 DEF BallotStands
  <2> QED
    BY <2>4, <2>5
<1>3. S \in SUBSET Nat /\ Len(ops) \in Nat
  BY DEF Chronicle
<1>4. 0 .. Len(ops) \subseteq S
  <2> HIDE DEF S
  <2> QED
    BY <1>1, <1>2, <1>3, StepByStep
<1> QED
  BY <1>3, <1>4

-----------------------------------------------------------------------------
(* Proxies *)

\* The delegations of a seat, or its revocations, among the first n ops.
ProxiesIn(ops, has, n, m, type) ==
  {i \in 1 .. n : ops[i].n \in has /\ ops[i].type = type /\ ops[i].member = m}

\* A proxy revoked once is gone; before that it goes where it was given last.
ProxyStands(s, ops, has, n, m) ==
  LET given == ProxiesIn(ops, has, n, m, "proxy.delegate")
  IN  IF ProxiesIn(ops, has, n, m, "proxy.revoke") # {} THEN s.proxies[m].gone = TRUE
      ELSE /\ s.proxies[m].gone = FALSE
           /\ s.proxies[m].there = (given # {})
           /\ \A i : IsLast(i, given) => s.proxies[m].to = ops[i].to

\* The fold shows that.
LEMMA ProxiesInFold ==
  ASSUME NEW ops, Chronicle(ops), NEW has, NEW h, Run(ops, has, h), NEW m \in Member
  PROVE  ProxyStands(h[Len(ops)], ops, has, Len(ops), m)
<1> DEFINE G(n) == ProxiesIn(ops, has, n, m, "proxy.delegate")
           R(n) == ProxiesIn(ops, has, n, m, "proxy.revoke")
           S == {n \in 0 .. Len(ops) : ProxyStands(h[n], ops, has, n, m)}
<1>1. 0 \in S
  <2>1. Seed.proxies[m].gone = FALSE /\ Seed.proxies[m].there = FALSE
    BY DEF Seed, NoProxy
  <2>2. G(0) = {} /\ R(0) = {}
    BY DEF ProxiesIn
  <2>3. h[0] = Seed /\ 0 \in 0 .. Len(ops)
    BY DEF Run, Chronicle
  <2> QED
    BY <2>1, <2>2, <2>3 DEF ProxyStands, IsLast
<1>2. ASSUME NEW n \in 1 .. Len(ops), n - 1 \in S
      PROVE  n \in S
  <2> DEFINE gives == ops[n].n \in has /\ ops[n].type = "proxy.delegate" /\ ops[n].member = m
             revokes == ops[n].n \in has /\ ops[n].type = "proxy.revoke" /\ ops[n].member = m
             r == h[n - 1].proxies[m]
             q == h[n].proxies[m]
  <2>1. /\ Complete(h[n - 1]) /\ Fit(ops[n])
        /\ h[n] = IF ops[n].n \in has THEN ApplyOp(h[n - 1], ops[n]) ELSE h[n - 1]
    BY RunStep
  <2>2. ProxyStands(h[n - 1], ops, has, n - 1, m)
    BY <1>2
  <2>3. DOMAIN r = {"there", "gone", "to"}
    BY <2>1 DEF Complete
  <2>4. CASE gives
    <3>0. Patched(ops[n]) = [to |-> ops[n].to]
      BY <2>4, Types DEF Patched
    <3>1. q = Put(r, [to |-> ops[n].to])
      <4>1. q = Put(r, Patched(ops[n]))
        BY <2>1, <2>4, ProxyEffect DEF ProxyTypes
      <4> QED
        BY <3>0, <4>1
    <3>2. q.there = TRUE /\ q.gone = r.gone /\ q.to = ops[n].to
      BY <2>3, <3>1 DEF Put, Merged
    <3>3. n \in G(n) /\ R(n) = R(n - 1)
      BY <2>4 DEF ProxiesIn
    <3>4. \A i : IsLast(i, G(n)) => i = n
      BY <3>3 DEF IsLast, ProxiesIn
    <3>5. R(n) # {} => q.gone = TRUE
      BY <2>2, <3>2, <3>3 DEF ProxyStands
    <3>6. R(n) = {} => q.gone = FALSE
      BY <2>2, <3>2, <3>3 DEF ProxyStands
    <3>7. ProxyStands(h[n], ops, has, n, m)
      <4> HIDE DEF r
      <4> QED
        BY <3>2, <3>3, <3>4, <3>5, <3>6 DEF ProxyStands
    <3> QED
      BY <3>7
  <2>5. CASE revokes
    <3>0. Patched(ops[n]) = [gone |-> TRUE, to |-> NoSeat]
      BY <2>5, Types DEF Patched
    <3>1. q = Put(r, [gone |-> TRUE, to |-> NoSeat])
      <4>1. q = Put(r, Patched(ops[n]))
        BY <2>1, <2>5, ProxyEffect DEF ProxyTypes
      <4> QED
        BY <3>0, <4>1
    <3>2. q.gone = TRUE
      BY <2>3, <3>1 DEF Put, Merged
    <3>3. n \in R(n)
      BY <2>5 DEF ProxiesIn
    <3> QED
      BY <3>2, <3>3 DEF ProxyStands
  <2>6. CASE ~gives /\ ~revokes
    <3>1. q = r
      BY <2>1, <2>6, ProxyEffect DEF ProxyTypes
    <3>2. G(n) = G(n - 1) /\ R(n) = R(n - 1)
      BY <2>6 DEF ProxiesIn
    <3> QED
      BY <2>2, <3>1, <3>2 DEF ProxyStands
  <2> QED
    BY <2>4, <2>5, <2>6
<1>3. S \in SUBSET Nat /\ Len(ops) \in Nat
  BY DEF Chronicle
<1>4. 0 .. Len(ops) \subseteq S
  <2> HIDE DEF S
  <2> QED
    BY <1>1, <1>2, <1>3, StepByStep
<1> QED
  BY <1>3, <1>4

-----------------------------------------------------------------------------
(* Votes *)

\* A vote was opened among the first n ops.
OpenedIn(ops, has, n, v) ==
  \E i \in 1 .. n : ops[i].n \in has /\ ops[i].type = "vote.open" /\ ops[i].vote = v

\* A vote that was opened, or shipped open, has its threshold, and closed says what
\* its tally said.
VoteStands(s, ops, has, n, v) ==
  /\ s.votes[v].state = "open" \/ v \in Demo \/ OpenedIn(ops, has, n, v) =>
       s.votes[v].threshold = Threshold[v]
  /\ s.votes[v].state = "closed" =>
       s.votes[v].result = Verdict(Carries(Threshold[v], s.votes[v].final))

\* The fold shows that.
LEMMA VotesInFold ==
  ASSUME NEW ops, Chronicle(ops), NEW has, NEW h, Run(ops, has, h), NEW v \in Vote
  PROVE  VoteStands(h[Len(ops)], ops, has, Len(ops), v)
<1> DEFINE S == {n \in 0 .. Len(ops) : VoteStands(h[n], ops, has, n, v)}
<1>1. 0 \in S
  <2>1. CASE v \in Demo
    <3>1. Seed.votes[v] = Put(NoVote, [state |-> "open", threshold |-> Threshold[v]])
      BY <2>1 DEF Seed
    <3>2. Seed.votes[v].state = "open" /\ Seed.votes[v].threshold = Threshold[v]
      BY <3>1 DEF Put, Merged
    <3> QED
      BY <3>2 DEF VoteStands, Run, Chronicle
  <2>2. CASE v \notin Demo
    <3>1. Seed.votes[v].state = "none"
      BY <2>2 DEF Seed, NoVote
    <3>2. ~OpenedIn(ops, has, 0, v)
      BY DEF OpenedIn
    <3> QED
      BY <2>2, <3>1, <3>2 DEF VoteStands, Run, Chronicle
  <2> QED
    BY <2>1, <2>2
<1>2. ASSUME NEW n \in 1 .. Len(ops), n - 1 \in S
      PROVE  n \in S
  <2> DEFINE op == ops[n]
             r == h[n - 1].votes[v]
             q == h[n].votes[v]
             about == op.n \in has /\ op.type \in VoteTypes /\ op.vote = v
  <2>1. /\ Complete(h[n - 1]) /\ Fit(op)
        /\ h[n] = IF op.n \in has THEN ApplyOp(h[n - 1], op) ELSE h[n - 1]
    BY RunStep
  <2>2. VoteStands(h[n - 1], ops, has, n - 1, v)
    BY <1>2
  <2>3. /\ DOMAIN r = {"there", "gone", "state", "threshold", "result", "final"}
        /\ q = IF about THEN Put(r, Patched(op)) ELSE r
    <3>1. DOMAIN r = {"there", "gone", "state", "threshold", "result", "final"}
      BY <2>1 DEF Complete
    <3>2. q = IF about THEN Put(r, Patched(op)) ELSE r
      BY <2>1, VoteEffect
    <3> QED
      BY <3>1, <3>2
  <2>4. OpenedIn(ops, has, n, v) <=>
          OpenedIn(ops, has, n - 1, v) \/ (about /\ op.type = "vote.open")
    <3>1. 1 .. n = (1 .. n - 1) \cup {n}
      OBVIOUS
    <3> QED
      BY <3>1 DEF OpenedIn, VoteTypes
  <2> HIDE DEF r, q
  <2>5. CASE about /\ op.type = "vote.open"
    <3>1. q = Put(r, [state |-> "open", threshold |-> Threshold[v]])
      BY <2>3, <2>5 DEF Patched
    <3>2. q.state = "open" /\ q.threshold = Threshold[v]
      BY <2>3, <3>1 DEF Put, Merged
    <3> QED
      BY <3>2 DEF VoteStands, q
  <2>6. CASE about /\ op.type = "vote.close"
    <3>1. q = Put(r, [state |-> "closed", result |-> op.result, final |-> op.final])
      BY <2>3, <2>6 DEF Patched
    <3>2. /\ q.state = "closed" /\ q.result = op.result /\ q.final = op.final
          /\ q.threshold = r.threshold
      BY <2>3, <3>1 DEF Put, Merged
    <3>3. op.result = Verdict(Carries(Threshold[v], op.final))
      BY <2>1, <2>6, Types DEF Fit
    <3> QED
      BY <2>2, <2>4, <2>6, <3>2, <3>3 DEF VoteStands, q, r
  <2>7. CASE about /\ op.type = "vote.retract"
    <3>1. q = Put(r, [gone |-> TRUE])
      BY <2>3, <2>7 DEF Patched
    <3>2. /\ q.state = r.state /\ q.result = r.result /\ q.final = r.final
          /\ q.threshold = r.threshold
      BY <2>3, <3>1 DEF Put, Merged
    <3> QED
      BY <2>2, <2>4, <2>7, <3>2 DEF VoteStands, q, r
  <2>8. CASE ~about
    BY <2>2, <2>3, <2>4, <2>8 DEF VoteStands, q, r
  <2> QED
    BY <2>5, <2>6, <2>7, <2>8 DEF VoteTypes
<1>3. S \in SUBSET Nat /\ Len(ops) \in Nat
  BY DEF Chronicle
<1>4. 0 .. Len(ops) \subseteq S
  <2> HIDE DEF S
  <2> QED
    BY <1>1, <1>2, <1>3, StepByStep
<1> QED
  BY <1>3, <1>4

-----------------------------------------------------------------------------
(* Bills *)

\* A bill is submitted once, before anything else happens to it.
Submitted(ops) ==
  \A i, j \in DOMAIN ops :
    ops[i].type = "bill.upsert" /\ ops[j].type \in BillTypes /\ ops[i].bill = ops[j].bill
      => i <= j

\* The moves of a bill, and whether it was introduced, among the first n ops.
StagesIn(ops, has, n, b) ==
  {i \in 1 .. n : ops[i].n \in has /\ ops[i].type = "bill.stage" /\ ops[i].bill = b}
Introduced(ops, has, n, b) ==
  \/ b \in Demo
  \/ \E i \in 1 .. n : ops[i].n \in has /\ ops[i].type = "bill.upsert" /\ ops[i].bill = b

\* A bill is where the last move took it, or where it was introduced.
BillStands(s, ops, has, n, b) ==
  LET moves == StagesIn(ops, has, n, b)
  IN  /\ moves = {} =>
           s.bills[b].stage = IF Introduced(ops, has, n, b) THEN "introduced" ELSE "none"
      /\ \A i : IsLast(i, moves) => s.bills[b].stage = ops[i].stage
      /\ s.bills[b].there => Introduced(ops, has, n, b) \/ moves # {}

\* The fold shows that.
LEMMA BillsInFold ==
  ASSUME NEW ops, Chronicle(ops), Submitted(ops), NEW has, NEW h, Run(ops, has, h),
         NEW b \in Bill
  PROVE  BillStands(h[Len(ops)], ops, has, Len(ops), b)
<1> DEFINE K(n) == StagesIn(ops, has, n, b)
           I(n) == Introduced(ops, has, n, b)
           S == {n \in 0 .. Len(ops) : BillStands(h[n], ops, has, n, b)}
<1>1. 0 \in S
  <2>1. K(0) = {} /\ (I(0) <=> b \in Demo)
    BY DEF StagesIn, Introduced
  <2>2. CASE b \in Demo
    <3>1. Seed.bills[b] = Put(NoBill, [stage |-> "introduced"])
      BY <2>2 DEF Seed
    <3>2. Seed.bills[b].stage = "introduced"
      BY <3>1 DEF Put, Merged
    <3> QED
      BY <2>1, <2>2, <3>2 DEF BillStands, IsLast, Run, Chronicle
  <2>3. CASE b \notin Demo
    <3>1. Seed.bills[b].stage = "none" /\ Seed.bills[b].there = FALSE
      BY <2>3 DEF Seed, NoBill
    <3> QED
      BY <2>1, <2>3, <3>1 DEF BillStands, IsLast, Run, Chronicle
  <2> QED
    BY <2>2, <2>3
<1>2. ASSUME NEW n \in 1 .. Len(ops), n - 1 \in S
      PROVE  n \in S
  <2> DEFINE op == ops[n]
             r == h[n - 1].bills[b]
             q == h[n].bills[b]
             about == op.n \in has /\ op.type \in BillTypes /\ op.bill = b
  <2>1. /\ Complete(h[n - 1]) /\ Fit(op)
        /\ h[n] = IF op.n \in has THEN ApplyOp(h[n - 1], op) ELSE h[n - 1]
    BY RunStep
  <2>2. BillStands(h[n - 1], ops, has, n - 1, b)
    BY <1>2
  <2>3. DOMAIN r = {"there", "gone", "sponsor", "stage"}
    BY <2>1 DEF Complete
  <2>4. 1 .. n = (1 .. n - 1) \cup {n} /\ n \in DOMAIN ops /\ 1 .. n - 1 \subseteq DOMAIN ops
    BY DEF Chronicle
  <2>5. ASSUME ~(about /\ op.type = "bill.upsert")
        PROVE  I(n) <=> I(n - 1)
    BY <2>4, <2>5 DEF Introduced, BillTypes
  <2>6. ASSUME ~(about /\ op.type = "bill.stage")
        PROVE  K(n) = K(n - 1)
    BY <2>4, <2>6 DEF StagesIn, BillTypes
  <2>11. LET t == ApplyOp(h[n - 1], op)
        IN  /\ op.type = "bill.stage" /\ op.bill = b => t.bills[b] = Put(r, [stage |-> op.stage])
            /\ op.type = "bill.retract" /\ op.bill = b => t.bills[b] = Put(r, [gone |-> TRUE])
            /\ op.type = "bill.upsert" /\ op.bill = b =>
                 \/ t.bills[b] = Put(r, [sponsor |-> op.member, stage |-> "introduced"])
                 \/ r.there /\ t.bills[b] = r
            /\ ~(op.type \in BillTypes /\ op.bill = b) => t.bills[b] = r
    BY <2>1, BillEffect
  <2>7. CASE about /\ op.type = "bill.stage"
    <3>1. q = Put(r, [stage |-> op.stage])
      BY <2>1, <2>7, <2>11
    <3>2. q.stage = op.stage
      BY <2>3, <3>1 DEF Put, Merged
    <3>3. n \in K(n)
      BY <2>4, <2>7 DEF StagesIn
    <3>4. \A i : IsLast(i, K(n)) => i = n
      BY <3>3 DEF IsLast, StagesIn
    <3> QED
      BY <3>2, <3>3, <3>4 DEF BillStands
  <2>8. CASE about /\ op.type = "bill.retract"
    <3>1. q = Put(r, [gone |-> TRUE])
      BY <2>1, <2>8, <2>11
    <3>2. q.stage = r.stage
      BY <2>3, <3>1 DEF Put, Merged
    <3>3. I(n)
      BY <2>1, <2>8, Types DEF Fit, Introduced
    <3>4. K(n) = K(n - 1) /\ (I(n) <=> I(n - 1))
      BY <2>5, <2>6, <2>8
    <3> QED
      BY <2>2, <3>2, <3>3, <3>4 DEF BillStands, IsLast, StagesIn
  <2>9. CASE about /\ op.type = "bill.upsert"
    <3>1. b \notin Demo
      BY <2>1, <2>9, Types DEF Fit
    <3>2. \A j \in 1 .. n - 1 : ~(ops[j].type \in BillTypes /\ ops[j].bill = b)
      <4> SUFFICES ASSUME NEW j \in 1 .. n - 1, ops[j].type \in BillTypes, ops[j].bill = b
                   PROVE  FALSE
        OBVIOUS
      <4>1. n <= j
        BY <2>4, <2>9 DEF Submitted
      <4> QED
        BY <4>1
    <3>3. K(n - 1) = {} /\ ~I(n - 1)
      BY <3>1, <3>2 DEF StagesIn, Introduced, BillTypes
    <3>4. ~r.there
      BY <2>2, <3>3 DEF BillStands
    <3>5. q = Put(r, [sponsor |-> op.member, stage |-> "introduced"])
      BY <2>1, <2>9, <3>4, <2>11
    <3>6. q.stage = "introduced"
      BY <2>3, <3>5 DEF Put, Merged
    <3>7. K(n) = {} /\ I(n)
      BY <2>4, <2>6, <2>9, <3>3 DEF Introduced
    <3> QED
      BY <3>6, <3>7 DEF BillStands, IsLast
  <2>10. CASE ~about
    <3>1. q = r
      BY <2>1, <2>10, <2>11
    <3>2. K(n) = K(n - 1) /\ (I(n) <=> I(n - 1))
      BY <2>5, <2>6, <2>10
    <3> QED
      BY <2>2, <3>1, <3>2 DEF BillStands
  <2> QED
    BY <2>7, <2>8, <2>9, <2>10 DEF BillTypes
<1>3. S \in SUBSET Nat /\ Len(ops) \in Nat
  BY DEF Chronicle
<1>4. 0 .. Len(ops) \subseteq S
  <2> HIDE DEF S
  <2> QED
    BY <1>1, <1>2, <1>3, StepByStep
<1> QED
  BY <1>3, <1>4

-----------------------------------------------------------------------------
(* All that the fold shows *)

\* What the fold shows, of the ops that it is given.
LEMMA FoldStands ==
  ASSUME NEW ops, Chronicle(ops), NEW has
  PROVE  LET s == Fold(ops, has)
             last == Len(ops)
         IN  /\ Complete(s)
             /\ \A i \in DOMAIN ops : ops[i].n \in has => Tombstone(s, ops[i])
             /\ \A i \in DOMAIN ops : ops[i].n \in has => Stands(s, ops, has, last, i)
             /\ \A v \in Vote, m \in Member : BallotStands(s, ops, has, last, v, m)
             /\ \A m \in Member : ProxyStands(s, ops, has, last, m)
             /\ \A v \in Vote : VoteStands(s, ops, has, last, v)
             /\ Granted(ops) => \A x \in Share : ShareStands(s, ops, has, last, x)
             /\ Submitted(ops) => \A b \in Bill : BillStands(s, ops, has, last, b)
<1>1. Len(ops) \in Nat
  BY DEF Chronicle
<1>2. PICK h : Fold(ops, has) = h[Len(ops)] /\ Run(ops, has, h)
  <2>1. PICK h : /\ Fold(ops, has) = h[Len(ops)]
                 /\ h[0] = Seed
                 /\ \A n \in 1 .. Len(ops) :
                      h[n] = IF ops[n].n \in has THEN ApplyOp(h[n - 1], ops[n]) ELSE h[n - 1]
    BY <1>1, FoldRuns
  <2>2. Run(ops, has, h)
    BY <2>1 DEF Run
  <2> QED
    BY <2>1, <2>2
<1>3. Complete(h[Len(ops)])
  BY <1>1, <1>2, RunComplete
<1>4. \A i \in DOMAIN ops : ops[i].n \in has => Tombstone(h[Len(ops)], ops[i])
  BY <1>2, RetiredInFold
<1>5. \A i \in DOMAIN ops : ops[i].n \in has => Stands(h[Len(ops)], ops, has, Len(ops), i)
  BY <1>2, SwitchesInFold
<1>6. \A v \in Vote, m \in Member : BallotStands(h[Len(ops)], ops, has, Len(ops), v, m)
  BY <1>2, BallotsInFold
<1>7. \A m \in Member : ProxyStands(h[Len(ops)], ops, has, Len(ops), m)
  BY <1>2, ProxiesInFold
<1>8. \A v \in Vote : VoteStands(h[Len(ops)], ops, has, Len(ops), v)
  BY <1>2, VotesInFold
<1>9. Granted(ops) => \A x \in Share : ShareStands(h[Len(ops)], ops, has, Len(ops), x)
  BY <1>2, SharesInFold
<1>10. Submitted(ops) => \A b \in Bill : BillStands(h[Len(ops)], ops, has, Len(ops), b)
  BY <1>2, BillsInFold
<1> QED
  BY <1>2, <1>3, <1>4, <1>5, <1>6, <1>7, <1>8, <1>9, <1>10

-----------------------------------------------------------------------------
(* What a device shows *)

\* What the fold needs to know of the chamber.
Recorded == Chronicle(chamber)
SharesRecorded == Granted(chamber)
BillsRecorded == Submitted(chamber)

\* The last of some places in the chamber.
LEMMA LastIsLast ==
  ASSUME Recorded, NEW places \in SUBSET DOMAIN chamber, places # {}
  PROVE  IsLast(Max(places), places)
<1>1. Len(chamber) \in Nat /\ places \subseteq 1 .. Len(chamber)
  BY DEF Recorded, Chronicle
<1> QED
  BY <1>1, LastOne DEF IsLast

\* The ballot that a device shows is the last one it knows of.
LEMMA BallotShown ==
  ASSUME Recorded, NEW d \in Device, NEW v \in Vote, NEW m \in Member
  PROVE  Shown(d).ballots[v][m] = LastBallot(d, v, m)
<1> DEFINE B == Ballots(d, v, m)
<1>1. B = BallotsIn(chamber, known[d], Len(chamber), v, m)
  BY DEF Ballots, BallotsIn, Known, Recorded, Chronicle
<1>2. BallotStands(Shown(d), chamber, known[d], Len(chamber), v, m)
  BY FoldStands DEF Shown, Recorded
<1>3. CASE B = {}
  BY <1>1, <1>2, <1>3 DEF BallotStands, LastBallot
<1>4. CASE B # {}
  <2>1. B \in SUBSET DOMAIN chamber
    BY DEF Ballots, Known
  <2>2. IsLast(Max(B), B)
    BY <1>4, <2>1, LastIsLast
  <2>3. Shown(d).ballots[v][m] = chamber[Max(B)].choice
    BY <1>1, <1>2, <2>2 DEF BallotStands
  <2> QED
    BY <1>4, <2>3 DEF LastBallot, LastWord
<1> QED
  BY <1>3, <1>4

\* The proxy that a device shows is the last delegation it knows of, unless it
\* knows of a revocation.
LEMMA ProxyShown ==
  ASSUME Recorded, NEW d \in Device, NEW m \in Member
  PROVE  LET proxy == Shown(d).proxies[m]
         IN  /\ Delegate(d, m) # NoSeat =>
                  Alive(proxy) /\ proxy.to = Delegate(d, m) /\ proxy.to \in Member
             /\ Delegate(d, m) = NoSeat => ~Alive(proxy)
<1> DEFINE given == Proxies(d, m, "proxy.delegate")
           taken == Proxies(d, m, "proxy.revoke")
           proxy == Shown(d).proxies[m]
<1>1. /\ given = ProxiesIn(chamber, known[d], Len(chamber), m, "proxy.delegate")
      /\ taken = ProxiesIn(chamber, known[d], Len(chamber), m, "proxy.revoke")
  BY DEF Proxies, ProxiesIn, Known, Recorded, Chronicle
<1>2. ProxyStands(Shown(d), chamber, known[d], Len(chamber), m)
  BY FoldStands DEF Shown, Recorded
<1>3. given \in SUBSET DOMAIN chamber
  BY DEF Proxies, Known
<1>4. CASE taken # {}
  <2>1. proxy.gone = TRUE
    BY <1>1, <1>2, <1>4 DEF ProxyStands
  <2> QED
    BY <1>4, <2>1 DEF Alive, Delegate
<1>5. CASE taken = {} /\ given = {}
  <2>1. proxy.there = FALSE
    BY <1>1, <1>2, <1>5 DEF ProxyStands
  <2> QED
    BY <1>5, <2>1 DEF Alive, Delegate
<1>6. CASE taken = {} /\ given # {}
  <2>1. IsLast(Max(given), given)
    BY <1>3, <1>6, LastIsLast
  <2>2. proxy.gone = FALSE /\ proxy.there = TRUE /\ proxy.to = chamber[Max(given)].to
    BY <1>1, <1>2, <1>6, <2>1 DEF ProxyStands
  <2>3. Delegate(d, m) = chamber[Max(given)].to
    BY <1>6 DEF Delegate, LastWord
  <2>4. Max(given) \in DOMAIN chamber /\ chamber[Max(given)].type = "proxy.delegate"
    BY <2>1 DEF IsLast, Proxies, Known
  <2>5. chamber[Max(given)].to \in Member
    BY <2>4, Types DEF Recorded, Chronicle, Fit
  <2> QED
    BY <2>2, <2>3, <2>5, SeatAssumption DEF Alive
<1> QED
  BY <1>4, <1>5, <1>6

\* The three properties of what a device shows follow.
LEMMA TallyFollows ==
  ASSUME Recorded
  PROVE  TallyIsTheLastWord
<1> SUFFICES ASSUME NEW d \in Device, NEW v \in Vote, NEW m \in Member
             PROVE  LET own == LastBallot(d, v, m)
                        holder == Delegate(d, m)
                    IN  Counted(Shown(d), v, m) =
                          IF own # "none" THEN own
                          ELSE IF holder # NoSeat THEN LastBallot(d, v, holder) ELSE "none"
  BY DEF TallyIsTheLastWord
<1>1. Shown(d).ballots[v][m] = LastBallot(d, v, m)
  BY BallotShown
<1>2. CASE Delegate(d, m) = NoSeat
  <2>1. ~Alive(Shown(d).proxies[m])
    BY <1>2, ProxyShown
  <2> QED
    BY <1>1, <1>2, <2>1 DEF Counted
<1>3. CASE Delegate(d, m) # NoSeat
  <2>1. /\ Alive(Shown(d).proxies[m]) /\ Shown(d).proxies[m].to = Delegate(d, m)
        /\ Delegate(d, m) \in Member
    BY <1>3, ProxyShown
  <2>2. Shown(d).ballots[v][Delegate(d, m)] = LastBallot(d, v, Delegate(d, m))
    BY <2>1, BallotShown
  <2> QED
    BY <1>1, <1>3, <2>1, <2>2 DEF Counted
<1> QED
  BY <1>2, <1>3

LEMMA VerdictFollows ==
  ASSUME Recorded
  PROVE  VerdictOfItsTally
<1> SUFFICES ASSUME NEW d \in Device, NEW v \in Vote, Shown(d).votes[v].state = "closed",
                    Heard(d, v)
             PROVE  Shown(d).votes[v].result =
                      Verdict(Carries(Shown(d).votes[v].threshold, Shown(d).votes[v].final))
  BY DEF VerdictOfItsTally
<1>1. VoteStands(Shown(d), chamber, known[d], Len(chamber), v)
  BY FoldStands DEF Shown, Recorded
<1>2. v \in Demo \/ OpenedIn(chamber, known[d], Len(chamber), v)
  BY DEF Heard, OpenedIn, Known, Recorded, Chronicle
<1> QED
  BY <1>1, <1>2 DEF VoteStands

LEMMA RetirementFollows ==
  ASSUME Recorded, SharesRecorded
  PROVE  RetiredForGood
<1> SUFFICES ASSUME NEW d \in Device, NEW i \in DOMAIN chamber, chamber[i].n \in known[d]
             PROVE  LET op == chamber[i]
                        s == Shown(d)
                    IN  /\ op.type = "member.retract" => ~Alive(s.members[op.member])
                        /\ op.type = "vote.retract" => ~Alive(s.votes[op.vote])
                        /\ op.type = "bill.retract" => ~Alive(s.bills[op.bill])
                        /\ op.type \in Range(RetractTypes) => ~Alive(s.papers[op.paper])
                        /\ op.type = "share.revoke" => s.shares[op.share].revoked
  BY DEF RetiredForGood
<1>1. Tombstone(Shown(d), chamber[i])
  BY FoldStands DEF Shown, Recorded
<1>2. ASSUME chamber[i].type = "share.revoke" PROVE Shown(d).shares[chamber[i].share].revoked
  <2>1. chamber[i].share \in Share
    BY <1>2, Types DEF Recorded, Chronicle, Fit
  <2>2. ShareStands(Shown(d), chamber, known[d], Len(chamber), chamber[i].share)
    BY <2>1, FoldStands DEF Shown, Recorded, SharesRecorded
  <2>3. Taken(chamber, known[d], Len(chamber), chamber[i].share)
    BY <1>2 DEF Taken, Recorded, Chronicle
  <2> QED
    BY <2>2, <2>3 DEF ShareStands
<1> QED
  BY <1>1, <1>2 DEF Tombstone, Alive

LEMMA SwitchesFollow ==
  ASSUME Recorded
  PROVE  SwitchesShowTheLastWord
<1> SUFFICES ASSUME NEW d \in Device, NEW i \in DOMAIN chamber, chamber[i].n \in known[d],
                    NEW place \in DOMAIN Words(chamber[i])
             PROVE  \/ \E j \in i + 1 .. Len(chamber) :
                         chamber[j].n \in known[d] /\ place \in DOMAIN Words(chamber[j])
                    \/ Switch(Shown(d), place) = Words(chamber[i])[place]
  BY DEF SwitchesShowTheLastWord
<1>1. Stands(Shown(d), chamber, known[d], Len(chamber), i)
  BY FoldStands DEF Shown, Recorded
<1> QED
  BY <1>1 DEF Stands

-----------------------------------------------------------------------------
(* Putting ops into the order *)

\* A sequence, of whatever.
Orderly(ops) == Len(ops) \in Nat /\ DOMAIN ops = 1 .. Len(ops)

\* Where the ops behind an insertion end up.
Moved(i, at, new) == IF i <= at THEN i ELSE i + Len(new)

\* An insertion keeps the ops there were, in their order, around the new ones.
LEMMA Insertion ==
  ASSUME NEW ops, Orderly(ops), NEW new, Orderly(new), NEW at \in 0 .. Len(ops)
  PROVE  LET all == Inserted(ops, at, new)
         IN  /\ Orderly(all) /\ Len(all) = Len(ops) + Len(new)
             /\ \A i \in DOMAIN ops : Moved(i, at, new) \in DOMAIN all
                                        /\ all[Moved(i, at, new)] = ops[i]
             /\ \A i \in DOMAIN new : at + i \in DOMAIN all /\ all[at + i] = new[i]
             /\ \A k \in DOMAIN all :
                  \/ \E i \in DOMAIN ops : k = Moved(i, at, new) /\ all[k] = ops[i]
                  \/ \E i \in DOMAIN new : k = at + i /\ all[k] = new[i]
<1> DEFINE all == Inserted(ops, at, new)
           last == Len(ops) + Len(new)
           S == {all[k] : k \in 1 .. last}
<1>1. last \in Nat /\ DOMAIN all = 1 .. last
  BY DEF Inserted, Orderly
<1>2. /\ \A k \in 1 .. last : k <= at => all[k] = ops[k]
      /\ \A k \in 1 .. last : k > at /\ k <= at + Len(new) => all[k] = new[k - at]
      /\ \A k \in 1 .. last : k > at + Len(new) => all[k] = ops[k - Len(new)]
  BY DEF Inserted, Orderly
<1>3. all \in Seq(S)
  <2>1. all \in [1 .. last -> S]
    BY <1>1 DEF Inserted
  <2> HIDE DEF S, all, last
  <2> QED
    BY <1>1, <2>1
<1>4. Len(all) = last
  <2>1. Len(all) \in Nat /\ DOMAIN all = 1 .. Len(all)
    BY <1>3
  <2> HIDE DEF all, last
  <2> QED
    BY <1>1, <2>1
<1>5. ASSUME NEW i \in DOMAIN ops
      PROVE  Moved(i, at, new) \in DOMAIN all /\ all[Moved(i, at, new)] = ops[i]
  <2>1. i \in 1 .. Len(ops) /\ Len(ops) \in Nat /\ Len(new) \in Nat
    BY DEF Orderly
  <2> HIDE DEF all
  <2> QED
    BY <1>1, <1>2, <2>1 DEF Moved
<1>6. ASSUME NEW i \in DOMAIN new
      PROVE  at + i \in DOMAIN all /\ all[at + i] = new[i]
  <2>1. i \in 1 .. Len(new) /\ Len(ops) \in Nat /\ Len(new) \in Nat
    BY DEF Orderly
  <2>2. at + i - at = i
    BY <2>1
  <2> HIDE DEF all
  <2> QED
    BY <1>1, <1>2, <2>1, <2>2
<1>7. ASSUME NEW k \in DOMAIN all
      PROVE  \/ \E i \in DOMAIN ops : k = Moved(i, at, new) /\ all[k] = ops[i]
             \/ \E i \in DOMAIN new : k = at + i /\ all[k] = new[i]
  <2>1. k \in 1 .. last /\ Len(ops) \in Nat /\ Len(new) \in Nat
    BY <1>1 DEF Orderly
  <2> HIDE DEF all
  <2>2. CASE k <= at
    <3>1. k \in DOMAIN ops /\ k = Moved(k, at, new) /\ all[k] = ops[k]
      BY <1>2, <2>1, <2>2 DEF Moved, Orderly
    <3> QED
      BY <3>1
  <2>3. CASE k > at /\ k <= at + Len(new)
    <3> DEFINE i == k - at
    <3>1. at \in Nat /\ k \in Nat
      BY <2>1
    <3>2. i \in DOMAIN new /\ k = at + i
      BY <2>1, <2>3, <3>1 DEF Orderly
    <3>3. all[k] = new[i]
      BY <1>2, <2>1, <2>3
    <3> QED
      BY <3>2, <3>3
  <2>4. CASE k > at + Len(new)
    <3> DEFINE i == k - Len(new)
    <3>1. i \in DOMAIN ops /\ k = Moved(i, at, new) /\ all[k] = ops[i]
      BY <1>2, <2>1, <2>4 DEF Moved, Orderly
    <3> QED
      BY <3>1
  <2> QED
    BY <2>1, <2>2, <2>3, <2>4
<1> HIDE DEF all
<1> QED
  BY <1>1, <1>4, <1>5, <1>6, <1>7 DEF all, Orderly

\* An insertion keeps the order of the ops.
LEMMA MovedInOrder ==
  ASSUME NEW ops, Orderly(ops), NEW new, Orderly(new), NEW at \in 0 .. Len(ops)
  PROVE  /\ \A i, j \in DOMAIN ops :
              (i < j <=> Moved(i, at, new) < Moved(j, at, new))
                /\ (i = j <=> Moved(i, at, new) = Moved(j, at, new))
         /\ \A i \in DOMAIN ops, k \in DOMAIN new :
              IF i <= at THEN Moved(i, at, new) < at + k ELSE at + k < Moved(i, at, new)
BY DEF Moved, Orderly

-----------------------------------------------------------------------------
(* What holds of the ops of the chamber *)

\* Names and authors of ops, the moves of a bill, and the order of the stages.
Ids(ops) == {ops[i].n : i \in DOMAIN ops}
WrittenIn(ops, d) == Cardinality({i \in DOMAIN ops : ops[i].by = d})
Moves(ops, b) == {i \in DOMAIN ops : ops[i].type = "bill.stage" /\ ops[i].bill = b}
MovesSeen(ops, b, has) == {i \in Moves(ops, b) : ops[i].n \in has}
Rank(stage) == CHOOSE i \in DOMAIN Stages : Stages[i] = stage

\* The numbers of a device's ops run from one.
Numbered(ops) ==
  \A i \in DOMAIN ops : \E k \in 1 .. WrittenIn(ops, ops[i].by) : ops[i].n = <<ops[i].by, k>>

\* An op comes after everything its author knew.
Aware(ops) ==
  \A i \in DOMAIN ops :
    /\ ops[i].saw \subseteq Ids(ops)
    /\ \A j \in DOMAIN ops : ops[j].n \in ops[i].saw => j < i

\* A share is granted once.
GrantedOnce(ops) ==
  \A i, j \in DOMAIN ops :
    ops[i].type = "share.grant" /\ ops[j].type = "share.grant" /\ ops[i].share = ops[j].share
      => i = j

\* Whoever moves a bill along moves it on from the last stage it knew of, and
\* knows its own moves.
Stepped(ops) ==
  \A b \in Bill : \A j \in Moves(ops, b) :
    \A i : IsLast(i, MovesSeen(ops, b, ops[j].saw)) => Rank(ops[i].stage) < Rank(ops[j].stage)
OwnMovesSeen(ops) ==
  \A b \in Bill : \A i, j \in Moves(ops, b) :
    ops[i].by = ops[j].by /\ i < j => ops[i].n \in ops[j].saw

\* What a device may add to the ops, knowing those in has.
Suits(ops, has, d, new) ==
  /\ Orderly(new)
  /\ \A i \in DOMAIN new :
       /\ Fit(new[i]) /\ new[i].by = d /\ new[i].saw = has
       /\ new[i].n = <<d, WrittenIn(ops, d) + i>>
       /\ new[i].type = "share.grant" =>
            /\ Len(new) = 1
            /\ \A j \in DOMAIN ops : ops[j].type \in ShareTypes => ops[j].share # new[i].share
       /\ new[i].type = "share.revoke" =>
            /\ Len(new) = 1
            /\ \A j \in DOMAIN ops :
                 ops[j].type = "share.grant" /\ ops[j].share = new[i].share =>
                   ops[j].n \in has /\ (d \in Gavel \/ ops[j].by = d)
       /\ new[i].type = "bill.upsert" =>
            /\ \A j \in DOMAIN ops : ops[j].type \in BillTypes => ops[j].bill # new[i].bill
            /\ \A k \in DOMAIN new : new[k].type \in BillTypes => k = i
       /\ new[i].type = "bill.stage" =>
            /\ Len(new) = 1
            /\ \A j \in DOMAIN ops :
                 ops[j].type = "bill.upsert" /\ ops[j].bill = new[i].bill =>
                   \E k \in DOMAIN ops : j <= k /\ ops[k].n \in has
            /\ \A j : IsLast(j, MovesSeen(ops, new[i].bill, has)) =>
                 Rank(ops[j].stage) < Rank(new[i].stage)

\* The place is behind everything the device knows.
Behind(ops, has, at) == \A i \in DOMAIN ops : ops[i].n \in has => i <= at

-----------------------------------------------------------------------------
(* What stays true of the ops *)

\* A device puts new ops into the chamber.
Puts(ops, has, d, new, at) ==
  /\ Chronicle(ops) /\ Suits(ops, has, d, new) /\ has \subseteq Ids(ops)
  /\ at \in 0 .. Len(ops) /\ Behind(ops, has, at)

\* Every op of the longer chamber is an old one that moved or a new one.
LEMMA WhereFrom ==
  ASSUME NEW ops, NEW has, NEW d, NEW new, NEW at, Puts(ops, has, d, new, at),
         NEW k \in DOMAIN Inserted(ops, at, new)
  PROVE  \/ \E i \in DOMAIN ops : k = Moved(i, at, new) /\ Inserted(ops, at, new)[k] = ops[i]
         \/ \E i \in DOMAIN new : k = at + i /\ Inserted(ops, at, new)[k] = new[i]
BY Insertion DEF Puts, Chronicle, Suits, Orderly

\* And all of those are in it.
LEMMA WhereTo ==
  ASSUME NEW ops, NEW has, NEW d, NEW new, NEW at, Puts(ops, has, d, new, at)
  PROVE  LET all == Inserted(ops, at, new)
         IN  /\ Orderly(all) /\ Len(all) = Len(ops) + Len(new)
             /\ \A i \in DOMAIN ops : Moved(i, at, new) \in DOMAIN all
                                        /\ all[Moved(i, at, new)] = ops[i]
             /\ \A i \in DOMAIN new : at + i \in DOMAIN all /\ all[at + i] = new[i]
             /\ \A i, j \in DOMAIN ops :
                  (i < j <=> Moved(i, at, new) < Moved(j, at, new))
                    /\ (i = j <=> Moved(i, at, new) = Moved(j, at, new))
             /\ \A i \in DOMAIN ops, k \in DOMAIN new :
                  IF i <= at THEN Moved(i, at, new) < at + k ELSE at + k < Moved(i, at, new)
<1> DEFINE all == Inserted(ops, at, new)
<1>1. Orderly(ops) /\ Orderly(new) /\ at \in 0 .. Len(ops)
  BY DEF Puts, Chronicle, Suits, Orderly
<1>2. /\ Orderly(all) /\ Len(all) = Len(ops) + Len(new)
      /\ \A i \in DOMAIN ops : Moved(i, at, new) \in DOMAIN all
                                 /\ all[Moved(i, at, new)] = ops[i]
      /\ \A i \in DOMAIN new : at + i \in DOMAIN all /\ all[at + i] = new[i]
  <2>1. Orderly(all) /\ Len(all) = Len(ops) + Len(new)
    BY <1>1, Insertion
  <2>2. \A i \in DOMAIN ops : Moved(i, at, new) \in DOMAIN all
                              /\ all[Moved(i, at, new)] = ops[i]
    BY <1>1, Insertion
  <2>3. \A i \in DOMAIN new : at + i \in DOMAIN all /\ all[at + i] = new[i]
    BY <1>1, Insertion
  <2> HIDE DEF all
  <2> QED
    BY <2>1, <2>2, <2>3
<1>3. \A i, j \in DOMAIN ops :
        (i < j <=> Moved(i, at, new) < Moved(j, at, new))
          /\ (i = j <=> Moved(i, at, new) = Moved(j, at, new))
  BY <1>1, MovedInOrder
<1>4. \A i \in DOMAIN ops, k \in DOMAIN new :
        IF i <= at THEN Moved(i, at, new) < at + k ELSE at + k < Moved(i, at, new)
  BY <1>1, MovedInOrder
<1> HIDE DEF all
<1> QED
  BY <1>2, <1>3, <1>4 DEF all

\* The ops stay such as pages write.
LEMMA KeepsChronicle ==
  ASSUME NEW ops, NEW has, NEW d, NEW new, NEW at, Puts(ops, has, d, new, at)
  PROVE  Chronicle(Inserted(ops, at, new))
<1> DEFINE all == Inserted(ops, at, new)
<1>1. Len(all) \in Nat /\ DOMAIN all = 1 .. Len(all)
  BY WhereTo DEF Orderly
<1>2. ASSUME NEW k \in DOMAIN all PROVE Fit(all[k])
  <2>1. \A i \in DOMAIN ops : Fit(ops[i])
    BY DEF Puts, Chronicle
  <2>2. \A i \in DOMAIN new : Fit(new[i])
    BY DEF Puts, Suits
  <2>3. \/ \E i \in DOMAIN ops : all[k] = ops[i]
        \/ \E i \in DOMAIN new : all[k] = new[i]
    BY WhereFrom
  <2> QED
    BY <2>1, <2>2, <2>3
<1> QED
  BY <1>1, <1>2 DEF Chronicle

\* Grants stay ahead of revocations.
LEMMA KeepsGranted ==
  ASSUME NEW ops, NEW has, NEW d, NEW new, NEW at, Puts(ops, has, d, new, at), Granted(ops)
  PROVE  Granted(Inserted(ops, at, new))
<1> DEFINE all == Inserted(ops, at, new)
<1> SUFFICES ASSUME NEW i \in DOMAIN all, NEW j \in DOMAIN all,
                    all[i].type = "share.grant", all[j].type = "share.revoke",
                    all[i].share = all[j].share
             PROVE  i < j /\ (all[j].by \in Gavel \/ all[j].by = all[i].by)
  BY DEF Granted
<1> HIDE DEF all
<1>1. \/ \E p \in DOMAIN ops : i = Moved(p, at, new) /\ all[i] = ops[p]
      \/ \E p \in DOMAIN new : i = at + p /\ all[i] = new[p]
  BY WhereFrom DEF all
<1>2. \/ \E p \in DOMAIN ops : j = Moved(p, at, new) /\ all[j] = ops[p]
      \/ \E p \in DOMAIN new : j = at + p /\ all[j] = new[p]
  BY WhereFrom DEF all
<1>3. ASSUME NEW p \in DOMAIN ops, i = Moved(p, at, new), all[i] = ops[p]
      PROVE  i < j /\ (all[j].by \in Gavel \/ all[j].by = all[i].by)
  <2>1. ASSUME NEW q \in DOMAIN ops, j = Moved(q, at, new), all[j] = ops[q]
        PROVE  i < j /\ (all[j].by \in Gavel \/ all[j].by = all[i].by)
    <3>1. p < q /\ (ops[q].by \in Gavel \/ ops[q].by = ops[p].by)
      BY <1>3, <2>1 DEF Granted
    <3> QED
      BY <1>3, <2>1, <3>1, WhereTo
  <2>2. ASSUME NEW q \in DOMAIN new, j = at + q, all[j] = new[q]
        PROVE  i < j /\ (all[j].by \in Gavel \/ all[j].by = all[i].by)
    <3>1. ops[p].n \in has /\ (d \in Gavel \/ ops[p].by = d) /\ new[q].by = d
      BY <1>3, <2>2 DEF Puts, Suits
    <3>2. p <= at
      BY <3>1 DEF Puts, Behind
    <3> QED
      BY <1>3, <2>2, <3>1, <3>2, WhereTo
  <2> QED
    BY <1>2, <2>1, <2>2
<1>4. ASSUME NEW p \in DOMAIN new, i = at + p, all[i] = new[p]
      PROVE  FALSE
  <2>1. /\ Len(new) = 1
        /\ \A q \in DOMAIN ops : ops[q].type \in ShareTypes => ops[q].share # new[p].share
    BY <1>4 DEF Puts, Suits
  <2>2. \A q \in DOMAIN new : q = p
    BY <2>1 DEF Puts, Suits, Orderly
  <2> QED
    BY <1>2, <1>4, <2>1, <2>2 DEF ShareTypes
<1> QED
  BY <1>1, <1>3, <1>4

\* No share is granted twice.
LEMMA KeepsGrantedOnce ==
  ASSUME NEW ops, NEW has, NEW d, NEW new, NEW at, Puts(ops, has, d, new, at),
         GrantedOnce(ops)
  PROVE  GrantedOnce(Inserted(ops, at, new))
<1> DEFINE all == Inserted(ops, at, new)
<1> SUFFICES ASSUME NEW i \in DOMAIN all, NEW j \in DOMAIN all,
                    all[i].type = "share.grant", all[j].type = "share.grant",
                    all[i].share = all[j].share
             PROVE  i = j
  BY DEF GrantedOnce
<1> HIDE DEF all
<1>1. \/ \E p \in DOMAIN ops : i = Moved(p, at, new) /\ all[i] = ops[p]
      \/ \E p \in DOMAIN new : i = at + p /\ all[i] = new[p]
  BY WhereFrom DEF all
<1>2. \/ \E p \in DOMAIN ops : j = Moved(p, at, new) /\ all[j] = ops[p]
      \/ \E p \in DOMAIN new : j = at + p /\ all[j] = new[p]
  BY WhereFrom DEF all
<1>3. ASSUME NEW p \in DOMAIN new, new[p].type = "share.grant"
      PROVE  /\ \A q \in DOMAIN ops : ops[q].type = "share.grant" => ops[q].share # new[p].share
             /\ \A q \in DOMAIN new : q = p
  <2>1. /\ Len(new) = 1
        /\ \A q \in DOMAIN ops : ops[q].type \in ShareTypes => ops[q].share # new[p].share
    BY <1>3 DEF Puts, Suits
  <2> QED
    BY <2>1 DEF Puts, Suits, Orderly, ShareTypes
<1> QED
  BY <1>1, <1>2, <1>3 DEF GrantedOnce

\* Bills stay submitted once, and first.
LEMMA KeepsSubmitted ==
  ASSUME NEW ops, NEW has, NEW d, NEW new, NEW at, Puts(ops, has, d, new, at), Submitted(ops)
  PROVE  Submitted(Inserted(ops, at, new))
<1> DEFINE all == Inserted(ops, at, new)
<1> SUFFICES ASSUME NEW i \in DOMAIN all, NEW j \in DOMAIN all,
                    all[i].type = "bill.upsert", all[j].type \in BillTypes,
                    all[i].bill = all[j].bill
             PROVE  i <= j
  BY DEF Submitted
<1> HIDE DEF all
<1>0. i \in Nat /\ j \in Nat
  BY WhereTo DEF all, Orderly
<1>1. \/ \E p \in DOMAIN ops : i = Moved(p, at, new) /\ all[i] = ops[p]
      \/ \E p \in DOMAIN new : i = at + p /\ all[i] = new[p]
  BY WhereFrom DEF all
<1>2. \/ \E p \in DOMAIN ops : j = Moved(p, at, new) /\ all[j] = ops[p]
      \/ \E p \in DOMAIN new : j = at + p /\ all[j] = new[p]
  BY WhereFrom DEF all
<1>3. ASSUME NEW p \in DOMAIN ops, i = Moved(p, at, new), all[i] = ops[p]
      PROVE  i <= j
  <2>1. ASSUME NEW q \in DOMAIN ops, j = Moved(q, at, new), all[j] = ops[q]
        PROVE  i <= j
    <3>1. p <= q
      BY <1>3, <2>1 DEF Submitted
    <3>2. p \in Nat /\ q \in Nat
      BY DEF Puts, Chronicle
    <3>3. p < q \/ p = q
      BY <3>1, <3>2
    <3> QED
      BY <1>0, <1>3, <2>1, <3>3, WhereTo
  <2>2. ASSUME NEW q \in DOMAIN new, j = at + q, all[j] = new[q]
        PROVE  i <= j
    <3>1. Fit(ops[p]) /\ Fit(new[q])
      BY DEF Puts, Chronicle, Suits
    <3>2. ops[p].bill \notin Demo
      BY <1>3, <3>1, Types DEF Fit
    <3>3. new[q].type = "bill.stage"
      <4>1. new[q].type # "bill.retract"
        BY <1>3, <2>2, <3>1, <3>2, Types DEF Fit
      <4>2. new[q].type # "bill.upsert"
        BY <1>3, <2>2 DEF Puts, Suits, BillTypes
      <4> QED
        BY <2>2, <4>1, <4>2 DEF BillTypes
    <3>4. PICK k \in DOMAIN ops : p <= k /\ ops[k].n \in has
      BY <1>3, <2>2, <3>3 DEF Puts, Suits
    <3>5. p <= at
      BY <3>4 DEF Puts, Behind, Chronicle
    <3> QED
      BY <1>0, <1>3, <2>2, <3>5, WhereTo
  <2> QED
    BY <1>2, <2>1, <2>2
<1>4. ASSUME NEW p \in DOMAIN new, i = at + p, all[i] = new[p]
      PROVE  i <= j
  <2>1. /\ \A q \in DOMAIN ops : ops[q].type \in BillTypes => ops[q].bill # new[p].bill
        /\ \A q \in DOMAIN new : new[q].type \in BillTypes => q = p
    BY <1>4 DEF Puts, Suits
  <2> QED
    BY <1>0, <1>2, <1>4, <2>1
<1> QED
  BY <1>1, <1>3, <1>4

\* How many ops a device wrote is a number.
LEMMA WrittenCounts ==
  ASSUME NEW ops, Orderly(ops), NEW e
  PROVE  WrittenIn(ops, e) \in Nat /\ IsFiniteSet({i \in DOMAIN ops : ops[i].by = e})
<1>1. IsFiniteSet(1 .. Len(ops))
  BY FS_Interval DEF Orderly
<1>2. {i \in DOMAIN ops : ops[i].by = e} \in SUBSET (1 .. Len(ops))
  BY DEF Orderly
<1> QED
  BY <1>1, <1>2, FS_Subset, FS_CardinalityType DEF WrittenIn

\* An author's numbers grow by the ops it adds.
LEMMA WrittenGrows ==
  ASSUME NEW ops, NEW has, NEW d, NEW new, NEW at, Puts(ops, has, d, new, at), NEW e
  PROVE  WrittenIn(Inserted(ops, at, new), e) >=
           IF e = d THEN WrittenIn(ops, e) + Len(new) ELSE WrittenIn(ops, e)
<1> DEFINE all == Inserted(ops, at, new)
           A == {i \in DOMAIN ops : ops[i].by = e}
           C == {k \in DOMAIN all : all[k].by = e}
           I == IF e = d THEN at + 1 .. at + Len(new) ELSE {}
           f == [i \in A |-> Moved(i, at, new)]
<1>1. /\ Orderly(ops) /\ Orderly(all) /\ at \in Nat /\ Len(new) \in Nat
      /\ WrittenIn(ops, e) \in Nat /\ IsFiniteSet(A) /\ IsFiniteSet(C)
      /\ Cardinality(C) \in Nat
  <2>1. Orderly(ops) /\ Orderly(all) /\ at \in Nat /\ Len(new) \in Nat
    BY WhereTo DEF Puts, Chronicle, Suits, Orderly
  <2>2. WrittenIn(ops, e) \in Nat /\ IsFiniteSet(A)
    BY <2>1, WrittenCounts
  <2>3. WrittenIn(all, e) \in Nat /\ IsFiniteSet(C)
    BY <2>1, WrittenCounts
  <2> QED
    BY <2>1, <2>2, <2>3 DEF WrittenIn
<1>2. IsFiniteSet(I) /\ Cardinality(I) = IF e = d THEN Len(new) ELSE 0
  <2> DEFINE lo == at + 1
             hi == at + Len(new)
  <2>1. lo \in Int /\ hi \in Int
    BY <1>1
  <2>2. IsFiniteSet(lo .. hi) /\ Cardinality(lo .. hi) = IF lo > hi THEN 0 ELSE hi - lo + 1
    <3> HIDE DEF lo, hi
    <3> QED
      BY <2>1, FS_Interval
  <2>3. (IF lo > hi THEN 0 ELSE hi - lo + 1) = Len(new)
    BY <1>1
  <2> QED
    BY <2>2, <2>3, FS_EmptySet
<1>3. I \subseteq C
  <2> SUFFICES ASSUME e = d, NEW k \in at + 1 .. at + Len(new) PROVE k \in C
    OBVIOUS
  <2> DEFINE j == k - at
  <2>1. j \in DOMAIN new /\ k = at + j
    BY <1>1 DEF Puts, Suits, Orderly
  <2>2. k \in DOMAIN all /\ all[k] = new[j]
    <3> HIDE DEF all
    <3> QED
      BY <2>1, WhereTo DEF all
  <2>3. new[j].by = d
    BY <2>1 DEF Puts, Suits
  <2> QED
    BY <2>2, <2>3
<1>4. f \in [A -> C \ I]
  <2> SUFFICES ASSUME NEW i \in A PROVE Moved(i, at, new) \in C \ I
    OBVIOUS
  <2>1. Moved(i, at, new) \in DOMAIN all /\ all[Moved(i, at, new)] = ops[i]
    BY WhereTo
  <2>2. ASSUME Moved(i, at, new) \in at + 1 .. at + Len(new) PROVE FALSE
    <3>1. i \in Nat
      BY <1>1 DEF Orderly
    <3> QED
      BY <1>1, <2>2, <3>1 DEF Moved
  <2> QED
    BY <2>1, <2>2
<1>5. \A i, j \in A : f[i] = f[j] => i = j
  BY WhereTo
<1>6. /\ IsFiniteSet(C \ I) /\ Cardinality(C \ I) = Cardinality(C) - Cardinality(I)
      /\ Cardinality(C \ I) \in Nat
  <2>1. C \cap I = I
    BY <1>3
  <2> HIDE DEF C, I
  <2> QED
    BY <1>1, <1>2, <2>1, FS_Difference, FS_CardinalityType
<1>7. Cardinality(A) <= Cardinality(C \ I)
  <2> SUFFICES ASSUME Cardinality(C \ I) < Cardinality(A) PROVE FALSE
    BY <1>1, <1>6 DEF WrittenIn
  <2> HIDE DEF A, C, I, f
  <2>1. PICK i, j \in A : i # j /\ f[i] = f[j]
    BY <1>1, <1>4, <1>6, FS_PigeonHole
  <2> QED
    BY <1>5, <2>1
<1>8. WrittenIn(ops, e) = Cardinality(A) /\ WrittenIn(all, e) = Cardinality(C)
  BY DEF WrittenIn
<1> HIDE DEF A, C, I, all
<1> QED
  BY <1>1, <1>2, <1>6, <1>7, <1>8 DEF all

\* Numbers stay within the count.
LEMMA KeepsNumbered ==
  ASSUME NEW ops, NEW has, NEW d, NEW new, NEW at, Puts(ops, has, d, new, at), Numbered(ops)
  PROVE  Numbered(Inserted(ops, at, new))
<1> DEFINE all == Inserted(ops, at, new)
<1> SUFFICES ASSUME NEW k \in DOMAIN all
             PROVE  \E x \in 1 .. WrittenIn(all, all[k].by) : all[k].n = <<all[k].by, x>>
  BY DEF Numbered
<1>0. Orderly(ops) /\ Orderly(all) /\ Orderly(new)
  BY WhereTo DEF Puts, Chronicle, Suits, Orderly
<1> HIDE DEF all
<1>1. \A e : WrittenIn(all, e) >=
                IF e = d THEN WrittenIn(ops, e) + Len(new) ELSE WrittenIn(ops, e)
  BY WrittenGrows DEF all
<1>2. \A e : WrittenIn(all, e) \in Nat /\ WrittenIn(ops, e) \in Nat
  BY <1>0, WrittenCounts
<1>3. Len(new) \in Nat
  BY <1>0 DEF Orderly
<1>4. \/ \E i \in DOMAIN ops : all[k] = ops[i]
      \/ \E i \in DOMAIN new : all[k] = new[i]
  BY WhereFrom DEF all
<1>5. ASSUME NEW i \in DOMAIN ops, all[k] = ops[i]
      PROVE  \E x \in 1 .. WrittenIn(all, all[k].by) : all[k].n = <<all[k].by, x>>
  <2>1. PICK x \in 1 .. WrittenIn(ops, ops[i].by) : ops[i].n = <<ops[i].by, x>>
    BY DEF Numbered
  <2>2. x \in 1 .. WrittenIn(all, ops[i].by)
    BY <1>1, <1>2, <1>3
  <2> QED
    BY <1>5, <2>1, <2>2
<1>6. ASSUME NEW i \in DOMAIN new, all[k] = new[i]
      PROVE  \E x \in 1 .. WrittenIn(all, all[k].by) : all[k].n = <<all[k].by, x>>
  <2>1. new[i].by = d /\ new[i].n = <<d, WrittenIn(ops, d) + i>>
    BY DEF Puts, Suits
  <2>2. WrittenIn(ops, d) + i \in 1 .. WrittenIn(all, d)
    BY <1>0, <1>1, <1>2, <1>3 DEF Orderly
  <2> QED
    BY <1>6, <2>1, <2>2
<1> QED
  BY <1>4, <1>5, <1>6

\* No op carries the number of a new one.
LEMMA NewNumbers ==
  ASSUME NEW ops, NEW has, NEW d, NEW new, NEW at, Puts(ops, has, d, new, at), Numbered(ops),
         NEW i \in DOMAIN new
  PROVE  new[i].n \notin Ids(ops)
<1> SUFFICES ASSUME NEW j \in DOMAIN ops, ops[j].n = new[i].n PROVE FALSE
  BY DEF Ids
<1>1. new[i].n = <<d, WrittenIn(ops, d) + i>> /\ i \in Nat /\ i > 0
  BY DEF Puts, Suits, Orderly
<1>2. PICK x \in 1 .. WrittenIn(ops, ops[j].by) : ops[j].n = <<ops[j].by, x>>
  BY DEF Numbered
<1>3. ops[j].by = d /\ x = WrittenIn(ops, d) + i
  BY <1>1, <1>2
<1>4. WrittenIn(ops, d) \in Nat
  BY WrittenCounts DEF Puts, Chronicle, Orderly
<1> QED
  BY <1>1, <1>2, <1>3, <1>4

\* Every op stays behind what its author knew.
LEMMA KeepsAware ==
  ASSUME NEW ops, NEW has, NEW d, NEW new, NEW at, Puts(ops, has, d, new, at),
         Numbered(ops), Aware(ops)
  PROVE  Aware(Inserted(ops, at, new))
<1> DEFINE all == Inserted(ops, at, new)
<1> SUFFICES ASSUME NEW i \in DOMAIN all
             PROVE  /\ all[i].saw \subseteq Ids(all)
                    /\ \A j \in DOMAIN all : all[j].n \in all[i].saw => j < i
  BY DEF Aware
<1> HIDE DEF all
<1>1. \/ \E p \in DOMAIN ops : i = Moved(p, at, new) /\ all[i] = ops[p]
      \/ \E p \in DOMAIN new : i = at + p /\ all[i] = new[p]
  BY WhereFrom DEF all
<1>2. Ids(ops) \subseteq Ids(all)
  BY WhereTo DEF all, Ids
<1>3. all[i].saw \subseteq Ids(ops)
  BY <1>1 DEF Aware, Puts, Suits
<1>4. ASSUME NEW j \in DOMAIN all, all[j].n \in all[i].saw PROVE j < i
  <2>1. \/ \E q \in DOMAIN ops : j = Moved(q, at, new) /\ all[j] = ops[q]
        \/ \E q \in DOMAIN new : j = at + q /\ all[j] = new[q]
    BY WhereFrom DEF all
  <2>2. \A q \in DOMAIN new : all[j] # new[q]
    BY <1>3, <1>4, NewNumbers
  <2>3. PICK q \in DOMAIN ops : j = Moved(q, at, new) /\ all[j] = ops[q]
    BY <2>1, <2>2
  <2>4. ASSUME NEW p \in DOMAIN ops, i = Moved(p, at, new), all[i] = ops[p] PROVE j < i
    <3>1. q < p
      BY <1>4, <2>3, <2>4 DEF Aware
    <3> QED
      BY <2>3, <2>4, <3>1, WhereTo
  <2>5. ASSUME NEW p \in DOMAIN new, i = at + p, all[i] = new[p] PROVE j < i
    <3>1. ops[q].n \in has
      BY <1>4, <2>3, <2>5 DEF Puts, Suits
    <3>2. q <= at
      BY <3>1 DEF Puts, Behind
    <3> QED
      BY <2>3, <2>5, <3>2, WhereTo
  <2> QED
    BY <1>1, <2>4, <2>5
<1> QED
  BY <1>2, <1>3, <1>4

\* Every move stays one on from the last its author knew of.
LEMMA KeepsStepped ==
  ASSUME NEW ops, NEW has, NEW d, NEW new, NEW at, Puts(ops, has, d, new, at),
         Numbered(ops), Aware(ops), Stepped(ops)
  PROVE  Stepped(Inserted(ops, at, new))
<1> DEFINE all == Inserted(ops, at, new)
<1> SUFFICES ASSUME NEW b \in Bill, NEW j \in Moves(all, b), NEW i,
                    IsLast(i, MovesSeen(all, b, all[j].saw))
             PROVE  Rank(all[i].stage) < Rank(all[j].stage)
  BY DEF Stepped
<1>0. Orderly(ops) /\ Orderly(all)
  BY WhereTo DEF Puts, Chronicle, Orderly
<1> HIDE DEF all
<1>1. /\ j \in DOMAIN all /\ all[j].type = "bill.stage" /\ all[j].bill = b
      /\ i \in DOMAIN all /\ all[i].type = "bill.stage" /\ all[i].bill = b
      /\ all[i].n \in all[j].saw
  BY DEF Moves, MovesSeen, IsLast
<1>2. all[j].saw \subseteq Ids(ops)
  <2>1. \/ \E p \in DOMAIN ops : all[j] = ops[p]
        \/ \E p \in DOMAIN new : all[j] = new[p]
    BY <1>1, WhereFrom DEF all
  <2> QED
    BY <2>1 DEF Aware, Puts, Suits
<1>3. PICK q \in DOMAIN ops : i = Moved(q, at, new) /\ all[i] = ops[q]
  <2>1. \/ \E q \in DOMAIN ops : i = Moved(q, at, new) /\ all[i] = ops[q]
        \/ \E q \in DOMAIN new : all[i] = new[q]
    BY <1>1, WhereFrom DEF all
  <2>2. \A q \in DOMAIN new : all[i] # new[q]
    BY <1>1, <1>2, NewNumbers
  <2> QED
    BY <2>1, <2>2
<1>4. IsLast(q, MovesSeen(ops, b, all[j].saw))
  <2>1. q \in MovesSeen(ops, b, all[j].saw)
    BY <1>1, <1>3 DEF Moves, MovesSeen
  <2>2. ASSUME NEW r \in MovesSeen(ops, b, all[j].saw) PROVE r <= q
    <3>1. /\ r \in DOMAIN ops /\ ops[r].type = "bill.stage" /\ ops[r].bill = b
          /\ ops[r].n \in all[j].saw
      BY <2>2 DEF Moves, MovesSeen
    <3>2. Moved(r, at, new) \in DOMAIN all /\ all[Moved(r, at, new)] = ops[r]
      BY <3>1, WhereTo DEF all
    <3>3. Moved(r, at, new) \in MovesSeen(all, b, all[j].saw)
      BY <3>1, <3>2 DEF Moves, MovesSeen
    <3>4. Moved(r, at, new) <= Moved(q, at, new)
      BY <1>3, <3>3 DEF IsLast
    <3>5. ~(q < r)
      <4>1. q < r => Moved(q, at, new) < Moved(r, at, new)
        BY <1>3, <3>1, WhereTo
      <4>2. Moved(r, at, new) \in Nat /\ Moved(q, at, new) \in Nat
        BY <1>0, <1>1, <1>3, <3>2 DEF Orderly
      <4> QED
        BY <3>4, <4>1, <4>2
    <3> QED
      BY <1>0, <1>3, <3>1, <3>5 DEF Orderly
  <2> QED
    BY <2>1, <2>2 DEF IsLast
<1>5. ASSUME NEW p \in DOMAIN ops, all[j] = ops[p]
      PROVE  Rank(all[i].stage) < Rank(all[j].stage)
  <2>1. p \in Moves(ops, b)
    BY <1>1, <1>5 DEF Moves
  <2> QED
    BY <1>3, <1>4, <1>5, <2>1 DEF Stepped
<1>6. ASSUME NEW p \in DOMAIN new, all[j] = new[p]
      PROVE  Rank(all[i].stage) < Rank(all[j].stage)
  <2>1. all[j].saw = has
    BY <1>6 DEF Puts, Suits
  <2>2. IsLast(q, MovesSeen(ops, new[p].bill, has))
    BY <1>1, <1>4, <1>6, <2>1
  <2>3. Rank(ops[q].stage) < Rank(new[p].stage)
    BY <1>1, <1>6, <2>2 DEF Puts, Suits
  <2> QED
    BY <1>3, <1>6, <2>3
<1>7. \/ \E p \in DOMAIN ops : all[j] = ops[p]
      \/ \E p \in DOMAIN new : all[j] = new[p]
  BY <1>1, WhereFrom DEF all
<1> QED
  BY <1>5, <1>6, <1>7

\* And its author stays aware of its own moves.
LEMMA KeepsOwnMovesSeen ==
  ASSUME NEW ops, NEW has, NEW d, NEW new, NEW at, Puts(ops, has, d, new, at),
         OwnMovesSeen(ops), \A i \in DOMAIN ops : ops[i].by = d => ops[i].n \in has
  PROVE  OwnMovesSeen(Inserted(ops, at, new))
<1> DEFINE all == Inserted(ops, at, new)
<1> SUFFICES ASSUME NEW b \in Bill, NEW i \in Moves(all, b), NEW j \in Moves(all, b),
                    all[i].by = all[j].by, i < j
             PROVE  all[i].n \in all[j].saw
  BY DEF OwnMovesSeen
<1>0. Orderly(ops) /\ Orderly(all)
  BY WhereTo DEF Puts, Chronicle, Orderly
<1> HIDE DEF all
<1>1. /\ j \in DOMAIN all /\ all[j].type = "bill.stage" /\ all[j].bill = b
      /\ i \in DOMAIN all /\ all[i].type = "bill.stage" /\ all[i].bill = b
      /\ i \in Nat /\ j \in Nat
  BY <1>0 DEF Moves, Orderly
<1>2. \/ \E p \in DOMAIN ops : i = Moved(p, at, new) /\ all[i] = ops[p]
      \/ \E p \in DOMAIN new : i = at + p /\ all[i] = new[p]
  BY <1>1, WhereFrom DEF all
<1>3. \/ \E q \in DOMAIN ops : j = Moved(q, at, new) /\ all[j] = ops[q]
      \/ \E q \in DOMAIN new : j = at + q /\ all[j] = new[q]
  BY <1>1, WhereFrom DEF all
<1>4. ASSUME NEW p \in DOMAIN ops, i = Moved(p, at, new), all[i] = ops[p],
             NEW q \in DOMAIN ops, j = Moved(q, at, new), all[j] = ops[q]
      PROVE  all[i].n \in all[j].saw
  <2>1. p < q
    BY <1>4, WhereTo
  <2>2. p \in Moves(ops, b) /\ q \in Moves(ops, b)
    BY <1>1, <1>4 DEF Moves
  <2> QED
    BY <1>4, <2>1, <2>2 DEF OwnMovesSeen
<1>5. ASSUME NEW p \in DOMAIN ops, all[i] = ops[p], NEW q \in DOMAIN new, all[j] = new[q]
      PROVE  all[i].n \in all[j].saw
  BY <1>5 DEF Puts, Suits
<1>6. ASSUME NEW p \in DOMAIN new, i = at + p, all[i] = new[p],
             NEW q \in DOMAIN ops, j = Moved(q, at, new), all[j] = ops[q]
      PROVE  FALSE
  <2>1. ops[q].n \in has
    BY <1>6 DEF Puts, Suits
  <2>2. q <= at
    BY <2>1 DEF Puts, Behind
  <2>3. j < i
    BY <1>6, <2>2, WhereTo
  <2> QED
    BY <1>1, <2>3
<1>7. ASSUME NEW p \in DOMAIN new, i = at + p, all[i] = new[p],
             NEW q \in DOMAIN new, j = at + q
      PROVE  FALSE
  <2>1. Len(new) = 1
    BY <1>1, <1>7 DEF Puts, Suits
  <2>2. p = q
    BY <2>1 DEF Puts, Suits, Orderly
  <2> QED
    BY <1>1, <1>7, <2>2
<1> QED
  BY <1>2, <1>3, <1>4, <1>5, <1>6, <1>7

-----------------------------------------------------------------------------
(* The invariant of the floor *)

\* Every device has its own ops, and knows none that was not written.
Informed ==
  /\ known \in [Device -> SUBSET Ids(chamber)]
  /\ \A i \in DOMAIN chamber : chamber[i].n \in known[chamber[i].by]

\* A device sits at its own seat or at none.
SeatsHeld ==
  /\ seat \in [Device -> Member \cup {NoSeat}]
  /\ \A d \in Device : seat[d] \in {SeatOf[d], NoSeat}

\* The inductive invariant: what the fold needs, and what keeps that true.
ChamberHolds ==
  /\ Recorded
  /\ SharesRecorded /\ GrantedOnce(chamber)
  /\ BillsRecorded
  /\ Numbered(chamber) /\ Aware(chamber)
  /\ Stepped(chamber) /\ OwnMovesSeen(chamber)
  /\ Informed

FloorInv == ChamberHolds /\ SeatsHeld

\* The ops as store.dispatch writes them.
Stamping(d, n, saw) == [n |-> n, by |-> d, saw |-> saw]
Stamped(d, patches) ==
  [i \in DOMAIN patches |-> Merged(patches[i], Stamping(d, <<d, Written(d) + i>>, known[d]))]

\* As many ops are written as there were patches.
LEMMA StampedOrderly ==
  ASSUME NEW patches, Orderly(patches), NEW d
  PROVE  Orderly(Stamped(d, patches)) /\ Len(Stamped(d, patches)) = Len(patches)
<1> DEFINE new == Stamped(d, patches)
           S == {new[i] : i \in 1 .. Len(patches)}
<1>1. Len(patches) \in Nat /\ DOMAIN new = 1 .. Len(patches)
  BY DEF Stamped, Orderly
<1>2. new \in [1 .. Len(patches) -> S]
  BY <1>1 DEF Stamped
<1> HIDE DEF new, S
<1>3. new \in Seq(S)
  BY <1>1, <1>2
<1>4. Len(new) \in Nat /\ DOMAIN new = 1 .. Len(new)
  BY <1>3
<1>5. Len(new) = Len(patches)
  BY <1>1, <1>4
<1> QED
  BY <1>4, <1>5 DEF Orderly, new

\* Ops carry their author, their number and what the author knew.
LEMMA StampedBy ==
  ASSUME NEW p, NEW d, NEW n, NEW saw, NEW op, op = Merged(p, Stamping(d, n, saw))
  PROVE  op.by = d /\ op.n = n /\ op.saw = saw
BY DEF Merged, Stamping

\* Nothing that was written is lost, and no device forgets.
Grown ==
  /\ \A i \in DOMAIN chamber : \E j \in DOMAIN chamber' : chamber'[j] = chamber[i]
  /\ \A d \in Device : known[d] \subseteq known'[d]

\* The chamber after a device wrote to it.
LEMMA DispatchPuts ==
  ASSUME ChamberHolds, NEW d \in Device, NEW patches, Dispatch(d, patches),
         Suits(chamber, known[d], d, Stamped(d, patches))
  PROVE  ChamberHolds' /\ Grown
<1> DEFINE new == Stamped(d, patches)
<1>1. PICK at \in 0 .. Len(chamber) :
         /\ \A i \in at + 1 .. Len(chamber) : chamber[i].n \notin known[d]
         /\ chamber' = Inserted(chamber, at, new)
  BY DEF Dispatch, Stamped, Stamping
<1>2. known' = [known EXCEPT ![d] = @ \cup {new[i].n : i \in DOMAIN new}]
  BY DEF Dispatch, Stamped, Stamping
<1>3. Puts(chamber, known[d], d, new, at)
  <2>1. Chronicle(chamber) /\ known[d] \subseteq Ids(chamber)
    BY DEF ChamberHolds, Recorded, Informed
  <2>2. Behind(chamber, known[d], at)
    BY <1>1, <2>1 DEF Behind, Chronicle
  <2> QED
    BY <1>1, <2>1, <2>2 DEF Puts
<1>4. Recorded'
  BY <1>1, <1>3, KeepsChronicle DEF Recorded
<1>5. SharesRecorded'
  BY <1>1, <1>3, KeepsGranted DEF ChamberHolds, SharesRecorded
<1>6. GrantedOnce(chamber)'
  BY <1>1, <1>3, KeepsGrantedOnce DEF ChamberHolds
<1>7. BillsRecorded'
  BY <1>1, <1>3, KeepsSubmitted DEF ChamberHolds, BillsRecorded
<1>8. Numbered(chamber)'
  BY <1>1, <1>3, KeepsNumbered DEF ChamberHolds
<1>9. Aware(chamber)'
  BY <1>1, <1>3, KeepsAware DEF ChamberHolds
<1>10. Stepped(chamber)'
  BY <1>1, <1>3, KeepsStepped DEF ChamberHolds
<1>11. OwnMovesSeen(chamber)'
  <2>1. \A i \in DOMAIN chamber : chamber[i].by = d => chamber[i].n \in known[d]
    BY DEF ChamberHolds, Informed
  <2> QED
    BY <1>1, <1>3, <2>1, KeepsOwnMovesSeen DEF ChamberHolds
<1>12. Informed'
  <2> HIDE DEF new
  <2>1. Ids(chamber) \subseteq Ids(chamber') /\ {new[i].n : i \in DOMAIN new} \subseteq Ids(chamber')
    BY <1>1, <1>3, WhereTo DEF Ids
  <2>2. known' \in [Device -> SUBSET Ids(chamber')]
    BY <1>2, <2>1 DEF ChamberHolds, Informed
  <2>3. ASSUME NEW k \in DOMAIN chamber' PROVE chamber'[k].n \in known'[chamber'[k].by]
    <3>1. \/ \E i \in DOMAIN chamber : chamber'[k] = chamber[i]
          \/ \E i \in DOMAIN new : chamber'[k] = new[i]
      BY <1>1, <1>3, WhereFrom
    <3>2. ASSUME NEW i \in DOMAIN chamber, chamber'[k] = chamber[i]
          PROVE  chamber'[k].n \in known'[chamber'[k].by]
      <4>1. chamber[i].n \in known[chamber[i].by] /\ chamber[i].by \in Device
        BY Types DEF ChamberHolds, Informed, Recorded, Chronicle, Fit
      <4> QED
        BY <1>2, <3>2, <4>1 DEF ChamberHolds, Informed
    <3>3. ASSUME NEW i \in DOMAIN new, chamber'[k] = new[i]
          PROVE  chamber'[k].n \in known'[chamber'[k].by]
      <4>1. new[i].by = d
        BY <1>3 DEF Puts, Suits
      <4> QED
        BY <1>2, <3>3, <4>1 DEF ChamberHolds, Informed
    <3> QED
      BY <3>1, <3>2, <3>3
  <2> QED
    BY <2>2, <2>3 DEF Informed, Ids
<1>13. Grown
  <2>1. \A i \in DOMAIN chamber : \E j \in DOMAIN chamber' : chamber'[j] = chamber[i]
    BY <1>1, <1>3, WhereTo
  <2>2. \A e \in Device : known[e] \subseteq known'[e]
    BY <1>2 DEF ChamberHolds, Informed
  <2> QED
    BY <2>1, <2>2 DEF Grown
<1> QED
  BY <1>4, <1>5, <1>6, <1>7, <1>8, <1>9, <1>10, <1>11, <1>12, <1>13 DEF ChamberHolds

\* Of most kinds a device may write what it likes.
Plain(op) ==
  Fit(op) /\ op.type \notin {"share.grant", "share.revoke", "bill.upsert", "bill.stage"}

\* Nothing more is asked of those.
LEMMA PlainSuits ==
  ASSUME NEW d, NEW patches, Orderly(patches),
         \A p \in {patches[i] : i \in DOMAIN patches} : \A n :
           Plain(Merged(p, Stamping(d, n, known[d])))
  PROVE  Suits(chamber, known[d], d, Stamped(d, patches))
<1> DEFINE new == Stamped(d, patches)
<1>1. Orderly(new)
  BY StampedOrderly
<1>2. ASSUME NEW i \in DOMAIN new
      PROVE  /\ Plain(new[i]) /\ new[i].by = d /\ new[i].saw = known[d]
             /\ new[i].n = <<d, WrittenIn(chamber, d) + i>>
  <2>1. /\ i \in DOMAIN patches
        /\ new[i] = Merged(patches[i], Stamping(d, <<d, Written(d) + i>>, known[d]))
    BY DEF Stamped
  <2>2. Written(d) = WrittenIn(chamber, d)
    BY DEF Written, WrittenIn
  <2>3. Plain(new[i])
    BY <2>1
  <2>4. new[i].by = d /\ new[i].saw = known[d] /\ new[i].n = <<d, Written(d) + i>>
    BY <2>1, StampedBy
  <2> QED
    BY <2>2, <2>3, <2>4
<1> HIDE DEF new
<1> QED
  BY <1>1, <1>2 DEF Suits, Plain, new

\* A single op.
LEMMA OneStamped ==
  ASSUME NEW p, NEW d
  PROVE  LET op == Merged(p, Stamping(d, <<d, Written(d) + 1>>, known[d]))
             new == Stamped(d, <<p>>)
         IN  /\ Orderly(new) /\ Len(new) = 1 /\ DOMAIN new = {1} /\ new[1] = op
             /\ op.by = d /\ op.saw = known[d] /\ op.n = <<d, WrittenIn(chamber, d) + 1>>
<1>1. Orderly(<<p>>) /\ Len(<<p>>) = 1 /\ DOMAIN <<p>> = {1} /\ <<p>>[1] = p
  BY DEF Orderly
<1>2. Orderly(Stamped(d, <<p>>)) /\ Len(Stamped(d, <<p>>)) = 1
  BY <1>1, StampedOrderly
<1>3. /\ DOMAIN Stamped(d, <<p>>) = {1}
      /\ Stamped(d, <<p>>)[1] = Merged(p, Stamping(d, <<d, Written(d) + 1>>, known[d]))
  BY <1>1 DEF Stamped
<1>4. Written(d) = WrittenIn(chamber, d)
  BY DEF Written, WrittenIn
<1> DEFINE op == Merged(p, Stamping(d, <<d, Written(d) + 1>>, known[d]))
<1>5. op.by = d /\ op.saw = known[d] /\ op.n = <<d, Written(d) + 1>>
  BY StampedBy
<1> HIDE DEF op
<1> QED
  BY <1>2, <1>3, <1>4, <1>5 DEF op

-----------------------------------------------------------------------------
(* What each page writes is fit *)

\* For each kind of op: whoever the page admits may write it.
LEMMA OpensVote ==
  ASSUME NEW d \in Device, NEW n, NEW saw, d \in Gavel, NEW v \in Vote
  PROVE  Plain(Merged([type |-> "vote.open", vote |-> v], Stamping(d, n, saw)))
<1> DEFINE p == [type |-> "vote.open", vote |-> v]
           op == Merged(p, Stamping(d, n, saw))
<1>1. op.by = d /\ op.type = "vote.open" /\ op.vote = v
  BY DEF Merged, Stamping
<1> HIDE DEF op
<1>9. Plain(op)
  BY <1>1, Types DEF Plain, Fit
<1> QED
  BY <1>9 DEF op

LEMMA CastsBallot ==
  ASSUME NEW d \in Device, NEW n, NEW saw, NEW v \in Vote, NEW m \in Member, Speaks(m, d),
         NEW c \in Choice
  PROVE  Plain(Merged([type |-> "ballot.cast", vote |-> v, member |-> m, choice |-> c],
                      Stamping(d, n, saw)))
<1> DEFINE p == [type |-> "ballot.cast", vote |-> v, member |-> m, choice |-> c]
           op == Merged(p, Stamping(d, n, saw))
<1>1. op.by = d /\ op.type = "ballot.cast" /\ op.vote = v /\ op.member = m /\ op.choice = c
  BY DEF Merged, Stamping
<1> HIDE DEF op
<1>9. Plain(op)
  BY <1>1, Types DEF Plain, Fit
<1> QED
  BY <1>9 DEF op

LEMMA ClosesVote ==
  ASSUME NEW d \in Device, NEW n, NEW saw, d \in Gavel, NEW v \in Vote, NEW counts
  PROVE  Plain(Merged([type |-> "vote.close", vote |-> v, final |-> counts,
                       result |-> Verdict(Carries(Threshold[v], counts))], Stamping(d, n, saw)))
<1> DEFINE p == [type |-> "vote.close", vote |-> v, final |-> counts,
                       result |-> Verdict(Carries(Threshold[v], counts))]
           op == Merged(p, Stamping(d, n, saw))
<1>1. /\ op.by = d /\ op.type = "vote.close" /\ op.vote = v
      /\ op.final = counts /\ op.result = Verdict(Carries(Threshold[v], counts))
  BY DEF Merged, Stamping
<1> HIDE DEF op
<1>9. Plain(op)
  BY <1>1, Types DEF Plain, Fit
<1> QED
  BY <1>9 DEF op

LEMMA GivesProxy ==
  ASSUME NEW d \in Device, NEW n, NEW saw, NEW m \in Member, Speaks(m, d), NEW to \in Member
  PROVE  Plain(Merged([type |-> "proxy.delegate", member |-> m, to |-> to], Stamping(d, n, saw)))
<1> DEFINE p == [type |-> "proxy.delegate", member |-> m, to |-> to]
           op == Merged(p, Stamping(d, n, saw))
<1>1. op.by = d /\ op.type = "proxy.delegate" /\ op.member = m /\ op.to = to
  BY DEF Merged, Stamping
<1> HIDE DEF op
<1>9. Plain(op)
  BY <1>1, Types DEF Plain, Fit
<1> QED
  BY <1>9 DEF op

LEMMA TakesProxy ==
  ASSUME NEW d \in Device, NEW n, NEW saw, NEW m \in Member, Speaks(m, d)
  PROVE  Plain(Merged([type |-> "proxy.revoke", member |-> m], Stamping(d, n, saw)))
<1> DEFINE p == [type |-> "proxy.revoke", member |-> m]
           op == Merged(p, Stamping(d, n, saw))
<1>1. op.by = d /\ op.type = "proxy.revoke" /\ op.member = m
  BY DEF Merged, Stamping
<1> HIDE DEF op
<1>9. Plain(op)
  BY <1>1, Types DEF Plain, Fit
<1> QED
  BY <1>9 DEF op

LEMMA SignsOn ==
  ASSUME NEW d \in Device, NEW n, NEW saw, NEW b \in Bill, NEW m,
         NEW type \in {"cosponsor.add", "cosponsor.remove"}
  PROVE  Plain(Merged([type |-> type, bill |-> b, member |-> m], Stamping(d, n, saw)))
<1> DEFINE p == [type |-> type, bill |-> b, member |-> m]
           op == Merged(p, Stamping(d, n, saw))
<1>1. op.by = d /\ op.type = type /\ op.bill = b
  BY DEF Merged, Stamping
<1> HIDE DEF op
<1>9. Plain(op)
  BY <1>1, Types DEF Plain, Fit
<1> QED
  BY <1>9 DEF op

LEMMA PostsPaper ==
  ASSUME NEW d \in Device, NEW n, NEW saw, NEW x \in Paper, NEW owner
  PROVE  Plain(Merged(Post(x, owner), Stamping(d, n, saw)))
<1> DEFINE p == Post(x, owner)
           op == Merged(p, Stamping(d, n, saw))
<1>1. op.by = d /\ op.type = PostTypes[TableOf[x]] /\ op.paper = x
  BY DEF Merged, Stamping, Post
<1> HIDE DEF op
<1>2. op.type \in Range(PostTypes)
  <2>1. DOMAIN PostTypes = Tables /\ TableOf[x] \in Tables
    BY TableAssumption DEF PostTypes, Tables
  <2> QED
    BY <1>1, <2>1 DEF Range
<1>3. op.type \notin {"share.grant", "share.revoke", "bill.upsert", "bill.stage"}
  BY <1>2, Types
<1>9. Plain(op)
  BY <1>1, <1>2, <1>3 DEF Plain, Fit
<1> QED
  BY <1>9 DEF op

LEMMA RetractsPaper ==
  ASSUME NEW d \in Device, NEW n, NEW saw, d \in Gavel, NEW x \in Demo \cap Paper
  PROVE  Plain(Merged(Retract(x), Stamping(d, n, saw)))
<1> DEFINE p == Retract(x)
           op == Merged(p, Stamping(d, n, saw))
<1>1. op.by = d /\ op.type = RetractTypes[TableOf[x]] /\ op.paper = x
  BY DEF Merged, Stamping, Retract
<1> HIDE DEF op
<1>2. op.type \in Range(RetractTypes)
  <2>1. /\ DOMAIN RetractTypes = {"statuses", "amendments", "comments", "news", "docket"}
        /\ TableOf[x] \in Tables \ {"chat", "announcements"}
    BY TableAssumption DEF RetractTypes, Tables
  <2>2. TableOf[x] \in DOMAIN RetractTypes
    BY <2>1 DEF Tables
  <2> QED
    BY <1>1, <2>2 DEF Range
<1>3. op.type \notin {"share.grant", "share.revoke", "bill.upsert", "bill.stage"}
  BY <1>2, Types
<1>9. Plain(op)
  BY <1>1, <1>2, <1>3 DEF Plain, Fit
<1> QED
  BY <1>9 DEF op

LEMMA SpeaksForSeat ==
  ASSUME NEW d \in Device, NEW n, NEW saw, NEW m \in Member, Speaks(m, d), NEW patch,
         DOMAIN patch \subseteq SwitchFields, DOMAIN patch \cap ChairFields = {}
  PROVE  Plain(Merged(Presence(m, patch), Stamping(d, n, saw)))
<1> DEFINE p == Presence(m, patch)
           op == Merged(p, Stamping(d, n, saw))
<1>1. op.by = d /\ op.type = "member.presence" /\ op.member = m /\ op.patch = patch
  BY DEF Merged, Stamping, Presence
<1> HIDE DEF op
<1>9. Plain(op)
  BY <1>1, Types DEF Plain, Fit
<1> QED
  BY <1>9 DEF op

LEMMA SwitchesMember ==
  ASSUME NEW d \in Device, NEW n, NEW saw, d \in Gavel, NEW m \in Member, NEW patch,
         DOMAIN patch \subseteq SwitchFields
  PROVE  Plain(Merged(Presence(m, patch), Stamping(d, n, saw)))
<1> DEFINE p == Presence(m, patch)
           op == Merged(p, Stamping(d, n, saw))
<1>1. op.by = d /\ op.type = "member.presence" /\ op.member = m /\ op.patch = patch
  BY DEF Merged, Stamping, Presence
<1> HIDE DEF op
<1>9. Plain(op)
  BY <1>1, Types DEF Plain, Fit
<1> QED
  BY <1>9 DEF op

LEMMA SwitchesSession ==
  ASSUME NEW d \in Device, NEW n, NEW saw, d \in Gavel, NEW patch, DOMAIN patch \subseteq SessionFields
  PROVE  Plain(Merged(Setting(patch), Stamping(d, n, saw)))
<1> DEFINE p == Setting(patch)
           op == Merged(p, Stamping(d, n, saw))
<1>1. op.by = d /\ op.type = "session.set" /\ op.patch = patch
  BY DEF Merged, Stamping, Setting
<1> HIDE DEF op
<1>9. Plain(op)
  BY <1>1, Types DEF Plain, Fit
<1> QED
  BY <1>9 DEF op

LEMMA AddsMember ==
  ASSUME NEW d \in Device, NEW n, NEW saw, d \in Gavel, NEW m \in Member, NEW chat
  PROVE  Plain(Merged([type |-> "member.upsert", member |-> m, canChat |-> chat, canTalk |-> TRUE],
                      Stamping(d, n, saw)))
<1> DEFINE p == [type |-> "member.upsert", member |-> m, canChat |-> chat, canTalk |-> TRUE]
           op == Merged(p, Stamping(d, n, saw))
<1>1. op.by = d /\ op.type = "member.upsert" /\ op.member = m
  BY DEF Merged, Stamping
<1> HIDE DEF op
<1>9. Plain(op)
  BY <1>1, Types DEF Plain, Fit
<1> QED
  BY <1>9 DEF op

LEMMA TouchesMember ==
  ASSUME NEW d \in Device, NEW n, NEW saw, d \in Gavel, NEW m \in Member,
         NEW type \in {"member.auth", "member.retract"}
  PROVE  Plain(Merged([type |-> type, member |-> m], Stamping(d, n, saw)))
<1> DEFINE p == [type |-> type, member |-> m]
           op == Merged(p, Stamping(d, n, saw))
<1>1. op.by = d /\ op.type = type /\ op.member = m
  BY DEF Merged, Stamping
<1> HIDE DEF op
<1>9. Plain(op)
  BY <1>1, Types DEF Plain, Fit
<1> QED
  BY <1>9 DEF op

LEMMA MeetsDevice ==
  ASSUME NEW d \in Device, NEW n, NEW saw, NEW kid \in Device, NEW patch, DOMAIN patch \subseteq {"revoked"}
  PROVE  Plain(Merged([type |-> "device.seen", kid |-> kid, patch |-> patch], Stamping(d, n, saw)))
<1> DEFINE p == [type |-> "device.seen", kid |-> kid, patch |-> patch]
           op == Merged(p, Stamping(d, n, saw))
<1>1. op.by = d /\ op.type = "device.seen" /\ op.kid = kid /\ op.patch = patch
  BY DEF Merged, Stamping
<1> HIDE DEF op
<1>9. Plain(op)
  BY <1>1, Types DEF Plain, Fit
<1> QED
  BY <1>9 DEF op

LEMMA BarsDevice ==
  ASSUME NEW d \in Device, NEW n, NEW saw, d \in Gavel, NEW kid \in Device
  PROVE  Plain(Merged([type |-> "device.revoke", kid |-> kid], Stamping(d, n, saw)))
<1> DEFINE p == [type |-> "device.revoke", kid |-> kid]
           op == Merged(p, Stamping(d, n, saw))
<1>1. op.by = d /\ op.type = "device.revoke" /\ op.kid = kid
  BY DEF Merged, Stamping
<1> HIDE DEF op
<1>9. Plain(op)
  BY <1>1, Types DEF Plain, Fit
<1> QED
  BY <1>9 DEF op

LEMMA RetractsVote ==
  ASSUME NEW d \in Device, NEW n, NEW saw, d \in Gavel, NEW v \in Vote
  PROVE  Plain(Merged([type |-> "vote.retract", vote |-> v], Stamping(d, n, saw)))
<1> DEFINE p == [type |-> "vote.retract", vote |-> v]
           op == Merged(p, Stamping(d, n, saw))
<1>1. op.by = d /\ op.type = "vote.retract" /\ op.vote = v
  BY DEF Merged, Stamping
<1> HIDE DEF op
<1>9. Plain(op)
  BY <1>1, Types DEF Plain, Fit
<1> QED
  BY <1>9 DEF op

LEMMA RetractsBill ==
  ASSUME NEW d \in Device, NEW n, NEW saw, d \in Gavel, NEW b \in Bill \cap Demo
  PROVE  Plain(Merged([type |-> "bill.retract", bill |-> b], Stamping(d, n, saw)))
<1> DEFINE p == [type |-> "bill.retract", bill |-> b]
           op == Merged(p, Stamping(d, n, saw))
<1>1. op.by = d /\ op.type = "bill.retract" /\ op.bill = b
  BY DEF Merged, Stamping
<1> HIDE DEF op
<1>9. Plain(op)
  BY <1>1, Types DEF Plain, Fit
<1> QED
  BY <1>9 DEF op

-----------------------------------------------------------------------------
(* The steps *)

\* Whoever sits at a seat speaks for it.
LEMMA SeatSpeaks ==
  ASSUME FloorInv, NEW d \in Device, seat[d] # NoSeat
  PROVE  seat[d] \in Member /\ Speaks(seat[d], d)
BY DEF FloorInv, SeatsHeld, Speaks

\* What is left to show when only ops are written.
LEMMA SeatsStay ==
  ASSUME FloorInv, UNCHANGED seat
  PROVE  SeatsHeld'
BY DEF FloorInv, SeatsHeld

LEMMA PlainDispatch ==
  ASSUME FloorInv, NEW d \in Device, NEW patches, Orderly(patches), Dispatch(d, patches),
         \A p \in {patches[i] : i \in DOMAIN patches} : \A n :
           Plain(Merged(p, Stamping(d, n, known[d])))
  PROVE  ChamberHolds' /\ Grown
BY PlainSuits, DispatchPuts DEF FloorInv

LEMMA OnePlain ==
  ASSUME FloorInv, NEW d \in Device, NEW p, Dispatch(d, <<p>>),
         \A n :
           Plain(Merged(p, Stamping(d, n, known[d])))
  PROVE  ChamberHolds' /\ Grown
<1>1. Orderly(<<p>>)
  BY DEF Orderly
<1>2. {<<p>>[i] : i \in DOMAIN <<p>>} = {p}
  OBVIOUS
<1> QED
  BY <1>1, <1>2, PlainDispatch

LEMMA TwoPlain ==
  ASSUME FloorInv, NEW d \in Device, NEW p, NEW q, Dispatch(d, <<p, q>>),
         \A n : Plain(Merged(p, Stamping(d, n, known[d]))),
         \A n : Plain(Merged(q, Stamping(d, n, known[d])))
  PROVE  ChamberHolds' /\ Grown
<1>1. Orderly(<<p, q>>)
  BY DEF Orderly
<1>2. \A x \in {<<p, q>>[i] : i \in DOMAIN <<p, q>>} : x \in {p, q}
  OBVIOUS
<1> QED
  BY <1>1, <1>2, PlainDispatch

LEMMA WritesOne ==
  ASSUME FloorInv, NEW d \in Device, NEW p, Writes(d, <<p>>),
         \A n :
           Plain(Merged(p, Stamping(d, n, known[d])))
  PROVE  FloorInv' /\ Grown
<1>1. Dispatch(d, <<p>>) /\ UNCHANGED seat
  BY DEF Writes
<1>2. ChamberHolds' /\ Grown
  BY <1>1, OnePlain
<1> QED
  BY <1>1, <1>2, SeatsStay DEF FloorInv

LEMMA WritesTwo ==
  ASSUME FloorInv, NEW d \in Device, NEW p, NEW q, Writes(d, <<p, q>>),
         \A n : Plain(Merged(p, Stamping(d, n, known[d]))),
         \A n : Plain(Merged(q, Stamping(d, n, known[d])))
  PROVE  FloorInv' /\ Grown
<1>1. Dispatch(d, <<p, q>>) /\ UNCHANGED seat
  BY DEF Writes
<1>2. ChamberHolds' /\ Grown
  BY <1>1, TwoPlain
<1> QED
  BY <1>1, <1>2, SeatsStay DEF FloorInv

-----------------------------------------------------------------------------
(* The steps that write what anybody may write *)

LEMMA OpenVoteStep ==
  ASSUME FloorInv, NEW d \in Device, NEW v \in Vote, OpenVote(d, v)
  PROVE  FloorInv' /\ Grown
<1>1. d \in Gavel /\ Writes(d, <<[type |-> "vote.open", vote |-> v]>>)
  BY DEF OpenVote, Chairs
<1> QED
  BY <1>1, WritesOne, OpensVote

LEMMA CastStep ==
  ASSUME FloorInv, NEW d \in Device, NEW v \in Vote, NEW c \in Choice, Cast(d, v, c)
  PROVE  FloorInv' /\ Grown
<1>1. seat[d] # NoSeat
  BY DEF Cast, Seated
<1>2. Writes(d, <<[type |-> "ballot.cast", vote |-> v, member |-> seat[d], choice |-> c]>>)
  BY DEF Cast
<1>3. seat[d] \in Member /\ Speaks(seat[d], d)
  BY <1>1, SeatSpeaks
<1>4. \A n : Plain(Merged([type |-> "ballot.cast", vote |-> v, member |-> seat[d], choice |-> c],
                          Stamping(d, n, known[d])))
  BY <1>3, CastsBallot
<1> QED
  BY <1>2, <1>4, WritesOne

LEMMA CloseVoteStep ==
  ASSUME FloorInv, NEW d \in Device, NEW v \in Vote, CloseVote(d, v)
  PROVE  FloorInv' /\ Grown
<1> DEFINE vote == Shown(d).votes[v]
           counts == Counts(Shown(d), v)
           p == [type |-> "vote.close", vote |-> v, final |-> counts,
                 result |-> Verdict(Carries(vote.threshold, counts))]
<1>1. d \in Gavel /\ Heard(d, v) /\ Writes(d, <<p>>)
  BY DEF CloseVote, Chairs
<1>2. VoteStands(Shown(d), chamber, known[d], Len(chamber), v)
  BY FoldStands DEF Shown, Recorded, ChamberHolds, FloorInv
<1>3. v \in Demo \/ OpenedIn(chamber, known[d], Len(chamber), v)
  BY <1>1 DEF Heard, OpenedIn, Known, Recorded, Chronicle, ChamberHolds, FloorInv
<1>4. vote.threshold = Threshold[v]
  BY <1>2, <1>3 DEF VoteStands
<1> HIDE DEF vote, counts
<1>5. \A n : Plain(Merged(p, Stamping(d, n, known[d])))
  BY <1>1, <1>4, ClosesVote
<1> HIDE DEF p
<1> QED
  BY <1>1, <1>5, WritesOne

LEMMA DelegateProxyStep ==
  ASSUME FloorInv, NEW d \in Device, NEW to \in Member, DelegateProxy(d, to)
  PROVE  FloorInv' /\ Grown
<1>1. seat[d] # NoSeat
  BY DEF DelegateProxy, Seated
<1>2. Writes(d, <<[type |-> "proxy.delegate", member |-> seat[d], to |-> to]>>)
  BY DEF DelegateProxy
<1>3. \A n : Plain(Merged([type |-> "proxy.delegate", member |-> seat[d], to |-> to],
                          Stamping(d, n, known[d])))
  BY <1>1, SeatSpeaks, GivesProxy
<1> QED
  BY <1>2, <1>3, WritesOne

LEMMA RevokeProxyStep ==
  ASSUME FloorInv, NEW d \in Device, RevokeProxy(d)
  PROVE  FloorInv' /\ Grown
<1>1. seat[d] # NoSeat
  BY DEF RevokeProxy, Seated
<1>2. Writes(d, <<[type |-> "proxy.revoke", member |-> seat[d]]>>)
  BY DEF RevokeProxy
<1>3. \A n : Plain(Merged([type |-> "proxy.revoke", member |-> seat[d]],
                          Stamping(d, n, known[d])))
  BY <1>1, SeatSpeaks, TakesProxy
<1> QED
  BY <1>2, <1>3, WritesOne

LEMMA CosponsorStep ==
  ASSUME FloorInv, NEW d \in Device, NEW b \in Bill, Cosponsor(d, b)
  PROVE  FloorInv' /\ Grown
<1> DEFINE kind == IF seat[d] \in Shown(d).signed[b] THEN "cosponsor.remove" ELSE "cosponsor.add"
<1>1. Writes(d, <<[type |-> kind, bill |-> b, member |-> seat[d]]>>)
  BY DEF Cosponsor
<1>2. kind \in {"cosponsor.add", "cosponsor.remove"}
  OBVIOUS
<1> HIDE DEF kind
<1>3. \A n : Plain(Merged([type |-> kind, bill |-> b, member |-> seat[d]],
                          Stamping(d, n, known[d])))
  BY <1>2, SignsOn
<1> QED
  BY <1>1, <1>3, WritesOne

-----------------------------------------------------------------------------
(* The steps of the bulletin *)

\* Posting a paper, and the pages that do.
LEMMA PostStep ==
  ASSUME FloorInv, NEW d \in Device, NEW x \in Paper, NEW owner,
         Writes(d, <<Post(x, owner)>>)
  PROVE  FloorInv' /\ Grown
<1>1. \A n : Plain(Merged(Post(x, owner), Stamping(d, n, known[d])))
  BY PostsPaper
<1> QED
  BY <1>1, WritesOne

LEMMA PostStatusStep ==
  ASSUME FloorInv, NEW d \in Device, NEW x \in Paper,
         NEW presence \in {"none", "present", "remote"}, PostStatus(d, x, presence)
  PROVE  FloorInv' /\ Grown
<1>1. seat[d] # NoSeat
  BY DEF PostStatus, Seated
<1>2. CASE presence = "none"
  <2>1. Writes(d, <<Post(x, seat[d])>>)
    BY <1>2 DEF PostStatus
  <2> QED
    BY <2>1, PostStep
<1>3. CASE presence # "none"
  <2> DEFINE p == Post(x, seat[d])
             q == Presence(seat[d], [presence |-> presence])
  <2>1. Writes(d, <<p, q>>)
    BY <1>3 DEF PostStatus
  <2>2. \A n : Plain(Merged(p, Stamping(d, n, known[d])))
    BY PostsPaper
  <2>3. \A n : Plain(Merged(q, Stamping(d, n, known[d])))
    <3>1. /\ DOMAIN [presence |-> presence] \subseteq SwitchFields
          /\ DOMAIN [presence |-> presence] \cap ChairFields = {}
      BY DEF SwitchFields, ChairFields
    <3>2. seat[d] \in Member /\ Speaks(seat[d], d)
      BY <1>1, SeatSpeaks
    <3> QED
      BY <3>1, <3>2, SpeaksForSeat
  <2> HIDE DEF p, q
  <2> QED
    BY <2>1, <2>2, <2>3, WritesTwo
<1> QED
  BY <1>2, <1>3

LEMMA PostSteps ==
  ASSUME FloorInv, NEW d \in Device, NEW x \in Paper,
         \/ FileAmendment(d, x) \/ PostNote(d, x) \/ Comment(d, x) \/ ChatSend(d, x)
         \/ AddDocket(d, x) \/ PostAnnouncement(d, x) \/ PostNews(d, x)
  PROVE  FloorInv' /\ Grown
<1>1. Writes(d, <<Post(x, seat[d])>>) \/ Writes(d, <<Post(x, NoSeat)>>)
  BY DEF FileAmendment, PostNote, Comment, ChatSend, AddDocket, PostAnnouncement, PostNews
<1> QED
  BY <1>1, PostStep

LEMMA CheckInStep ==
  ASSUME FloorInv, NEW d \in Device, NEW presence \in {"present", "remote"}, CheckIn(d, presence)
  PROVE  FloorInv' /\ Grown
<1> DEFINE patch == [presence |-> presence]
           p == Presence(seat[d], patch)
<1>1. seat[d] # NoSeat /\ Writes(d, <<p>>)
  BY DEF CheckIn
<1>2. DOMAIN patch \subseteq SwitchFields /\ DOMAIN patch \cap ChairFields = {}
  BY DEF SwitchFields, ChairFields
<1>3. seat[d] \in Member /\ Speaks(seat[d], d)
  BY <1>1, SeatSpeaks
<1> HIDE DEF patch
<1>4. \A n : Plain(Merged(p, Stamping(d, n, known[d])))
  BY <1>2, <1>3, SpeaksForSeat
<1> HIDE DEF p
<1> QED
  BY <1>1, <1>4, WritesOne

LEMMA ToggleDndStep ==
  ASSUME FloorInv, NEW d \in Device, ToggleDnd(d)
  PROVE  FloorInv' /\ Grown
<1> DEFINE patch == [dnd |-> ~(Alive(Shown(d).members[seat[d]]) /\ Shown(d).members[seat[d]].dnd)]
           p == Presence(seat[d], patch)
<1>1. seat[d] # NoSeat /\ Writes(d, <<p>>)
  BY DEF ToggleDnd
<1>2. DOMAIN patch \subseteq SwitchFields /\ DOMAIN patch \cap ChairFields = {}
  BY DEF SwitchFields, ChairFields
<1>3. seat[d] \in Member /\ Speaks(seat[d], d)
  BY <1>1, SeatSpeaks
<1> HIDE DEF patch
<1>4. \A n : Plain(Merged(p, Stamping(d, n, known[d])))
  BY <1>2, <1>3, SpeaksForSeat
<1> HIDE DEF p
<1> QED
  BY <1>1, <1>4, WritesOne

LEMMA ToggleMemberStep ==
  ASSUME FloorInv, NEW d \in Device, NEW m \in Member, NEW field \in SwitchFields,
         ToggleMember(d, m, field)
  PROVE  FloorInv' /\ Grown
<1> DEFINE patch == Only(field, ~Shown(d).members[m][field])
           p == Presence(m, patch)
<1>1. d \in Gavel /\ Writes(d, <<p>>)
  BY DEF ToggleMember
<1>2. DOMAIN patch \subseteq SwitchFields
  BY DEF Only
<1> HIDE DEF patch
<1>3. \A n : Plain(Merged(p, Stamping(d, n, known[d])))
  BY <1>1, <1>2, SwitchesMember
<1> HIDE DEF p
<1> QED
  BY <1>1, <1>3, WritesOne

LEMMA ToggleMemberSteps ==
  ASSUME FloorInv, NEW d \in Device, NEW m \in Member,
         ToggleFreeze(d, m) \/ ToggleTalk(d, m) \/ ToggleChat(d, m)
  PROVE  FloorInv' /\ Grown
<1>1. \E field \in SwitchFields : ToggleMember(d, m, field)
  BY DEF ToggleFreeze, ToggleTalk, ToggleChat, SwitchFields
<1> QED
  BY <1>1, ToggleMemberStep

LEMMA SettingStep ==
  ASSUME FloorInv, NEW d \in Device, NEW field \in SessionFields, NEW value,
         d \in Gavel, Writes(d, <<Setting(Only(field, value))>>)
  PROVE  FloorInv' /\ Grown
<1> DEFINE p == Setting(Only(field, value))
<1>1. DOMAIN Only(field, value) \subseteq SessionFields
  BY DEF Only
<1>2. \A n : Plain(Merged(p, Stamping(d, n, known[d])))
  BY <1>1, SwitchesSession
<1> HIDE DEF p
<1> QED
  BY <1>2, WritesOne DEF p

LEMMA ToggleSessionSteps ==
  ASSUME FloorInv, NEW d \in Device,
         ToggleLock(d) \/ ToggleStun(d) \/ ChatPolicy(d) \/ TalkiePolicy(d)
  PROVE  FloorInv' /\ Grown
<1>1. /\ d \in Gavel
      /\ \E field \in SessionFields : \E value : Writes(d, <<Setting(Only(field, value))>>)
  <2>1. ASSUME NEW field \in SessionFields, ToggleSession(d, field)
        PROVE  d \in Gavel /\ \E value : Writes(d, <<Setting(Only(field, value))>>)
    BY <2>1 DEF ToggleSession, Chairs
  <2>2. ASSUME NEW field \in SessionFields, TogglePolicy(d, field)
        PROVE  d \in Gavel /\ \E value : Writes(d, <<Setting(Only(field, value))>>)
    BY <2>2 DEF TogglePolicy, Chairs
  <2>3. \E field \in SessionFields : ToggleSession(d, field) \/ TogglePolicy(d, field)
    BY DEF ToggleLock, ToggleStun, ChatPolicy, TalkiePolicy, SessionFields
  <2> QED
    BY <2>1, <2>2, <2>3
<1> QED
  BY <1>1, SettingStep

LEMMA AddMemberStep ==
  ASSUME FloorInv, NEW d \in Device, NEW m \in Member, NEW chat \in BOOLEAN,
         AddMember(d, m, chat)
  PROVE  FloorInv' /\ Grown
<1> DEFINE p == [type |-> "member.upsert", member |-> m, canChat |-> chat, canTalk |-> TRUE]
           patch == [canChat |-> chat]
           q == Setting(patch)
<1>1. d \in Gavel /\ Writes(d, <<p, q>>)
  BY DEF AddMember, Chairs
<1>2. \A n : Plain(Merged(p, Stamping(d, n, known[d])))
  BY <1>1, AddsMember
<1>3. DOMAIN patch \subseteq SessionFields
  BY DEF SessionFields
<1> HIDE DEF patch
<1>4. \A n : Plain(Merged(q, Stamping(d, n, known[d])))
  BY <1>1, <1>3, SwitchesSession
<1> HIDE DEF p, q
<1> QED
  BY <1>1, <1>2, <1>4, WritesTwo

LEMMA RemoveMemberStep ==
  ASSUME FloorInv, NEW d \in Device, NEW m \in Member, RemoveMember(d, m)
  PROVE  FloorInv' /\ Grown
<1> DEFINE p == [type |-> "member.retract", member |-> m]
<1>1. /\ d \in Gavel /\ Dispatch(d, <<p>>)
      /\ seat' = [seat EXCEPT ![d] = IF @ = m THEN NoSeat ELSE @]
  BY DEF RemoveMember, Chairs
<1>2. \A n : Plain(Merged(p, Stamping(d, n, known[d])))
  BY <1>1, TouchesMember
<1>3. SeatsHeld'
  BY <1>1 DEF FloorInv, SeatsHeld
<1>4. ChamberHolds' /\ Grown
  <2> HIDE DEF p
  <2> QED
    BY <1>1, <1>2, OnePlain
<1> QED
  BY <1>3, <1>4 DEF FloorInv

LEMMA ResetPinStep ==
  ASSUME FloorInv, NEW d \in Device, NEW m \in Member, ResetPin(d, m)
  PROVE  FloorInv' /\ Grown
<1> DEFINE p == [type |-> "member.auth", member |-> m]
<1>1. d \in Gavel /\ Writes(d, <<p>>)
  BY DEF ResetPin
<1>2. \A n : Plain(Merged(p, Stamping(d, n, known[d])))
  BY <1>1, TouchesMember
<1> HIDE DEF p
<1> QED
  BY <1>1, <1>2, WritesOne

LEMMA MeetStep ==
  ASSUME FloorInv, NEW d \in Device, NEW kid \in Device, NEW patch,
         DOMAIN patch \subseteq {"revoked"},
         Writes(d, <<[type |-> "device.seen", kid |-> kid, patch |-> patch]>>)
  PROVE  FloorInv' /\ Grown
<1> DEFINE p == [type |-> "device.seen", kid |-> kid, patch |-> patch]
<1>1. \A n : Plain(Merged(p, Stamping(d, n, known[d])))
  BY MeetsDevice
<1> HIDE DEF p
<1> QED
  BY <1>1, WritesOne DEF p

LEMMA DeviceSteps ==
  ASSUME FloorInv, NEW d \in Device, NEW kid \in Device,
         Secure(d, kid) \/ RevokeDevice(d, kid) \/ UnrevokeDevice(d, kid)
  PROVE  FloorInv' /\ Grown
<1>1. CASE Secure(d, kid)
  <2>1. Writes(d, <<[type |-> "device.seen", kid |-> kid, patch |-> << >>]>>)
    BY <1>1 DEF Secure, PeerSecured
  <2>2. DOMAIN << >> \subseteq {"revoked"}
    OBVIOUS
  <2> QED
    BY <2>1, <2>2, MeetStep
<1>2. CASE RevokeDevice(d, kid)
  <2> DEFINE p == [type |-> "device.revoke", kid |-> kid]
  <2>1. d \in Gavel /\ Writes(d, <<p>>)
    BY <1>2 DEF RevokeDevice, Chairs
  <2>2. \A n : Plain(Merged(p, Stamping(d, n, known[d])))
    BY <2>1, BarsDevice
  <2> HIDE DEF p
  <2> QED
    BY <2>1, <2>2, WritesOne
<1>3. CASE UnrevokeDevice(d, kid)
  <2> DEFINE patch == [revoked |-> FALSE]
  <2>1. Writes(d, <<[type |-> "device.seen", kid |-> kid, patch |-> patch]>>)
    BY <1>3 DEF UnrevokeDevice
  <2>2. DOMAIN patch \subseteq {"revoked"}
    OBVIOUS
  <2> HIDE DEF patch
  <2> QED
    BY <2>1, <2>2, MeetStep
<1> QED
  BY <1>1, <1>2, <1>3

LEMMA ReleaseSeatStep ==
  ASSUME FloorInv, NEW d \in Device, ReleaseSeat(d)
  PROVE  FloorInv' /\ Grown
<1>1. ChamberHolds' /\ Grown
  BY DEF FloorInv, ChamberHolds, Recorded, SharesRecorded, BillsRecorded, Informed, ReleaseSeat,
         Grown
<1>2. SeatsHeld'
  BY DEF FloorInv, SeatsHeld, ReleaseSeat
<1> QED
  BY <1>1, <1>2 DEF FloorInv

LEMMA LearnStep ==
  ASSUME FloorInv, NEW d \in Device, NEW i \in DOMAIN chamber, Learn(d, chamber[i].n)
  PROVE  FloorInv' /\ Grown
<1>1. Informed'
  BY DEF FloorInv, ChamberHolds, Informed, Learn, Ids
<1>2. ChamberHolds' /\ Grown
  <2>1. ChamberHolds'
    BY <1>1 DEF FloorInv, ChamberHolds, Recorded, SharesRecorded, BillsRecorded, Learn
  <2>2. Grown
    BY DEF FloorInv, ChamberHolds, Informed, Learn, Grown
  <2> QED
    BY <2>1, <2>2
<1>3. SeatsHeld'
  BY SeatsStay DEF Learn
<1> QED
  BY <1>2, <1>3 DEF FloorInv

-----------------------------------------------------------------------------
(* The steps of bills *)

\* The five stages are different ones.
LEMMA StagesDiffer ==
  /\ DOMAIN Stages = 1 .. 5 /\ Len(Stages) = 5
  /\ Stages[1] = "drafted" /\ Stages[2] = "introduced" /\ Stages[3] = "committee"
  /\ Stages[4] = "floor" /\ Stages[5] = "enacted"
  /\ \A i, j \in DOMAIN Stages : Stages[i] = Stages[j] => i = j
<1>1. /\ DOMAIN Stages = 1 .. 5 /\ Len(Stages) = 5
      /\ Stages[1] = "drafted" /\ Stages[2] = "introduced" /\ Stages[3] = "committee"
      /\ Stages[4] = "floor" /\ Stages[5] = "enacted"
  BY DEF Stages
<1>2. \A i, j \in DOMAIN Stages : Stages[i] = Stages[j] => i = j
  <2>1. \A i \in 1 .. 5 : i = 1 \/ i = 2 \/ i = 3 \/ i = 4 \/ i = 5
    OBVIOUS
  <2> QED
    BY <1>1, <2>1
<1> QED
  BY <1>1, <1>2

\* Their order.
LEMMA Ranks ==
  /\ Rank("drafted") = 1 /\ Rank("introduced") = 2 /\ Rank("committee") = 3
  /\ Rank("floor") = 4 /\ Rank("enacted") = 5
<1>1. ASSUME NEW i \in DOMAIN Stages PROVE Rank(Stages[i]) = i
  BY StagesDiffer DEF Rank
<1> QED
  BY <1>1, StagesDiffer

\* A bill is moved on to a later stage.
LEMMA NextRank ==
  ASSUME NEW stage \in {"introduced"} \cup LaterStages, NextStage(stage) # stage
  PROVE  NextStage(stage) \in LaterStages /\ Rank(stage) < Rank(NextStage(stage))
<1>1. NextStage(stage) = Stages[IF Rank(stage) = Len(Stages) THEN Rank(stage) ELSE Rank(stage) + 1]
  <2> DEFINE sought == IF stage = "none" THEN "drafted" ELSE stage
             at == CHOOSE i \in DOMAIN Stages : Stages[i] = sought
  <2>1. sought = stage /\ \E i \in DOMAIN Stages : Stages[i] = stage
    BY StagesDiffer DEF LaterStages
  <2>2. at \in DOMAIN Stages /\ Stages[at] = stage
    BY <2>1
  <2>3. Rank(stage) \in DOMAIN Stages /\ Stages[Rank(stage)] = stage
    BY <2>1 DEF Rank
  <2>4. at = Rank(stage)
    BY <2>2, <2>3, StagesDiffer
  <2>5. NextStage(stage) = Stages[IF at = Len(Stages) THEN at ELSE at + 1]
    BY DEF NextStage
  <2> HIDE DEF at
  <2> QED
    BY <2>4, <2>5
<1>2. /\ Len(Stages) = 5 /\ Stages[3] = "committee"
      /\ Stages[4] = "floor" /\ Stages[5] = "enacted"
  BY StagesDiffer
<1>3. CASE stage = "introduced"
  BY <1>1, <1>2, <1>3, Ranks DEF LaterStages
<1>4. CASE stage = "committee"
  BY <1>1, <1>2, <1>4, Ranks DEF LaterStages
<1>5. CASE stage = "floor"
  BY <1>1, <1>2, <1>5, Ranks DEF LaterStages
<1>6. CASE stage = "enacted"
  BY <1>1, <1>2, <1>6, Ranks
<1> QED
  BY <1>3, <1>4, <1>5, <1>6 DEF LaterStages

\* The two ways to say which moves a device knows.
LEMMA MovesKnown ==
  ASSUME Recorded, NEW has, NEW b
  PROVE  MovesSeen(chamber, b, has) = StagesIn(chamber, has, Len(chamber), b)
BY DEF MovesSeen, Moves, StagesIn, Recorded, Chronicle

\* What a device shows of a bill that is before it.
LEMMA BillBefore ==
  ASSUME ChamberHolds, NEW d \in Device, NEW b \in Bill, Shown(d).bills[b].there
  PROVE  LET stage == Shown(d).bills[b].stage
             moves == MovesSeen(chamber, b, known[d])
         IN  /\ stage \in {"introduced"} \cup LaterStages
             /\ \A j : IsLast(j, moves) => chamber[j].stage = stage
             /\ \A j \in DOMAIN chamber :
                  chamber[j].type = "bill.upsert" /\ chamber[j].bill = b =>
                    \E k \in DOMAIN chamber : j <= k /\ chamber[k].n \in known[d]
<1> DEFINE stage == Shown(d).bills[b].stage
           moves == MovesSeen(chamber, b, known[d])
<1>1. BillStands(Shown(d), chamber, known[d], Len(chamber), b)
  BY FoldStands DEF Shown, Recorded, ChamberHolds, BillsRecorded
<1>2. moves = StagesIn(chamber, known[d], Len(chamber), b)
  BY MovesKnown DEF ChamberHolds
<1>3. /\ DOMAIN chamber = 1 .. Len(chamber) /\ Len(chamber) \in Nat
      /\ \A i \in DOMAIN chamber : Fit(chamber[i])
  BY DEF ChamberHolds, Recorded, Chronicle
<1>4. \A j : IsLast(j, moves) => chamber[j].stage = stage
  BY <1>1, <1>2 DEF BillStands
<1>5. stage \in {"introduced"} \cup LaterStages
  <2>1. CASE moves = {}
    BY <1>1, <1>2, <2>1 DEF BillStands
  <2>2. CASE moves # {}
    <3>1. moves \in SUBSET DOMAIN chamber
      BY DEF MovesSeen, Moves
    <3>2. IsLast(Max(moves), moves)
      BY <2>2, <3>1, LastIsLast DEF ChamberHolds
    <3>3. Max(moves) \in DOMAIN chamber /\ chamber[Max(moves)].type = "bill.stage"
      BY <3>2 DEF IsLast, MovesSeen, Moves
    <3>4. chamber[Max(moves)].stage \in LaterStages
      BY <1>3, <3>3, Types DEF Fit
    <3> QED
      BY <1>4, <3>2, <3>4
  <2> QED
    BY <2>1, <2>2
<1>6. ASSUME NEW j \in DOMAIN chamber, chamber[j].type = "bill.upsert", chamber[j].bill = b
      PROVE  \E k \in DOMAIN chamber : j <= k /\ chamber[k].n \in known[d]
  <2>1. b \notin Demo
    BY <1>3, <1>6, Types DEF Fit
  <2>2. PICK k \in DOMAIN chamber : /\ chamber[k].n \in known[d] /\ chamber[k].bill = b
                                    /\ chamber[k].type \in BillTypes
    <3>1. CASE moves # {}
      BY <3>1 DEF MovesSeen, Moves, BillTypes
    <3>2. CASE moves = {}
      <4>1. Introduced(chamber, known[d], Len(chamber), b)
        BY <1>1, <1>2, <3>2 DEF BillStands
      <4> QED
        BY <1>3, <2>1, <4>1 DEF Introduced, BillTypes
    <3> QED
      BY <3>1, <3>2
  <2>3. j <= k
    BY <1>6, <2>2 DEF ChamberHolds, BillsRecorded, Submitted
  <2> QED
    BY <2>2, <2>3
<1> HIDE DEF stage, moves
<1> QED
  BY <1>4, <1>5, <1>6 DEF stage, moves

\* Moving a bill along.
LEMMA AdvanceStageStep ==
  ASSUME FloorInv, NEW d \in Device, NEW b \in Bill, AdvanceStage(d, b)
  PROVE  FloorInv' /\ Grown
<1> DEFINE stage == Shown(d).bills[b].stage
           p == [type |-> "bill.stage", bill |-> b, stage |-> NextStage(stage)]
           op == Merged(p, Stamping(d, <<d, Written(d) + 1>>, known[d]))
           new == Stamped(d, <<p>>)
<1>1. /\ d \in Gavel /\ Shown(d).bills[b].there /\ NextStage(stage) # stage
      /\ Writes(d, <<p>>)
  BY DEF AdvanceStage, Chairs, Alive
<1>2. /\ stage \in {"introduced"} \cup LaterStages
      /\ \A j : IsLast(j, MovesSeen(chamber, b, known[d])) => chamber[j].stage = stage
      /\ \A j \in DOMAIN chamber :
           chamber[j].type = "bill.upsert" /\ chamber[j].bill = b =>
             \E k \in DOMAIN chamber : j <= k /\ chamber[k].n \in known[d]
  BY <1>1, BillBefore DEF FloorInv
<1> HIDE DEF stage
<1>3. NextStage(stage) \in LaterStages /\ Rank(stage) < Rank(NextStage(stage))
  BY <1>1, <1>2, NextRank
<1>4. /\ op.type = "bill.stage" /\ op.bill = b /\ op.stage = NextStage(stage)
      /\ "bill" \in DOMAIN op
  BY DEF Merged, Stamping
<1> HIDE DEF p
<1>5. /\ Orderly(new) /\ Len(new) = 1 /\ DOMAIN new = {1} /\ new[1] = op
      /\ op.by = d /\ op.saw = known[d] /\ op.n = <<d, WrittenIn(chamber, d) + 1>>
  BY OneStamped
<1> HIDE DEF op, new
<1>6. Fit(op)
  BY <1>1, <1>3, <1>4, <1>5 DEF Fit
<1>7. \A j : IsLast(j, MovesSeen(chamber, op.bill, known[d])) =>
               Rank(chamber[j].stage) < Rank(op.stage)
  BY <1>2, <1>3, <1>4
<1>8. Suits(chamber, known[d], d, new)
  <2>1. op.type \notin {"share.grant", "share.revoke", "bill.upsert"}
    BY <1>4
  <2> QED
    BY <1>2, <1>4, <1>5, <1>6, <1>7, <2>1 DEF Suits
<1>9. ChamberHolds' /\ Grown
  BY <1>1, <1>8, DispatchPuts DEF Writes, FloorInv, new
<1> QED
  BY <1>1, <1>9, SeatsStay DEF FloorInv, Writes

\* Introducing one.
LEMMA SubmitBillStep ==
  ASSUME FloorInv, NEW d \in Device, NEW b \in Bill, SubmitBill(d, b)
  PROVE  FloorInv' /\ Grown
<1> DEFINE p == [type |-> "bill.upsert", bill |-> b, member |-> seat[d]]
           q == [type |-> "cosponsor.add", bill |-> b, member |-> seat[d]]
           opp == Merged(p, Stamping(d, <<d, Written(d) + 1>>, known[d]))
           opq == Merged(q, Stamping(d, <<d, Written(d) + 2>>, known[d]))
           new == Stamped(d, <<p, q>>)
<1>1. /\ seat[d] # NoSeat /\ b \notin Demo \cup Named("bill")
      /\ Writes(d, <<p, q>>)
  BY DEF SubmitBill, Seated
<1>2. seat[d] \in Member /\ Speaks(seat[d], d)
  BY <1>1, SeatSpeaks
<1>3. /\ opp.type = "bill.upsert" /\ opp.bill = b /\ opp.member = seat[d] /\ "bill" \in DOMAIN opp
      /\ opq.type = "cosponsor.add" /\ opq.bill = b
  BY DEF Merged, Stamping
<1> HIDE DEF p, q
<1>4. Orderly(<<p, q>>) /\ Len(<<p, q>>) = 2 /\ DOMAIN <<p, q>> = {1, 2}
  BY DEF Orderly
<1>5. Orderly(new) /\ Len(new) = 2 /\ DOMAIN new = {1, 2} /\ new[1] = opp /\ new[2] = opq
  <2>1. Orderly(new) /\ Len(new) = 2
    BY <1>4, StampedOrderly
  <2>2. DOMAIN new = {1, 2} /\ new[1] = opp /\ new[2] = opq
    BY <1>4 DEF Stamped
  <2> QED
    BY <2>1, <2>2
<1>6. Written(d) = WrittenIn(chamber, d)
  BY DEF Written, WrittenIn
<1>7. opp.by = d /\ opp.saw = known[d] /\ opp.n = <<d, WrittenIn(chamber, d) + 1>>
  BY <1>6, StampedBy
<1>8. opq.by = d /\ opq.saw = known[d] /\ opq.n = <<d, WrittenIn(chamber, d) + 2>>
  BY <1>6, StampedBy
<1> HIDE DEF opp, opq, new
<1>9. Fit(opp) /\ Fit(opq)
  BY <1>1, <1>2, <1>3, <1>7, <1>8 DEF Fit
<1>10. ASSUME NEW j \in DOMAIN chamber, chamber[j].type \in BillTypes PROVE chamber[j].bill # b
  <2>1. Fit(chamber[j])
    BY DEF FloorInv, ChamberHolds, Recorded, Chronicle
  <2>2. CASE chamber[j].type = "bill.retract"
    BY <1>1, <2>1, <2>2, Types DEF Fit
  <2>3. CASE chamber[j].type \in {"bill.upsert", "bill.stage"}
    <3>1. "bill" \in DOMAIN chamber[j]
      BY <2>1, <2>3, Types DEF Fit
    <3> QED
      BY <1>1, <3>1 DEF Named
  <2> QED
    BY <1>10, <2>2, <2>3 DEF BillTypes
<1>11. Suits(chamber, known[d], d, new)
  <2>1. /\ opp.type \notin {"share.grant", "share.revoke", "bill.stage"}
        /\ opq.type \notin {"share.grant", "share.revoke", "bill.upsert", "bill.stage"} \cup BillTypes
    BY <1>3 DEF BillTypes
  <2> QED
    BY <1>3, <1>5, <1>7, <1>8, <1>9, <1>10, <2>1 DEF Suits
<1>12. ChamberHolds' /\ Grown
  BY <1>1, <1>11, DispatchPuts DEF Writes, FloorInv, new
<1> QED
  BY <1>1, <1>12, SeatsStay DEF FloorInv, Writes

-----------------------------------------------------------------------------
(* The steps of shares *)

\* Granting a share.
LEMMA ShareLiveStep ==
  ASSUME FloorInv, NEW d \in Device, NEW x \in Share, ShareLive(d, x)
  PROVE  FloorInv' /\ Grown
<1> DEFINE p == [type |-> "share.grant", share |-> x, member |-> seat[d]]
           op == Merged(p, Stamping(d, <<d, Written(d) + 1>>, known[d]))
           new == Stamped(d, <<p>>)
<1>1. seat[d] # NoSeat /\ x \notin Named("share") /\ Writes(d, <<p>>)
  BY DEF ShareLive, CreateGuestShare, Seated
<1>2. seat[d] \in Member /\ Speaks(seat[d], d)
  BY <1>1, SeatSpeaks
<1>3. /\ op.type = "share.grant" /\ op.share = x /\ op.member = seat[d]
      /\ "share" \in DOMAIN op
  BY DEF Merged, Stamping
<1> HIDE DEF p
<1>4. /\ Orderly(new) /\ Len(new) = 1 /\ DOMAIN new = {1} /\ new[1] = op
      /\ op.by = d /\ op.saw = known[d] /\ op.n = <<d, WrittenIn(chamber, d) + 1>>
  BY OneStamped
<1> HIDE DEF op, new
<1>5. Fit(op)
  BY <1>2, <1>3, <1>4 DEF Fit
<1>6. ASSUME NEW j \in DOMAIN chamber, chamber[j].type \in ShareTypes PROVE chamber[j].share # x
  <2>1. Fit(chamber[j])
    BY DEF FloorInv, ChamberHolds, Recorded, Chronicle
  <2>2. "share" \in DOMAIN chamber[j]
    BY <1>6, <2>1, Types DEF Fit, ShareTypes
  <2> QED
    BY <1>1, <2>2 DEF Named
<1>7. Suits(chamber, known[d], d, new)
  <2>1. op.type \notin {"share.revoke", "bill.upsert", "bill.stage"}
    BY <1>3
  <2> QED
    BY <1>3, <1>4, <1>5, <1>6, <2>1 DEF Suits
<1>8. ChamberHolds' /\ Grown
  BY <1>1, <1>7, DispatchPuts DEF Writes, FloorInv, new
<1> QED
  BY <1>1, <1>8, SeatsStay DEF FloorInv, Writes

\* Taking one back.
LEMMA RevokeShareStep ==
  ASSUME FloorInv, NEW d \in Device, NEW x \in Share, RevokeShare(d, x)
  PROVE  FloorInv' /\ Grown
<1> DEFINE p == [type |-> "share.revoke", share |-> x]
           op == Merged(p, Stamping(d, <<d, Written(d) + 1>>, known[d]))
           new == Stamped(d, <<p>>)
           share == Shown(d).shares[x]
<1>1. /\ share.there /\ ~share.revoked /\ (share.byKid = d \/ d \in Gavel)
      /\ Writes(d, <<p>>)
  BY DEF RevokeShare
<1>2. op.type = "share.revoke" /\ op.share = x /\ "share" \in DOMAIN op
  BY DEF Merged, Stamping
<1> HIDE DEF p
<1>3. /\ Orderly(new) /\ Len(new) = 1 /\ DOMAIN new = {1} /\ new[1] = op
      /\ op.by = d /\ op.saw = known[d] /\ op.n = <<d, WrittenIn(chamber, d) + 1>>
  BY OneStamped
<1> HIDE DEF op, new
<1>4. Fit(op)
  BY <1>2, <1>3 DEF Fit
<1>5. ASSUME NEW j \in DOMAIN chamber, chamber[j].type = "share.grant", chamber[j].share = x
      PROVE  chamber[j].n \in known[d] /\ (d \in Gavel \/ chamber[j].by = d)
  <2>1. ShareStands(Shown(d), chamber, known[d], Len(chamber), x)
    BY FoldStands DEF Shown, Recorded, SharesRecorded, ChamberHolds, FloorInv
  <2>2. GivenBy(chamber, known[d], Len(chamber), x, share.byKid)
    BY <1>1, <2>1 DEF ShareStands
  <2>3. PICK i \in DOMAIN chamber : /\ chamber[i].n \in known[d]
                                    /\ chamber[i].type = "share.grant"
                                    /\ chamber[i].share = x /\ chamber[i].by = share.byKid
    BY <2>2 DEF GivenBy, FloorInv, ChamberHolds, Recorded, Chronicle
  <2>4. i = j
    BY <1>5, <2>3 DEF FloorInv, ChamberHolds, GrantedOnce
  <2> QED
    BY <1>1, <2>3, <2>4
<1>6. Suits(chamber, known[d], d, new)
  <2>1. op.type \notin {"share.grant", "bill.upsert", "bill.stage"}
    BY <1>2
  <2> QED
    BY <1>2, <1>3, <1>4, <1>5, <2>1 DEF Suits
<1>7. ChamberHolds' /\ Grown
  BY <1>1, <1>6, DispatchPuts DEF Writes, FloorInv, new
<1> QED
  BY <1>1, <1>7, SeatsStay DEF FloorInv, Writes

-----------------------------------------------------------------------------
(* Clearing the demonstration *)

\* The elements of a finite set can be listed.
LEMMA Listed ==
  ASSUME NEW S, IsFiniteSet(S)
  PROVE  SetToSeq(S) \in Seq(S)
<1>1. Cardinality(S) \in Nat /\ ExistsBijection(1 .. Cardinality(S), S)
  BY FS_CardinalityType
<1>2. \E f \in [1 .. Cardinality(S) -> S] : IsInjective(f)
  BY <1>1 DEF ExistsBijection, Bijection, Injection
<1>3. SetToSeq(S) \in [1 .. Cardinality(S) -> S]
  BY <1>2 DEF SetToSeq
<1> QED
  BY <1>1, <1>3

\* What there is one of for each element of a finite set is finite.
LEMMA FiniteImage ==
  ASSUME NEW S, IsFiniteSet(S), NEW f, DOMAIN f = S
  PROVE  IsFiniteSet({f[x] : x \in S})
<1> DEFINE T == {f[x] : x \in S}
           g == [x \in S |-> f[x]]
<1>1. g \in Surjection(S, T)
  BY DEF Surjection
<1> HIDE DEF T, g
<1>2. IsFiniteSet(T)
  BY <1>1, FS_Surjection
<1> QED
  BY <1>2 DEF T

\* All that is retracted at once.
LEMMA ClearDemoStep ==
  ASSUME FloorInv, NEW d \in Device, ClearDemo(d)
  PROVE  FloorInv' /\ Grown
<1> DEFINE s == Shown(d)
           members == Demo \cap LiveMembers(s)
           votes == {v \in Demo \cap Vote : Alive(s.votes[v])}
           bills == {b \in Demo \cap Bill : Alive(s.bills[b])}
           papers == {p \in Demo \cap Paper : Alive(s.papers[p])}
           A == {[type |-> "member.retract", member |-> m] : m \in members}
           B == {[type |-> "vote.retract", vote |-> v] : v \in votes}
           C == {[type |-> "bill.retract", bill |-> b] : b \in bills}
           D == {Retract(p) : p \in papers}
           last == Setting([demo |-> FALSE])
           all == A \cup B \cup C \cup D \cup {last}
           patches == SetToSeq(A) \o SetToSeq(B) \o SetToSeq(C) \o SetToSeq(D) \o <<last>>
<1>1. /\ d \in Gavel /\ Dispatch(d, patches)
      /\ seat' = [seat EXCEPT ![d] = IF @ \in Demo THEN NoSeat ELSE @]
  BY DEF ClearDemo, Chairs
<1>2. IsFiniteSet(members) /\ IsFiniteSet(votes) /\ IsFiniteSet(bills) /\ IsFiniteSet(papers)
  <2>1. /\ members \in SUBSET Demo /\ votes \in SUBSET Demo
        /\ bills \in SUBSET Demo /\ papers \in SUBSET Demo
    OBVIOUS
  <2> HIDE DEF members, votes, bills, papers
  <2> QED
    BY <2>1, DemoAssumption, FS_Subset
<1>3. /\ members \subseteq Member /\ votes \subseteq Vote
      /\ bills \subseteq Bill \cap Demo /\ papers \subseteq Demo \cap Paper
  BY DEF LiveMembers
<1> HIDE DEF s, members, votes, bills, papers
<1>4. IsFiniteSet(A) /\ IsFiniteSet(B) /\ IsFiniteSet(C) /\ IsFiniteSet(D)
  <2>1. IsFiniteSet(A)
    <3> DEFINE f == [m \in members |-> [type |-> "member.retract", member |-> m]]
    <3>1. DOMAIN f = members /\ A = {f[m] : m \in members}
      OBVIOUS
    <3> HIDE DEF f, A
    <3> QED
      BY <1>2, <3>1, FiniteImage
  <2>2. IsFiniteSet(B)
    <3> DEFINE f == [v \in votes |-> [type |-> "vote.retract", vote |-> v]]
    <3>1. DOMAIN f = votes /\ B = {f[v] : v \in votes}
      OBVIOUS
    <3> HIDE DEF f, B
    <3> QED
      BY <1>2, <3>1, FiniteImage
  <2>3. IsFiniteSet(C)
    <3> DEFINE f == [b \in bills |-> [type |-> "bill.retract", bill |-> b]]
    <3>1. DOMAIN f = bills /\ C = {f[b] : b \in bills}
      OBVIOUS
    <3> HIDE DEF f, C
    <3> QED
      BY <1>2, <3>1, FiniteImage
  <2>4. IsFiniteSet(D)
    <3> DEFINE f == [p \in papers |-> Retract(p)]
    <3>1. DOMAIN f = papers /\ D = {f[p] : p \in papers}
      OBVIOUS
    <3> HIDE DEF f, D
    <3> QED
      BY <1>2, <3>1, FiniteImage
  <2> QED
    BY <2>1, <2>2, <2>3, <2>4
<1>5. \A p \in all : \A n : Plain(Merged(p, Stamping(d, n, known[d])))
  <2> SUFFICES ASSUME NEW p \in all, NEW n PROVE Plain(Merged(p, Stamping(d, n, known[d])))
    OBVIOUS
  <2>1. CASE p \in A
    <3>1. PICK m \in members : p = [type |-> "member.retract", member |-> m]
      BY <2>1
    <3> QED
      BY <1>1, <1>3, <3>1, TouchesMember
  <2>2. CASE p \in B
    <3>1. PICK v \in votes : p = [type |-> "vote.retract", vote |-> v]
      BY <2>2
    <3> QED
      BY <1>1, <1>3, <3>1, RetractsVote
  <2>3. CASE p \in C
    <3>1. PICK b \in bills : p = [type |-> "bill.retract", bill |-> b]
      BY <2>3
    <3> QED
      BY <1>1, <1>3, <3>1, RetractsBill
  <2>4. CASE p \in D
    <3>1. PICK x \in papers : p = Retract(x)
      BY <2>4
    <3> QED
      BY <1>1, <1>3, <3>1, RetractsPaper
  <2>5. CASE p = last
    <3>1. DOMAIN [demo |-> FALSE] \subseteq SessionFields
      BY DEF SessionFields
    <3>2. Plain(Merged(Setting([demo |-> FALSE]), Stamping(d, n, known[d])))
      BY <1>1, <3>1, SwitchesSession
    <3> QED
      BY <2>5, <3>2
  <2> QED
    BY <2>1, <2>2, <2>3, <2>4, <2>5
<1>6. patches \in Seq(all)
  <2>1. /\ SetToSeq(A) \in Seq(A) /\ SetToSeq(B) \in Seq(B)
        /\ SetToSeq(C) \in Seq(C) /\ SetToSeq(D) \in Seq(D)
    <3> HIDE DEF A, B, C, D
    <3> QED
      BY <1>4, Listed
  <2> HIDE DEF A, B, C, D, last
  <2>2. /\ SetToSeq(A) \in Seq(all) /\ SetToSeq(B) \in Seq(all)
        /\ SetToSeq(C) \in Seq(all) /\ SetToSeq(D) \in Seq(all) /\ <<last>> \in Seq(all)
    BY <2>1
  <2> HIDE DEF all
  <2> QED
    BY <2>2
<1> HIDE DEF all, patches
<1>7. Orderly(patches) /\ {patches[i] : i \in DOMAIN patches} \subseteq all
  BY <1>6 DEF Orderly
<1>8. ChamberHolds' /\ Grown
  BY <1>1, <1>5, <1>7, PlainDispatch
<1>9. SeatsHeld'
  BY <1>1 DEF FloorInv, SeatsHeld
<1> QED
  BY <1>8, <1>9 DEF FloorInv

-----------------------------------------------------------------------------
(* The invariant holds throughout *)

\* An empty chamber.
LEMMA FloorStarts ==
  ASSUME FloorInit
  PROVE  FloorInv
<1>1. Len(chamber) = 0 /\ DOMAIN chamber = {} /\ 1 .. Len(chamber) = {}
  BY DEF FloorInit
<1>2. Recorded /\ SharesRecorded /\ BillsRecorded
  BY <1>1 DEF Recorded, Chronicle, SharesRecorded, Granted, BillsRecorded, Submitted
<1>3. /\ GrantedOnce(chamber) /\ Numbered(chamber) /\ Aware(chamber)
      /\ OwnMovesSeen(chamber)
  BY <1>1 DEF GrantedOnce, Numbered, Aware, OwnMovesSeen, Moves
<1>4. Stepped(chamber)
  BY <1>1 DEF Stepped, Moves
<1>5. Informed
  <2>1. known \in [Device -> SUBSET Ids(chamber)]
    BY <1>1 DEF FloorInit, Ids
  <2> QED
    BY <1>1, <2>1 DEF Informed
<1>6. SeatsHeld
  BY SeatAssumption DEF FloorInit, SeatsHeld
<1> QED
  BY <1>2, <1>3, <1>4, <1>5, <1>6 DEF FloorInv, ChamberHolds

\* A chamber nobody touches.
LEMMA FloorStutters ==
  ASSUME FloorInv, UNCHANGED floor
  PROVE  FloorInv' /\ Grown
<1>1. chamber' = chamber /\ known' = known /\ seat' = seat
  BY DEF floor
<1>2. FloorInv'
  BY <1>1 DEF FloorInv, ChamberHolds, Recorded, SharesRecorded, BillsRecorded, Informed,
              SeatsHeld
<1>3. Grown
  BY <1>1 DEF Grown
<1> QED
  BY <1>2, <1>3

\* Every step of the legislature keeps the invariant.
LEMMA LegislatureSteps ==
  ASSUME FloorInv, LegislatureNext
  PROVE  FloorInv' /\ Grown
<1>1. ASSUME NEW d \in Device, NEW v \in Vote,
             OpenVote(d, v) \/ (\E c \in Choice : Cast(d, v, c)) \/ CloseVote(d, v)
      PROVE  FloorInv' /\ Grown
  BY <1>1, OpenVoteStep, CastStep, CloseVoteStep
<1>2. ASSUME NEW d \in Device, NEW b \in Bill,
             SubmitBill(d, b) \/ AdvanceStage(d, b) \/ Cosponsor(d, b)
      PROVE  FloorInv' /\ Grown
  BY <1>2, SubmitBillStep, AdvanceStageStep, CosponsorStep
<1>3. ASSUME NEW d \in Device, NEW m \in Member, DelegateProxy(d, m)
      PROVE  FloorInv' /\ Grown
  BY <1>3, DelegateProxyStep
<1>4. ASSUME NEW d \in Device, RevokeProxy(d)
      PROVE  FloorInv' /\ Grown
  BY <1>4, RevokeProxyStep
<1> QED
  BY <1>1, <1>2, <1>3, <1>4 DEF LegislatureNext

\* Every step of the bulletin keeps it.
LEMMA BulletinSteps ==
  ASSUME FloorInv, BulletinNext
  PROVE  FloorInv' /\ Grown
<1>1. ASSUME NEW d \in Device, NEW p \in Paper,
             \/ \E presence \in {"none", "present", "remote"} : PostStatus(d, p, presence)
             \/ FileAmendment(d, p) \/ PostNote(d, p) \/ Comment(d, p) \/ ChatSend(d, p)
             \/ AddDocket(d, p) \/ PostAnnouncement(d, p) \/ PostNews(d, p)
      PROVE  FloorInv' /\ Grown
  BY <1>1, PostStatusStep, PostSteps
<1>2. ASSUME NEW d \in Device, NEW h \in Share, ShareLive(d, h) \/ RevokeShare(d, h)
      PROVE  FloorInv' /\ Grown
  BY <1>2, ShareLiveStep, RevokeShareStep
<1>3. ASSUME NEW d \in Device, NEW kid \in Device,
             Secure(d, kid) \/ RevokeDevice(d, kid) \/ UnrevokeDevice(d, kid)
      PROVE  FloorInv' /\ Grown
  BY <1>3, DeviceSteps
<1>4. ASSUME NEW d \in Device, NEW m \in Member,
             \/ RemoveMember(d, m) \/ ResetPin(d, m)
             \/ ToggleFreeze(d, m) \/ ToggleTalk(d, m) \/ ToggleChat(d, m)
             \/ \E chat \in BOOLEAN : AddMember(d, m, chat)
      PROVE  FloorInv' /\ Grown
  BY <1>4, RemoveMemberStep, ResetPinStep, ToggleMemberSteps, AddMemberStep
<1>5. ASSUME NEW d \in Device,
             \/ \E presence \in {"present", "remote"} : CheckIn(d, presence)
             \/ ToggleLock(d) \/ ToggleStun(d) \/ ChatPolicy(d) \/ TalkiePolicy(d)
             \/ ToggleDnd(d) \/ ReleaseSeat(d) \/ ClearDemo(d)
      PROVE  FloorInv' /\ Grown
  BY <1>5, CheckInStep, ToggleSessionSteps, ToggleDndStep, ReleaseSeatStep, ClearDemoStep
<1> QED
  BY <1>1, <1>2, <1>3, <1>4, <1>5 DEF BulletinNext

\* So every step of the floor does.
LEMMA FloorSteps ==
  ASSUME FloorInv, [FloorNext]_floor
  PROVE  FloorInv' /\ Grown
<1>1. CASE LegislatureNext
  BY <1>1, LegislatureSteps
<1>2. CASE BulletinNext
  BY <1>2, BulletinSteps
<1>3. CASE \E d \in Device : \E i \in DOMAIN chamber : Learn(d, chamber[i].n)
  BY <1>3, LearnStep
<1>4. CASE UNCHANGED floor
  BY <1>4, FloorStutters
<1> QED
  BY <1>1, <1>2, <1>3, <1>4 DEF FloorNext

\* Whatever the pages write, the ops of the chamber stay in order.
THEOREM FloorInvariance == FloorSpec => []FloorInv
<1>1. FloorInit => FloorInv
  BY FloorStarts
<1>2. FloorInv /\ [FloorNext]_floor => FloorInv'
  BY FloorSteps
<1> QED
  BY <1>1, <1>2, PTL DEF FloorSpec

\* Whatever is written on whichever devices and learned in whatever order, every
\* device counts each seat's last word, and shows a closed vote with the verdict of
\* the tally beside it.
THEOREM VotesCount == FloorSpec => []VotesCountRight
<1>1. FloorInv => VotesCountRight
  BY TallyFollows, VerdictFollows DEF FloorInv, ChamberHolds, VotesCountRight
<1> QED
  BY <1>1, FloorInvariance, PTL

\* Whatever a device knows to be retracted or revoked it shows so, and every switch
\* stands where the last op that names it put it.
THEOREM RecordsStand == FloorSpec => []RecordsStandAsLeft
<1>1. FloorInv => RecordsStandAsLeft
  BY RetirementFollows, SwitchesFollow DEF FloorInv, ChamberHolds, RecordsStandAsLeft
<1> QED
  BY <1>1, FloorInvariance, PTL

-----------------------------------------------------------------------------
(* Bills go forward *)

\* When every move was made in the knowledge of those before it, each leads on.
LEMMA StagesRise ==
  ASSUME NEW ops, Chronicle(ops), Aware(ops), Stepped(ops), NEW b \in Bill,
         \A i, j \in Moves(ops, b) : i < j => ops[i].n \in ops[j].saw
  PROVE  \A i, j \in Moves(ops, b) : i < j => Rank(ops[i].stage) < Rank(ops[j].stage)
<1> DEFINE Rise(n) == \A i, j \in Moves(ops, b) :
                        i < j /\ j <= n => Rank(ops[i].stage) < Rank(ops[j].stage)
           S == {n \in 0 .. Len(ops) : Rise(n)}
<1>1. /\ Len(ops) \in Nat /\ DOMAIN ops = 1 .. Len(ops)
      /\ Moves(ops, b) \subseteq 1 .. Len(ops)
  BY DEF Chronicle, Moves
<1>2. \A i \in Moves(ops, b) : Rank(ops[i].stage) \in Nat
  <2> SUFFICES ASSUME NEW i \in Moves(ops, b) PROVE Rank(ops[i].stage) \in Nat
    OBVIOUS
  <2>1. ops[i].stage \in LaterStages
    BY Types DEF Moves, Chronicle, Fit
  <2> QED
    BY <2>1, Ranks DEF LaterStages
<1>3. 0 \in S
  BY <1>1
<1>4. ASSUME NEW n \in 1 .. Len(ops), n - 1 \in S
      PROVE  n \in S
  <2> SUFFICES ASSUME NEW i \in Moves(ops, b), NEW j \in Moves(ops, b), i < j, j <= n
               PROVE  Rank(ops[i].stage) < Rank(ops[j].stage)
    OBVIOUS
  <2>1. CASE j <= n - 1
    BY <1>1, <1>4, <2>1
  <2>2. CASE j = n
    <3> DEFINE seen == MovesSeen(ops, b, ops[j].saw)
               last == Max(seen)
    <3>1. i \in seen /\ seen \subseteq 1 .. Len(ops)
      BY <1>1 DEF MovesSeen
    <3>2. last \in seen /\ \A k \in seen : k <= last
      BY <1>1, <3>1, LastOne
    <3> HIDE DEF last
    <3>3. Rank(ops[last].stage) < Rank(ops[j].stage)
      BY <3>2 DEF Stepped, IsLast
    <3>4. last \in Moves(ops, b) /\ ops[last].n \in ops[j].saw
      BY <3>2 DEF MovesSeen
    <3>5. last < j
      BY <3>4 DEF Aware, Moves
    <3>6. CASE i = last
      BY <3>3, <3>6
    <3>7. CASE i < last
      <4>1. Rank(ops[i].stage) < Rank(ops[last].stage)
        BY <1>1, <1>4, <2>2, <3>4, <3>5, <3>7
      <4> QED
        BY <1>2, <3>3, <3>4, <4>1
    <3> QED
      BY <1>1, <3>1, <3>2, <3>6, <3>7
  <2> QED
    BY <1>1, <2>1, <2>2
<1>5. 0 .. Len(ops) \subseteq S
  <2>1. S \in SUBSET Nat
    OBVIOUS
  <2> HIDE DEF S
  <2> QED
    BY <1>1, <1>3, <1>4, <2>1, StepByStep
<1>6. Rise(Len(ops))
  BY <1>1, <1>5
<1> QED
  BY <1>1, <1>6

\* The stage that the fold shows.
LEMMA StageSeen ==
  ASSUME NEW ops, Chronicle(ops), Submitted(ops), NEW has, NEW b \in Bill
  PROVE  LET s == Fold(ops, has)
             moves == MovesSeen(ops, b, has)
             begun == Introduced(ops, has, Len(ops), b)
         IN  /\ \A i : IsLast(i, moves) => /\ StageOf(s, b) = Rank(ops[i].stage)
                                            /\ StageOf(s, b) \in 3 .. 5
             /\ moves = {} /\ begun => StageOf(s, b) = 2
             /\ moves = {} /\ ~begun => StageOf(s, b) = 0
             /\ moves # {} => \E i : IsLast(i, moves)
<1> DEFINE s == Fold(ops, has)
           moves == MovesSeen(ops, b, has)
           begun == Introduced(ops, has, Len(ops), b)
<1>1. BillStands(s, ops, has, Len(ops), b)
  BY FoldStands
<1>2. moves = StagesIn(ops, has, Len(ops), b)
  BY DEF MovesSeen, Moves, StagesIn, Chronicle
<1>3. s.bills[b].stage # "none" => StageOf(s, b) = Rank(s.bills[b].stage)
  BY DEF StageOf, Rank
<1>4. s.bills[b].stage = "none" => StageOf(s, b) = 0
  BY DEF StageOf
<1>5. ASSUME NEW i, IsLast(i, moves)
      PROVE  StageOf(s, b) = Rank(ops[i].stage) /\ StageOf(s, b) \in 3 .. 5
  <2>1. s.bills[b].stage = ops[i].stage
    BY <1>1, <1>2, <1>5 DEF BillStands
  <2>2. ops[i].stage \in LaterStages
    BY <1>5, Types DEF IsLast, MovesSeen, Moves, Chronicle, Fit
  <2>3. ops[i].stage # "none" /\ Rank(ops[i].stage) \in 3 .. 5
    BY <2>2, Ranks DEF LaterStages
  <2> QED
    BY <1>3, <2>1, <2>3
<1>6. moves = {} /\ begun => StageOf(s, b) = 2
  BY <1>1, <1>2, <1>3, Ranks DEF BillStands
<1>7. moves = {} /\ ~begun => StageOf(s, b) = 0
  BY <1>1, <1>2, <1>4 DEF BillStands
<1>8. moves # {} => \E i : IsLast(i, moves)
  <2>1. moves \subseteq 1 .. Len(ops) /\ Len(ops) \in Nat
    BY DEF MovesSeen, Moves, Chronicle
  <2> HIDE DEF moves
  <2> QED
    BY <2>1, LastOne DEF IsLast
<1> HIDE DEF s, moves, begun
<1> QED
  BY <1>5, <1>6, <1>7, <1>8 DEF s, moves, begun

\* More ops never show an earlier stage, where every move leads on.
LEMMA NeverBack ==
  ASSUME NEW ops, Chronicle(ops), Submitted(ops), NEW all, Chronicle(all), Submitted(all),
         \A i \in DOMAIN ops : \E j \in DOMAIN all : all[j] = ops[i],
         NEW has, NEW more, has \subseteq more, NEW b \in Bill,
         \A i, j \in Moves(all, b) : i < j => Rank(all[i].stage) < Rank(all[j].stage)
  PROVE  ~ (StageOf(Fold(all, more), b) < StageOf(Fold(ops, has), b))
<1> DEFINE before == StageOf(Fold(ops, has), b)
           after == StageOf(Fold(all, more), b)
           old == MovesSeen(ops, b, has)
           new == MovesSeen(all, b, more)
<1>1. /\ \A i : IsLast(i, old) => before = Rank(ops[i].stage) /\ before \in 3 .. 5
      /\ old = {} => before = 2 \/ before = 0
      /\ old = {} /\ ~Introduced(ops, has, Len(ops), b) => before = 0
      /\ old # {} => \E i : IsLast(i, old)
  BY StageSeen
<1>2. /\ \A i : IsLast(i, new) => after = Rank(all[i].stage) /\ after \in 3 .. 5
      /\ new = {} => after = 2 \/ after = 0
      /\ new = {} /\ Introduced(all, more, Len(all), b) => after = 2
      /\ new # {} => \E i : IsLast(i, new)
  BY StageSeen
<1>3. Introduced(ops, has, Len(ops), b) => Introduced(all, more, Len(all), b)
  BY DEF Introduced, Chronicle
<1>4. \A i \in old : \E j \in new : all[j] = ops[i]
  BY DEF MovesSeen, Moves
<1>5. new \subseteq Moves(all, b) /\ new \subseteq Nat
  BY DEF MovesSeen, Moves, Chronicle
<1> SUFFICES ~ (after < before)
  OBVIOUS
<1> HIDE DEF before, after, old, new
<1>6. CASE old = {}
  <2>1. CASE new = {}
    BY <1>1, <1>2, <1>3, <1>6, <2>1
  <2>2. CASE new # {}
    BY <1>1, <1>2, <1>6, <2>2
  <2> QED
    BY <2>1, <2>2
<1>7. CASE old # {}
  <2>1. PICK i : IsLast(i, old)
    BY <1>1, <1>7
  <2>2. PICK j \in new : all[j] = ops[i]
    BY <1>4, <2>1 DEF IsLast
  <2>3. PICK l : IsLast(l, new)
    BY <1>2, <2>2
  <2>4. before = Rank(all[j].stage) /\ after = Rank(all[l].stage) /\ before \in 3 .. 5
           /\ after \in 3 .. 5
    BY <1>1, <1>2, <2>1, <2>2, <2>3
  <2>5. l \in new /\ j <= l
    BY <2>2, <2>3 DEF IsLast
  <2>6. j = l \/ before < after
    BY <1>5, <2>2, <2>4, <2>5
  <2> QED
    BY <2>4, <2>6
<1> QED
  BY <1>6, <1>7

\* Two moves of one bill, neither of whose authors knew of the other.
Accident(ops, b) ==
  \E i, j \in DOMAIN ops :
    /\ {ops[i].type, ops[j].type} = {"bill.stage"}
    /\ ops[i].bill = b /\ ops[j].bill = b
    /\ ops[i].by # ops[j].by
    /\ ops[i].n \notin ops[j].saw
    /\ ops[j].n \notin ops[i].saw

\* Without an accident every move was made in the knowledge of those before it.
LEMMA MovesFollow ==
  ASSUME NEW ops, Chronicle(ops), Aware(ops), OwnMovesSeen(ops), NEW b \in Bill,
         ~Accident(ops, b)
  PROVE  \A i, j \in Moves(ops, b) : i < j => ops[i].n \in ops[j].saw
<1> SUFFICES ASSUME NEW i \in Moves(ops, b), NEW j \in Moves(ops, b), i < j
             PROVE  ops[i].n \in ops[j].saw
  OBVIOUS
<1>1. i \in DOMAIN ops /\ j \in DOMAIN ops /\ i \in Nat /\ j \in Nat
  BY DEF Moves, Chronicle
<1>2. CASE ops[i].by = ops[j].by
  BY <1>2 DEF OwnMovesSeen
<1>3. CASE ops[i].by # ops[j].by
  <2>1. ops[i].n \in ops[j].saw \/ ops[j].n \in ops[i].saw
    BY <1>1, <1>3 DEF Accident, Moves
  <2>2. ~ (ops[j].n \in ops[i].saw)
    <3>1. ops[j].n \in ops[i].saw => j < i
      BY <1>1 DEF Aware
    <3> QED
      BY <1>1, <3>1
  <2> QED
    BY <2>1, <2>2
<1> QED
  BY <1>2, <1>3

\* A bill goes back on a device only where two devices moved it along unaware of
\* each other.
THEOREM BillsGoForward == FloorSpec => BillsGoBackOnlyByAccident
<1> DEFINE Step == \A d \in Device : LET s == Shown(d) IN \A b \in Bill :
                     StageOf(Shown(d)', b) < StageOf(s, b) =>
                       \E i, j \in DOMAIN chamber' :
                         /\ {chamber'[i].type, chamber'[j].type} = {"bill.stage"}
                         /\ chamber'[i].bill = b /\ chamber'[j].bill = b
                         /\ chamber'[i].by # chamber'[j].by
                         /\ chamber'[i].n \notin chamber'[j].saw
                         /\ chamber'[j].n \notin chamber'[i].saw
<1>1. ASSUME FloorInv, FloorInv', Grown
      PROVE  Step
  <2> SUFFICES ASSUME NEW d \in Device, NEW b \in Bill, ~Accident(chamber', b)
               PROVE  ~ (StageOf(Shown(d)', b) < StageOf(Shown(d), b))
    BY DEF Accident
  <2>1. Chronicle(chamber) /\ Submitted(chamber)
    BY <1>1 DEF FloorInv, ChamberHolds, Recorded, BillsRecorded
  <2>2. /\ Chronicle(chamber') /\ Submitted(chamber')
        /\ Aware(chamber') /\ Stepped(chamber') /\ OwnMovesSeen(chamber')
    BY <1>1 DEF FloorInv, ChamberHolds, Recorded, BillsRecorded
  <2>3. \A i, j \in Moves(chamber', b) : i < j => chamber'[i].n \in chamber'[j].saw
    BY <2>2, MovesFollow
  <2>4. \A i, j \in Moves(chamber', b) :
          i < j => Rank(chamber'[i].stage) < Rank(chamber'[j].stage)
    BY <2>2, <2>3, StagesRise
  <2>5. ~ (StageOf(Fold(chamber', known'[d]), b) < StageOf(Fold(chamber, known[d]), b))
    BY <1>1, <2>1, <2>2, <2>4, NeverBack DEF Grown
  <2> QED
    BY <2>5 DEF Shown
<1>2. FloorInv /\ [FloorNext]_floor => [Step]_floor
  <2> SUFFICES ASSUME FloorInv, [FloorNext]_floor PROVE Step
    OBVIOUS
  <2> QED
    BY <1>1, FloorSteps
<1>3. [][Step]_floor => BillsGoBackOnlyByAccident
  BY DEF BillsGoBackOnlyByAccident
<1> QED
  BY <1>2, <1>3, FloorInvariance, PTL DEF FloorSpec
=============================================================================
