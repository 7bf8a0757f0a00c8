--------------------------- MODULE ReplicationProofs ---------------------------
(***************************************************************************)
(* What devices keep of each other's ops, proved for any number of devices *)
(* and any chamber: the records are sound, and together they are a record  *)
(* in the sense of RecordKeeping.                                          *)
(*                                                                         *)
(* A name is unique because of where an author numbers from.  Dated says   *)
(* that every copy of an op, wherever it is, was numbered in an earlier    *)
(* life of its author or is not above the author's counter; Sealed, that   *)
(* an op without its signature is on its author's device only; Intact,     *)
(* that without a torn restart the storage follows the log, so that a      *)
(* restart numbers from where the last life stopped.                       *)
(***************************************************************************)
EXTENDS Replication, FiniteSetTheorems, WellFoundedInduction, TLAPS

Packet == [op : Op, signed : BOOLEAN, from : Replica, to : Replica]
Stored == [ops : SUBSET Op, seq : 0 .. LastSeq]
Digest == [Replica -> -1 .. LastSeq]

Shape ==
  /\ site \in Sites /\ wire \subseteq Packet /\ drops \in 0 .. site.drops
  /\ log \in [Replica -> SUBSET Op] /\ unsigned \in [Replica -> SUBSET Op]
  /\ quarantine \in [Replica -> SUBSET Op] /\ disk \in [Replica -> Stored]
  /\ seq \in [Replica -> 0 .. LastSeq] /\ lives \in [Replica -> 0 .. MaxLives]
  /\ knows \in [Replica -> SUBSET Replica] /\ opened \in [Replica -> SUBSET Replica]
  /\ asked \in [Replica -> [Replica -> Digest \cup {NoDigest}]]

Linked ==
  /\ \A r, s \in Replica : s \in opened[r] => {r, s} \in site.reach
  /\ \A r, s \in Replica : asked[r][s] # NoDigest => s \in opened[r]
  /\ \A m \in wire : m.to \in opened[m.from]

Copies(r) == log[r] \cup quarantine[r] \cup disk[r].ops
Somewhere(o) == (\E r \in Replica : o \in Copies(r)) \/ \E m \in wire : m.op = o

Dated(o) == o.life <= lives[o.actor] /\ (o.life = lives[o.actor] => o.seq <= seq[o.actor])
Dating == \A o \in Op : Somewhere(o) => Dated(o)

Sealed ==
  \A r \in Replica : \A o \in unsigned[r] :
    /\ o.actor = r /\ o \in log[r]
    /\ \A s \in Replica \ {r} : o \notin Copies(s)
    /\ \A m \in wire : m.signed => m.op # o

Logged(o) == \E r \in Replica : o \in log[r]

\* The storage of r has what r's log has, and r's seq once nothing is being signed.
Follows(r) ==
  /\ disk[r].ops = log[r] \ unsigned[r]
  /\ unsigned[r] = {} => disk[r].seq = seq[r]

Intact ==
  ~site.torn =>
    /\ \A r \in Replica : Follows(r)
    /\ \A o \in Op : Logged(o) => o.seq <= seq[o.actor]
    /\ \A o \in Op : Somewhere(o) => Logged(o)
    /\ \A o, p \in Op : Logged(o) /\ Logged(p) /\ SameKey(o, p) => o = p

Known ==
  \A r \in Replica : lives[r] = 0 =>
    \A o \in log[r] : o.body = "announce" => o.actor \in knows[r]

Books == Dating /\ Sealed /\ Intact
Sound == Shape /\ Linked /\ Books /\ Known

-----------------------------------------------------------------------------
(* Operators *)

LEMMA Least ==
  ASSUME NEW S \in SUBSET Nat, S # {}
  PROVE  \E n \in S : \A k \in S : n <= k
<1> DEFINE R == OpToRel(<, Nat)
<1>1. IsWellFoundedOn(R, Nat)
  BY NatLessThanWellFounded DEF OpToRel
<1>2. \A x, y \in Nat : y < x => <<y, x>> \in R
  BY DEF OpToRel
<1> HIDE DEF R
<1>3. PICK n \in S : \A k \in S : ~ (<<k, n>> \in R)
  BY <1>1, WFMin
<1>4. \A k \in S : ~ (k < n)
  BY <1>2, <1>3
<1> QED
  BY <1>3, <1>4

LEMMA HighestOf ==
  ASSUME NEW n \in Nat, NEW ns \in SUBSET (-1 .. n), ns # {}
  PROVE  Highest(ns) \in ns /\ \A k \in ns : k <= Highest(ns)
<1> DEFINE below == {n - k : k \in ns}
<1>1. below \in SUBSET Nat /\ below # {}
  <2>1. \A k \in ns : n - k \in Nat
    OBVIOUS
  <2> QED
    BY <2>1
<1>2. PICK least \in below : \A k \in below : least <= k
  BY <1>1, Least
<1>3. PICK top \in ns : least = n - top
  BY <1>2
<1>4. \A k \in ns : n - k \in below
  OBVIOUS
<1>5. \A k \in ns : k <= top
  BY <1>2, <1>3, <1>4
<1> QED
  BY <1>3, <1>5 DEF Highest

LEMMA OpFields ==
  ASSUME NEW o \in Op
  PROVE  /\ o.actor \in Replica /\ o.seq \in 0 .. LastSeq /\ o.seq \in Nat
         /\ o.life \in 0 .. MaxLives /\ o.life \in Nat
BY BoundsAssumption DEF Op

LEMMA NewOps ==
  ASSUME NEW r \in Replica, NEW n \in 0 .. LastSeq, NEW life \in 0 .. MaxLives
  PROVE  /\ Announce(r, n, life) \in Op /\ Act(r, n, life) \in Op
         /\ \A o \in {Announce(r, n, life), Act(r, n, life)} :
              o.actor = r /\ o.seq = n /\ o.life = life
         /\ Announce(r, n, life).body = "announce" /\ Act(r, n, life).body = "act"
BY DEF Announce, Act, Op

LEMMA SeqsType ==
  ASSUME NEW ops \in SUBSET Op, NEW a
  PROVE  /\ SeqsOf(a, ops) \in SUBSET (0 .. LastSeq)
         /\ \A o \in ops : o.actor = a => o.seq \in SeqsOf(a, ops)
BY OpFields DEF SeqsOf

LEMMA AdvertisedType ==
  ASSUME Shape, NEW r \in Replica
  PROVE  Advertised(r) \in Digest
<1>1. ASSUME NEW a \in Replica PROVE Frontier(a, log[r]) \in -1 .. LastSeq
  <2> DEFINE ns == {-1} \cup {n \in SeqsOf(a, log[r]) : \A k \in 0 .. n : k \in SeqsOf(a, log[r])}
  <2>1. SeqsOf(a, log[r]) \in SUBSET (0 .. LastSeq)
    BY SeqsType DEF Shape
  <2>2. LastSeq \in Nat
    BY BoundsAssumption
  <2>3. ns \in SUBSET (-1 .. LastSeq) /\ ns # {}
    BY <2>1, <2>2
  <2> HIDE DEF ns
  <2>4. Highest(ns) \in ns
    BY <2>2, <2>3, HighestOf
  <2>5. Frontier(a, log[r]) = Highest(ns)
    BY DEF Frontier, ns
  <2> QED
    BY <2>3, <2>4, <2>5
<1> QED
  BY <1>1 DEF Advertised, Digest

\* Where a device numbers from after a restart.
LEMMA ResumedIs ==
  ASSUME Shape, NEW r \in Replica
  PROVE  /\ Resumed(r) \in 0 .. LastSeq /\ disk[r].seq <= Resumed(r)
         /\ \A o \in disk[r].ops : o.actor = r => o.seq <= Resumed(r)
<1> DEFINE ns == {disk[r].seq} \cup SeqsOf(r, disk[r].ops)
<1>1. disk[r].ops \in SUBSET Op /\ disk[r].seq \in 0 .. LastSeq
  BY DEF Shape, Stored
<1>2. LastSeq \in Nat
  BY BoundsAssumption
<1>3. SeqsOf(r, disk[r].ops) \in SUBSET (0 .. LastSeq)
  BY <1>1, SeqsType
<1>4. ns \in SUBSET (-1 .. LastSeq) /\ ns \in SUBSET (0 .. LastSeq) /\ ns # {} /\ disk[r].seq \in ns
  BY <1>1, <1>2, <1>3
<1>5. \A o \in disk[r].ops : o.actor = r => o.seq \in ns
  BY <1>1, SeqsType
<1>6. Resumed(r) = Highest(ns)
  BY DEF Resumed
<1> HIDE DEF ns
<1>7. Highest(ns) \in ns /\ \A k \in ns : k <= Highest(ns)
  BY <1>2, <1>4, HighestOf
<1> QED
  BY <1>4, <1>5, <1>6, <1>7

\* A function over the devices, changed at r.
LEMMA ChangedAt ==
  ASSUME NEW S, NEW f \in [Replica -> S], NEW r \in Replica, NEW e \in S,
         NEW g, g = [f EXCEPT ![r] = e]
  PROVE  g \in [Replica -> S] /\ g[r] = e /\ \A s \in Replica \ {r} : g[s] = f[s]
OBVIOUS

LEMMA PacketFields ==
  ASSUME NEW m \in Packet
  PROVE  m.op \in Op /\ m.signed \in BOOLEAN /\ m.from \in Replica /\ m.to \in Replica
BY DEF Packet

LEMMA PacketsAre ==
  ASSUME NEW r \in Replica, NEW ops \in SUBSET Op, NEW to \in SUBSET Replica,
         NEW m \in Packets(r, ops, to)
  PROVE  m \in Packet /\ m.op \in ops /\ m.from = r /\ m.to \in to
         /\ (m.signed <=> m.op \notin unsigned[r])
<1>1. PICK o \in ops, s \in to : m = [op |-> o, signed |-> Signed(r, o), from |-> r, to |-> s]
  BY DEF Packets
<1>2. Signed(r, o) \in BOOLEAN
  BY DEF Signed
<1>3. m.op = o /\ m.from = r /\ m.to = s /\ m.signed = Signed(r, o)
  BY <1>1
<1>4. m \in Packet
  BY <1>1, <1>2 DEF Packet
<1> QED
  BY <1>3, <1>4 DEF Signed

-----------------------------------------------------------------------------
(* At first *)

LEMMA SoundAtFirst == Init => Sound
<1> SUFFICES ASSUME Init
             PROVE  Sound
  OBVIOUS
<1>1. /\ site \in Sites /\ site \in Site /\ site.absent \subseteq Settled /\ Settled \subseteq Replica
      /\ 0 \in 0 .. LastSeq /\ 1 \in 0 .. LastSeq /\ 0 \in 0 .. MaxLives
  <2>1. site \in Sites /\ site \in Site /\ site.absent \subseteq site.devices \ site.newcomers
    BY SiteAssumption DEF Init
  <2>2. site.devices \in SUBSET Replica
    BY <2>1 DEF Site
  <2> QED
    BY <2>1, <2>2, BoundsAssumption DEF Settled
<1>2. \A r \in Replica : /\ Inherited(r) \subseteq Op
                         /\ Announce(r, 0, 0) \in Inherited(r)
                         /\ SeqsOf(r, Inherited(r)) # {}
  <2> TAKE r \in Replica
  <2>1. Inherited(r) \subseteq Op
    <3>1. \A s \in Replica : Announce(s, 0, 0) \in Op /\ Act(s, 1, 0) \in Op
      BY <1>1, NewOps
    <3>2. Parting(r) \subseteq Op
      BY <1>1, <3>1 DEF Parting
    <3> QED
      BY <1>1, <3>1, <3>2 DEF Inherited
  <2>2. Announce(r, 0, 0) \in Inherited(r)
    BY DEF Inherited
  <2>3. Announce(r, 0, 0).actor = r
    BY DEF Announce
  <2> QED
    BY <2>1, <2>2, <2>3, SeqsType
<1>3. \A r \in Replica : /\ seq[r] \in 0 .. LastSeq
                         /\ \A o \in Inherited(r) : o.actor = r => o.seq <= seq[r]
  <2> TAKE r \in Replica
  <2> DEFINE ns == SeqsOf(r, Inherited(r))
  <2>1. /\ ns \in SUBSET (0 .. LastSeq) /\ ns # {}
        /\ \A o \in Inherited(r) : o.actor = r => o.seq \in ns
    BY <1>2, SeqsType
  <2>2. seq[r] = Highest(ns)
    BY DEF Init
  <2> HIDE DEF ns
  <2>3. LastSeq \in Nat /\ ns \in SUBSET (-1 .. LastSeq)
    BY <2>1, BoundsAssumption
  <2>4. Highest(ns) \in ns /\ \A k \in ns : k <= Highest(ns)
    BY <2>1, <2>3, HighestOf
  <2> QED
    BY <2>1, <2>2, <2>4
<1>4. /\ log \in [Replica -> SUBSET Op] /\ unsigned \in [Replica -> SUBSET Op]
      /\ quarantine \in [Replica -> SUBSET Op] /\ seq \in [Replica -> 0 .. LastSeq]
      /\ lives \in [Replica -> 0 .. MaxLives] /\ knows \in [Replica -> SUBSET Replica]
      /\ wire = {}
      /\ \A r \in Replica : /\ log[r] = Inherited(r) /\ unsigned[r] = {} /\ quarantine[r] = {}
                            /\ lives[r] = 0
                            /\ disk[r].ops = Inherited(r) /\ disk[r].seq = seq[r]
  BY <1>1, <1>2, <1>3 DEF Init
<1>5. /\ disk \in [Replica -> Stored] /\ opened \in [Replica -> SUBSET Replica]
      /\ asked \in [Replica -> [Replica -> Digest \cup {NoDigest}]]
  <2>1. \A r \in Replica : [ops |-> log[r], seq |-> seq[r]] \in Stored
    BY <1>4 DEF Stored
  <2>2. disk \in [Replica -> Stored]
    BY <2>1 DEF Init
  <2> QED
    BY <1>1, <2>2 DEF Init
<1>6. drops \in 0 .. site.drops
  BY <1>1 DEF Init, Site
<1>7. Linked
  <2>1. \A r, s \in Replica : asked[r][s] = NoDigest
    BY DEF Init
  <2>2. \A r, s \in Replica : s \in opened[r] => {r, s} \in site.reach
    BY DEF Init
  <2> QED
    BY <1>4, <2>1, <2>2 DEF Linked
<1>8. \A r \in Replica : \A o \in Inherited(r) :
        /\ o.actor \in Replica /\ o \in Inherited(o.actor) /\ o.life = 0
        /\ o.body = "announce" => o = Announce(o.actor, 0, 0) /\ o.actor \in knows[r]
        /\ o.body # "announce" => o = Act(o.actor, 1, 0)
  <2> SUFFICES ASSUME NEW r \in Replica, NEW o \in Inherited(r)
               PROVE  /\ o.actor \in Replica /\ o \in Inherited(o.actor) /\ o.life = 0
                      /\ o.body = "announce" => o = Announce(o.actor, 0, 0) /\ o.actor \in knows[r]
                      /\ o.body # "announce" => o = Act(o.actor, 1, 0)
    OBVIOUS
  <2>1. knows[r] = IF r \in Settled THEN Settled ELSE {r}
    BY DEF Init
  <2>2. CASE \E s \in Replica : o = Announce(s, 0, 0) /\ s \in knows[r]
    <3>1. PICK s \in Replica : o = Announce(s, 0, 0) /\ s \in knows[r]
      BY <2>2
    <3>2. o.actor = s /\ o.life = 0 /\ o.body = "announce"
      BY <3>1 DEF Announce
    <3> QED
      BY <1>2, <3>1, <3>2
  <2>3. CASE o \in Parting(r) /\ r \in Settled
    <3>1. PICK x \in site.absent : o = Act(x, 1, 0)
      BY <2>3 DEF Parting
    <3>2. o.actor = x /\ o.life = 0 /\ o.body = "act"
      BY <3>1 DEF Act
    <3>3. x \in Settled /\ x \in Replica
      BY <1>1
    <3>4. o \in Parting(x)
      BY <3>1 DEF Parting
    <3>5. o \in Inherited(x)
      BY <3>3, <3>4 DEF Inherited
    <3> QED
      BY <3>1, <3>2, <3>3, <3>5
  <2> QED
    BY <1>1, <2>1, <2>2, <2>3 DEF Inherited
<1>9. Known
  BY <1>4, <1>8 DEF Known
<1>10. \A o : Somewhere(o) <=> Logged(o)
  BY <1>4 DEF Somewhere, Logged, Copies
<1>11. \A o \in Op : Logged(o) => o \in Inherited(o.actor) /\ o.life = 0 /\ o.seq <= seq[o.actor]
  BY <1>3, <1>4, <1>8 DEF Logged
<1>12. Dating
  BY <1>4, <1>10, <1>11, OpFields DEF Dating, Dated
<1>13. Sealed
  BY <1>4 DEF Sealed
<1>14. \A o, p \in Op : Logged(o) /\ Logged(p) /\ SameKey(o, p) => o = p
  <2> SUFFICES ASSUME NEW o \in Op, NEW p \in Op, Logged(o), Logged(p), SameKey(o, p)
               PROVE  o = p
    OBVIOUS
  <2>1. o.actor = p.actor /\ o.seq = p.seq
    BY DEF SameKey
  <2>2. /\ o = Announce(o.actor, 0, 0) \/ o = Act(o.actor, 1, 0)
        /\ p = Announce(p.actor, 0, 0) \/ p = Act(p.actor, 1, 0)
    BY <1>4, <1>8 DEF Logged
  <2>3. \A r : Announce(r, 0, 0).seq = 0 /\ Act(r, 1, 0).seq = 1
    BY DEF Announce, Act
  <2> QED
    BY <2>1, <2>2, <2>3
<1>15. Intact
  BY <1>4, <1>10, <1>11, <1>14 DEF Intact, Follows
<1> QED
  BY <1>1, <1>4, <1>5, <1>6, <1>7, <1>9, <1>12, <1>13, <1>15 DEF Sound, Shape, Books

-----------------------------------------------------------------------------
(* The books, step by step *)

LEMMA OpsTyped ==
  ASSUME Shape, NEW r \in Replica
  PROVE  /\ log[r] \subseteq Op /\ unsigned[r] \subseteq Op /\ quarantine[r] \subseteq Op
         /\ disk[r].ops \subseteq Op /\ disk[r].seq \in 0 .. LastSeq /\ Copies(r) \subseteq Op
         /\ seq[r] \in Nat /\ seq[r] \in 0 .. LastSeq /\ lives[r] \in Nat /\ lives[r] \in 0 .. MaxLives
         /\ LastSeq \in Nat /\ MaxLives \in Nat
<1>1. LastSeq \in Nat /\ MaxLives \in Nat
  BY BoundsAssumption
<1>2. seq[r] \in 0 .. LastSeq /\ lives[r] \in 0 .. MaxLives
  BY DEF Shape
<1>3. /\ log[r] \subseteq Op /\ unsigned[r] \subseteq Op /\ quarantine[r] \subseteq Op
      /\ disk[r].ops \subseteq Op /\ disk[r].seq \in 0 .. LastSeq
  BY DEF Shape, Stored
<1> QED
  BY <1>1, <1>2, <1>3 DEF Copies

LEMMA StaysDated ==
  ASSUME NEW o \in Op, Dated(o), o.actor \in Replica, o.seq \in Nat, o.life \in Nat,
         lives[o.actor] \in Nat, lives'[o.actor] \in Nat, seq[o.actor] \in Nat, seq'[o.actor] \in Nat,
         \/ lives'[o.actor] = lives[o.actor] /\ seq'[o.actor] >= seq[o.actor]
         \/ lives'[o.actor] > lives[o.actor]
  PROVE  Dated(o)'
BY DEF Dated

\* Nothing is written; what is sent on is in a log already.
LEMMA CarriedOn ==
  ASSUME Shape, Books,
         UNCHANGED <<site, log, unsigned, seq, quarantine, disk, lives>>,
         \A m \in wire' : \/ m \in wire
                          \/ /\ Logged(m.op)
                             /\ m.signed => \A r \in Replica : m.op \notin unsigned[r]
  PROVE  Books'
<1>1. \A o : Logged(o)' <=> Logged(o)
  BY DEF Logged
<1>2. \A o : Somewhere(o)' => Somewhere(o)
  BY DEF Somewhere, Logged, Copies
<1>3. \A o : Dated(o)' <=> Dated(o)
  BY DEF Dated
<1>4. Dating'
  BY <1>2, <1>3 DEF Books, Dating
<1>5. Sealed'
  <2> SUFFICES ASSUME NEW r \in Replica, NEW o \in unsigned[r]
               PROVE  /\ o.actor = r /\ o \in log[r]
                      /\ \A s \in Replica \ {r} : o \notin Copies(s)
                      /\ \A m \in wire' : m.signed => m.op # o
    BY DEF Sealed, Copies
  <2>1. /\ o.actor = r /\ o \in log[r]
        /\ \A s \in Replica \ {r} : o \notin Copies(s)
        /\ \A m \in wire : m.signed => m.op # o
    BY DEF Books, Sealed
  <2> QED
    BY <2>1
<1>6. Intact'
  BY <1>1, <1>2 DEF Books, Intact, Follows
<1> QED
  BY <1>4, <1>5, <1>6 DEF Books

\* What writing an op comes to: a new op, unless in a torn chamber its name is
\* taken.
Wrote(r, o, new) ==
  /\ new \subseteq {o}
  /\ o.actor = r /\ o.body = "act" /\ o.seq = seq'[r] /\ o.life = lives[r]
  /\ seq'[r] = seq[r] + 1 /\ seq'[r] \in 0 .. LastSeq /\ ~Somewhere(o)
  /\ seq' \in [Replica -> 0 .. LastSeq] /\ \A s \in Replica \ {r} : seq'[s] = seq[s]
  /\ log' \in [Replica -> SUBSET Op] /\ log'[r] = log[r] \cup new
  /\ \A s \in Replica \ {r} : log'[s] = log[s]
  /\ unsigned' \in [Replica -> SUBSET Op] /\ unsigned'[r] = unsigned[r] \cup new
  /\ \A s \in Replica \ {r} : unsigned'[s] = unsigned[s]
  /\ ~site.torn => new = {o}

LEMMA WritingIs ==
  ASSUME Shape, Books, NEW r \in Replica, WriteAt(r), lives' = lives
  PROVE  \E o \in Op, new \in SUBSET Op : Wrote(r, o, new)
<1> DEFINE o == Act(r, seq[r] + 1, lives[r])
           new == IF \E p \in log[r] : SameKey(o, p) THEN {} ELSE {o}
<1>1. /\ seq[r] \in Nat /\ seq[r] + 1 \in 0 .. LastSeq /\ lives[r] \in 0 .. MaxLives /\ lives[r] \in Nat
      /\ log[r] \subseteq Op /\ unsigned[r] \subseteq Op
  BY OpsTyped DEF WriteAt
<1>2. /\ seq' = [seq EXCEPT ![r] = seq[r] + 1] /\ log' = [log EXCEPT ![r] = Written(log[r], o)]
      /\ unsigned' = [unsigned EXCEPT ![r] = unsigned[r] \cup (log'[r] \ log[r])]
  BY DEF WriteAt
<1>3. o \in Op /\ o.actor = r /\ o.seq = seq[r] + 1 /\ o.life = lives[r] /\ o.body = "act"
  BY <1>1, NewOps
<1>4. Written(log[r], o) = log[r] \cup new /\ new \in SUBSET {o}
  BY DEF Written
<1>5. ~Dated(o)
  BY <1>1, <1>3 DEF Dated
<1>6. ~Somewhere(o)
  BY <1>3, <1>5 DEF Books, Dating
<1>7. ~site.torn => new = {o}
  <2> SUFFICES ASSUME ~site.torn, NEW p \in log[r], SameKey(o, p)
               PROVE  FALSE
    OBVIOUS
  <2>1. p \in Op /\ Logged(p) /\ p.actor = r /\ p.seq = seq[r] + 1
    BY <1>1, <1>3 DEF SameKey, Logged
  <2>2. p.seq <= seq[p.actor]
    BY <2>1 DEF Books, Intact
  <2> QED
    BY <1>1, <2>1, <2>2
<1> HIDE DEF o, new
<1>8. seq' \in [Replica -> 0 .. LastSeq] /\ seq'[r] = seq[r] + 1 /\ \A s \in Replica \ {r} : seq'[s] = seq[s]
  BY <1>1, <1>2 DEF Shape
<1>9. /\ log' \in [Replica -> SUBSET Op] /\ log'[r] = log[r] \cup new
      /\ \A s \in Replica \ {r} : log'[s] = log[s]
  BY <1>1, <1>2, <1>3, <1>4 DEF Shape
<1>10. o \notin log[r]
  BY <1>6 DEF Somewhere, Copies
<1>11. log'[r] \ log[r] = new
  BY <1>4, <1>9, <1>10
<1>12. /\ unsigned' \in [Replica -> SUBSET Op] /\ unsigned'[r] = unsigned[r] \cup new
       /\ \A s \in Replica \ {r} : unsigned'[s] = unsigned[s]
  BY <1>1, <1>2, <1>3, <1>4, <1>11 DEF Shape
<1>13. Wrote(r, o, new)
  BY <1>1, <1>3, <1>4, <1>6, <1>7, <1>8, <1>9, <1>12 DEF Wrote
<1> QED
  BY <1>3, <1>4, <1>13

LEMMA WritingKeeps ==
  ASSUME Shape, Books, NEW r \in Replica, WriteAt(r),
         UNCHANGED <<site, quarantine, disk, lives, wire>>
  PROVE  Books'
<1>0. site' = site /\ disk' = disk /\ lives' = lives /\ quarantine' = quarantine /\ wire' = wire
  OBVIOUS
<1>p. PICK o \in Op, new \in SUBSET Op : Wrote(r, o, new)
  BY <1>0, WritingIs
<1>1. /\ new \subseteq {o}
      /\ o.actor = r /\ o.body = "act" /\ o.seq = seq'[r] /\ o.life = lives[r]
      /\ seq'[r] = seq[r] + 1 /\ seq'[r] \in 0 .. LastSeq /\ ~Somewhere(o)
      /\ seq' \in [Replica -> 0 .. LastSeq] /\ \A s \in Replica \ {r} : seq'[s] = seq[s]
      /\ log' \in [Replica -> SUBSET Op] /\ log'[r] = log[r] \cup new
      /\ \A s \in Replica \ {r} : log'[s] = log[s]
      /\ unsigned' \in [Replica -> SUBSET Op] /\ unsigned'[r] = unsigned[r] \cup new
      /\ \A s \in Replica \ {r} : unsigned'[s] = unsigned[s]
      /\ ~site.torn => new = {o}
  BY <1>p DEF Wrote
<1>2. \A s \in Replica : seq[s] \in Nat /\ seq'[s] \in Nat /\ seq'[s] >= seq[s] /\ lives[s] \in Nat
  BY <1>1, OpsTyped
<1>3. \A p \in Op : Dated(p) => Dated(p)'
  BY <1>0, <1>2, OpFields, StaysDated
<1>4. \A p : Somewhere(p)' => Somewhere(p) \/ p = o
  BY <1>1 DEF Somewhere, Copies
<1>5. \A s \in Replica : \A p \in Copies(s)' : p \in Copies(s) \/ (p = o /\ s = r)
  BY <1>1 DEF Copies
<1>6. Dated(o)'
  BY <1>0, <1>1, <1>2 DEF Dated
<1>7. Dating'
  BY <1>3, <1>4, <1>6 DEF Books, Dating
<1>8. Sealed'
  <2> SUFFICES ASSUME NEW q \in Replica, NEW p \in unsigned'[q]
               PROVE  /\ p.actor = q /\ p \in log'[q]
                      /\ \A s \in Replica \ {q} : p \notin Copies(s)'
                      /\ \A m \in wire : m.signed => m.op # p
    BY DEF Sealed
  <2>1. CASE p \in unsigned[q]
    <3>1. /\ p.actor = q /\ p \in log[q]
          /\ \A s \in Replica \ {q} : p \notin Copies(s)
          /\ \A m \in wire : m.signed => m.op # p
      BY <2>1 DEF Books, Sealed
    <3>2. p \in log'[q]
      BY <1>1, <3>1
    <3>3. p # o
      BY <1>1, <3>1 DEF Somewhere, Copies
    <3> QED
      BY <1>5, <3>1, <3>2, <3>3
  <2>2. CASE p = o /\ q = r /\ o \in new
    <3>1. o \in log'[r]
      BY <1>1, <2>2
    <3>2. \A s \in Replica : o \notin Copies(s)
      BY <1>1 DEF Somewhere
    <3>3. \A m \in wire : m.op # o
      BY <1>1 DEF Somewhere
    <3> QED
      BY <1>1, <1>5, <2>2, <3>1, <3>2, <3>3
  <2> QED
    BY <1>1, <2>1, <2>2
<1>9. Intact'
  <2> SUFFICES ASSUME ~site.torn
               PROVE  /\ \A s \in Replica : Follows(s)'
                      /\ \A p \in Op : Logged(p)' => p.seq <= seq'[p.actor]
                      /\ \A p \in Op : Somewhere(p)' => Logged(p)'
                      /\ \A p, q \in Op : Logged(p)' /\ Logged(q)' /\ SameKey(p, q) => p = q
    BY <1>0 DEF Intact
  <2>1. /\ \A s \in Replica : Follows(s)
        /\ \A p \in Op : Logged(p) => p.seq <= seq[p.actor]
        /\ \A p \in Op : Somewhere(p) => Logged(p)
        /\ \A p, q \in Op : Logged(p) /\ Logged(q) /\ SameKey(p, q) => p = q
    BY DEF Books, Intact
  <2>2. \A p : Logged(p)' <=> Logged(p) \/ p = o
    BY <1>1 DEF Logged
  <2>3. ASSUME NEW s \in Replica PROVE Follows(s)'
    <3>1. CASE s = r
      <4>1. o \notin log[r] /\ o \in unsigned'[r]
        BY <1>1 DEF Somewhere, Copies
      <4>2. log'[r] \ unsigned'[r] = log[r] \ unsigned[r]
        BY <1>1, <4>1
      <4> QED
        BY <1>0, <2>1, <3>1, <4>1, <4>2 DEF Follows
    <3>2. CASE s # r
      BY <1>0, <1>1, <2>1, <3>2 DEF Follows
    <3> QED
      BY <3>1, <3>2
  <2>4. ASSUME NEW p \in Op, Logged(p)' PROVE p.seq <= seq'[p.actor]
    <3>1. p.actor \in Replica /\ p.seq \in Nat
      BY OpFields
    <3>2. CASE Logged(p)
      BY <1>2, <2>1, <3>1, <3>2
    <3>3. CASE p = o
      BY <1>1, <1>2, <3>1, <3>3
    <3> QED
      BY <2>2, <2>4, <3>2, <3>3
  <2>5. ASSUME NEW p \in Op, NEW q \in Op, Logged(p), SameKey(p, o) \/ SameKey(o, p) PROVE FALSE
    <3>1. p.actor = r /\ p.seq = seq[r] + 1
      BY <1>1, <2>5 DEF SameKey
    <3>2. p.seq <= seq[r]
      BY <2>1, <2>5, <3>1
    <3> QED
      BY <1>2, <3>1, <3>2
  <2>6. \A p \in Op : Somewhere(p)' => Logged(p)'
    BY <1>4, <2>1, <2>2
  <2>7. \A p, q \in Op : Logged(p)' /\ Logged(q)' /\ SameKey(p, q) => p = q
    BY <2>1, <2>2, <2>5
  <2> QED
    BY <2>3, <2>4, <2>6, <2>7
<1> QED
  BY <1>7, <1>8, <1>9 DEF Books

LEMMA FlushIs ==
  ASSUME Shape, NEW r \in Replica, log'[r] \subseteq Op, seq'[r] \in 0 .. LastSeq,
         Flush(r) \/ disk' = [disk EXCEPT ![r] = Saved(r)]
  PROVE  /\ disk' \in [Replica -> Stored] /\ \A s \in Replica \ {r} : disk'[s] = disk[s]
         /\ disk'[r].ops \subseteq disk[r].ops \cup log'[r]
         /\ \A o \in disk'[r].ops : o \in disk[r].ops \/ o \notin unsigned'[r]
         /\ ~site.torn => disk'[r].ops = log'[r] \ unsigned'[r] /\ disk'[r].seq = seq'[r]
<1>1. Saved(r) \in Stored /\ Saved(r).ops = log'[r] \ unsigned'[r] /\ Saved(r).seq = seq'[r]
  BY DEF Saved, Stored
<1>2. disk \in [Replica -> Stored]
  BY DEF Shape
<1>3. CASE disk' = disk /\ site.torn
  BY <1>2, <1>3
<1>4. CASE disk' = [disk EXCEPT ![r] = Saved(r)]
  <2>1. disk' \in [Replica -> Stored] /\ disk'[r] = Saved(r) /\ \A s \in Replica \ {r} : disk'[s] = disk[s]
    BY <1>1, <1>2, <1>4, ChangedAt
  <2> QED
    BY <1>1, <2>1
<1> QED
  BY <1>3, <1>4 DEF Flush

LEMMA ReleaseKeeps ==
  ASSUME Shape, Books, NEW r \in Replica, NEW o \in unsigned[r], Release(r, o)
  PROVE  Books' /\ unsigned' \in [Replica -> SUBSET Op] /\ disk' \in [Replica -> Stored]
<1>1. /\ site' = site /\ log' = log /\ seq' = seq /\ quarantine' = quarantine /\ lives' = lives
      /\ unsigned' = [unsigned EXCEPT ![r] = unsigned[r] \ {o}] /\ Flush(r)
      /\ wire' = wire \cup {[op |-> o, signed |-> TRUE, from |-> r, to |-> s] : s \in opened[r]}
  BY DEF Release
<1>2. /\ unsigned' \in [Replica -> SUBSET Op] /\ unsigned'[r] = unsigned[r] \ {o}
      /\ \A s \in Replica \ {r} : unsigned'[s] = unsigned[s]
  BY <1>1 DEF Shape
<1>3. /\ disk' \in [Replica -> Stored] /\ \A s \in Replica \ {r} : disk'[s] = disk[s]
      /\ disk'[r].ops \subseteq disk[r].ops \cup log[r]
      /\ ~site.torn => disk'[r].ops = log'[r] \ unsigned'[r] /\ disk'[r].seq = seq'[r]
  BY <1>1, OpsTyped, FlushIs
<1>4. o \in log[r] /\ o.actor = r /\ Logged(o)
  BY DEF Books, Sealed, Logged
<1>5. \A s \in Replica : Copies(s)' \subseteq Copies(s)
  BY <1>1, <1>3 DEF Copies
<1>6. \A m \in wire' : m \in wire \/ m.op = o
  BY <1>1
<1>7. \A p : Logged(p)' <=> Logged(p)
  BY <1>1 DEF Logged
<1>8. \A p : Somewhere(p)' => Somewhere(p)
  BY <1>4, <1>5, <1>6 DEF Somewhere, Logged, Copies
<1>9. Dating'
  BY <1>1, <1>8 DEF Books, Dating, Dated
<1>10. Sealed'
  <2> SUFFICES ASSUME NEW q \in Replica, NEW p \in unsigned'[q]
               PROVE  /\ p.actor = q /\ p \in log'[q]
                      /\ \A s \in Replica \ {q} : p \notin Copies(s)'
                      /\ \A m \in wire' : m.signed => m.op # p
    BY DEF Sealed
  <2>1. p \in unsigned[q]
    BY <1>2
  <2>2. /\ p.actor = q /\ p \in log[q]
        /\ \A s \in Replica \ {q} : p \notin Copies(s)
        /\ \A m \in wire : m.signed => m.op # p
    BY <2>1 DEF Books, Sealed
  <2>3. p # o
    BY <1>2, <1>4, <2>2
  <2> QED
    BY <1>1, <1>5, <1>6, <2>2, <2>3
<1>11. Intact'
  <2>1. ASSUME ~site.torn, NEW s \in Replica PROVE Follows(s)'
    <3>1. CASE s = r
      BY <1>3, <2>1, <3>1 DEF Follows
    <3>2. CASE s # r
      BY <1>1, <1>2, <1>3, <2>1, <3>2 DEF Books, Intact, Follows
    <3> QED
      BY <3>1, <3>2
  <2> QED
    BY <1>1, <1>7, <1>8, <2>1 DEF Books, Intact
<1> QED
  BY <1>2, <1>3, <1>9, <1>10, <1>11 DEF Books

LEMMA PersistKeeps ==
  ASSUME Shape, Books, NEW r \in Replica, Persist(r)
  PROVE  Books' /\ disk' \in [Replica -> Stored]
<1>1. /\ site' = site /\ log' = log /\ seq' = seq /\ quarantine' = quarantine /\ lives' = lives
      /\ unsigned' = unsigned /\ wire' = wire /\ site.torn /\ disk' = [disk EXCEPT ![r] = Saved(r)]
  BY DEF Persist
<1>2. /\ disk' \in [Replica -> Stored] /\ \A s \in Replica \ {r} : disk'[s] = disk[s]
      /\ disk'[r].ops \subseteq disk[r].ops \cup log[r]
  BY <1>1, OpsTyped, FlushIs
<1>3. \A s \in Replica : Copies(s)' \subseteq Copies(s)
  BY <1>1, <1>2 DEF Copies
<1>4. Dating'
  BY <1>1, <1>3 DEF Books, Dating, Dated, Somewhere
<1>5. Sealed'
  BY <1>1, <1>3 DEF Books, Sealed
<1>6. Intact'
  BY <1>1 DEF Intact
<1> QED
  BY <1>2, <1>4, <1>5, <1>6 DEF Books

LEMMA RestartKeeps ==
  ASSUME Shape, Books, NEW r \in Replica, Restart(r)
  PROVE  /\ Books' /\ log' \in [Replica -> SUBSET Op] /\ unsigned' \in [Replica -> SUBSET Op]
         /\ seq' \in [Replica -> 0 .. LastSeq] /\ lives' \in [Replica -> 0 .. MaxLives]
         /\ \A s \in Replica \ {r} : log'[s] = log[s] /\ lives'[s] = lives[s]
         /\ lives'[r] # 0
         /\ ~site.torn => \E o \in Op : /\ o.actor = r /\ ~Somewhere(o)
                                        /\ log' = [log EXCEPT ![r] = log[r] \cup {o}]
<1>0. PICK o : o = Announce(r, Resumed(r) + 1, lives[r] + 1)
  OBVIOUS
<1>1. /\ lives[r] < MaxLives /\ o.seq <= LastSeq /\ (site.torn \/ unsigned[r] = {})
      /\ lives' = [lives EXCEPT ![r] = lives[r] + 1] /\ seq' = [seq EXCEPT ![r] = o.seq]
      /\ log' = [log EXCEPT ![r] = disk[r].ops \cup {o}] /\ unsigned' = [unsigned EXCEPT ![r] = {o}]
      /\ quarantine' = [quarantine EXCEPT ![r] = {}] /\ wire' \subseteq wire
      /\ site' = site /\ disk' = disk
  BY <1>0 DEF Restart
<1>2. /\ lives[r] + 1 \in 0 .. MaxLives /\ lives[r] \in Nat /\ disk[r].ops \subseteq Op
      /\ Resumed(r) \in 0 .. LastSeq /\ disk[r].seq <= Resumed(r) /\ LastSeq \in Nat
      /\ disk[r].seq \in 0 .. LastSeq
  BY <1>1, OpsTyped, ResumedIs
<1>3. o.seq = Resumed(r) + 1 /\ Resumed(r) + 1 \in 0 .. LastSeq
  BY <1>0, <1>1, <1>2 DEF Announce
<1>4. o \in Op /\ o.actor = r /\ o.life = lives[r] + 1
  BY <1>0, <1>2, <1>3, NewOps
<1>5. ~Dated(o)
  BY <1>2, <1>4 DEF Dated
<1>6. ~Somewhere(o)
  BY <1>4, <1>5 DEF Books, Dating
<1>7. /\ log' \in [Replica -> SUBSET Op] /\ log'[r] = disk[r].ops \cup {o}
      /\ \A s \in Replica \ {r} : log'[s] = log[s]
  <2>1. disk[r].ops \cup {o} \in SUBSET Op /\ log \in [Replica -> SUBSET Op]
    BY <1>2, <1>4 DEF Shape
  <2> QED
    BY <1>1, <2>1, ChangedAt
<1>8. /\ unsigned' \in [Replica -> SUBSET Op] /\ unsigned'[r] = {o}
      /\ \A s \in Replica \ {r} : unsigned'[s] = unsigned[s]
  <2>1. {o} \in SUBSET Op /\ unsigned \in [Replica -> SUBSET Op]
    BY <1>4 DEF Shape
  <2> QED
    BY <1>1, <2>1, ChangedAt
<1>9. /\ seq' \in [Replica -> 0 .. LastSeq] /\ seq'[r] = Resumed(r) + 1
      /\ \A s \in Replica \ {r} : seq'[s] = seq[s]
  <2>1. Resumed(r) + 1 \in 0 .. LastSeq /\ seq \in [Replica -> 0 .. LastSeq]
    BY <1>3 DEF Shape
  <2>2. seq' = [seq EXCEPT ![r] = Resumed(r) + 1]
    BY <1>1, <1>3
  <2> QED
    BY <2>1, <2>2, ChangedAt
<1>10. /\ lives' \in [Replica -> 0 .. MaxLives] /\ lives'[r] = lives[r] + 1
       /\ \A s \in Replica \ {r} : lives'[s] = lives[s]
  <2>1. lives \in [Replica -> 0 .. MaxLives]
    BY DEF Shape
  <2> QED
    BY <1>1, <1>2, <2>1, ChangedAt
<1>11. \A s \in Replica : quarantine'[s] \subseteq quarantine[s]
  BY <1>1 DEF Shape
<1>12. \A s \in Replica : \A p \in Copies(s)' : p \in Copies(s) \/ (p = o /\ s = r)
  BY <1>1, <1>7, <1>11 DEF Copies
<1>13. \A p : Somewhere(p)' => Somewhere(p) \/ p = o
  BY <1>1, <1>12 DEF Somewhere
<1>14. \A s \in Replica : seq[s] \in Nat /\ seq'[s] \in Nat /\ lives[s] \in Nat /\ lives'[s] \in Nat
  BY <1>2, <1>3, <1>9, <1>10, OpsTyped
<1>15. ASSUME NEW p \in Op, Dated(p) PROVE Dated(p)'
  <2>1. p.actor \in Replica /\ p.seq \in Nat /\ p.life \in Nat
    BY OpFields
  <2>2. \/ lives'[p.actor] = lives[p.actor] /\ seq'[p.actor] >= seq[p.actor]
        \/ lives'[p.actor] > lives[p.actor]
    BY <1>9, <1>10, <1>14, <2>1
  <2> QED
    BY <1>14, <1>15, <2>1, <2>2, StaysDated
<1>16. Dated(o)'
  BY <1>3, <1>4, <1>9, <1>10, <1>14 DEF Dated
<1>17. Dating'
  BY <1>13, <1>15, <1>16 DEF Books, Dating
<1>18. Sealed'
  <2> SUFFICES ASSUME NEW q \in Replica, NEW p \in unsigned'[q]
               PROVE  /\ p.actor = q /\ p \in log'[q]
                      /\ \A s \in Replica \ {q} : p \notin Copies(s)'
                      /\ \A m \in wire' : m.signed => m.op # p
    BY DEF Sealed
  <2>1. CASE q # r
    <3>1. p \in unsigned[q]
      BY <1>8, <2>1
    <3>2. /\ p.actor = q /\ p \in log[q]
          /\ \A s \in Replica \ {q} : p \notin Copies(s)
          /\ \A m \in wire : m.signed => m.op # p
      BY <3>1 DEF Books, Sealed
    <3> QED
      BY <1>1, <1>4, <1>7, <1>12, <2>1, <3>2
  <2>2. CASE q = r
    <3>1. p = o
      BY <1>8, <2>2
    <3>2. (\A s \in Replica : o \notin Copies(s)) /\ \A m \in wire : m.op # o
      BY <1>6 DEF Somewhere
    <3> QED
      BY <1>1, <1>4, <1>7, <1>12, <2>2, <3>1, <3>2
  <2> QED
    BY <2>1, <2>2
<1>19. ASSUME ~site.torn
       PROVE  /\ disk[r].ops = log[r] /\ seq[r] <= Resumed(r)
              /\ \A p \in Op : Logged(p) => p.seq <= seq[p.actor]
              /\ \A p \in Op : Somewhere(p) => Logged(p)
              /\ \A p, q \in Op : Logged(p) /\ Logged(q) /\ SameKey(p, q) => p = q
              /\ \A s \in Replica : Follows(s)
  BY <1>1, <1>2, <1>19 DEF Books, Intact, Follows
<1>20. ASSUME ~site.torn PROVE Intact'
  <2>1. \A p : Logged(p)' <=> Logged(p) \/ p = o
    BY <1>7, <1>19, <1>20 DEF Logged
  <2>2. \A s \in Replica : Follows(s)'
    <3>1. o \notin disk[r].ops
      BY <1>6 DEF Somewhere, Copies
    <3>2. Follows(r)'
      BY <1>1, <1>7, <1>8, <3>1 DEF Follows
    <3>3. \A s \in Replica \ {r} : Follows(s)'
      BY <1>1, <1>7, <1>8, <1>9, <1>19, <1>20 DEF Follows
    <3> QED
      BY <3>2, <3>3
  <2>3. ASSUME NEW p \in Op, Logged(p)' PROVE p.seq <= seq'[p.actor]
    <3>1. p.actor \in Replica /\ p.seq \in Nat
      BY OpFields
    <3>2. CASE Logged(p)
      <4>1. p.seq <= seq[p.actor]
        BY <1>19, <1>20, <3>2
      <4>2. seq[p.actor] <= seq'[p.actor]
        BY <1>2, <1>9, <1>14, <1>19, <1>20, <3>1
      <4> QED
        BY <1>14, <3>1, <4>1, <4>2
    <3>3. CASE p = o
      BY <1>3, <1>4, <1>9, <3>3
    <3> QED
      BY <2>1, <2>3, <3>2, <3>3
  <2>4. ASSUME NEW p \in Op, Logged(p), SameKey(p, o) \/ SameKey(o, p) PROVE FALSE
    <3>1. p.actor = r /\ p.seq = Resumed(r) + 1
      BY <1>3, <1>4, <2>4 DEF SameKey
    <3>2. p.seq <= seq[r]
      BY <1>19, <1>20, <2>4, <3>1
    <3> QED
      BY <1>2, <1>14, <1>19, <1>20, <3>1, <3>2
  <2>5. \A p \in Op : Somewhere(p)' => Logged(p)'
    BY <1>13, <1>19, <1>20, <2>1
  <2>6. \A p, q \in Op : Logged(p)' /\ Logged(q)' /\ SameKey(p, q) => p = q
    BY <1>19, <1>20, <2>1, <2>4
  <2> QED
    BY <2>2, <2>3, <2>5, <2>6 DEF Intact
<1>21. Intact'
  BY <1>1, <1>20 DEF Intact
<1>22. ~site.torn => log' = [log EXCEPT ![r] = log[r] \cup {o}]
  BY <1>1, <1>19
<1>23. lives'[r] # 0
  BY <1>2, <1>10
<1> QED
  BY <1>4, <1>6, <1>7, <1>8, <1>9, <1>10, <1>17, <1>18, <1>21, <1>22, <1>23 DEF Books

\* What a delivery does to the device it is delivered to.
LEMMA DeliveryIs ==
  ASSUME Shape, NEW m \in wire, Deliver(m)
  PROVE  /\ m \in Packet /\ m.to \in Replica /\ m.from \in opened[m.to] /\ m.op \in Op
         /\ log' \in [Replica -> SUBSET Op] /\ quarantine' \in [Replica -> SUBSET Op]
         /\ disk' \in [Replica -> Stored] /\ knows' \in [Replica -> SUBSET Replica]
         /\ \A s \in Replica \ {m.to} :
              /\ log'[s] = log[s] /\ quarantine'[s] = quarantine[s] /\ disk'[s] = disk[s]
              /\ knows'[s] = knows[s]
         /\ log[m.to] \subseteq log'[m.to] /\ knows'[m.to] = Learned(m, knows[m.to])
         /\ \A p \in log'[m.to] : \/ p \in log[m.to]
                                  \/ p = m.op /\ m.signed
                                  \/ p \in quarantine[m.to] /\ p.actor \in knows'[m.to]
         /\ \A p \in quarantine'[m.to] : p \in quarantine[m.to] \/ (p = m.op /\ m.signed)
         /\ disk'[m.to].ops \subseteq disk[m.to].ops \cup log'[m.to]
         /\ ~site.torn => /\ disk'[m.to].ops = log'[m.to] \ unsigned'[m.to]
                          /\ disk'[m.to].seq = seq'[m.to]
         /\ wire' \subseteq Packet
         /\ \A n \in wire' : \/ n \in wire
                             \/ /\ n.op = m.op /\ m.signed
                                /\ n.from = m.to /\ n.to \in opened[m.to]
         /\ UNCHANGED <<site, unsigned, seq, lives, opened, asked, drops>>
<1> DEFINE r == m.to
           directory == Learned(m, knows[r])
           accepted == Accepted(m, directory)
           drains == m.op.body = "announce" /\ accepted # {}
           released == IF drains THEN Released(r, m.op, directory) ELSE {}
           kept == IF drains THEN {p \in quarantine[r] : p.actor \notin directory}
                   ELSE IF m.signed /\ ~Authentic(m, directory) THEN Quarantined(quarantine[r], m.op)
                   ELSE quarantine[r]
<1>1. m \in Packet /\ m.op \in Op /\ m.signed \in BOOLEAN /\ m.from \in Replica /\ r \in Replica
  BY PacketFields DEF Shape
<1>2. /\ m.from \in opened[r] /\ wire' = (wire \ {m}) \cup Packets(r, accepted, opened[r] \ {m.from})
      /\ knows' = [knows EXCEPT ![r] = directory]
      /\ log' = [log EXCEPT ![r] = log[r] \cup accepted \cup released]
      /\ quarantine' = [quarantine EXCEPT ![r] = kept]
      /\ Flush(r)
  BY DEF Deliver
<1>3. UNCHANGED <<site, unsigned, seq, lives, opened, asked, drops>>
  BY DEF Deliver
<1>4. directory \in SUBSET Replica
  BY <1>1, OpFields DEF Learned, Shape
<1>5. accepted \subseteq {m.op} /\ (accepted # {} => m.signed) /\ accepted \in SUBSET Op
  BY <1>1 DEF Accepted, Authentic
<1>6. released \subseteq quarantine[r] /\ \A p \in released : p.actor \in directory
  BY DEF Released
<1>7. \A p \in kept : p \in quarantine[r] \/ (p = m.op /\ m.signed)
  BY DEF Quarantined
<1>8. log[r] \subseteq Op /\ quarantine[r] \subseteq Op /\ opened[r] \subseteq Replica /\ seq[r] \in 0 .. LastSeq
  BY <1>1 DEF Shape
<1> HIDE DEF directory, accepted, released, kept
<1>9. /\ knows' \in [Replica -> SUBSET Replica] /\ knows'[r] = directory
      /\ \A s \in Replica \ {r} : knows'[s] = knows[s]
  BY <1>1, <1>2, <1>4 DEF Shape
<1>10. log[r] \cup accepted \cup released \in SUBSET Op
  BY <1>5, <1>6, <1>8
<1>11. /\ log' \in [Replica -> SUBSET Op] /\ log'[r] = log[r] \cup accepted \cup released
       /\ \A s \in Replica \ {r} : log'[s] = log[s]
  <2>1. log \in [Replica -> SUBSET Op]
    BY DEF Shape
  <2> QED
    BY <1>1, <1>2, <1>10, <2>1, ChangedAt
<1>12. kept \in SUBSET Op
  BY <1>1, <1>7, <1>8
<1>13. /\ quarantine' \in [Replica -> SUBSET Op] /\ quarantine'[r] = kept
       /\ \A s \in Replica \ {r} : quarantine'[s] = quarantine[s]
  <2>1. quarantine \in [Replica -> SUBSET Op]
    BY DEF Shape
  <2> QED
    BY <1>1, <1>2, <1>12, <2>1, ChangedAt
<1>14. log'[r] \subseteq Op /\ seq'[r] \in 0 .. LastSeq
  BY <1>3, <1>8, <1>10, <1>11
<1>15. /\ disk' \in [Replica -> Stored] /\ \A s \in Replica \ {r} : disk'[s] = disk[s]
       /\ disk'[r].ops \subseteq disk[r].ops \cup log'[r]
       /\ ~site.torn => disk'[r].ops = log'[r] \ unsigned'[r] /\ disk'[r].seq = seq'[r]
  BY <1>1, <1>2, <1>14, FlushIs
<1>16. opened[r] \ {m.from} \in SUBSET Replica
  BY <1>8
<1>17. \A n \in Packets(r, accepted, opened[r] \ {m.from}) :
         n \in Packet /\ n.op = m.op /\ m.signed /\ n.from = r /\ n.to \in opened[r]
  BY <1>1, <1>5, <1>16, PacketsAre
<1>18. wire \subseteq Packet
  BY DEF Shape
<1>19. /\ wire' \subseteq Packet
       /\ \A n \in wire' : \/ n \in wire
                           \/ n.op = m.op /\ m.signed /\ n.from = r /\ n.to \in opened[r]
  BY <1>2, <1>17, <1>18
<1>20. /\ log[r] \subseteq log'[r] /\ knows'[r] = Learned(m, knows[r])
       /\ \A p \in log'[r] : \/ p \in log[r]
                             \/ p = m.op /\ m.signed
                             \/ p \in quarantine[r] /\ p.actor \in knows'[r]
  BY <1>5, <1>6, <1>9, <1>11 DEF directory
<1>21. \A p \in quarantine'[r] : p \in quarantine[r] \/ (p = m.op /\ m.signed)
  BY <1>7, <1>13
<1> QED
  BY <1>1, <1>2, <1>3, <1>9, <1>11, <1>13, <1>15, <1>19, <1>20, <1>21

LEMMA DeliverKeeps ==
  ASSUME Shape, Books, NEW m \in wire, Deliver(m)
  PROVE  Books'
<1> DEFINE r == m.to
<1>1. /\ r \in Replica /\ m.op \in Op
      /\ site' = site /\ unsigned' = unsigned /\ seq' = seq /\ lives' = lives
      /\ log[r] \subseteq log'[r] /\ \A s \in Replica \ {r} : log'[s] = log[s]
      /\ log' \in [Replica -> SUBSET Op]
  BY DeliveryIs
<1>2. /\ \A p \in log'[r] : p \in log[r] \/ (p = m.op /\ m.signed) \/ p \in quarantine[r]
      /\ \A p \in quarantine'[r] : p \in quarantine[r] \/ (p = m.op /\ m.signed)
      /\ disk'[r].ops \subseteq disk[r].ops \cup log'[r]
  BY DeliveryIs
<1>3. \A s \in Replica \ {r} : quarantine'[s] = quarantine[s] /\ disk'[s] = disk[s]
  BY DeliveryIs
<1>4. \A n \in wire' : n \in wire \/ (n.op = m.op /\ m.signed)
  BY DeliveryIs
<1>5. ~site.torn => disk'[r].ops = log'[r] \ unsigned'[r] /\ disk'[r].seq = seq'[r]
  BY DeliveryIs
<1>6. \A s \in Replica : \A p \in Copies(s)' : p \in Copies(s) \/ (p = m.op /\ m.signed)
  <2>1. \A p \in Copies(r)' : p \in Copies(r) \/ (p = m.op /\ m.signed)
    BY <1>2 DEF Copies
  <2>2. \A s \in Replica \ {r} : Copies(s)' = Copies(s)
    BY <1>1, <1>3 DEF Copies
  <2> QED
    BY <2>1, <2>2
<1> HIDE DEF r
<1>7. \A p : Somewhere(p)' => Somewhere(p)
  BY <1>4, <1>6 DEF Somewhere
<1>8. \A p : Dated(p)' <=> Dated(p)
  BY <1>1 DEF Dated
<1>9. Dating'
  BY <1>7, <1>8 DEF Books, Dating
<1>10. Sealed'
  <2> SUFFICES ASSUME NEW q \in Replica, NEW p \in unsigned[q]
               PROVE  /\ p.actor = q /\ p \in log'[q]
                      /\ \A s \in Replica \ {q} : p \notin Copies(s)'
                      /\ \A n \in wire' : n.signed => n.op # p
    BY <1>1 DEF Sealed
  <2>1. /\ p.actor = q /\ p \in log[q]
        /\ \A s \in Replica \ {q} : p \notin Copies(s)
        /\ \A n \in wire : n.signed => n.op # p
    BY DEF Books, Sealed
  <2>2. m.signed => m.op # p
    BY <2>1
  <2>3. p \in log'[q]
    BY <1>1, <2>1
  <2> QED
    BY <1>4, <1>6, <2>1, <2>2, <2>3
<1>11. Intact'
  <2> SUFFICES ASSUME ~site.torn
               PROVE  /\ \A s \in Replica : Follows(s)'
                      /\ \A p \in Op : Logged(p)' => p.seq <= seq[p.actor]
                      /\ \A p \in Op : Somewhere(p)' => Logged(p)'
                      /\ \A p, q \in Op : Logged(p)' /\ Logged(q)' /\ SameKey(p, q) => p = q
    BY <1>1 DEF Intact
  <2>1. /\ \A s \in Replica : Follows(s)
        /\ \A p \in Op : Logged(p) => p.seq <= seq[p.actor]
        /\ \A p \in Op : Somewhere(p) => Logged(p)
        /\ \A p, q \in Op : Logged(p) /\ Logged(q) /\ SameKey(p, q) => p = q
    BY DEF Books, Intact
  <2>2. \A p : Logged(p) => Logged(p)'
    BY <1>1 DEF Logged
  <2>3. \A p : Logged(p)' => Somewhere(p)'
    BY DEF Logged, Somewhere, Copies
  <2>4. \A p \in Op : Logged(p)' => Logged(p)
    BY <1>7, <2>1, <2>3
  <2>5. Follows(r)'
    BY <1>5 DEF Follows
  <2>6. \A s \in Replica \ {r} : Follows(s)'
    BY <1>1, <1>3, <2>1 DEF Follows
  <2> QED
    BY <1>7, <2>1, <2>2, <2>4, <2>5, <2>6
<1> QED
  BY <1>9, <1>10, <1>11 DEF Books

-----------------------------------------------------------------------------
(* Every step *)

LEMMA LinkedPairs ==
  ASSUME Shape, NEW r \in Replica, NEW s \in Replica, {r, s} \in site.reach
  PROVE  r # s /\ {s, r} \in site.reach
<1>1. site \in Sites /\ Cardinality({r, s}) = 2
  BY SiteAssumption DEF Shape
<1>2. r = s => Cardinality({r, s}) = 1
  BY FS_Singleton
<1>3. {r, s} = {s, r}
  OBVIOUS
<1> QED
  BY <1>1, <1>2, <1>3

\* The part of Shape that is about links, and Linked.
Links ==
  /\ wire \subseteq Packet /\ drops \in 0 .. site.drops /\ opened \in [Replica -> SUBSET Replica]
  /\ asked \in [Replica -> [Replica -> Digest \cup {NoDigest}]] /\ Linked

LEMMA LinksStay ==
  ASSUME Shape, Linked, UNCHANGED <<site, drops, opened, asked>>, wire' \subseteq Packet,
         \A m \in wire' : m \in wire \/ m.to \in opened[m.from]
  PROVE  Links'
BY DEF Links, Shape, Linked

LEMMA SecureLinks ==
  ASSUME Shape, Linked, NEW r \in Replica, NEW s \in Replica, Secure(r, s)
  PROVE  Links' /\ knows' \in [Replica -> SUBSET Replica] /\ \A q \in Replica : knows[q] \subseteq knows'[q]
<1>1. /\ {r, s} \in site.reach /\ opened' = [opened EXCEPT ![r] = opened[r] \cup {s}]
      /\ knows' = [knows EXCEPT ![r] = knows[r] \cup {s}]
      /\ asked' = [asked EXCEPT ![r] = [asked[r] EXCEPT ![s] = Advertised(r)]]
      /\ UNCHANGED <<site, wire, drops>>
  BY DEF Secure
<1>2. knows' \in [Replica -> SUBSET Replica] /\ \A q \in Replica : knows[q] \subseteq knows'[q]
  BY <1>1 DEF Shape
<1>3. /\ opened' \in [Replica -> SUBSET Replica] /\ opened'[r] = opened[r] \cup {s}
      /\ \A q \in Replica \ {r} : opened'[q] = opened[q]
  BY <1>1 DEF Shape
<1> DEFINE row == [asked[r] EXCEPT ![s] = Advertised(r)]
<1>4. row \in [Replica -> Digest \cup {NoDigest}] /\ \A q \in Replica \ {s} : row[q] = asked[r][q]
  <2>1. asked[r] \in [Replica -> Digest \cup {NoDigest}]
    BY DEF Shape
  <2>2. Advertised(r) \in Digest
    BY AdvertisedType
  <2> QED
    BY <2>1, <2>2
<1>5. asked' = [asked EXCEPT ![r] = row]
  BY <1>1
<1> HIDE DEF row
<1>6. /\ asked' \in [Replica -> [Replica -> Digest \cup {NoDigest}]] /\ asked'[r] = row
      /\ \A q \in Replica \ {r} : asked'[q] = asked[q]
  BY <1>4, <1>5 DEF Shape
<1>7. Linked'
  <2>1. \A p, q \in Replica : q \in opened'[p] => {p, q} \in site.reach
    BY <1>1, <1>3 DEF Linked
  <2>2. \A p, q \in Replica : asked'[p][q] # NoDigest => q \in opened'[p]
    BY <1>3, <1>4, <1>6 DEF Linked
  <2>3. \A m \in wire : m.to \in opened'[m.from]
    BY <1>3, PacketFields DEF Linked, Shape
  <2> QED
    BY <1>1, <2>1, <2>2, <2>3 DEF Linked
<1> QED
  BY <1>1, <1>2, <1>3, <1>6, <1>7 DEF Links, Shape

LEMMA LinkFailsLinks ==
  ASSUME Shape, Linked, NEW r \in Replica, NEW s \in Replica, LinkFails(r, s)
  PROVE  Links'
<1>1. /\ s \in opened[r] /\ drops < site.drops /\ drops' = drops + 1
      /\ opened' = [opened EXCEPT ![r] = @ \ {s}, ![s] = @ \ {r}]
      /\ wire' = {m \in wire : {m.from, m.to} # {r, s}}
      /\ asked' = [asked EXCEPT ![r][s] = NoDigest, ![s][r] = NoDigest]
      /\ site' = site
  BY DEF LinkFails
<1>2. r # s
  BY <1>1, LinkedPairs DEF Linked
<1>3. drops' \in 0 .. site.drops
  <2>1. site.drops \in Nat
    BY SiteAssumption DEF Shape, Site
  <2> QED
    BY <1>1, <2>1 DEF Shape
<1>4. /\ opened' \in [Replica -> SUBSET Replica]
      /\ \A p \in Replica : opened'[p] = IF p = r THEN opened[p] \ {s}
                                        ELSE IF p = s THEN opened[p] \ {r} ELSE opened[p]
  BY <1>1, <1>2 DEF Shape
<1> DEFINE there == [asked[r] EXCEPT ![s] = NoDigest]
           back == [asked[s] EXCEPT ![r] = NoDigest]
<1>5. asked' = [asked EXCEPT ![r] = there, ![s] = back]
  BY <1>1, <1>2 DEF Shape
<1>6. /\ there \in [Replica -> Digest \cup {NoDigest}] /\ back \in [Replica -> Digest \cup {NoDigest}]
      /\ \A q \in Replica : there[q] = IF q = s THEN NoDigest ELSE asked[r][q]
      /\ \A q \in Replica : back[q] = IF q = r THEN NoDigest ELSE asked[s][q]
  <2>1. asked[r] \in [Replica -> Digest \cup {NoDigest}] /\ asked[s] \in [Replica -> Digest \cup {NoDigest}]
    BY DEF Shape
  <2> QED
    BY <2>1
<1> HIDE DEF there, back
<1>7. /\ asked' \in [Replica -> [Replica -> Digest \cup {NoDigest}]]
      /\ \A p \in Replica : asked'[p] = IF p = s THEN back ELSE IF p = r THEN there ELSE asked[p]
  BY <1>2, <1>5, <1>6 DEF Shape
<1>8. \A p, q \in Replica : asked'[p][q] # NoDigest => q \in opened'[p]
  <2> SUFFICES ASSUME NEW p \in Replica, NEW q \in Replica, asked'[p][q] # NoDigest
               PROVE  q \in opened'[p]
    OBVIOUS
  <2>1. asked'[p][q] = asked[p][q] /\ ~(p = r /\ q = s) /\ ~(p = s /\ q = r)
    BY <1>2, <1>6, <1>7
  <2>2. q \in opened[p]
    BY <2>1 DEF Linked
  <2> QED
    BY <1>4, <2>1, <2>2
<1>9. \A m \in wire' : m.to \in opened'[m.from]
  <2> SUFFICES ASSUME NEW m \in wire, {m.from, m.to} # {r, s}
               PROVE  m.to \in opened'[m.from]
    BY <1>1
  <2>1. m.from \in Replica /\ m.to \in opened[m.from]
    BY PacketFields DEF Shape, Linked
  <2>2. ~(m.from = r /\ m.to = s) /\ ~(m.from = s /\ m.to = r)
    OBVIOUS
  <2> QED
    BY <1>4, <2>1, <2>2
<1>10. Linked'
  BY <1>1, <1>4, <1>8, <1>9 DEF Linked
<1>11. wire' \subseteq Packet
  BY <1>1 DEF Shape
<1> QED
  BY <1>1, <1>3, <1>4, <1>7, <1>10, <1>11 DEF Links

LEMMA RestartLinks ==
  ASSUME Shape, Linked, NEW r \in Replica, Restart(r)
  PROVE  Links'
<1>1. /\ opened' = [p \in Replica |-> IF p = r THEN {} ELSE opened[p] \ {r}]
      /\ wire' = {m \in wire : r \notin {m.from, m.to}}
      /\ asked' = [p \in Replica |-> [s \in Replica |->
                     IF r \in {p, s} THEN NoDigest ELSE asked[p][s]]]
      /\ UNCHANGED <<site, disk, drops>>
  BY DEF Restart
<1>2. opened' \in [Replica -> SUBSET Replica]
  BY <1>1 DEF Shape
<1>3. asked' \in [Replica -> [Replica -> Digest \cup {NoDigest}]]
  BY <1>1 DEF Shape
<1>4. \A p, q \in Replica : asked'[p][q] # NoDigest => q \in opened'[p]
  BY <1>1 DEF Linked
<1>5. \A m \in wire' : m.to \in opened'[m.from]
  BY <1>1, PacketFields DEF Linked, Shape
<1>6. \A p, q \in Replica : q \in opened'[p] => {p, q} \in site.reach
  BY <1>1 DEF Linked
<1> QED
  BY <1>1, <1>2, <1>3, <1>4, <1>5, <1>6 DEF Links, Linked, Shape

LEMMA SweepLinks ==
  ASSUME Shape, Linked, NEW r \in Replica, Sweep(r)
  PROVE  Links'
<1> DEFINE row == [s \in Replica |-> IF s \in opened[r] THEN Advertised(r) ELSE asked[r][s]]
<1>1. asked' = [asked EXCEPT ![r] = row] /\ UNCHANGED <<site, opened, wire, drops>>
  BY DEF Sweep
<1>2. row \in [Replica -> Digest \cup {NoDigest}]
  BY AdvertisedType DEF Shape
<1>3. \A q \in Replica : row[q] # NoDigest => q \in opened[r]
  BY DEF Linked
<1> HIDE DEF row
<1>4. /\ asked' \in [Replica -> [Replica -> Digest \cup {NoDigest}]] /\ asked'[r] = row
      /\ \A q \in Replica \ {r} : asked'[q] = asked[q]
  BY <1>1, <1>2 DEF Shape
<1>5. \A p, q \in Replica : asked'[p][q] # NoDigest => q \in opened[p]
  BY <1>3, <1>4 DEF Linked
<1> QED
  BY <1>1, <1>4, <1>5 DEF Links, Linked, Shape

LEMMA AnswerKeeps ==
  ASSUME Shape, Linked, Books, NEW r \in Replica, NEW s \in Replica, Answer(r, s)
  PROVE  Links' /\ Books'
<1>1. /\ s \in opened[r] /\ asked' = [asked EXCEPT ![s] = [asked[s] EXCEPT ![r] = NoDigest]]
      /\ wire' = wire \cup Packets(r, Delta(r, asked[s][r]), {s})
      /\ UNCHANGED <<site, log, unsigned, seq, knows, quarantine, disk, lives, opened, drops>>
  BY DEF Answer
<1>2. Delta(r, asked[s][r]) \subseteq log[r] /\ Delta(r, asked[s][r]) \in SUBSET Op /\ {s} \in SUBSET Replica
  BY DEF Delta, Shape
<1>3. \A m \in wire' : \/ m \in wire
                       \/ /\ m \in Packet /\ m.op \in log[r] /\ m.from = r /\ m.to = s
                          /\ m.signed <=> m.op \notin unsigned[r]
  BY <1>1, <1>2, PacketsAre
<1>4. ASSUME NEW o \in log[r], o \notin unsigned[r], NEW q \in Replica PROVE o \notin unsigned[q]
  <2>1. q # r /\ o \in unsigned[q] => o \notin Copies(r)
    BY DEF Books, Sealed
  <2> QED
    BY <1>4, <2>1 DEF Copies
<1>5. Books'
  <2>1. \A m \in wire' : \/ m \in wire
                         \/ /\ Logged(m.op)
                            /\ m.signed => \A q \in Replica : m.op \notin unsigned[q]
    BY <1>3, <1>4 DEF Logged
  <2> QED
    BY <1>1, <2>1, CarriedOn
<1> DEFINE row == [asked[s] EXCEPT ![r] = NoDigest]
<1>6. row \in [Replica -> Digest \cup {NoDigest}] /\ \A q \in Replica : row[q] \in {NoDigest, asked[s][q]}
  <2>1. asked[s] \in [Replica -> Digest \cup {NoDigest}]
    BY DEF Shape
  <2> QED
    BY <2>1
<1>7. asked' = [asked EXCEPT ![s] = row]
  BY <1>1
<1> HIDE DEF row
<1>8. /\ asked' \in [Replica -> [Replica -> Digest \cup {NoDigest}]] /\ asked'[s] = row
      /\ \A q \in Replica \ {s} : asked'[q] = asked[q]
  BY <1>6, <1>7 DEF Shape
<1>9. \A p, q \in Replica : asked'[p][q] # NoDigest => q \in opened[p]
  BY <1>6, <1>8 DEF Linked
<1>10. wire' \subseteq Packet /\ \A m \in wire' : m.to \in opened[m.from]
  BY <1>1, <1>3 DEF Shape, Linked
<1>11. Links'
  BY <1>1, <1>8, <1>9, <1>10 DEF Links, Linked, Shape
<1> QED
  BY <1>5, <1>11

\* What the record of a chamber goes through in a step: nothing, an op under a
\* name of its own, or a device learning what another has logged.
Inscribed(r, o) ==
  /\ o \in Op /\ o.actor = r /\ ~Somewhere(o)
  /\ log' = [log EXCEPT ![r] = log[r] \cup {o}]
Taught(r) ==
  /\ log' \in [Replica -> SUBSET Op] /\ log[r] \subseteq log'[r]
  /\ \A s \in Replica \ {r} : log'[s] = log[s]
  /\ \A o \in log'[r] : Somewhere(o)
Course == log' = log \/ \E r \in Replica : Taught(r) \/ \E o \in Op : Inscribed(r, o)

LEMMA WritingIsSound ==
  ASSUME Sound, NEW r \in Replica, WriteAt(r),
         UNCHANGED <<site, quarantine, disk, lives, wire>>,
         \A q \in Replica : knows[q] \subseteq knows'[q]
  PROVE  /\ Books' /\ Known' /\ log' \in [Replica -> SUBSET Op] /\ unsigned' \in [Replica -> SUBSET Op]
         /\ seq' \in [Replica -> 0 .. LastSeq] /\ (~site.torn => Course)
<1>0. Shape /\ Books /\ Known /\ lives' = lives
  BY DEF Sound
<1>1. Books'
  BY <1>0, WritingKeeps
<1>2. PICK o \in Op, new \in SUBSET Op : Wrote(r, o, new)
  BY <1>0, WritingIs
<1>3. /\ new \subseteq {o} /\ o.actor = r /\ o.body = "act" /\ ~Somewhere(o)
      /\ log' \in [Replica -> SUBSET Op] /\ log'[r] = log[r] \cup new
      /\ \A s \in Replica \ {r} : log'[s] = log[s]
      /\ ~site.torn => new = {o}
  BY <1>2 DEF Wrote
<1>4. Known'
  <2> SUFFICES ASSUME NEW q \in Replica, lives[q] = 0, NEW p \in log'[q], p.body = "announce"
               PROVE  p.actor \in knows'[q]
    BY <1>0 DEF Known
  <2>1. p # o
    BY <1>3
  <2>2. p \in log[q]
    BY <1>3, <2>1
  <2> QED
    BY <1>0, <2>2 DEF Known
<1>5. ASSUME ~site.torn PROVE Inscribed(r, o)
  <2>1. log \in [Replica -> SUBSET Op]
    BY <1>0 DEF Shape
  <2>2. log' = [log EXCEPT ![r] = log[r] \cup {o}]
    BY <1>3, <1>5, <2>1
  <2> QED
    BY <1>3, <2>2 DEF Inscribed
<1>6. ~site.torn => Course
  BY <1>5 DEF Course
<1> QED
  BY <1>1, <1>2, <1>4, <1>6 DEF Wrote

LEMMA SoundStep ==
  ASSUME Sound, [Next]_vars
  PROVE  Sound' /\ site' = site /\ (~site.torn => Course)
<1>0. Shape /\ Linked /\ Books /\ Known
  BY DEF Sound
<1>t. /\ site \in Sites /\ wire \subseteq Packet /\ drops \in 0 .. site.drops
      /\ log \in [Replica -> SUBSET Op] /\ unsigned \in [Replica -> SUBSET Op]
      /\ quarantine \in [Replica -> SUBSET Op] /\ disk \in [Replica -> Stored]
      /\ seq \in [Replica -> 0 .. LastSeq] /\ lives \in [Replica -> 0 .. MaxLives]
      /\ knows \in [Replica -> SUBSET Replica] /\ opened \in [Replica -> SUBSET Replica]
      /\ asked \in [Replica -> [Replica -> Digest \cup {NoDigest}]]
      /\ site.devices \subseteq Replica
  BY <1>0, SiteAssumption DEF Shape, Site
<1>k. ASSUME log' = log, knows' = knows, lives' = lives PROVE Known'
  BY <1>0, <1>k DEF Known
<1>l. ASSUME Links' PROVE /\ wire' \subseteq Packet /\ drops' \in 0 .. site'.drops
                          /\ opened' \in [Replica -> SUBSET Replica]
                          /\ asked' \in [Replica -> [Replica -> Digest \cup {NoDigest}]]
                          /\ Linked'
  BY <1>l DEF Links
<1>1. ASSUME NEW r \in Replica, Dispatch(r) PROVE Sound' /\ site' = site /\ (~site.torn => Course)
  <2>1. WriteAt(r) /\ UNCHANGED <<site, knows, quarantine, disk, lives, opened, asked, wire, drops>>
    BY <1>1 DEF Dispatch
  <2>2. /\ Books' /\ Known' /\ log' \in [Replica -> SUBSET Op] /\ unsigned' \in [Replica -> SUBSET Op]
        /\ seq' \in [Replica -> 0 .. LastSeq] /\ (~site.torn => Course)
    BY <2>1, WritingIsSound
  <2>3. Linked'
    BY <1>0, <2>1 DEF Linked
  <2> QED
    BY <1>t, <2>1, <2>2, <2>3 DEF Sound, Shape
<1>2. ASSUME NEW r \in Replica, Persist(r) PROVE Sound' /\ site' = site /\ (~site.torn => Course)
  <2>1. UNCHANGED <<site, log, unsigned, seq, knows, quarantine, lives, opened, asked, wire, drops>>
    BY <1>2 DEF Persist
  <2>2. Books' /\ disk' \in [Replica -> Stored]
    BY <1>0, <1>2, PersistKeeps
  <2>3. Linked'
    BY <1>0, <2>1 DEF Linked
  <2> QED
    BY <1>t, <1>k, <2>1, <2>2, <2>3 DEF Sound, Shape, Course
<1>3. ASSUME NEW r \in Replica, Restart(r) PROVE Sound' /\ site' = site /\ (~site.torn => Course)
  <2>1. /\ site' = site /\ disk' = disk
        /\ knows' = [knows EXCEPT ![r] = {r}] /\ quarantine' = [quarantine EXCEPT ![r] = {}]
    BY <1>3 DEF Restart
  <2>2. /\ Books' /\ log' \in [Replica -> SUBSET Op] /\ unsigned' \in [Replica -> SUBSET Op]
        /\ seq' \in [Replica -> 0 .. LastSeq] /\ lives' \in [Replica -> 0 .. MaxLives]
        /\ \A s \in Replica \ {r} : log'[s] = log[s] /\ lives'[s] = lives[s]
        /\ lives'[r] # 0
        /\ ~site.torn => \E o \in Op : /\ o.actor = r /\ ~Somewhere(o)
                                       /\ log' = [log EXCEPT ![r] = log[r] \cup {o}]
    BY <1>0, <1>3, RestartKeeps
  <2>3. Links'
    BY <1>0, <1>3, RestartLinks
  <2>4. /\ knows' \in [Replica -> SUBSET Replica] /\ quarantine' \in [Replica -> SUBSET Op]
        /\ \A s \in Replica \ {r} : knows'[s] = knows[s]
    BY <1>t, <2>1
  <2>5. Known'
    BY <1>0, <2>2, <2>4 DEF Known
  <2>6. ~site.torn => Course
    BY <2>2 DEF Course, Inscribed
  <2> QED
    BY <1>t, <1>l, <2>1, <2>2, <2>3, <2>4, <2>5, <2>6 DEF Sound, Shape
<1>4. ASSUME NEW r \in Replica, Sweep(r) PROVE Sound' /\ site' = site /\ (~site.torn => Course)
  <2>1. UNCHANGED <<site, log, unsigned, seq, knows, quarantine, disk, lives, opened, wire, drops>>
    BY <1>4 DEF Sweep
  <2>2. Books'
    BY <1>0, <2>1, CarriedOn
  <2>3. Links'
    BY <1>0, <1>4, SweepLinks
  <2> QED
    BY <1>t, <1>k, <1>l, <2>1, <2>2, <2>3 DEF Sound, Shape, Course
<1>5. ASSUME NEW r \in Replica, NEW o \in unsigned[r], Release(r, o)
      PROVE  Sound' /\ site' = site /\ (~site.torn => Course)
  <2>1. /\ UNCHANGED <<site, log, seq, knows, quarantine, lives, opened, asked, drops>>
        /\ wire' = wire \cup {[op |-> o, signed |-> TRUE, from |-> r, to |-> s] : s \in opened[r]}
    BY <1>5 DEF Release
  <2>2. Books' /\ unsigned' \in [Replica -> SUBSET Op] /\ disk' \in [Replica -> Stored]
    BY <1>0, <1>5, ReleaseKeeps
  <2>3. \A m \in wire' \ wire : m \in Packet /\ m.from = r /\ m.to \in opened[r]
    <3>1. o \in Op /\ opened[r] \subseteq Replica
      BY <1>t
    <3> TAKE m \in wire' \ wire
    <3>2. PICK s \in opened[r] : m = [op |-> o, signed |-> TRUE, from |-> r, to |-> s]
      BY <2>1
    <3> QED
      BY <3>1, <3>2 DEF Packet
  <2>4. Links'
    <3>1. wire' \subseteq Packet /\ \A m \in wire' : m \in wire \/ m.to \in opened[m.from]
      BY <1>t, <2>3
    <3> QED
      BY <1>0, <2>1, <3>1, LinksStay
  <2> QED
    BY <1>t, <1>k, <1>l, <2>1, <2>2, <2>4 DEF Sound, Shape, Course
<1>6. ASSUME NEW r \in Replica, NEW s \in Replica, Secure(r, s)
      PROVE  Sound' /\ site' = site /\ (~site.torn => Course)
  <2>1. WriteAt(r) /\ UNCHANGED <<site, quarantine, disk, lives, wire, drops>>
    BY <1>6 DEF Secure
  <2>2. Links' /\ knows' \in [Replica -> SUBSET Replica] /\ \A q \in Replica : knows[q] \subseteq knows'[q]
    BY <1>0, <1>6, SecureLinks
  <2>3. /\ Books' /\ Known' /\ log' \in [Replica -> SUBSET Op] /\ unsigned' \in [Replica -> SUBSET Op]
        /\ seq' \in [Replica -> 0 .. LastSeq] /\ (~site.torn => Course)
    BY <2>1, <2>2, WritingIsSound
  <2> QED
    BY <1>t, <1>l, <2>1, <2>2, <2>3 DEF Sound, Shape
<1>7. ASSUME NEW r \in Replica, NEW s \in Replica, LinkFails(r, s)
      PROVE  Sound' /\ site' = site /\ (~site.torn => Course)
  <2>1. /\ UNCHANGED <<site, log, unsigned, seq, knows, quarantine, disk, lives>>
        /\ wire' \subseteq wire
    BY <1>7 DEF LinkFails
  <2>2. Books'
    BY <1>0, <2>1, CarriedOn
  <2>3. Links'
    BY <1>0, <1>7, LinkFailsLinks
  <2> QED
    BY <1>t, <1>k, <1>l, <2>1, <2>2, <2>3 DEF Sound, Shape, Course
<1>8. ASSUME NEW r \in Replica, NEW s \in Replica, Answer(r, s)
      PROVE  Sound' /\ site' = site /\ (~site.torn => Course)
  <2>1. UNCHANGED <<site, log, unsigned, seq, knows, quarantine, disk, lives, opened, drops>>
    BY <1>8 DEF Answer
  <2>2. Links' /\ Books'
    BY <1>0, <1>8, AnswerKeeps
  <2> QED
    BY <1>t, <1>k, <1>l, <2>1, <2>2 DEF Sound, Shape, Course
<1>9. ASSUME NEW m \in wire, Deliver(m) PROVE Sound' /\ site' = site /\ (~site.torn => Course)
  <2>1. /\ m \in Packet /\ m.to \in Replica /\ m.from \in opened[m.to] /\ m.op \in Op
        /\ log' \in [Replica -> SUBSET Op] /\ quarantine' \in [Replica -> SUBSET Op]
        /\ disk' \in [Replica -> Stored] /\ knows' \in [Replica -> SUBSET Replica]
        /\ \A s \in Replica \ {m.to} : log'[s] = log[s] /\ knows'[s] = knows[s]
        /\ log[m.to] \subseteq log'[m.to] /\ knows'[m.to] = Learned(m, knows[m.to])
        /\ \A p \in log'[m.to] : \/ p \in log[m.to]
                                 \/ p = m.op /\ m.signed
                                 \/ p \in quarantine[m.to] /\ p.actor \in knows'[m.to]
        /\ wire' \subseteq Packet
        /\ \A n \in wire' : n \in wire \/ (n.from = m.to /\ n.to \in opened[m.to])
        /\ UNCHANGED <<site, unsigned, seq, lives, opened, asked, drops>>
    BY <1>0, <1>9, DeliveryIs
  <2>2. Books'
    BY <1>0, <1>9, DeliverKeeps
  <2>3. Links'
    BY <1>0, <2>1, LinksStay
  <2>4. Known'
    <3> SUFFICES ASSUME NEW q \in Replica, lives[q] = 0, NEW p \in log'[q], p.body = "announce"
                 PROVE  p.actor \in knows'[q]
      BY <2>1 DEF Known
    <3>1. CASE p \in log[q]
      <4>1. p.actor \in knows[q]
        BY <1>0, <3>1 DEF Known
      <4>2. knows[m.to] \subseteq knows'[m.to]
        BY <2>1 DEF Learned
      <4> QED
        BY <2>1, <4>1, <4>2
    <3>2. CASE q = m.to /\ p = m.op /\ m.signed
      BY <2>1, <3>2 DEF Learned
    <3>3. CASE q = m.to /\ p.actor \in knows'[m.to]
      BY <3>3
    <3> QED
      BY <2>1, <3>1, <3>2, <3>3
  <2>5. Taught(m.to)
    <3>1. \A p \in log'[m.to] : Somewhere(p)
      BY <2>1 DEF Somewhere, Copies
    <3> QED
      BY <2>1, <3>1 DEF Taught
  <2>6. Course
    BY <2>1, <2>5 DEF Course
  <2> QED
    BY <1>t, <1>l, <2>1, <2>2, <2>3, <2>4, <2>6 DEF Sound, Shape
<1>10. CASE UNCHANGED vars
  <2>1. UNCHANGED <<site, log, unsigned, seq, knows, quarantine, disk, lives, opened, asked, wire, drops>>
    BY <1>10 DEF vars
  <2>2. Books'
    BY <1>0, <2>1, CarriedOn
  <2>3. Linked'
    BY <1>0, <2>1 DEF Linked
  <2> QED
    BY <1>t, <1>k, <2>1, <2>2, <2>3 DEF Sound, Shape, Course
<1>11. Online \subseteq Replica
  BY <1>t DEF Online
<1> QED
  BY <1>1, <1>2, <1>3, <1>4, <1>5, <1>6, <1>7, <1>8, <1>9, <1>10, <1>11 DEF Next

-----------------------------------------------------------------------------

LEMMA SoundAlways == Spec => []Sound
<1>1. Sound /\ [Next]_vars => Sound'
  BY SoundStep
<1> QED
  BY <1>1, SoundAtFirst, PTL DEF Spec

(* A name means one op wherever it is, as long as no device dies before    *)
(* its storage has caught up; nobody but its author keeps an op without    *)
(* its signature; and a device knows the key of whoever's announcement it  *)
(* holds, until its tab is reloaded (store.dispatch, init and ingest,      *)
(* sync.provision).                                                        *)
THEOREM RecordsKept == Spec => []RecordsAreSound
<1>1. Sound => RecordsAreSound
  <2> SUFFICES ASSUME Sound
               PROVE  RecordsAreSound
    OBVIOUS
  <2>0. Shape /\ Linked /\ Dating /\ Sealed /\ Intact /\ Known
    BY DEF Sound, Books
  <2>1. TypeOK
    <3>1. ASSUME NEW r \in Replica
          PROVE  /\ unsigned[r] \subseteq {o \in log[r] : o.actor = r}
                 /\ disk[r].ops \subseteq Op /\ disk[r].seq \in 0 .. LastSeq
                 /\ opened[r] \subseteq {s \in Replica : {r, s} \in site.reach}
      <4>1. unsigned[r] \subseteq {o \in log[r] : o.actor = r}
        BY <2>0 DEF Sealed
      <4>2. opened[r] \subseteq {s \in Replica : {r, s} \in site.reach}
        BY <2>0 DEF Linked, Shape
      <4> QED
        BY <2>0, <4>1, <4>2, OpsTyped
    <3>2. ASSUME NEW r \in Replica, NEW s \in Replica, asked[r][s] # NoDigest
          PROVE  s \in opened[r] /\ asked[r][s] \in [Replica -> -1 .. LastSeq]
      <4>1. asked[r][s] \in Digest \cup {NoDigest}
        BY <2>0 DEF Shape
      <4> QED
        BY <2>0, <3>2, <4>1 DEF Linked, Digest
    <3>3. ASSUME NEW m \in wire PROVE m.op \in Op /\ m.signed \in BOOLEAN /\ m.to \in opened[m.from]
      BY <2>0, PacketFields DEF Shape, Linked
    <3> QED
      BY <2>0, <3>1, <3>2, <3>3 DEF TypeOK, Shape
  <2>2. OneOpPerSeqUntorn
    <3>1. ASSUME NEW o \in Anywhere PROVE o \in Op /\ Somewhere(o)
      <4>1. CASE \E r \in Replica : o \in Copies(r)
        BY <2>0, <4>1, OpsTyped DEF Somewhere
      <4>2. CASE \E m \in wire : o = m.op
        BY <2>0, <4>2, PacketFields DEF Somewhere, Shape
      <4> QED
        BY <3>1, <4>1, <4>2 DEF Anywhere, Copies
    <3>2. ~site.torn => \A o, p \in Anywhere : SameKey(o, p) => o = p
      BY <2>0, <3>1 DEF Intact
    <3> QED
      BY <3>2 DEF OneOpPerSeqUntorn, OneOpPerSeq
  <2>3. NothingUnsignedIsKept
    <3>1. ASSUME NEW r \in Replica, NEW s \in Replica, r # s, NEW o \in unsigned[r]
          PROVE  o \notin log[s] \cup quarantine[s]
      BY <2>0, <3>1 DEF Sealed, Copies
    <3> QED
      BY <3>1 DEF NothingUnsignedIsKept
  <2>4. AnnouncedIsKnown
    BY <2>0 DEF Known, AnnouncedIsKnown
  <2> QED
    BY <2>1, <2>2, <2>3, <2>4 DEF RecordsAreSound
<1> QED
  BY <1>1, SoundAlways, PTL

(* What the devices keep is a record: no op is lost, none is learned that  *)
(* nobody holds, and an author writes under a name no other op has,        *)
(* restarts included (store.ingest, store.init).                           *)
THEOREM RecordRefined == Spec => KeepsTheRecord
<1>1. Init => Record!Init
  <2> SUFFICES ASSUME Init
               PROVE  Record!Init
    OBVIOUS
  <2>0. Shape /\ Intact
    BY SoundAtFirst DEF Sound, Books
  <2>1. CASE site.torn
    <3>1. \A r \in Replica : Kept[r] = {}
      BY <2>1 DEF Kept
    <3>2. Kept \in [Replica -> SUBSET Op]
      BY <2>1 DEF Kept
    <3> QED
      BY <3>1, <3>2 DEF Record!Init, Record!Everywhere
  <2>2. CASE ~site.torn
    <3>1. Kept = log /\ log \in [Replica -> SUBSET Op]
      BY <2>0, <2>2 DEF Kept, Shape
    <3>2. ASSUME NEW o, NEW p, o \in Record!Everywhere, p \in Record!Everywhere, Record!SameName(o, p)
          PROVE  o = p
      <4>1. o \in Op /\ p \in Op /\ Logged(o) /\ Logged(p)
        BY <3>1, <3>2 DEF Record!Everywhere, Logged
      <4>2. SameKey(o, p)
        BY <3>2 DEF Record!SameName, SameKey
      <4> QED
        BY <2>0, <2>2, <4>1, <4>2 DEF Intact
    <3> QED
      BY <3>1, <3>2 DEF Record!Init
  <2> QED
    BY <2>1, <2>2
<1>2. Sound /\ [Next]_vars => [Record!Next]_Kept
  <2> SUFFICES ASSUME Sound, [Next]_vars
               PROVE  [Record!Next]_Kept
    OBVIOUS
  <2>1. site' = site /\ (~site.torn => Course) /\ Shape /\ Intact
    BY SoundStep DEF Sound, Books
  <2>2. CASE site.torn
    BY <2>1, <2>2 DEF Kept
  <2>3. CASE ~site.torn
    <3>1. Kept = log /\ Kept' = log' /\ log \in [Replica -> SUBSET Op]
      BY <2>1, <2>3 DEF Kept, Shape
    <3>2. \A o \in Op : Logged(o) <=> o \in Record!Everywhere
      BY <3>1 DEF Logged, Record!Everywhere
    <3>3. \A o \in Op : Somewhere(o) <=> Logged(o)
      BY <2>1, <2>3 DEF Intact, Somewhere, Logged, Copies
    <3>4. ASSUME NEW r \in Replica, NEW o \in Op, Inscribed(r, o) PROVE Record!Next
      <4>1. \A p \in Record!Everywhere : p \in Op /\ Logged(p)
        BY <3>1 DEF Record!Everywhere, Logged
      <4>2. o.actor = r /\ ~Somewhere(o) /\ log' = [log EXCEPT ![r] = log[r] \cup {o}]
        BY <3>4 DEF Inscribed
      <4>3. Intact' /\ ~site'.torn
        BY <2>1, <2>3, SoundStep DEF Sound, Books
      <4>4. Logged(o)' /\ \A p : Logged(p) => Logged(p)'
        BY <3>1, <4>2 DEF Logged
      <4>5. \A p \in Record!Everywhere : ~Record!SameName(o, p)
        <5> SUFFICES ASSUME NEW p \in Record!Everywhere, SameKey(o, p)
                     PROVE  FALSE
          BY DEF Record!SameName, SameKey
        <5>1. o = p
          BY <4>1, <4>3, <4>4 DEF Intact
        <5> QED
          BY <4>1, <4>2, <5>1 DEF Somewhere, Logged, Copies
      <4>6. Record!Write(r, o)
        BY <3>1, <4>2, <4>5 DEF Record!Write
      <4> QED
        BY <4>6 DEF Record!Next
    <3>5. ASSUME NEW r \in Replica, Taught(r) PROVE Record!Next
      <4>1. log[r] \subseteq log'[r] /\ log' = [log EXCEPT ![r] = log'[r]]
        BY <3>1, <3>5 DEF Taught
      <4>2. log'[r] \subseteq Record!Everywhere
        BY <3>2, <3>3, <3>5 DEF Taught
      <4>3. Record!Learn(r)
        BY <3>1, <4>1, <4>2 DEF Record!Learn
      <4> QED
        BY <4>3 DEF Record!Next
    <3> QED
      BY <2>1, <2>3, <3>1, <3>4, <3>5 DEF Course
  <2> QED
    BY <2>2, <2>3
<1> QED
  BY <1>1, <1>2, SoundAlways, PTL DEF Spec, KeepsTheRecord, Record!Spec

=============================================================================
