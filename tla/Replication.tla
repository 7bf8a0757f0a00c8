----------------------------- MODULE Replication -----------------------------
(***************************************************************************)
(* Anti-entropy between devices: SyncManager of js/sync.js over the peer   *)
(* links of js/sync-peers.js, and the parts of Store (js/store.js) that    *)
(* decide which received ops enter the log, which wait in quarantine, and  *)
(* what of all that survives a restart.                                    *)
(*                                                                         *)
(* Every op travels as a message of its own: a delta is sent in chunks,    *)
(* and a chunk may arrive when its neighbour did not.  The key directory   *)
(* (js/crypto.js) lives in memory only.                                    *)
(***************************************************************************)
EXTENDS Integers, FiniteSets

CONSTANTS
  Replica,
  NoDigest,    \* no digest under way
  Sites,       \* the chambers to consider, see Site below
  MaxSeq,      \* bound: the highest seq a cousin's own op gets
  LastSeq,     \* ... and any op, those the software writes included
  MaxLives     \* bound: how often a tab is reloaded

(* A site is a chamber of devices and what befalls it. *)
Site ==
  [devices   : SUBSET Replica,
   reach     : SUBSET SUBSET Replica,  \* pairs that can open a direct channel
   writers   : SUBSET Replica,         \* devices whose cousin writes ops
   newcomers : SUBSET Replica,         \* devices that have met nobody yet
   absent    : SUBSET Replica,         \* devices that wrote one more op and left
   carriers  : SUBSET Replica,         \* ... and those that received it before
   reloads   : SUBSET Replica,         \* devices whose tab may be reloaded
   torn      : BOOLEAN,                \* ... before its storage has caught up
   sweeping  : BOOLEAN,                \* whether the anti-entropy timer runs
   drops     : Nat]                    \* bound: how many links fail

ASSUME SiteAssumption ==
  /\ Sites \subseteq Site
  /\ \A s \in Sites :
       /\ s.absent \subseteq s.devices \ s.newcomers
       /\ \A pair \in s.reach : pair \subseteq s.devices \ s.absent /\ Cardinality(pair) = 2
ASSUME BoundsAssumption == LastSeq \in Nat \ {0} /\ {MaxSeq, MaxLives} \subseteq Nat

VARIABLES
  site,        \* the chamber, chosen at the start
  log,         \* log[r]: the ops in r's log
  unsigned,    \* unsigned[r]: those of them whose signature is being made
  seq,         \* store.seq
  knows,       \* knows[r]: the authors whose key r's directory holds
  quarantine,  \* quarantine[r]: ops r cannot authenticate
  disk,        \* disk[r]: the ops and the seq in r's storage
  lives,       \* lives[r]: restarts of r so far
  opened,      \* opened[r]: the peers r has a secured link to
  asked,       \* asked[r][s]: r's digest on its way to s
  wire,        \* the ops on their way
  drops        \* links failed so far

vars == <<site, log, unsigned, seq, knows, quarantine, disk, lives, opened, asked,
          wire, drops>>

\* life tells apart two ops that an author, before and after a restart, gave
\* the same seq.
Op == [actor : Replica, seq : 0 .. LastSeq, body : {"announce", "act"},
       life : 0 .. MaxLives]
SameKey(o, p) == o.actor = p.actor /\ o.seq = p.seq

Online == site.devices \ site.absent

-----------------------------------------------------------------------------
(* Digests and deltas *)

Highest(ns) == CHOOSE n \in ns : \A k \in ns : k <= n

SeqsOf(a, ops) == {o.seq : o \in {p \in ops : p.actor = a}}

Frontier(a, ops) ==
  Highest({-1} \cup {n \in SeqsOf(a, ops) : \A k \in 0 .. n : k \in SeqsOf(a, ops)})
Advertised(r) == [a \in Replica |-> Frontier(a, log[r])]

Delta(r, theirs) == {o \in log[r] : theirs[o.actor] < o.seq}

Signed(r, o) == o \notin unsigned[r]
Packets(r, ops, to) ==
  {[op |-> o, signed |-> Signed(r, o), from |-> r, to |-> s] : o \in ops, s \in to}

-----------------------------------------------------------------------------
(* Starting up *)

Announce(r, n, life) == [actor |-> r, seq |-> n, body |-> "announce", life |-> life]
Act(r, n, life) == [actor |-> r, seq |-> n, body |-> "act", life |-> life]

\* An established chamber: its devices hold each other's announcements and know
\* each other's keys.  A newcomer has announced itself to nobody.
Settled == site.devices \ site.newcomers
Parting(r) == {Act(x, 1, 0) : x \in {y \in site.absent : r \in site.carriers \cup {y}}}
Inherited(r) ==
  IF r \notin Settled THEN {Announce(r, 0, 0)}
  ELSE {Announce(s, 0, 0) : s \in Settled} \cup Parting(r)

Init ==
  /\ site \in Sites
  /\ log = [r \in Replica |-> Inherited(r)]
  /\ unsigned = [r \in Replica |-> {}]
  /\ seq = [r \in Replica |-> Highest(SeqsOf(r, Inherited(r)))]
  /\ knows = [r \in Replica |-> IF r \in Settled THEN Settled ELSE {r}]
  /\ quarantine = [r \in Replica |-> {}]
  /\ disk = [r \in Replica |-> [ops |-> log[r], seq |-> seq[r]]]
  /\ lives = [r \in Replica |-> 0]
  /\ opened = [r \in Replica |-> IF r \in Settled
                               THEN {s \in Settled : {r, s} \in site.reach} ELSE {}]
  /\ asked = [r \in Replica |-> [s \in Replica |-> NoDigest]]
  /\ wire = {}
  /\ drops = 0

-----------------------------------------------------------------------------
(* Writing *)

\* store.dispatch: an op whose key the log already holds is dropped, and the
\* sequence number is spent all the same.
Written(ops, o) == IF \E p \in ops : SameKey(o, p) THEN ops ELSE ops \cup {o}

WriteAt(r) ==
  /\ seq[r] < LastSeq
  /\ seq' = [seq EXCEPT ![r] = @ + 1]
  /\ log' = [log EXCEPT ![r] = Written(@, Act(r, seq[r] + 1, lives[r]))]
  /\ unsigned' = [unsigned EXCEPT ![r] = @ \cup (log'[r] \ log[r])]

Dispatch(r) ==
  /\ r \in site.writers /\ seq[r] < MaxSeq
  /\ WriteAt(r)
  /\ UNCHANGED <<site, knows, quarantine, disk, lives, opened, asked, wire, drops>>

Saved(r) == [ops |-> log'[r] \ unsigned'[r], seq |-> seq'[r]]
Flush(r) ==
  disk' = IF site.torn THEN disk ELSE [disk EXCEPT ![r] = Saved(r)]

\* store.signAndRelease: the signed op goes to the storage and to every link.
Release(r, o) ==
  /\ o \in unsigned[r]
  /\ unsigned' = [unsigned EXCEPT ![r] = @ \ {o}]
  /\ wire' = wire \cup {[op |-> o, signed |-> TRUE, from |-> r, to |-> s] : s \in opened[r]}
  /\ UNCHANGED <<site, log, seq, knows, quarantine, lives, opened, asked, drops>>
  /\ Flush(r)

\* store.persist, called and not awaited: the storage catches up with the log,
\* and with a sequence number that may already be ahead of it.
Persist(r) ==
  /\ site.torn
  /\ UNCHANGED <<site, log, unsigned, seq, knows, quarantine, lives, opened, asked,
                 wire, drops>>
  /\ disk' = [disk EXCEPT ![r] = Saved(r)]

\* Mutant: the sequence numbers start over.
ResumedAfresh(r) == -1

\* Keep the sequence ahead of anything already attributed to this device.
Resumed(r) == Highest({disk[r].seq} \cup SeqsOf(r, disk[r].ops))

\* The tab is reloaded.  store.init reads the storage, the
\* links are gone, the directory is empty, and provision announces the device.
Restart(r) ==
  LET o == Announce(r, Resumed(r) + 1, lives[r] + 1)
  IN  /\ r \in site.reloads /\ lives[r] < MaxLives /\ o.seq <= LastSeq
      /\ site.torn \/ unsigned[r] = {}
      /\ lives' = [lives EXCEPT ![r] = @ + 1]
      /\ seq' = [seq EXCEPT ![r] = o.seq]
      /\ log' = [log EXCEPT ![r] = disk[r].ops \cup {o}]
      /\ unsigned' = [unsigned EXCEPT ![r] = {o}]
      /\ knows' = [knows EXCEPT ![r] = {r}]
      /\ quarantine' = [quarantine EXCEPT ![r] = {}]
      /\ opened' = [p \in Replica |-> IF p = r THEN {} ELSE opened[p] \ {r}]
      /\ wire' = {m \in wire : r \notin {m.from, m.to}}
      /\ asked' = [p \in Replica |-> [s \in Replica |->
                     IF r \in {p, s} THEN NoDigest ELSE asked[p][s]]]
      /\ UNCHANGED <<site, disk, drops>>

-----------------------------------------------------------------------------
(* Links *)

\* r's end of a handshake completes: r learns the other's key, writes the other
\* down (device.seen) and says hello with its digest.
Secure(r, s) ==
  /\ {r, s} \in site.reach /\ s \notin opened[r]
  /\ opened' = [opened EXCEPT ![r] = @ \cup {s}]
  /\ knows' = [knows EXCEPT ![r] = @ \cup {s}]
  /\ asked' = [asked EXCEPT ![r][s] = Advertised(r)]
  /\ WriteAt(r)
  /\ UNCHANGED <<site, quarantine, disk, lives, wire, drops>>

LinkFails(r, s) ==
  /\ s \in opened[r] /\ drops < site.drops
  /\ drops' = drops + 1
  /\ opened' = [opened EXCEPT ![r] = @ \ {s}, ![s] = @ \ {r}]
  /\ wire' = {m \in wire : {m.from, m.to} # {r, s}}
  /\ asked' = [asked EXCEPT ![r][s] = NoDigest, ![s][r] = NoDigest]
  /\ UNCHANGED <<site, log, unsigned, seq, knows, quarantine, disk, lives>>

\* Mutant: the digest goes to devices there is no link to.
SweepAll(r) ==
  /\ site.sweeping
  /\ asked' = [asked EXCEPT ![r] = [s \in Replica |-> Advertised(r)]]
  /\ UNCHANGED <<site, log, unsigned, seq, knows, quarantine, disk, lives, opened,
                 wire, drops>>

\* sync.sweep: a digest to every peer, in place of one that is still under way.
Sweep(r) ==
  /\ site.sweeping
  /\ asked' = [asked EXCEPT ![r] =
                 [s \in Replica |-> IF s \in opened[r] THEN Advertised(r) ELSE @[s]]]
  /\ UNCHANGED <<site, log, unsigned, seq, knows, quarantine, disk, lives, opened,
                 wire, drops>>

\* sendDelta answers a digest with every op above its frontier, signed or not.
Answer(r, s) ==
  /\ asked[s][r] # NoDigest /\ s \in opened[r]
  /\ asked' = [asked EXCEPT ![s][r] = NoDigest]
  /\ wire' = wire \cup Packets(r, Delta(r, asked[s][r]), {s})
  /\ UNCHANGED <<site, log, unsigned, seq, knows, quarantine, disk, lives, opened,
                 drops>>

-----------------------------------------------------------------------------
(* store.ingest of one op *)

Fresh(r, o) == \A p \in log[r] : ~SameKey(o, p)

\* Mutant: a key is learned only from the device it belongs to.
LearnedFirstHand(m, known) ==
  IF m.signed /\ m.op.body = "announce" /\ m.from = m.op.actor
  THEN known \cup {m.op.actor} ELSE known

\* An announcement teaches its author's key, new or not.
Learned(m, known) ==
  IF m.signed /\ m.op.body = "announce" THEN known \cup {m.op.actor} ELSE known

\* Mutant: an op counts as authenticated without its signature.
AuthenticUnsigned(m, directory) ==
  m.op.body = "announce" \/ m.op.actor \in directory

\* Mutant: an op counts as authenticated only on its author's own link.
AuthenticFirstHand(m, directory) == m.signed /\ m.op.actor = m.from

Authentic(m, directory) ==
  m.signed /\ (m.op.body = "announce" \/ m.op.actor \in directory)

\* Mutant: an op the log already holds is accepted again.
AcceptedAgain(m, directory) == {o \in {m.op} : Authentic(m, directory)}

\* What is new here, and worth gossiping onward.
Accepted(m, directory) ==
  {o \in {m.op} : Authentic(m, directory) /\ Fresh(m.to, o)}

\* The quarantined ops that a new announcement o releases.
Released(r, o, directory) ==
  {p \in quarantine[r] : p.actor \in directory /\ ~SameKey(p, o) /\ Fresh(r, p)}

Quarantined(held, o) == {p \in held : ~SameKey(p, o)} \cup {o}

\* A new announcement empties the quarantine of what it explains; an op of an
\* author nobody has explained goes there; one that is not signed is dropped.
Deliver(m) ==
  LET r == m.to
      directory == Learned(m, knows[r])
      accepted == Accepted(m, directory)
      drains == m.op.body = "announce" /\ accepted # {}
  IN  /\ m \in wire /\ m.from \in opened[r]
      /\ wire' = (wire \ {m}) \cup Packets(r, accepted, opened[r] \ {m.from})
      /\ knows' = [knows EXCEPT ![r] = directory]
      /\ log' = [log EXCEPT ![r] = @ \cup accepted \cup
                   (IF drains THEN Released(r, m.op, directory) ELSE {})]
      /\ quarantine' = [quarantine EXCEPT ![r] =
           IF drains THEN {p \in @ : p.actor \notin directory}
           ELSE IF m.signed /\ ~Authentic(m, directory) THEN Quarantined(@, m.op)
           ELSE @]
      /\ UNCHANGED <<site, unsigned, seq, lives, opened, asked, drops>>
      /\ Flush(r)

-----------------------------------------------------------------------------

Next ==
  \/ \E r \in Online :
       Dispatch(r) \/ Persist(r) \/ Restart(r) \/ Sweep(r)
       \/ (\E o \in unsigned[r] : Release(r, o))
  \/ \E r, s \in Online : Secure(r, s) \/ LinkFails(r, s) \/ Answer(r, s)
  \/ \E m \in wire : Deliver(m)

\* The browser runs what is queued: a signature finishes, a write to storage
\* finishes, a message that is not lost with its link arrives and is handled;
\* a timer keeps sweeping, and devices in reach of each other keep redialling.
\* A channel is ordered, so copies of later ops do not overtake an author's
\* earliest op for ever.
Earliest(m) ==
  \A n \in wire : n.from = m.from /\ n.to = m.to /\ n.op.actor = m.op.actor
                   => m.op.seq <= n.op.seq
DeliverTo(r) == \E m \in wire : m.to = r /\ Earliest(m) /\ Deliver(m)

Fairness ==
  \A r \in Replica :
    /\ WF_vars(Sweep(r)) /\ WF_vars(DeliverTo(r))
    /\ WF_vars(\E o \in unsigned[r] : Release(r, o))
    /\ WF_vars(\E s \in Replica : Secure(r, s))
    /\ \A s \in Replica \ {r} : WF_vars(Answer(r, s))

Spec == Init /\ [][Next]_vars
FairSpec == Spec /\ Fairness

-----------------------------------------------------------------------------
(* Properties *)

TypeOK ==
  /\ log \in [Replica -> SUBSET Op] /\ quarantine \in [Replica -> SUBSET Op]
  /\ \A r \in Replica :
       /\ unsigned[r] \subseteq {o \in log[r] : o.actor = r}
       /\ disk[r].ops \subseteq Op /\ disk[r].seq \in 0 .. LastSeq
       /\ \A s \in Replica : asked[r][s] # NoDigest =>
            s \in opened[r] /\ asked[r][s] \in [Replica -> -1 .. LastSeq]
  /\ seq \in [Replica -> 0 .. LastSeq]
  /\ knows \in [Replica -> SUBSET Replica]
  /\ lives \in [Replica -> 0 .. MaxLives] /\ drops \in 0 .. site.drops
  /\ \A r \in Replica : opened[r] \subseteq {s \in Replica : {r, s} \in site.reach}
  /\ \A m \in wire : m.op \in Op /\ m.signed \in BOOLEAN /\ m.to \in opened[m.from]

\* An author and a seq name one op, wherever it is: "a restored backup can never
\* collide with fresh local writes" (js/store.js, init).
Anywhere ==
  (UNION {log[r] \cup quarantine[r] \cup disk[r].ops : r \in Replica})
    \cup {m.op : m \in wire}
OneOpPerSeq == \A o, p \in Anywhere : SameKey(o, p) => o = p

\* It does where no device dies before its storage has caught up.
OneOpPerSeqUntorn == site.torn \/ OneOpPerSeq

\* Although a delta may carry an op whose signature is still being made, no
\* other device ever holds one, in its log or in quarantine.
NothingUnsignedIsKept ==
  \A r, s \in Replica : r # s => unsigned[r] \cap (log[s] \cup quarantine[s]) = {}

\* "The announcement is self-signed ... so peers can authenticate our gossiped
\* ops even if they never pair with us directly" (js/sync.js, provision): a
\* device that was never reloaded can authenticate every author whose
\* announcement it holds.
AnnouncedIsKnown ==
  \A r \in Replica : lives[r] = 0 =>
    \A o \in log[r] : o.body = "announce" => o.actor \in knows[r]

\* Together: a name means one op wherever it is, nobody else keeps a copy without
\* a signature, and what explains its author was understood.
RecordsAreSound == TypeOK /\ OneOpPerSeqUntorn /\ NothingUnsignedIsKept /\ AnnouncedIsKnown

\* "Ops gossip onward through every connection, so pairing with one peer
\* converges you on the whole mesh" (docs/ARCHITECTURE.md 2.3): the cousins stop
\* writing, and all devices come to hold the same log for good; with no sweep
\* where no link fails and no tab is reloaded, with it otherwise.
Agreed == \A r, s \in Online : log[r] = log[s]
Converges == ~site.torn => <>[]Agreed

\* "Returns the ops that were new here, which is exactly the set worth gossiping
\* onward - a peer mesh with cycles relies on this to terminate" (js/store.js,
\* ingest): with nobody writing and no sweep, the wire falls silent.
GossipTerminates == ~site.sweeping => <>[](wire = {})

\* What the devices keep is a record: names are unique, nobody loses an op, and
\* nobody learns an op that nobody wrote.  A site whose devices may die before
\* their storage has caught up promises none of it.
Kept == IF site.torn THEN [r \in Replica |-> {}] ELSE log
Record == INSTANCE RecordKeeping WITH held <- Kept
KeepsTheRecord == Record!Spec
=============================================================================
