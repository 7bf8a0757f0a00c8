-------------------------------- MODULE OpLog --------------------------------
(***************************************************************************)
(* One replica's op log: `Log' of js/crdt.js, the writing half of `Store'  *)
(* (dispatch, signAndRelease, replaceLog) and the prune tool of            *)
(* js/statetools.js.                                                       *)
(*                                                                         *)
(* The ops anybody ever writes are a sequence, world, in canonical order,  *)
(* so an op is its place in it; the log receives them in any order and any *)
(* batches.  An op this device writes enters the log before its signature  *)
(* is attached.                                                            *)
(***************************************************************************)
EXTENDS ChamberFold, Sequences, SequencesExt

CONSTANTS
  Actor,      \* replicas that write
  KeyOf,      \* KeyOf[a]: the fingerprint of a's device key
  Me,         \* the actor this log belongs to, or a value outside Actor
  OpKinds,    \* the ops an author may write: records without author and stamp
  WorldSize,  \* bound: how many ops are ever written
  Prunes      \* whether the prune tool is used

ASSUME WorldAssumption == WorldSize \in Nat \ {0} /\ KeyOf \in [Actor -> Kid]
ASSUME StampAssumption == WorldSize <= MaxTime

\* What the senders put into an op, by its type.
Shaped(op) ==
  /\ "type" \in DOMAIN op
  /\ "key" \in DOMAIN op => op.key \in Kid
  /\ \/ op.type \in {"chair.claim", "chair.recover", "chair.enroll",
                     "chair.request", "other"}
     \/ /\ op.type \in {"chair.petition", "chair.unpetition"}
        /\ {"member", "seat"} \subseteq DOMAIN op
        /\ op.member \in Member /\ op.seat \in Member
     \/ /\ op.type = "session.set"
        /\ {"seat", "recovery"} \subseteq DOMAIN op
        /\ op.seat \in Member \cup {NoSeat}
        /\ op.recovery \in {"mint", "null", "absent"}
     \/ /\ op.type \in {"member.claimKey", "member.requestKey", "member.enrollKey",
                        "member.resetKeys", "member.retract"}
        /\ "member" \in DOMAIN op /\ op.member \in Member
     \/ /\ op.type = "member.put"
        /\ {"member", "how", "patch"} \subseteq DOMAIN op
        /\ op.member \in Member /\ IsPatch(op.patch)

ASSUME KindAssumption ==
  \A kind \in OpKinds :
    Shaped(kind) /\ DOMAIN kind \cap {"actor", "kid", "at"} = {}

VARIABLES
  world,       \* every op that is ever written, in canonical order
  ordered,     \* log.ordered, as places in world
  seq,         \* store.seq, kept in the storage's meta table
  vv,          \* log.vv: the highest seq seen of each actor, -1 for none
  projection,  \* log.state
  unsigned,    \* ops written here that carry no kid, pruned ones included
  signing,     \* ... whose signature is being made
  provisioned, \* store.identitySigner is set
  disk,        \* the ops the storage holds
  pruned       \* history: ops the prune tool dropped and nobody resent

vars == <<world, ordered, seq, vv, projection, unsigned, signing, provisioned,
          disk, pruned>>

Places == 1 .. WorldSize
Seqno(i) == Cardinality({j \in 1 .. i - 1 : world[j].actor = world[i].actor})

\* S sorted: in its n-th place stands the one with n of S up to it.
Upto(x, S) == {y \in S : y <= x}
Ascending(S) ==
  [n \in 1 .. Cardinality(S) |-> CHOOSE x \in S : Cardinality(Upto(x, S)) = n]

Held == Range(ordered)

-----------------------------------------------------------------------------
(* The fold: the authority, and one member field that everyone may read *)

IsPresence(op) == op.type = "member.put" /\ op.how = "presence"

Blank == [auth |-> Seeded(Member), shown |-> [m \in Member |-> 0]]

ApplyAt(p, i, op) ==
  [auth |-> ApplyOp(p.auth, op),
   shown |-> IF IsPresence(op) /\ Authorize(p.auth, op)
             THEN [p.shown EXCEPT ![op.member] = i]
             ELSE p.shown]

\* Ops, each at its place, folded onto base in canonical order.
FoldOnto(base, ops) ==
  LET folded[n \in 0 .. WorldSize] ==
        IF n = 0 THEN base
        ELSE IF n \in DOMAIN ops THEN ApplyAt(folded[n - 1], n, ops[n])
        ELSE folded[n - 1]
  IN  folded[WorldSize]

\* The ops of S, those of bare without their signature.
OpsOf(S, bare) ==
  [i \in S |-> IF i \in bare THEN [world[i] EXCEPT !.kid = NoKid] ELSE world[i]]

Fold(S, bare) == FoldOnto(Blank, OpsOf(S, bare))

-----------------------------------------------------------------------------
(* Version vectors *)

SeqsOf(a, S) == {Seqno(i) : i \in {j \in S : world[j].actor = a}}

\* Mutant: the latest batch decides, whatever was seen before.
ObservedLast(a, S, known) ==
  IF SeqsOf(a, S) = {} THEN known ELSE Max(SeqsOf(a, S))

Observed(a, S, known) == Max(SeqsOf(a, S) \cup {known})

\* Mutant: the highest seq, gaps or not.
FrontierAsMax(a, S) == Max({-1} \cup SeqsOf(a, S))

\* The highest seq of a with no gap beneath it.
Frontier(a, S) ==
  Max({-1} \cup {n \in SeqsOf(a, S) : \A k \in 0 .. n : k \in SeqsOf(a, S)})

Advertised(S) == [a \in Actor |-> Frontier(a, S)]

Delta(S, remote) == {i \in S : remote[world[i].actor] < Seqno(i)}

-----------------------------------------------------------------------------
(* Log.insert *)

\* Mutant: only an op older than the whole log makes a refold necessary.
NeedsRefoldAtTheHead(accepted) ==
  ordered # <<>> /\ \E i \in accepted : i < Head(ordered)

NeedsRefold(accepted) ==
  ordered # <<>> /\ \E i \in accepted : i < Last(ordered)

Insert(batch, bare) ==
  LET accepted == batch \ Held
      refold == NeedsRefold(accepted)
  IN  /\ accepted # {}
      /\ ordered' = IF refold THEN Ascending(Held \cup accepted)
                              ELSE ordered \o Ascending(accepted)
      /\ vv' = [a \in Actor |-> Observed(a, accepted, vv[a])]
      /\ projection' = IF refold THEN Fold(Held \cup accepted, bare)
                       ELSE FoldOnto(projection, OpsOf(accepted, bare))

-----------------------------------------------------------------------------
(* The operations *)

OpOf(author, kind, i) ==
  LET stamp == [actor |-> author, kid |-> KeyOf[author], key |-> KeyOf[author], at |-> i]
  IN  [f \in DOMAIN kind \cup DOMAIN stamp |->
         IF f \in DOMAIN kind THEN kind[f] ELSE stamp[f]]

Init ==
  /\ \E author \in [Places -> Actor], kind \in [Places -> OpKinds] :
       world = [i \in Places |-> OpOf(author[i], kind[i], i)]
  /\ ordered = <<>> /\ seq = -1
  /\ vv = [a \in Actor |-> -1]
  /\ projection = Blank
  /\ unsigned = {} /\ signing = {}
  /\ provisioned = FALSE
  /\ disk = {} /\ pruned = {}

Mine(i) == world[i].actor = Me

\* store.ingest hands authenticated ops to the log; of its own, those that come
\* back are new to it only if they were pruned, and nobody returns them bare.
Ingest(batch) ==
  /\ \A i \in batch : Mine(i) => i \in (Held \cup pruned) \ unsigned
  /\ Insert(batch, unsigned)
  /\ disk' = disk \cup batch
  /\ pruned' = pruned \ batch
  /\ UNCHANGED <<world, seq, unsigned, signing, provisioned>>

\* store.dispatch: the next op of this actor.  It need not sort after all it has
\* seen: the log takes stamps that the clock does not follow.
\* With no signer the op is released as it is, and stays without a signature;
\* the ops that name this device's key wait for the signer.
NamesAKey(op) == op.type \in {"chair.claim", "chair.request", "chair.recover",
                              "member.claimKey", "member.requestKey"}

Dispatch(i) ==
  /\ Mine(i) /\ i \notin Held
  /\ provisioned \/ ~NamesAKey(world[i])
  /\ Seqno(i) = seq + 1 /\ seq' = seq + 1
  /\ unsigned' = unsigned \cup {i}
  /\ Insert({i}, unsigned')
  /\ IF provisioned
     THEN signing' = signing \cup {i} /\ UNCHANGED disk
     ELSE disk' = disk \cup {i} /\ UNCHANGED signing
  /\ UNCHANGED <<world, provisioned, pruned>>

\* The signature is attached to the very object the log holds; what the op
\* already did to the projection stands.
SignAndRelease(i) ==
  /\ i \in signing
  /\ signing' = signing \ {i}
  /\ unsigned' = unsigned \ {i}
  /\ disk' = disk \cup {i}
  /\ UNCHANGED <<world, ordered, seq, vv, projection, provisioned, pruned>>

Provision ==
  /\ ~provisioned
  /\ provisioned' = TRUE
  /\ UNCHANGED <<world, ordered, seq, vv, projection, unsigned, signing, disk,
                 pruned>>

\* store.init: the log rebuilt from storage, in one insert.  A restart that
\* loses an op being signed is the concern of module Replication.
Restart ==
  /\ signing = {} /\ disk # {}
  /\ ordered' = Ascending(disk)
  /\ vv' = [a \in Actor |-> Observed(a, disk, -1)]
  /\ projection' = Fold(disk, unsigned)
  /\ provisioned' = FALSE
  /\ UNCHANGED <<world, seq, unsigned, signing, disk, pruned>>

\* findPrunable: a presence op whose fields a later one of the member rewrites.
Prunable ==
  {i \in Held : \E j \in Held :
     /\ i < j /\ IsPresence(world[i]) /\ IsPresence(world[j])
     /\ world[i].member = world[j].member}

\* prune and replaceLog: refuse if the record would change; otherwise rebuild
\* the log from what is kept, remembering the seqs seen.
Prune ==
  /\ Prunes /\ Prunable # {} /\ signing = {}
  /\ LET keep == Held \ Prunable
     IN  /\ Fold(keep, unsigned) = projection
         /\ ordered' = Ascending(keep)
         /\ projection' = Fold(keep, unsigned)
         /\ disk' = keep
         /\ pruned' = pruned \cup Prunable
  /\ UNCHANGED <<world, seq, vv, unsigned, signing, provisioned>>

Next ==
  \/ \E batch \in SUBSET Places : Ingest(batch)
  \/ \E i \in Places : Dispatch(i) \/ SignAndRelease(i)
  \/ Provision
  \/ Restart
  \/ Prune

Spec == Init /\ [][Next]_vars

-----------------------------------------------------------------------------
(* Properties *)

\* The log holds each op once, in canonical order, never more than it has
\* counted in its version vector, and nothing on disk that it does not hold.
TypeOK ==
  /\ Held \subseteq Places /\ ordered = Ascending(Held)
  /\ vv \in [Actor -> -1 .. WorldSize] /\ seq \in -1 .. WorldSize
  /\ Me \in Actor => vv[Me] <= seq
  /\ \A i \in Held : Seqno(i) <= vv[world[i].actor]
  /\ projection.auth \in ChamberState
  /\ projection.shown \in [Member -> 0 .. WorldSize]
  /\ signing \subseteq unsigned /\ signing \subseteq Held
  /\ unsigned \subseteq Held \cup pruned
  /\ disk = Held \ signing
  /\ pruned \subseteq Places \ Held

\* "Any two clients that have seen the same set of ops are in byte-identical
\* state, regardless of arrival order" (docs/ARCHITECTURE.md 2.5): once its ops
\* are signed, the projection is the fold of the log, whatever the batches and
\* their order.
FoldOfLog == Fold(Held, {})
ProjectionIsTheFold == unsigned = {} => projection = FoldOfLog

\* A replica that advertises its frontier is sent every op it lacks, gaps in
\* the middle of an actor's ops included.
EveryGapIsAnswered ==
  \A theirs \in SUBSET Held :
    Held \ theirs \subseteq Delta(Held, Advertised(theirs))

\* Together: the log is in order, and its version vector hides no hole in it.
LogShowsItsGaps == TypeOK /\ EveryGapIsAnswered

\* What this device shows is what everyone will compute, as long as its own
\* ops, in their canonical places, are authorised, are not endorsements, and
\* are not signed by a Chair device.
Ordinary(i) ==
  LET before == Fold({j \in Held : j < i}, {})
  IN  /\ Authorize(before.auth, world[i])
      /\ ~IsChairKey(ApplyOp(before.auth, world[i]), world[i].kid)
      /\ world[i].type # "chair.petition"
OrdinaryOpsShowTrue ==
  (\A i \in Held : Mine(i) => Ordinary(i)) => projection = FoldOfLog

\* "Ops this replica can drop without changing the folded state"
\* (js/statetools.js): the pruned log folds to what the whole record folds to.
\* It need not: an op that arrives later can undo what a prune relied on.
PruneKeepsTheRecord ==
  projection = Fold(Held \cup pruned, {})
=============================================================================
