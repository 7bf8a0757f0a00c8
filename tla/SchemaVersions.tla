--------------------------- MODULE SchemaVersions -------------------------------
(***************************************************************************)
(* Ops and the versions of their shape: js/schema.js, js/migrate.js and    *)
(* the part of store.ingest that converts.  A device runs one build, reads *)
(* converters from endpoints that answer when they like, takes ops of any  *)
(* version from the network and from files, and is upgraded.               *)
(*                                                                         *)
(* A payload is the function from its leaves to its values: a leaf is the  *)
(* sequence of keys that leads to it.  A value says its type.  Marks stand *)
(* for the room's tag and the author's signature: they cover what they     *)
(* were made over, and nobody else can make them.                          *)
(***************************************************************************)
EXTENDS Integers, Sequences, FiniteSets, SequencesExt, Functions

CONSTANTS
  Builds,          \* the versions of the builds there are (SCHEMA_VERSION)
  Shipped,         \* of each, the converters it comes with
  Endpoints, Pins, \* where converters are fetched, and the body each is pinned to
  Bodies,          \* of each, the bodies it may answer with
  Ops,             \* the ops of the chamber, as they were written
  Files,           \* logs that were exported, sequences of ops
  MaxHops, MaxSteps, MaxOffered,                  \* MAX_HOPS, MAX_STEPS, the 50 of load
  MaxLeaves, MaxKeys, MaxDepth, OpsPerMessage,    \* LIMITS; the bytes of an op are its leaves
  MaxTaken         \* bound: ops a device takes

Unmarked == {}
Unpinned == {}

VARIABLES
  build,       \* the version of the build this page runs
  converters,  \* the registry, in the order of registration
  fetched,     \* endpoints that were asked
  verifying,   \* store.verifier and the room's key are there
  held,        \* the quarantine
  kept,        \* the log, from an op's id to the op
  deliveries   \* history: how each op of the log got there
versionVars == <<build, converters, fetched, verifying, held, kept, deliveries>>

VersionsInit ==
  /\ build \in Builds /\ converters = Shipped[build] /\ fetched = {}
  /\ verifying = FALSE /\ held = << >> /\ kept = << >> /\ deliveries = << >>

-----------------------------------------------------------------------------
(* Envelopes. *)

VersionOf(op) == IF op.v = 0 THEN 1 ELSE op.v   \* 0: it says none

Depth(payload) == 1 + Cardinality(UNION {DOMAIN leaf : leaf \in DOMAIN payload})

ValidEnvelope(op) ==
  /\ op.v \in 0 .. 1000 /\ op.stamp.actor = op.actor /\ op.stamp.plausible
  /\ Depth(op.payload) <= MaxDepth
  /\ Cardinality({leaf[1] : leaf \in DOMAIN op.payload}) <= MaxKeys
  /\ Cardinality(DOMAIN op.payload) <= MaxLeaves

Covered(op) == [v |-> op.v, type |-> op.type, payload |-> op.payload]

\* Mutant: the marks are checked, and not what they cover.
GenuineInForm(op) == op.marks # Unmarked

Genuine(op) == op.marks = {Covered(op)}

-----------------------------------------------------------------------------
(* The steps of a converter. *)

MatchesType(step, op) == step.type \in {"*", op.type}

\* getPath, the subtree under a path; nothing when it is undefined.
Subtree(payload, path) ==
  LET under == {leaf \in DOMAIN payload : IsPrefix(path, leaf)}
  IN  [rest \in {SubSeq(leaf, Len(path) + 1, Len(leaf)) : leaf \in under} |-> payload[path \o rest]]
Undefined == << >>
Leaf(value) == << >> :> value
IsLeaf(tree) == DOMAIN tree = {<< >>}

\* deletePath; setPath, which puts an object where a leaf is in the way.
Without(payload, path) == RestrictDomain(payload, LAMBDA leaf : ~IsPrefix(path, leaf))
With(payload, path, tree) ==
  RestrictDomain(Without(payload, path), LAMBDA leaf : ~IsPrefix(leaf, path))
    @@ [leaf \in {path \o rest : rest \in DOMAIN tree} |->
          tree[SubSeq(leaf, Len(path) + 1, Len(leaf))]]

RenameType(op, step) == [op EXCEPT !.type = IF op.type = step.from THEN step.to ELSE @]

RenameField(op, step) ==
  LET value == Subtree(op.payload, step.from)
  IN  IF value = Undefined THEN op
      ELSE [op EXCEPT !.payload = With(Without(@, step.from), step.to, value)]

SetField(op, step)     == [op EXCEPT !.payload = With(@, step.field, Leaf(step.value))]
DefaultField(op, step) == IF Subtree(op.payload, step.field) = Undefined THEN SetField(op, step) ELSE op
DropField(op, step)    == [op EXCEPT !.payload = Without(@, step.field)]

\* A map is keyed by what String makes of a text or a number.
MapValue(op, step) ==
  LET current == Subtree(op.payload, step.field)
  IN  IF /\ IsLeaf(current) /\ current[<< >>].is \in {"string", "number"}
         /\ current[<< >>].says \in DOMAIN step.map
      THEN [op EXCEPT !.payload = With(@, step.field, Leaf(step.map[current[<< >>].says]))]
      ELSE op

Numerals == {"0", "1", "5"}
Falsy == {[is |-> "string", says |-> ""], [is |-> "number", says |-> "0"],
          [is |-> "boolean", says |-> "false"]}
Coerced(value, to) ==
  CASE to = "string" -> [is |-> "string", says |-> value.says]
    [] to = "number" -> IF value.says \in Numerals THEN [is |-> "number", says |-> value.says] ELSE value
    [] to = "boolean" -> [is |-> "boolean", says |-> IF value \in Falsy THEN "false" ELSE "true"]
Coerce(op, step) ==
  LET current == Subtree(op.payload, step.field)
  IN  IF IsLeaf(current)
      THEN [op EXCEPT !.payload = With(@, step.field, Leaf(Coerced(current[<< >>], step.to)))]
      ELSE op

Retire(op, step) ==
  [op EXCEPT
     !.type = "schema.retired",
     !.payload = With(<<"retiredType">> :> [is |-> "string", says |-> step.type],
                      <<"original">>, op.payload)]

Kinds == {"renameType", "renameField", "defaultField", "setField", "dropField", "mapValue",
          "coerce", "retire"}

Done(op, step) ==
  CASE step.op = "renameType" -> RenameType(op, step)
    [] ~MatchesType(step, op) -> op
    [] step.op = "renameField" -> RenameField(op, step)
    [] step.op = "defaultField" -> DefaultField(op, step)
    [] step.op = "setField" -> SetField(op, step)
    [] step.op = "dropField" -> DropField(op, step)
    [] step.op = "mapValue" -> MapValue(op, step)
    [] step.op = "coerce" -> Coerce(op, step)
    [] step.op = "retire" -> Retire(op, step)

-----------------------------------------------------------------------------
(* The registry. *)

\* validateManifest; names and paths are well formed here.
ValidManifest(manifest) ==
  /\ manifest.from >= 1 /\ manifest.to > manifest.from
  /\ Len(manifest.steps) <= MaxSteps
  /\ \A k \in DOMAIN manifest.steps : manifest.steps[k].op \in Kinds

SameHop(one, other) == one.from = other.from /\ one.to = other.to

\* Mutant: who registers last wins.
RegisteredLast(registry, manifest) ==
  IF ValidManifest(manifest)
  THEN Append(SelectSeq(registry, LAMBDA known : ~SameHop(known, manifest)), manifest)
  ELSE registry

Registered(registry, manifest) ==
  IF ValidManifest(manifest) /\ \A k \in DOMAIN registry : ~SameHop(registry[k], manifest)
  THEN Append(registry, manifest) ELSE registry

\* path: in breadth, one ring of chains at a time.
Wave(search, registry, to) ==
  FoldLeft(LAMBDA s, pair :
             IF s.found # << >> \/ pair[2].from # pair[1].at \/ pair[2].to \in s.seen THEN s
             ELSE LET chain == Append(pair[1].chain, pair[2])
                  IN  IF pair[2].to = to THEN [s EXCEPT !.found = chain]
                      ELSE [s EXCEPT !.seen = @ \cup {pair[2].to},
                                     !.ring = Append(@, [at |-> pair[2].to, chain |-> chain])],
           [search EXCEPT !.ring = << >>],
           FlattenSeq([k \in DOMAIN search.ring |-> [n \in DOMAIN registry |-> <<search.ring[k], registry[n]>>]]))

\* Mutant: the first way that is found, along the order of registration.
PathOfAlong(registry, from, to) ==
  LET walk == FoldLeft(LAMBDA chain, manifest :
                         IF manifest.to <= to
                            /\ manifest.from = (IF chain = << >> THEN from ELSE Last(chain).to)
                         THEN Append(chain, manifest) ELSE chain,
                       << >>, registry)
  IN  IF walk # << >> /\ Last(walk).to = to THEN walk ELSE << >>

PathOf(registry, from, to) ==
  FoldLeft(LAMBDA search, n : Wave(search, registry, to),
           [ring |-> <<[at |-> from, chain |-> << >>]>>, seen |-> {from}, found |-> << >>],
           [n \in 1 .. MaxHops |-> n]).found

Through(op, manifest) == [FoldLeft(Done, op, manifest.steps) EXCEPT !.v = manifest.to]

\* convert, with the marks put back as ingest does; what cannot be converted
\* stays as it is.
AsRead(op) ==
  LET chain == PathOf(converters, VersionOf(op), build)
      converted == FoldLeft(Through, op, chain)
  IN  IF VersionOf(op) = build \/ chain = << >> \/ Cardinality(DOMAIN converted.payload) > MaxLeaves
      THEN op ELSE converted

-----------------------------------------------------------------------------
(* What a device does. *)

Cut(s, most) == IF Len(s) <= most THEN s ELSE SubSeq(s, 1, most)

\* Mutant: a pin is not looked at.
TrustedAnyway(endpoint, body) == TRUE

Trusted(endpoint, body) == Pins[endpoint] \in {Unpinned, {body}}

Answer(endpoint, body) ==
  /\ endpoint \notin fetched /\ fetched' = fetched \cup {endpoint}
  /\ converters' = IF Trusted(endpoint, body)
                   THEN FoldLeft(Registered, converters, Cut(body, MaxOffered))
                   ELSE converters
  /\ UNCHANGED <<build, verifying, held, kept, deliveries>>

Inserted(ops, by) ==
  /\ kept' = kept @@ [id \in {op.id : op \in ops} |-> CHOOSE op \in ops : op.id = id]
  /\ deliveries' = deliveries @@ [id \in {op.id : op \in ops} |-> by]
Room(ops) == Cardinality(DOMAIN kept \cup {op.id : op \in ops}) <= MaxTaken

\* ingest of what a peer or the relay sends, by an author whose key is known.
Receive(op) ==
  /\ ValidEnvelope(op) /\ op.id \notin DOMAIN kept
  /\ \E read \in {AsRead(op)} :
       \/ ~verifying /\ Cardinality(DOMAIN held) < MaxTaken
          /\ held' = (op.id :> read) @@ held /\ UNCHANGED <<kept, deliveries>>
       \/ verifying /\ Genuine(read) /\ Room({read})
          /\ Inserted({read}, "network") /\ UNCHANGED held
  /\ UNCHANGED <<build, converters, fetched, verifying>>

\* importLog.  Without a verifier it takes any op that is well formed.
Import(file) ==
  /\ \E read \in {{AsRead(op) : op \in ToSet(Cut(SelectSeq(file, ValidEnvelope), OpsPerMessage))}} :
       \E taken \in {{op \in read : verifying => Genuine(op)}} :
         Room(taken) /\ Inserted(taken, "file")
  /\ UNCHANGED <<build, converters, fetched, verifying, held>>

\* provision; the announcement that follows drains the quarantine.
Provision ==
  /\ ~verifying /\ verifying' = TRUE /\ held' = << >>
  /\ \E released \in {{held[id] : id \in {n \in DOMAIN held : Genuine(held[n])}}} :
       Room(released) /\ Inserted(released, "network")
  /\ UNCHANGED <<build, converters, fetched>>

\* The page is loaded again, with this build or a newer one: init inserts what
\* is stored as it is.
Load ==
  /\ build' \in {b \in Builds : b >= build}
  /\ converters' = Shipped[build'] /\ fetched' = {} /\ verifying' = FALSE /\ held' = << >>
  /\ UNCHANGED <<kept, deliveries>>

VersionsNext ==
  \/ \E endpoint \in Endpoints : \E body \in Bodies[endpoint] : Answer(endpoint, body)
  \/ \E op \in Ops : Receive(op)
  \/ \E file \in Files : Import(file)
  \/ Provision
  \/ Load

-----------------------------------------------------------------------------

Routes(registry, from, to) ==
  {stops \in SUBSET (from .. to) :
     /\ {from, to} \subseteq stops /\ Cardinality(stops) <= MaxHops + 1
     /\ \A a, b \in stops :
          a < b /\ ~(\E c \in stops : a < c /\ c < b)
            => \E k \in DOMAIN registry : registry[k].from = a /\ registry[k].to = b}

\* Whichever endpoints answered, and in which order: between any two versions
\* path finds a chain when there is one, none is shorter, and its hops join.
PathsAreShortest ==
  \A from \in 1 .. 5 : \A to \in from + 1 .. 5 :
    \E chain \in {PathOf(converters, from, to)} : \E ways \in {Routes(converters, from, to)} :
      IF ways = {} THEN chain = << >>
      ELSE /\ chain # << >> /\ chain[1].from = from /\ Last(chain).to = to
           /\ \A k \in 1 .. Len(chain) - 1 : chain[k].to = chain[k + 1].from
           /\ \A stops \in ways : Len(chain) < Cardinality(stops)

\* What every build must make of an op, however many versions it came through:
\* the face of a member, the choice of a ballot.
Says(payload, path) == IF IsLeaf(Subtree(payload, path)) THEN payload[path].says ELSE "none"
Meaning(op) ==
  LET version == VersionOf(op)
      body == IF op.type = "schema.retired" THEN Subtree(op.payload, <<"original">>) ELSE op.payload
      vote == Says(body, <<"choice">>)
      avatar == Says(body, <<"avatar">>)
      icon == IF version >= 3 THEN Says(body, <<"badge", "sign">>) ELSE Says(body, <<"icon">>)
  IN  [face |-> CASE version = 1 /\ avatar # "none" -> avatar
                  [] icon = "none" /\ op.type = "member.upsert" /\ version = 1 -> "chair"
                  [] OTHER -> icon,
       vote |-> CASE version = 1 /\ vote = "yes" -> "yea" [] version = 1 /\ vote = "no" -> "nay"
                  [] version = 1 /\ vote = "abstain" -> "present" [] OTHER -> vote,
       seat |-> Says(body, <<"seat">>)]

\* The chamber's record outlives any particular build: an op from the network is
\* kept as it was signed, whatever its version; one that a file brought, and was
\* converted, means what it meant; and nothing of a later version is touched.
RecordOutlivesBuilds ==
  /\ PathsAreShortest
  /\ \A op \in Ops :
       op.id \in DOMAIN kept =>
         /\ deliveries[op.id] = "network" => kept[op.id] = op
         /\ VersionOf(op) >= build => kept[op.id] = op
         /\ VersionOf(kept[op.id]) \in VersionOf(op) .. build \cup {VersionOf(op)}
         /\ Meaning(kept[op.id]) = Meaning(op)
=============================================================================
