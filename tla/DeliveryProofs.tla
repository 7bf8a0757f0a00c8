---------------------------- MODULE DeliveryProofs ----------------------------
(***************************************************************************)
(* What the two ways of delivery keep, proved apart from each other: the   *)
(* relay's client for any number of ops, closes and failed requests, the   *)
(* walkie-talkie for any devices, any mesh and any browser.                *)
(*                                                                         *)
(* Relay. The inductive invariant has two parts. Ordered holds on every    *)
(* network: whatever waits or travels consists of ops handed over, oldest  *)
(* first but for the late ones; and what travels, or is stored, without a  *)
(* signature is Behind: late, or bound to be. Seamless holds on a calm     *)
(* network, and is about the ops that are Due, which are never Behind: the *)
(* relay has stored those up to its vector, no batch leaves a gap to what  *)
(* arrives before it, and what is not stored is queued, or under way once  *)
(* there is a way. An op that becomes due is newer than all of that.       *)
(*                                                                         *)
(* Walkie. For the microphone it is not enough to know whether a track is  *)
(* live: Handled says which stream the handset holds while a call waits    *)
(* for permission. For the clips, Line says that what was heard and what   *)
(* is queued are different clips, all of them complete, and Voice that     *)
(* something sounds whenever a clip is said to be playing.                 *)
(***************************************************************************)
EXTENDS Relay, Walkie, FiniteSetTheorems, SequenceTheorems, TLAPS

-----------------------------------------------------------------------------
(* The relay's client *)

Frames == [t : {"ops", "hello"}, ops : Seq(Nat), bare : SUBSET Nat]
Requests == [ops : Seq(Nat), arrived : BOOLEAN]
Sound(ops, top, excused) ==
  AscendsBut(ops, excused) /\ \A i \in 1 .. Len(ops) : ops[i] \in 1 .. top

Holds(ops, op) == \E k \in 1 .. Len(ops) : ops[k] = op

\* The ops that are late, or will be when their signature is made.
Behind == late \cup {n \in signing : n <= newest}

\* What may be on the uplink: batches in order, and hellos that carry nothing.
Tidy(frames, top, excused, behind) ==
  \A i \in 1 .. Len(frames) :
    /\ Sound(frames[i].ops, top, excused)
    /\ frames[i].bare \subseteq behind
    /\ frames[i].t = "hello" => frames[i].ops = <<>>

Links ==
  /\ net \in Networks /\ closes \in 0 .. MaxCloses /\ failures \in 0 .. MaxFailures
  /\ ws \in {"connecting", "open", "waiting", "none"} /\ attempt \in 0 .. 2
  /\ ws # "none" => attempt <= 1
  /\ ws # "open" => uplink = <<>> /\ downlink = <<>>
  /\ ws = "open" => outbox = <<>>
  /\ posts # <<>> => Http

Relayed ==
  /\ written \in 0 .. MaxWrites /\ newest \in 0 .. written
  /\ signing \subseteq 1 .. written /\ late \subseteq 1 .. written /\ signing \cap late = {}
  /\ stored \subseteq 1 .. newest /\ bare \subseteq stored /\ bare \subseteq Behind
  /\ seen \in stored \cup {0} /\ \A op \in stored : op <= seen
  /\ downlink \in Seq(0 .. written)

Queues ==
  /\ outbox \in Seq(Nat) /\ uplink \in Seq(Frames) /\ posts \in Seq(Requests)
  /\ Sound(outbox, newest, late) /\ \A op \in signing : ~Holds(outbox, op)
  /\ Tidy(uplink, newest, late, Behind)
  /\ \A i \in 1 .. Len(posts) : Sound(posts[i].ops, newest, late)

Ordered == Links /\ Relayed /\ Queues

\* The batches the socket carries, and those of the requests under way.
SentOff == [i \in 1 .. Len(uplink) |-> uplink[i].ops]
Pending == [i \in 1 .. Len(posts) |-> IF posts[i].arrived THEN <<>> ELSE posts[i].ops]

Brings(queue, i, op) == \E j \in 1 .. i : Holds(queue[j], op)
Covers(queue, got, due) == \A op \in due : op \in got \/ Brings(queue, Len(queue), op)
\* An op comes after, or with, all that were due before it.
Gapless(queue, got, due) ==
  \A i \in 1 .. Len(queue) : \A k \in 1 .. Len(queue[i]) :
    \A op \in due : op <= queue[i][k] => op \in got \/ Brings(queue, i, op)

Seamless ==
  /\ \A op \in Due : op <= seen => op \in stored
  /\ Gapless(SentOff, stored, Due) /\ Gapless(Pending, stored, Due)
  /\ ws \in {"connecting", "waiting"} => \A op \in Due : op \in stored \/ Holds(outbox, op)
  /\ ws = "open" => Covers(SentOff, stored, Due)
  /\ ws = "none" => Covers(Pending, stored, Due)

Kept == Ordered /\ (net = "calm" => Seamless)

-----------------------------------------------------------------------------
(* Sequences of ops                                                        *)

LEMMA SoundGrows ==
  ASSUME NEW ops \in Seq(Nat), NEW a \in Nat, NEW b \in Nat, NEW l, NEW m,
         Sound(ops, a, l), a <= b, l \subseteq m
  PROVE  Sound(ops, b, m)
BY DEF Sound, AscendsBut

LEMMA HoldsAppend ==
  ASSUME NEW ops \in Seq(Nat), NEW n \in Nat
  PROVE  /\ Append(ops, n) \in Seq(Nat)
         /\ \A op : Holds(Append(ops, n), op) <=> Holds(ops, op) \/ op = n
<1> DEFINE longer == Append(ops, n)
<1>1. /\ longer \in Seq(Nat) /\ Len(longer) = Len(ops) + 1 /\ longer[Len(ops) + 1] = n
      /\ \A i \in 1 .. Len(ops) : longer[i] = ops[i]
  BY AppendProperties
<1>2. Len(ops) \in Nat /\ \A i \in 1 .. Len(longer) : i \in 1 .. Len(ops) \/ i = Len(ops) + 1
  BY <1>1
<1> HIDE DEF longer
<1>3. \A op : Holds(longer, op) <=> Holds(ops, op) \/ op = n
  <2>1. ASSUME NEW op, Holds(longer, op) PROVE Holds(ops, op) \/ op = n
    BY <1>1, <1>2, <2>1 DEF Holds
  <2>2. ASSUME NEW op, Holds(ops, op) PROVE Holds(longer, op)
    <3>1. PICK k \in 1 .. Len(ops) : ops[k] = op
      BY <2>2 DEF Holds
    <3>2. k \in 1 .. Len(longer) /\ longer[k] = op
      BY <1>1, <1>2, <3>1
    <3> QED
      BY <3>2 DEF Holds
  <2>3. Holds(longer, n)
    <3>1. Len(ops) + 1 \in 1 .. Len(longer)
      BY <1>1, <1>2
    <3> QED
      BY <1>1, <3>1 DEF Holds
  <2> QED
    BY <2>1, <2>2, <2>3
<1> QED
  BY <1>1, <1>3 DEF longer

\* An op handed over is newer than all before it, or late.
LEMMA SoundAppend ==
  ASSUME NEW ops \in Seq(Nat), NEW a \in Nat, NEW b \in Nat, NEW l, NEW m, NEW n \in 1 .. b,
         Sound(ops, a, l), a <= b, l \subseteq m, n > a \/ n \in m
  PROVE  Sound(Append(ops, n), b, m)
<1> DEFINE longer == Append(ops, n)
<1>1. /\ longer \in Seq(Nat) /\ Len(longer) = Len(ops) + 1 /\ longer[Len(ops) + 1] = n
      /\ \A i \in 1 .. Len(ops) : longer[i] = ops[i]
  BY AppendProperties
<1>2. Len(ops) \in Nat /\ \A i \in 1 .. Len(longer) : i \in 1 .. Len(ops) \/ i = Len(ops) + 1
  BY <1>1
<1> HIDE DEF longer
<1>3. \A i \in 1 .. Len(ops) : longer[i] = ops[i] /\ ops[i] \in 1 .. a
  BY <1>1 DEF Sound
<1>4. \A i \in 1 .. Len(longer) : longer[i] \in 1 .. b
  BY <1>1, <1>2, <1>3
<1>5. ASSUME NEW i \in 1 .. Len(longer), NEW j \in 1 .. Len(longer), i < j
      PROVE  longer[i] < longer[j] \/ longer[j] \in m
  <2>1. i \in 1 .. Len(ops)
    BY <1>1, <1>2, <1>5
  <2>2. CASE j \in 1 .. Len(ops)
    BY <1>3, <1>5, <2>1, <2>2 DEF Sound, AscendsBut
  <2>3. CASE j = Len(ops) + 1
    BY <1>1, <1>3, <2>1, <2>3
  <2> QED
    BY <1>2, <2>2, <2>3
<1> QED
  BY <1>1, <1>4, <1>5 DEF Sound, AscendsBut, longer

LEMMA SoundSingle ==
  ASSUME NEW b \in Nat, NEW n \in 1 .. b, NEW m
  PROVE  <<n>> \in Seq(Nat) /\ Sound(<<n>>, b, m) /\ \A op : Holds(<<n>>, op) <=> op = n
BY DEF Sound, AscendsBut, Holds

LEMMA SoundRest ==
  ASSUME NEW ops \in Seq(Nat), NEW a \in Nat, NEW n \in Nat, NEW l, Sound(ops, a, l)
  PROVE  /\ SubSeq(ops, n + 1, Len(ops)) \in Seq(Nat) /\ Sound(SubSeq(ops, n + 1, Len(ops)), a, l)
         /\ \A op : Holds(SubSeq(ops, n + 1, Len(ops)), op) => Holds(ops, op)
<1> DEFINE rest == SubSeq(ops, n + 1, Len(ops))
<1>1. Len(ops) \in Nat
  OBVIOUS
<1>2. /\ rest \in Seq(Nat) /\ Len(rest) = IF n + 1 <= Len(ops) THEN Len(ops) - n ELSE 0
      /\ \A i \in 1 .. Len(ops) - n : rest[i] = ops[n + i]
  BY <1>1
<1> HIDE DEF rest
<1>3. \A i \in 1 .. Len(rest) : rest[i] = ops[n + i] /\ n + i \in 1 .. Len(ops)
  BY <1>1, <1>2
<1>4. \A op : Holds(rest, op) => Holds(ops, op)
  BY <1>3 DEF Holds
<1> QED
  BY <1>1, <1>2, <1>3, <1>4 DEF Sound, AscendsBut, rest

\* What Push sends is in order.
LEMMA AboveIsSound ==
  ASSUME NEW vv \in Nat, NEW l, written \in Nat, vv <= written
  PROVE  Above(vv) \in Seq(Nat) /\ Sound(Above(vv), written, l)
<1> DEFINE n == written - vv
<1>1. n \in Nat
  OBVIOUS
<1>2. Above(vv) \in Seq(Nat) /\ Len(Above(vv)) = n /\ \A i \in 1 .. n : Above(vv)[i] = vv + i
  BY <1>1 DEF Above
<1> QED
  BY <1>1, <1>2 DEF Sound, AscendsBut

LEMMA RemoveAtProperties ==
  ASSUME NEW S, NEW s \in Seq(S), NEW i \in 1 .. Len(s)
  PROVE  /\ RemoveAt(s, i) \in Seq(S) /\ Len(RemoveAt(s, i)) = Len(s) - 1
         /\ \A j \in 1 .. Len(s) - 1 : RemoveAt(s, i)[j] = IF j < i THEN s[j] ELSE s[j + 1]
<1> DEFINE l == SubSeq(s, 1, i - 1)
           r == SubSeq(s, i + 1, Len(s))
<1>1. l \in Seq(S) /\ Len(l) = i - 1 /\ \A j \in 1 .. i - 1 : l[j] = s[j]
  OBVIOUS
<1>2. r \in Seq(S) /\ Len(r) = Len(s) - i /\ \A j \in 1 .. Len(s) - i : r[j] = s[i + j]
  OBVIOUS
<1>3. /\ l \o r \in Seq(S) /\ Len(l \o r) = Len(l) + Len(r)
      /\ \A j \in 1 .. Len(l) + Len(r) : (l \o r)[j] = IF j <= Len(l) THEN l[j] ELSE r[j - Len(l)]
  <2>1. l \in Seq(S) /\ r \in Seq(S)
    BY <1>1, <1>2
  <2> HIDE DEF l, r
  <2> QED
    BY <2>1, ConcatProperties
<1>4. RemoveAt(s, i) = l \o r
  BY DEF RemoveAt
<1> HIDE DEF l, r
<1>5. ASSUME NEW j \in 1 .. Len(s) - 1
      PROVE  (l \o r)[j] = IF j < i THEN s[j] ELSE s[j + 1]
  <2>1. Len(s) \in Nat
    OBVIOUS
  <2>2. CASE j < i
    BY <2>1, <2>2, <1>1, <1>2, <1>3
  <2>3. CASE ~(j < i)
    <3>1. j - (i - 1) \in 1 .. Len(s) - i
      BY <2>1, <2>3
    <3>2. i + (j - (i - 1)) = j + 1
      BY <2>1
    <3>3. r[j - (i - 1)] = s[j + 1]
      BY <3>1, <3>2, <1>2
    <3> QED
      BY <2>1, <2>3, <3>3, <1>1, <1>2, <1>3
  <2> QED
    BY <2>2, <2>3
<1>6. Len(l \o r) = Len(s) - 1
  <2>1. Len(s) \in Nat /\ i \in Nat
    OBVIOUS
  <2> QED
    BY <2>1, <1>1, <1>2, <1>3
<1> QED
  BY <1>3, <1>4, <1>5, <1>6

-----------------------------------------------------------------------------
(* The relay's store                                                       *)

\* Of a batch in order nothing above the vector is passed over that is not late.
LEMMA FreshOfSound ==
  ASSUME NEW ops \in Seq(Nat), NEW a \in Nat, NEW l, Sound(ops, a, l), seen \in Nat
  PROVE  /\ \A op \in Fresh(ops) : Holds(ops, op) /\ op \in 1 .. a /\ op > seen
         /\ \A op : Holds(ops, op) /\ op > seen /\ op \notin l => op \in Fresh(ops)
<1>1. DOMAIN ops = 1 .. Len(ops) /\ Len(ops) \in Nat
  OBVIOUS
<1>2. ASSUME NEW op \in Fresh(ops) PROVE Holds(ops, op) /\ op \in 1 .. a /\ op > seen
  BY <1>1, <1>2 DEF Fresh, Holds, Sound
<1>3. ASSUME NEW op, Holds(ops, op), op > seen, op \notin l PROVE op \in Fresh(ops)
  <2>1. PICK k \in 1 .. Len(ops) : ops[k] = op
    BY <1>3 DEF Holds
  <2>2. \A j \in 1 .. k - 1 : ops[j] < ops[k]
    BY <1>1, <1>3, <2>1 DEF Sound, AscendsBut
  <2> QED
    BY <1>1, <1>3, <2>1, <2>2 DEF Fresh
<1> QED
  BY <1>2, <1>3

LEMMA StoreKeeps ==
  ASSUME Relayed, NEW ops \in Seq(Nat), NEW unsigned, Sound(ops, newest, late),
         unsigned \subseteq Behind, Store(ops, unsigned)
  PROVE  /\ stored' \subseteq 1 .. newest /\ bare' \subseteq stored' /\ bare' \subseteq Behind
         /\ seen' \in stored' \cup {0} /\ \A op \in stored' : op <= seen'
         /\ stored \subseteq stored'
<1>1. newest \in Nat /\ seen \in Nat /\ stored \subseteq Nat
  BY BoundsAssumption DEF Relayed
<1>2. \A op \in Fresh(ops) : op \in 1 .. newest /\ op > seen
  BY <1>1, FreshOfSound
<1>5. /\ stored' = stored \cup Fresh(ops) /\ bare' = bare \cup (Fresh(ops) \cap unsigned)
      /\ seen' \in Fresh(ops) \cup {seen} /\ \A op \in Fresh(ops) : op <= seen'
  BY DEF Store
<1>6. seen <= seen' /\ seen' \in Nat
  BY <1>1, <1>2, <1>5
<1>7. \A op \in stored' : op <= seen'
  BY <1>1, <1>2, <1>5, <1>6 DEF Relayed
<1> QED
  BY <1>1, <1>2, <1>5, <1>7 DEF Relayed

\* A batch that leaves no gap to what is stored: all of it that is due is stored,
\* and the relay again has what is due up to its vector.
LEMMA StoreIsSeamless ==
  ASSUME Relayed, NEW ops \in Seq(Nat), NEW unsigned, Sound(ops, newest, late), Store(ops, unsigned),
         \A op \in Due : op <= seen => op \in stored,
         \A k \in 1 .. Len(ops) : \A op \in Due : op <= ops[k] => op \in stored \/ Holds(ops, op)
  PROVE  /\ \A op \in Due : op <= seen' => op \in stored'
         /\ \A op \in Due : Holds(ops, op) => op \in stored'
<1>1. newest \in Nat /\ seen \in Nat /\ Due \subseteq Nat /\ Due \cap late = {}
  BY BoundsAssumption DEF Relayed, Due
<1>2. /\ \A op \in Fresh(ops) : Holds(ops, op)
      /\ \A op : Holds(ops, op) /\ op > seen /\ op \notin late => op \in Fresh(ops)
  BY <1>1, FreshOfSound
<1>4. /\ stored' = stored \cup Fresh(ops)
      /\ seen' \in Fresh(ops) \cup {seen}
  BY DEF Store
<1>5. \A op \in Due : Holds(ops, op) => op \in stored'
  BY <1>1, <1>2, <1>4
<1>7. ASSUME NEW op \in Due, op <= seen' PROVE op \in stored'
  <2>1. CASE seen' = seen
    BY <1>4, <1>7, <2>1
  <2>2. CASE seen' \in Fresh(ops)
    <3>1. PICK k \in 1 .. Len(ops) : ops[k] = seen'
      BY <1>2, <2>2 DEF Holds
    <3> QED
      BY <1>4, <1>5, <1>7, <3>1
  <2> QED
    BY <1>4, <2>1, <2>2
<1> QED
  BY <1>5, <1>7

-----------------------------------------------------------------------------
(* Ordered is preserved.                                                   *)

LEMMA NonEmptyIsFrame ==
  ASSUME NEW ops \in Seq(Nat), NEW unsigned
  PROVE  /\ NonEmpty(ops, unsigned) \in Seq(Frames)
         /\ \/ ops = <<>> /\ NonEmpty(ops, unsigned) = <<>>
            \/ ops # <<>> /\ NonEmpty(ops, unsigned) = <<Batch(ops, unsigned)>>
         /\ Batch(ops, unsigned) \in Frames
         /\ Batch(ops, unsigned).ops = ops /\ Batch(ops, unsigned).t = "ops"
         /\ \A op \in Batch(ops, unsigned).bare : Holds(ops, op) /\ op \in unsigned
<1>1. DOMAIN ops = 1 .. Len(ops) /\ \A i \in 1 .. Len(ops) : ops[i] \in Nat
  OBVIOUS
<1>2. /\ ToSet(ops) \subseteq Nat /\ \A op \in ToSet(ops) : Holds(ops, op)
  BY <1>1 DEF ToSet, Holds
<1>3. /\ Batch(ops, unsigned) \in Frames
      /\ Batch(ops, unsigned).ops = ops /\ Batch(ops, unsigned).t = "ops"
      /\ Batch(ops, unsigned).bare = ToSet(ops) \cap unsigned
  BY <1>2 DEF Batch, Frames
<1> HIDE DEF Holds
<1>4. CASE ops = <<>>
  BY <1>2, <1>3, <1>4 DEF NonEmpty
<1>5. CASE ops # <<>>
  <2>1. NonEmpty(ops, unsigned) = <<Batch(ops, unsigned)>>
    BY <1>5 DEF NonEmpty
  <2>2. <<Batch(ops, unsigned)>> \in Seq(Frames)
    BY <1>3
  <2> QED
    BY <1>2, <1>3, <1>5, <2>1, <2>2
<1> QED
  BY <1>4, <1>5

LEMMA TidyGrows ==
  ASSUME NEW frames \in Seq(Frames), NEW a \in Nat, NEW b \in Nat, NEW l, NEW m, NEW x, NEW y,
         Tidy(frames, a, l, x), a <= b, l \subseteq m, x \subseteq y
  PROVE  Tidy(frames, b, m, y)
<1>1. \A i \in 1 .. Len(frames) : frames[i].ops \in Seq(Nat)
  <2>1. \A i \in 1 .. Len(frames) : frames[i] \in Frames
    OBVIOUS
  <2> QED
    BY <2>1 DEF Frames
<1> QED
  BY <1>1, SoundGrows DEF Tidy

LEMMA TidyConcat ==
  ASSUME NEW a \in Seq(Frames), NEW b \in Seq(Frames), NEW top, NEW l, NEW x,
         Tidy(a, top, l, x), Tidy(b, top, l, x)
  PROVE  a \o b \in Seq(Frames) /\ Tidy(a \o b, top, l, x)
<1>1. /\ a \o b \in Seq(Frames) /\ Len(a \o b) = Len(a) + Len(b)
      /\ \A i \in 1 .. Len(a) + Len(b) : (a \o b)[i] = IF i <= Len(a) THEN a[i] ELSE b[i - Len(a)]
  BY ConcatProperties
<1>2. Len(a) \in Nat /\ Len(b) \in Nat
  OBVIOUS
<1>3. ASSUME NEW i \in 1 .. Len(a) + Len(b)
      PROVE  \/ i \in 1 .. Len(a) /\ (a \o b)[i] = a[i]
             \/ i - Len(a) \in 1 .. Len(b) /\ (a \o b)[i] = b[i - Len(a)]
  BY <1>1, <1>2
<1> QED
  BY <1>1, <1>3 DEF Tidy

LEMMA TidySingle ==
  ASSUME NEW ops \in Seq(Nat), NEW unsigned, NEW top, NEW l, NEW x, Sound(ops, top, l),
         \A op \in unsigned : Holds(ops, op) => op \in x
  PROVE  /\ <<Batch(ops, unsigned)>> \in Seq(Frames)
         /\ Tidy(<<Batch(ops, unsigned)>>, top, l, x) /\ Tidy(NonEmpty(ops, unsigned), top, l, x)
<1>1. /\ Batch(ops, unsigned) \in Frames /\ Batch(ops, unsigned).ops = ops
      /\ Batch(ops, unsigned).t = "ops" /\ Batch(ops, unsigned).bare \subseteq x
  BY NonEmptyIsFrame
<1>2. <<Batch(ops, unsigned)>> \in Seq(Frames) /\ Tidy(<<Batch(ops, unsigned)>>, top, l, x)
  BY <1>1 DEF Tidy
<1>3. Tidy(<<>>, top, l, x)
  BY DEF Tidy
<1> QED
  BY <1>2, <1>3 DEF NonEmpty

LEMMA TidyHello ==
  ASSUME NEW top, NEW l, NEW x
  PROVE  Sound(<<>>, top, l) /\ <<Hello>> \in Seq(Frames) /\ Tidy(<<Hello>>, top, l, x)
<1>1. Sound(<<>>, top, l)
  BY DEF Sound, AscendsBut
<1>2. Hello \in Frames /\ Hello.ops = <<>> /\ Hello.bare = {}
  BY DEF Hello, Frames
<1> QED
  BY <1>1, <1>2 DEF Tidy

LEMMA Elements ==
  ASSUME Queues
  PROVE  /\ \A i \in 1 .. Len(uplink) :
              /\ uplink[i].ops \in Seq(Nat) /\ Sound(uplink[i].ops, newest, late)
              /\ uplink[i].bare \subseteq Behind
         /\ \A i \in 1 .. Len(posts) :
              /\ posts[i].ops \in Seq(Nat) /\ Sound(posts[i].ops, newest, late)
              /\ posts[i].arrived \in BOOLEAN
<1>1. \A i \in 1 .. Len(uplink) : uplink[i] \in Frames
  BY DEF Queues
<1>2. \A i \in 1 .. Len(posts) : posts[i] \in Requests
  BY DEF Queues
<1> QED
  BY <1>1, <1>2 DEF Frames, Requests, Queues, Tidy

LEMMA PostedIsSound ==
  ASSUME posts \in Seq(Requests), NEW ops \in Seq(Nat), NEW top, NEW l, Sound(ops, top, l),
         \A i \in 1 .. Len(posts) : Sound(posts[i].ops, top, l)
  PROVE  /\ Posted(ops) \in Seq(Requests)
         /\ \A i \in 1 .. Len(Posted(ops)) : Sound(Posted(ops)[i].ops, top, l)
<1>1. [ops |-> ops, arrived |-> FALSE] \in Requests
  BY DEF Requests
<1>2. CASE ops = <<>>
  BY <1>2 DEF Posted
<1>3. CASE ops # <<>>
  <2> DEFINE more == Append(posts, [ops |-> ops, arrived |-> FALSE])
  <2>1. /\ more \in Seq(Requests) /\ Len(more) = Len(posts) + 1
        /\ more[Len(posts) + 1] = [ops |-> ops, arrived |-> FALSE]
        /\ \A i \in 1 .. Len(posts) : more[i] = posts[i]
    BY <1>1, AppendProperties
  <2>2. Posted(ops) = more
    BY <1>3 DEF Posted
  <2>3. Len(posts) \in Nat
    OBVIOUS
  <2> HIDE DEF more
  <2>4. ASSUME NEW i \in 1 .. Len(more) PROVE Sound(more[i].ops, top, l)
    <3>1. i \in 1 .. Len(posts) \/ i = Len(posts) + 1
      BY <2>1, <2>3
    <3> QED
      BY <2>1, <3>1
  <2> QED
    BY <2>1, <2>2, <2>4
<1> QED
  BY <1>2, <1>3

LEMMA RemovalIsSound ==
  ASSUME posts \in Seq(Requests), NEW i \in 1 .. Len(posts), NEW top, NEW l,
         \A j \in 1 .. Len(posts) : Sound(posts[j].ops, top, l)
  PROVE  /\ RemoveAt(posts, i) \in Seq(Requests)
         /\ \A j \in 1 .. Len(RemoveAt(posts, i)) : Sound(RemoveAt(posts, i)[j].ops, top, l)
<1> DEFINE fewer == RemoveAt(posts, i)
<1>1. /\ fewer \in Seq(Requests) /\ Len(fewer) = Len(posts) - 1
      /\ \A j \in 1 .. Len(posts) - 1 : fewer[j] = IF j < i THEN posts[j] ELSE posts[j + 1]
  BY RemoveAtProperties
<1>2. Len(posts) \in Nat
  OBVIOUS
<1> HIDE DEF fewer
<1>3. ASSUME NEW j \in 1 .. Len(fewer) PROVE Sound(fewer[j].ops, top, l)
  <2>1. j \in 1 .. Len(posts) /\ j + 1 \in 1 .. Len(posts)
    BY <1>1, <1>2
  <2> QED
    BY <1>1, <2>1
<1> QED
  BY <1>1, <1>3 DEF fewer

LEMMA OrderedAtFirst == Init => Ordered
BY BoundsAssumption DEF Init, Ordered, Links, Relayed, Queues, Sound, AscendsBut, Tidy, Http, Holds, Behind

\* What is Behind stays so, and an op that becomes due is newer than all handed over.
LEMMA AuthorStep ==
  ASSUME Relayed, downlink \in Seq(0 .. written), [Next]_vars
  PROVE  /\ Behind \subseteq Behind' /\ newest <= newest' /\ newest' \in Nat /\ newest \in Nat
         /\ late \subseteq late' /\ written \in Nat
         /\ \/ Due' = Due
            \/ \E n \in signing : SignAndRelease(n) /\ n > newest /\ Due' = Due \cup {n}
<1>1. written \in Nat /\ newest \in Nat /\ newest <= written /\ signing \subseteq 1 .. written
  BY BoundsAssumption DEF Relayed
<1>2. CASE Dispatch
  <2>1. written' = written + 1 /\ signing' = signing \cup {written + 1} /\ UNCHANGED <<newest, late>>
    BY <1>2 DEF Dispatch
  <2>2. 1 .. written' = (1 .. written) \cup {written + 1}
    BY <1>1, <2>1
  <2>3. Due' = Due
    <3>1. written + 1 \notin 1 .. written
      BY <1>1
    <3> QED
      BY <2>1, <2>2, <3>1 DEF Due
  <2> QED
    BY <1>1, <2>1, <2>3 DEF Behind
<1>3. ASSUME NEW n \in signing, SignAndRelease(n)
      PROVE  /\ Behind \subseteq Behind' /\ newest <= newest' /\ newest' \in Nat /\ late \subseteq late'
             /\ \/ Due' = Due
                \/ n > newest /\ Due' = Due \cup {n}
  <2>1. signing' = signing \ {n} /\ written' = written /\ n \in 1 .. written /\ n \notin late
    BY <1>1, <1>3 DEF SignAndRelease, Relayed
  <2>2. CASE n <= newest
    <3>1. late' = late \cup {n} /\ newest' = newest
      BY <1>3, <2>2 DEF SignAndRelease
    <3> QED
      BY <1>1, <2>1, <2>2, <3>1 DEF Behind, Due
  <2>3. CASE ~(n <= newest)
    <3>1. late' = late /\ newest' = n
      BY <1>3, <2>3 DEF SignAndRelease
    <3>2. Due' = Due \cup {n}
      BY <2>1, <3>1 DEF Due
    <3>3. \A k \in signing : k <= newest => k # n /\ k <= n
      BY <1>1, <2>1, <2>3
    <3>4. Behind \subseteq Behind'
      BY <2>1, <3>1, <3>3 DEF Behind
    <3> QED
      BY <1>1, <2>1, <2>3, <3>1, <3>2, <3>4
  <2> QED
    BY <2>2, <2>3
<1>4. CASE Push
  <2>1. newest' \in {newest, written} /\ UNCHANGED <<written, signing, late>>
    BY <1>4 DEF Push
  <2>2. Behind \subseteq Behind'
    <3>1. \A k \in signing : k <= newest => k <= newest'
      BY <1>1, <2>1
    <3> QED
      BY <2>1, <3>1 DEF Behind
  <2> QED
    BY <1>1, <2>1, <2>2 DEF Due
<1>5. CASE UNCHANGED author
  BY <1>1, <1>5 DEF author, Behind, Due
<1>6. \/ Dispatch \/ Push \/ UNCHANGED author
      \/ \E n \in signing : SignAndRelease(n)
  BY DEF Next, vars, Opens, Closes, Retry, Keepalive, Reads, PostSucceeds, PostFails, PostArrives
<1> QED
  BY <1>1, <1>2, <1>3, <1>4, <1>5, <1>6

LEMMA OrderedStep == Ordered /\ [Next]_vars => Ordered'
<1> SUFFICES ASSUME Ordered, [Next]_vars
             PROVE  Ordered'
  OBVIOUS
<1>0. /\ Links /\ Relayed /\ Queues
      /\ written \in Nat /\ newest \in Nat /\ newest <= written /\ seen \in 0 .. written
      /\ outbox \in Seq(Nat) /\ uplink \in Seq(Frames) /\ posts \in Seq(Requests)
      /\ downlink \in Seq(0 .. written)
  <2>1. Links /\ Relayed /\ Queues
    BY DEF Ordered
  <2>2. written \in Nat /\ newest \in Nat /\ newest <= written /\ \A op \in stored : op \in 0 .. written
    BY <2>1, BoundsAssumption DEF Relayed
  <2>3. seen \in 0 .. written
    BY <2>1, <2>2 DEF Relayed
  <2> QED
    BY <2>1, <2>2, <2>3 DEF Relayed, Queues
<1>12. /\ Behind \subseteq Behind' /\ newest <= newest' /\ newest' \in Nat /\ late \subseteq late'
  BY <1>0, AuthorStep
<1>13. UNCHANGED author => Behind' = Behind
  BY DEF author, Behind
<1>14. /\ UNCHANGED outbox => Sound(outbox', newest', late')
       /\ UNCHANGED uplink => Tidy(uplink', newest', late', Behind')
       /\ Tidy(uplink, newest', late', Behind')
       /\ \A i \in 1 .. Len(posts) : Sound(posts[i].ops, newest', late')
  BY <1>0, <1>12, Elements, SoundGrows, TidyGrows DEF Queues
<1>1. CASE Dispatch
  <2>1. /\ written' = written + 1 /\ written' \in 0 .. MaxWrites /\ signing' = signing \cup {written + 1}
        /\ UNCHANGED <<net, newest, late, outbox, posts, ws, attempt, uplink, downlink, stored, bare, seen,
                       closes, failures>>
    BY <1>0, <1>1, BoundsAssumption DEF Dispatch, relay
  <2>2. Relayed'
    <3>1. written + 1 \notin late /\ 1 .. written \subseteq 1 .. written + 1 /\ newest \in 0 .. written + 1
      BY <1>0 DEF Relayed
    <3>2. signing' \subseteq 1 .. written' /\ late' \subseteq 1 .. written'
      BY <1>0, <2>1 DEF Relayed
    <3>3. downlink' \in Seq(0 .. written')
      BY <1>0, <2>1
    <3> QED
      BY <1>0, <1>12, <2>1, <3>1, <3>2, <3>3 DEF Relayed
  <2>3. ~Holds(outbox, written + 1)
    BY <1>0 DEF Queues, Sound, Holds
  <2>4. Queues'
    BY <1>0, <1>14, <2>1, <2>3 DEF Queues
  <2> QED
    BY <1>0, <2>1, <2>2, <2>4 DEF Ordered, Links, Http
<1>2. ASSUME NEW n \in signing, SignAndRelease(n) PROVE Ordered'
  <2>1. /\ signing' = signing \ {n} /\ n \in 1 .. written
        /\ UNCHANGED <<net, written, ws, attempt, downlink, stored, bare, seen, closes, failures>>
        /\ n \notin signing'
    BY <1>0, <1>2 DEF SignAndRelease, relay, Relayed
  <2>2. /\ newest' \in 0 .. written /\ n \in 1 .. newest' /\ (n > newest \/ n \in late')
        /\ late' \subseteq 1 .. written /\ signing' \cap late' = {}
    <3>1. late \subseteq 1 .. written /\ signing \cap late = {}
      BY <1>0 DEF Relayed
    <3>2. CASE n <= newest
      <4>1. late' = late \cup {n} /\ newest' = newest
        BY <1>2, <3>2 DEF SignAndRelease
      <4> QED
        BY <1>0, <2>1, <3>1, <3>2, <4>1
    <3>3. CASE ~(n <= newest)
      <4>1. late' = late /\ newest' = n
        BY <1>2, <3>3 DEF SignAndRelease
      <4> QED
        BY <1>0, <2>1, <3>1, <3>3, <4>1
    <3> QED
      BY <3>2, <3>3
  <2>3. Relayed'
    BY <1>0, <1>12, <2>1, <2>2 DEF Relayed
  <2>4. CASE ws = "open"
    <3>1. uplink' = Append(uplink, Batch(<<n>>, {})) /\ UNCHANGED <<outbox, posts>>
      BY <1>2, <2>4 DEF SignAndRelease
    <3>2. <<n>> \in Seq(Nat) /\ Sound(<<n>>, newest', late')
      BY <1>12, <2>2, SoundSingle
    <3>3. <<Batch(<<n>>, {})>> \in Seq(Frames) /\ Tidy(<<Batch(<<n>>, {})>>, newest', late', Behind')
      BY <3>2, TidySingle
    <3>4. uplink' = uplink \o <<Batch(<<n>>, {})>>
      <4>1. Batch(<<n>>, {}) \in Frames
        BY <3>2, NonEmptyIsFrame
      <4> QED
        BY <1>0, <3>1, <4>1, AppendIsConcat
    <3>5. uplink' \in Seq(Frames) /\ Tidy(uplink', newest', late', Behind')
      BY <1>0, <1>14, <3>3, <3>4, TidyConcat
    <3>6. Queues'
      BY <1>0, <1>14, <2>1, <3>1, <3>5 DEF Queues
    <3>7. Links'
      BY <1>0, <2>1, <2>4, <3>1 DEF Links, Http
    <3> QED
      BY <2>3, <3>6, <3>7 DEF Ordered
  <2>5. CASE ws # "open"
    <3>1. /\ outbox' = Append(outbox, n) /\ posts' = IF Http THEN Posted(outbox') ELSE posts
          /\ UNCHANGED uplink
      BY <1>2, <2>5 DEF SignAndRelease
    <3>2. /\ outbox' \in Seq(Nat) /\ Sound(outbox', newest', late')
          /\ \A op : Holds(outbox', op) <=> Holds(outbox, op) \/ op = n
      <4>1. Sound(outbox, newest, late)
        BY <1>0 DEF Queues
      <4>2. /\ Append(outbox, n) \in Seq(Nat) /\ Sound(Append(outbox, n), newest', late')
            /\ \A op : Holds(Append(outbox, n), op) <=> Holds(outbox, op) \/ op = n
        <5>1. Sound(Append(outbox, n), newest', late')
          BY <1>0, <1>12, <2>2, <4>1, SoundAppend
        <5>2. n \in Nat
          BY <1>0, <2>1
        <5> QED
          BY <1>0, <5>1, <5>2, HoldsAppend
      <4> QED
        BY <3>1, <4>2
    <3>3. /\ posts' \in Seq(Requests)
          /\ \A i \in 1 .. Len(posts') : Sound(posts'[i].ops, newest', late')
      <4>1. /\ Posted(outbox') \in Seq(Requests)
            /\ \A i \in 1 .. Len(Posted(outbox')) : Sound(Posted(outbox')[i].ops, newest', late')
        BY <1>0, <1>14, <3>2, PostedIsSound
      <4> QED
        BY <1>0, <1>14, <3>1, <4>1
    <3>4. Queues'
      BY <1>0, <1>14, <2>1, <3>1, <3>2, <3>3 DEF Queues
    <3>5. Links'
      BY <1>0, <2>1, <2>5, <3>1 DEF Links, Http
    <3> QED
      BY <2>3, <3>4, <3>5 DEF Ordered
  <2> QED
    BY <2>4, <2>5
<1>3. CASE Opens
  <2>1. /\ ws' = "open" /\ attempt' = 0 /\ uplink' = NonEmpty(outbox, {}) \o <<Hello>> /\ outbox' = <<>>
        /\ ws = "connecting"
        /\ UNCHANGED <<net, written, signing, newest, late, posts, downlink, stored, bare, seen, closes,
                       failures>>
    BY <1>3 DEF Opens, author, relay
  <2>2. Relayed'
    BY <1>0, <1>12, <2>1 DEF Relayed
  <2>3. Links'
    BY <1>0, <2>1 DEF Links, Http
  <2>4. uplink' \in Seq(Frames) /\ Tidy(uplink', newest, late, Behind)
    <3>1. NonEmpty(outbox, {}) \in Seq(Frames) /\ Tidy(NonEmpty(outbox, {}), newest, late, Behind)
      BY <1>0, NonEmptyIsFrame, TidySingle DEF Queues
    <3> QED
      BY <2>1, <3>1, TidyHello, TidyConcat
  <2>5. Sound(<<>>, newest, late) /\ \A op : ~Holds(<<>>, op)
    BY DEF Sound, AscendsBut, Holds
  <2>6. Queues'
    BY <1>0, <1>13, <2>1, <2>4, <2>5 DEF Queues, author
  <2> QED
    BY <2>2, <2>3, <2>6 DEF Ordered
<1>4. CASE Closes
  <2>1. /\ uplink' = <<>> /\ downlink' = <<>> /\ attempt' = attempt + 1
        /\ ws' = (IF attempt' >= 2 THEN "none" ELSE "waiting")
        /\ posts' = (IF attempt' >= 2 THEN Posted(outbox) ELSE posts)
        /\ UNCHANGED <<net, written, signing, newest, late, outbox, stored, bare, seen, failures>>
        /\ ws \in {"connecting", "open"} /\ closes' \in 0 .. MaxCloses
    BY <1>0, <1>4, BoundsAssumption DEF Closes, Links, author, relay
  <2>2. Relayed'
    BY <1>0, <1>12, <2>1 DEF Relayed
  <2>3. Links'
    BY <1>0, <2>1 DEF Links, Http
  <2>4. posts' \in Seq(Requests) /\ \A i \in 1 .. Len(posts') : Sound(posts'[i].ops, newest, late)
    BY <1>0, <2>1, PostedIsSound DEF Queues
  <2>5. Tidy(<<>>, newest', late', Behind')
    BY DEF Tidy
  <2>6. Queues'
    BY <1>0, <2>1, <2>4, <2>5 DEF Queues
  <2> QED
    BY <2>2, <2>3, <2>6 DEF Ordered
<1>5. CASE Retry
  BY <1>0, <1>5, <1>13 DEF Retry, Ordered, Links, Relayed, Queues, Http, author, relay
<1>6. CASE Keepalive
  <2>1. <<Hello>> \in Seq(Frames) /\ Tidy(<<Hello>>, newest, late, Behind)
    BY TidyHello
  <2> QED
    BY <1>0, <1>6, <1>13, <2>1 DEF Keepalive, Ordered, Links, Relayed, Queues, Http, author, relay
<1>7. CASE Push
  <2> DEFINE ops == Above(Head(downlink))
  <2>1. /\ downlink # <<>> /\ uplink' = uplink \o NonEmpty(ops, signing)
        /\ downlink' = Tail(downlink) /\ newest' = (IF ops = <<>> THEN newest ELSE written)
        /\ UNCHANGED <<net, written, signing, late, outbox, posts, ws, attempt, stored, bare, seen, closes,
                       failures>>
    BY <1>7 DEF Push, relay
  <2>2. Head(downlink) \in 0 .. written /\ downlink' \in Seq(0 .. written)
    BY <1>0, <2>1, HeadTailProperties
  <2>3. ops \in Seq(Nat) /\ Sound(ops, written, late)
    BY <1>0, <2>2, AboveIsSound
  <2>4. Tidy(NonEmpty(ops, signing), newest', late', Behind') /\ NonEmpty(ops, signing) \in Seq(Frames)
    <3>1. CASE ops = <<>>
      BY <3>1 DEF NonEmpty, Tidy
    <3>2. CASE ops # <<>>
      <4>1. newest' = written
        BY <2>1, <3>2
      <4>2. \A op \in signing : op \in Behind'
        BY <1>0, <2>1, <4>1 DEF Behind, Relayed
      <4> HIDE DEF ops
      <4> QED
        BY <2>1, <2>3, <4>1, <4>2, TidySingle, NonEmptyIsFrame
    <3> QED
      BY <3>1, <3>2
  <2> HIDE DEF ops
  <2>5. uplink' \in Seq(Frames) /\ Tidy(uplink', newest', late', Behind')
    BY <1>0, <1>14, <2>1, <2>4, TidyConcat
  <2>6. ws = "open"
    BY <1>0, <2>1 DEF Links
  <2>7. Relayed'
    <3>1. newest' \in 0 .. written /\ 1 .. newest \subseteq 1 .. newest'
      BY <1>0, <1>12, <2>1
    <3> QED
      BY <1>0, <1>12, <2>1, <2>2, <3>1 DEF Relayed
  <2>8. Queues'
    BY <1>0, <1>14, <2>1, <2>5 DEF Queues
  <2> QED
    BY <1>0, <2>1, <2>6, <2>7, <2>8 DEF Ordered, Links, Http
<1>8. CASE Reads
  <2>1. /\ uplink # <<>> /\ uplink' = Tail(uplink)
        /\ UNCHANGED <<net, written, signing, newest, late, outbox, posts, ws, attempt, closes, failures>>
    BY <1>8 DEF Reads, author
  <2>2. ws = "open" /\ Behind' = Behind
    BY <1>0, <1>13, <2>1 DEF Links, author
  <2>3. /\ Head(uplink) = uplink[1] /\ 1 \in 1 .. Len(uplink) /\ uplink[1].ops \in Seq(Nat)
        /\ Sound(uplink[1].ops, newest, late) /\ uplink[1].bare \subseteq Behind
    BY <1>0, <2>1, Elements
  <2>4. uplink' \in Seq(Frames) /\ Tidy(uplink', newest, late, Behind)
    <3>1. /\ Tail(uplink) \in Seq(Frames) /\ Len(Tail(uplink)) = Len(uplink) - 1 /\ Len(uplink) \in Nat
          /\ \A i \in 1 .. Len(Tail(uplink)) : Tail(uplink)[i] = uplink[i + 1] /\ i + 1 \in 1 .. Len(uplink)
      BY <1>0, <2>1, HeadTailProperties
    <3> QED
      BY <1>0, <2>1, <3>1 DEF Tidy, Queues
  <2>5. CASE Head(uplink).t = "hello"
    <3>1. downlink' = Append(downlink, seen) /\ UNCHANGED <<stored, bare, seen>>
      BY <1>8, <2>5 DEF Reads, relay
    <3>2. downlink' \in Seq(0 .. written)
      BY <1>0, <3>1
    <3> QED
      BY <1>0, <2>1, <2>2, <2>4, <3>1, <3>2 DEF Ordered, Links, Relayed, Queues, Http
  <2>6. CASE Head(uplink).t # "hello"
    <3>1. Store(uplink[1].ops, uplink[1].bare) /\ UNCHANGED downlink
      BY <1>8, <2>3, <2>6 DEF Reads
    <3>2. /\ stored' \subseteq 1 .. newest /\ bare' \subseteq stored' /\ bare' \subseteq Behind
          /\ seen' \in stored' \cup {0} /\ \A op \in stored' : op <= seen'
      BY <1>0, <2>3, <3>1, StoreKeeps
    <3> QED
      BY <1>0, <2>1, <2>2, <2>4, <3>1, <3>2 DEF Ordered, Links, Relayed, Queues, Http
  <2> QED
    BY <2>5, <2>6
<1>9. ASSUME NEW i \in DOMAIN posts, PostSucceeds(i) PROVE Ordered'
  <2>1. /\ outbox' = SubSeq(outbox, Len(posts[i].ops) + 1, Len(outbox)) /\ posts' = RemoveAt(posts, i)
        /\ UNCHANGED <<net, written, signing, newest, late, ws, attempt, uplink, downlink, stored, bare, seen,
                       closes, failures>>
    BY <1>9 DEF PostSucceeds, author, relay
  <2>2. i \in 1 .. Len(posts) /\ posts # <<>> /\ posts[i].ops \in Seq(Nat)
    BY <1>0, Elements
  <2>3. /\ outbox' \in Seq(Nat) /\ Sound(outbox', newest, late)
        /\ \A op : Holds(outbox', op) => Holds(outbox, op)
    BY <1>0, <2>1, <2>2, SoundRest DEF Queues
  <2>4. posts' \in Seq(Requests) /\ \A j \in 1 .. Len(posts') : Sound(posts'[j].ops, newest, late)
    BY <1>0, <2>1, <2>2, RemovalIsSound DEF Queues
  <2>5. ws = "none" /\ Behind' = Behind
    BY <1>0, <1>13, <2>1, <2>2 DEF Links, Http, author
  <2> QED
    BY <1>0, <2>1, <2>3, <2>4, <2>5 DEF Ordered, Links, Relayed, Queues, Http
<1>10. ASSUME NEW i \in DOMAIN posts, PostFails(i) PROVE Ordered'
  <2>1. /\ posts' = RemoveAt(posts, i) /\ failures' \in 0 .. MaxFailures
        /\ UNCHANGED <<net, written, signing, newest, late, outbox, ws, attempt, uplink, downlink, stored, bare,
                       seen, closes>>
    BY <1>0, <1>10, BoundsAssumption DEF PostFails, Links, author, relay
  <2>2. i \in 1 .. Len(posts) /\ posts # <<>>
    BY <1>0
  <2>3. posts' \in Seq(Requests) /\ \A j \in 1 .. Len(posts') : Sound(posts'[j].ops, newest, late)
    BY <1>0, <2>1, <2>2, RemovalIsSound DEF Queues
  <2>4. ws = "none" /\ Behind' = Behind
    BY <1>0, <1>13, <2>1, <2>2 DEF Links, Http, author
  <2> QED
    BY <1>0, <2>1, <2>3, <2>4 DEF Ordered, Links, Relayed, Queues, Http
<1>11. ASSUME NEW i \in DOMAIN posts, PostArrives(i) PROVE Ordered'
  <2>1. /\ posts' = [posts EXCEPT ![i].arrived = TRUE] /\ Store(posts[i].ops, {})
        /\ UNCHANGED <<net, written, signing, newest, late, outbox, ws, attempt, uplink, downlink, closes,
                       failures>>
    BY <1>11 DEF PostArrives, author
  <2>2. /\ i \in 1 .. Len(posts) /\ posts # <<>> /\ posts[i].ops \in Seq(Nat)
        /\ Sound(posts[i].ops, newest, late)
    BY <1>0, Elements
  <2>3. /\ stored' \subseteq 1 .. newest /\ bare' \subseteq stored' /\ bare' \subseteq Behind
        /\ seen' \in stored' \cup {0} /\ \A op \in stored' : op <= seen'
    BY <1>0, <2>1, <2>2, StoreKeeps
  <2>4. /\ posts' \in Seq(Requests) /\ Len(posts') = Len(posts)
        /\ \A j \in 1 .. Len(posts) : posts'[j].ops = posts[j].ops
    <3>1. posts[i] \in Requests /\ \A j \in 1 .. Len(posts) : posts[j] \in Requests
      BY <1>0, <2>2
    <3>2. [posts[i] EXCEPT !.arrived = TRUE] \in Requests /\ [posts[i] EXCEPT !.arrived = TRUE].ops = posts[i].ops
      BY <3>1 DEF Requests
    <3>3. posts' = [posts EXCEPT ![i] = [posts[i] EXCEPT !.arrived = TRUE]]
      BY <2>1
    <3> QED
      BY <1>0, <2>2, <3>2, <3>3, ExceptSeq
  <2>5. ws = "none" /\ Behind' = Behind
    BY <1>0, <1>13, <2>1, <2>2 DEF Links, Http, author
  <2> QED
    BY <1>0, <2>1, <2>3, <2>4, <2>5 DEF Ordered, Links, Relayed, Queues, Http
<1>15. CASE UNCHANGED vars
  BY <1>0, <1>13, <1>15 DEF vars, author, relay, Ordered, Links, Relayed, Queues, Http
<1> QED
  BY <1>1, <1>2, <1>3, <1>4, <1>5, <1>6, <1>7, <1>8, <1>9, <1>10, <1>11, <1>15 DEF Next

-----------------------------------------------------------------------------
(* Seamless is preserved.                                                  *)

\* One batch more: it may bring what nothing before it brings.
LEMMA QueueGrows ==
  ASSUME NEW q \in Seq(Seq(Nat)), NEW r \in Seq(Seq(Nat)), NEW ops \in Seq(Nat), NEW got, NEW due,
         Len(r) = Len(q) + 1, r[Len(q) + 1] = ops, \A i \in 1 .. Len(q) : r[i] = q[i]
  PROVE  /\ \A op : Brings(r, Len(r), op) <=> Brings(q, Len(q), op) \/ Holds(ops, op)
         /\ Gapless(q, got, due)
              /\ (ops # <<>> => \A op \in due : op \in got \/ Brings(q, Len(q), op) \/ Holds(ops, op))
            => Gapless(r, got, due)
<1>1. Len(q) \in Nat
  OBVIOUS
<1>2. \A i \in 1 .. Len(r) : i \in 1 .. Len(q) \/ i = Len(q) + 1
  BY <1>1
<1>3. ASSUME NEW op PROVE Brings(r, Len(r), op) <=> Brings(q, Len(q), op) \/ Holds(ops, op)
  <2>1. ASSUME Brings(r, Len(r), op) PROVE Brings(q, Len(q), op) \/ Holds(ops, op)
    <3>1. PICK j \in 1 .. Len(r) : Holds(r[j], op)
      BY <2>1 DEF Brings
    <3> QED
      BY <1>2, <3>1 DEF Brings
  <2>2. ASSUME Brings(q, Len(q), op) PROVE Brings(r, Len(r), op)
    <3>1. PICK j \in 1 .. Len(q) : Holds(q[j], op)
      BY <2>2 DEF Brings
    <3>2. j \in 1 .. Len(r)
      BY <1>1
    <3>3. r[j] = q[j]
      OBVIOUS
    <3> QED
      BY <3>1, <3>2, <3>3 DEF Brings
  <2>3. ASSUME Holds(ops, op) PROVE Brings(r, Len(r), op)
    <3>1. Len(q) + 1 \in 1 .. Len(r)
      BY <1>1
    <3> QED
      BY <2>3, <3>1 DEF Brings
  <2> QED
    BY <2>1, <2>2, <2>3
<1>4. ASSUME NEW op, NEW i \in 1 .. Len(q), Brings(q, i, op) PROVE Brings(r, i, op)
  <2>1. PICK j \in 1 .. i : Holds(q[j], op)
    BY <1>4 DEF Brings
  <2>2. j \in 1 .. Len(q)
    BY <1>1
  <2> QED
    BY <2>1, <2>2 DEF Brings
<1>5. \A k \in 1 .. Len(ops) : ops # <<>>
  OBVIOUS
<1> QED
  BY <1>1, <1>2, <1>3, <1>4, <1>5 DEF Gapless

\* One batch less: the relay has what it brought.
LEMMA QueueShrinks ==
  ASSUME NEW q \in Seq(Seq(Nat)), NEW r \in Seq(Seq(Nat)), NEW n \in 1 .. Len(q), NEW got, NEW more, NEW due,
         Len(r) = Len(q) - 1, got \subseteq more, \A op \in due : Holds(q[n], op) => op \in more,
         \A i \in 1 .. Len(q) - 1 : r[i] = IF i < n THEN q[i] ELSE q[i + 1]
  PROVE  /\ Gapless(q, got, due) => Gapless(r, more, due)
         /\ Covers(q, got, due) => Covers(r, more, due)
<1> DEFINE Was(i) == IF i < n THEN i ELSE i + 1
<1>1. Len(q) \in Nat /\ n \in Nat
  OBVIOUS
<1>2. ASSUME NEW i \in 1 .. Len(r) PROVE Was(i) \in 1 .. Len(q) /\ r[i] = q[Was(i)]
  <2>1. i \in 1 .. Len(q) - 1 /\ i \in Nat
    BY <1>1
  <2>2. r[i] = IF i < n THEN q[i] ELSE q[i + 1]
    BY <2>1
  <2>3. CASE i < n
    BY <1>1, <2>1, <2>2, <2>3
  <2>4. CASE ~(i < n)
    BY <1>1, <2>1, <2>2, <2>4
  <2> QED
    BY <2>3, <2>4
<1>3. ASSUME NEW i \in 1 .. Len(r), NEW op \in due, Brings(q, Was(i), op)
      PROVE  op \in more \/ Brings(r, i, op)
  <2>1. PICK j \in 1 .. Was(i) : Holds(q[j], op)
    BY <1>3 DEF Brings
  <2>2. CASE j = n
    BY <2>1, <2>2
  <2>3. CASE j < n
    <3>1. j \in 1 .. i /\ j \in 1 .. Len(q) - 1
      BY <1>1, <1>2, <2>1, <2>3
    <3> QED
      BY <2>1, <2>3, <3>1 DEF Brings
  <2>4. CASE j > n
    <3>1. j - 1 \in 1 .. i /\ j - 1 \in 1 .. Len(q) - 1 /\ ~(j - 1 < n) /\ (j - 1) + 1 = j
      BY <1>1, <1>2, <2>1, <2>4
    <3> QED
      BY <2>1, <3>1 DEF Brings
  <2> QED
    BY <1>1, <1>2, <2>1, <2>2, <2>3, <2>4
<1>4. ASSUME NEW op \in due, Brings(q, Len(q), op)
      PROVE  op \in more \/ Brings(r, Len(r), op)
  <2>1. PICK j \in 1 .. Len(q) : Holds(q[j], op)
    BY <1>4 DEF Brings
  <2>2. CASE j = n
    BY <2>1, <2>2
  <2>3. CASE j < n
    <3>1. j \in 1 .. Len(q) - 1
      BY <1>1, <2>1, <2>3
    <3> QED
      BY <2>1, <2>3, <3>1 DEF Brings
  <2>4. CASE j > n
    <3>1. j - 1 \in 1 .. Len(q) - 1 /\ ~(j - 1 < n) /\ (j - 1) + 1 = j
      BY <1>1, <2>1, <2>4
    <3> QED
      BY <2>1, <3>1 DEF Brings
  <2> QED
    BY <1>1, <2>1, <2>2, <2>3, <2>4
<1> HIDE DEF Was
<1>5. Gapless(q, got, due) => Gapless(r, more, due)
  BY <1>2, <1>3 DEF Gapless
<1>6. Covers(q, got, due) => Covers(r, more, due)
  BY <1>4 DEF Covers
<1> QED
  BY <1>5, <1>6

\* A batch has arrived: the relay has what it brought.
LEMMA QueueEmpties ==
  ASSUME NEW q \in Seq(Seq(Nat)), NEW r \in Seq(Seq(Nat)), NEW n \in 1 .. Len(q), NEW got, NEW more, NEW due,
         Len(r) = Len(q), got \subseteq more, \A op \in due : Holds(q[n], op) => op \in more,
         \A i \in 1 .. Len(q) : r[i] = IF i = n THEN <<>> ELSE q[i]
  PROVE  /\ Gapless(q, got, due) => Gapless(r, more, due)
         /\ Covers(q, got, due) => Covers(r, more, due)
<1>1. \A op \in due : \A i \in 1 .. Len(q) : Brings(q, i, op) => op \in more \/ Brings(r, i, op)
  <2> SUFFICES ASSUME NEW op \in due, NEW i \in 1 .. Len(q), Brings(q, i, op), op \notin more
               PROVE  Brings(r, i, op)
    OBVIOUS
  <2>1. PICK j \in 1 .. i : Holds(q[j], op)
    BY DEF Brings
  <2>2. j \in 1 .. Len(q) /\ j # n
    BY <2>1
  <2>3. r[j] = q[j]
    BY <2>2
  <2> QED
    BY <2>1, <2>3 DEF Brings
<1>2. \A op \in due : Brings(q, Len(q), op) => op \in more \/ Brings(r, Len(r), op)
  <2> SUFFICES ASSUME NEW op \in due, Brings(q, Len(q), op), op \notin more
               PROVE  Brings(r, Len(r), op)
    OBVIOUS
  <2>1. CASE Len(q) = 0
    BY <2>1 DEF Brings
  <2>2. CASE Len(q) # 0
    BY <1>1, <2>2
  <2> QED
    BY <2>1, <2>2
<1>3. \A i \in 1 .. Len(r) : r[i] = q[i] \/ r[i] = <<>>
  OBVIOUS
<1>4. Gapless(q, got, due) => Gapless(r, more, due)
  BY <1>1, <1>3 DEF Gapless
<1> QED
  BY <1>2, <1>4 DEF Covers

QueuesMirror ==
  /\ SentOff \in Seq(Seq(Nat)) /\ Len(SentOff) = Len(uplink)
  /\ \A i \in 1 .. Len(uplink) : SentOff[i] = uplink[i].ops
  /\ Pending \in Seq(Seq(Nat)) /\ Len(Pending) = Len(posts)
  /\ \A i \in 1 .. Len(posts) : Pending[i] = IF posts[i].arrived THEN <<>> ELSE posts[i].ops

LEMMA QueueTypes == Ordered => QueuesMirror
<1> SUFFICES ASSUME Queues PROVE QueuesMirror
  BY DEF Ordered
<1>1. Len(uplink) \in Nat /\ Len(posts) \in Nat
  BY DEF Queues
<1>2. /\ \A i \in 1 .. Len(uplink) : uplink[i].ops \in Seq(Nat)
      /\ \A i \in 1 .. Len(posts) : (IF posts[i].arrived THEN <<>> ELSE posts[i].ops) \in Seq(Nat)
  BY Elements
<1> QED
  BY <1>1, <1>2 DEF SentOff, Pending, QueuesMirror

\* An empty queue has no gap and covers nothing.
LEMMA EmptyQueue ==
  ASSUME NEW got, NEW due
  PROVE  Gapless(<<>>, got, due) /\ (Covers(<<>>, got, due) => \A op \in due : op \in got)
BY DEF Gapless, Covers, Brings

\* An op that becomes due is newer than all that is queued: no gap opens.
LEMMA GaplessAsDueGrows ==
  ASSUME NEW q \in Seq(Seq(Nat)), NEW got, NEW due, NEW n \in Nat, Gapless(q, got, due),
         \A i \in 1 .. Len(q) : \A k \in 1 .. Len(q[i]) : q[i][k] < n
  PROVE  Gapless(q, got, due \cup {n})
<1>1. \A i \in 1 .. Len(q) : \A k \in 1 .. Len(q[i]) : q[i][k] \in Nat
  <2>1. \A i \in 1 .. Len(q) : q[i] \in Seq(Nat)
    OBVIOUS
  <2> QED
    BY <2>1
<1>2. \A i \in 1 .. Len(q) : \A k \in 1 .. Len(q[i]) : ~(n <= q[i][k])
  BY <1>1
<1> QED
  BY <1>2 DEF Gapless

\* A batch leaves no gap if what is due is in it or before it.
LEMMA SentGrows ==
  ASSUME Ordered, Ordered', NEW ops \in Seq(Nat), NEW f \in Frames, f.ops = ops, NEW due,
         uplink' = Append(uplink, f), UNCHANGED stored, Gapless(SentOff, stored, due),
         \A op \in due : op \in stored \/ Brings(SentOff, Len(SentOff), op) \/ Holds(ops, op)
  PROVE  /\ Gapless(SentOff', stored', due)
         /\ \A op : Brings(SentOff', Len(SentOff'), op) <=> Brings(SentOff, Len(SentOff), op) \/ Holds(ops, op)
<1>0. Queues /\ Queues' /\ uplink \in Seq(Frames)
  BY DEF Ordered, Queues
<1>9. QueuesMirror'
  BY QueueTypes, PTL
<1>1. /\ SentOff \in Seq(Seq(Nat)) /\ Len(SentOff) = Len(uplink)
      /\ \A i \in 1 .. Len(uplink) : SentOff[i] = uplink[i].ops
  BY QueueTypes DEF QueuesMirror
<1>2. /\ SentOff' \in Seq(Seq(Nat)) /\ Len(SentOff') = Len(uplink')
      /\ \A i \in 1 .. Len(uplink') : SentOff'[i] = uplink'[i].ops
  BY <1>9 DEF QueuesMirror
<1>3. /\ Len(uplink') = Len(uplink) + 1 /\ uplink'[Len(uplink) + 1] = f
      /\ \A i \in 1 .. Len(uplink) : uplink'[i] = uplink[i] /\ i \in 1 .. Len(uplink')
      /\ Len(uplink) + 1 \in 1 .. Len(uplink')
  BY <1>0, AppendProperties
<1>4. /\ Len(SentOff') = Len(SentOff) + 1 /\ SentOff'[Len(SentOff) + 1] = ops
      /\ \A i \in 1 .. Len(SentOff) : SentOff'[i] = SentOff[i]
  BY <1>1, <1>2, <1>3
<1> QED
  BY <1>1, <1>2, <1>4, QueueGrows

LEMMA SeamlessAtFirst == Init => Seamless
<1> SUFFICES ASSUME Init PROVE Seamless
  OBVIOUS
<1>1. SentOff = <<>> /\ Pending = <<>>
  BY DEF Init, SentOff, Pending
<1> QED
  BY <1>1, EmptyQueue DEF Init, Seamless, Due

\* The same for a request that copies the outbox, if there is anything in it.
LEMMA PendingGrows ==
  ASSUME Ordered, Ordered', NEW ops \in Seq(Nat), NEW due,
         posts' = Posted(ops), UNCHANGED stored, Gapless(Pending, stored, due),
         \A op \in due : op \in stored \/ Brings(Pending, Len(Pending), op) \/ Holds(ops, op)
  PROVE  /\ Gapless(Pending', stored', due)
         /\ \A op \in due : op \in stored \/ Brings(Pending', Len(Pending'), op)
<1>0. Queues /\ Queues' /\ posts \in Seq(Requests)
  BY DEF Ordered, Queues
<1>9. QueuesMirror'
  BY QueueTypes, PTL
<1>1. /\ Pending \in Seq(Seq(Nat)) /\ Len(Pending) = Len(posts)
      /\ \A i \in 1 .. Len(posts) : Pending[i] = IF posts[i].arrived THEN <<>> ELSE posts[i].ops
  BY QueueTypes DEF QueuesMirror
<1>2. /\ Pending' \in Seq(Seq(Nat)) /\ Len(Pending') = Len(posts')
      /\ \A i \in 1 .. Len(posts') : Pending'[i] = IF posts'[i].arrived THEN <<>> ELSE posts'[i].ops
  BY <1>9 DEF QueuesMirror
<1>3. CASE ops = <<>>
  <2>1. posts' = posts
    BY <1>3 DEF Posted
  <2>2. Pending' = Pending
    BY <2>1 DEF Pending
  <2>3. \A op : ~Holds(ops, op)
    BY <1>3 DEF Holds
  <2> QED
    BY <2>2, <2>3
<1>4. CASE ops # <<>>
  <2> DEFINE r == [ops |-> ops, arrived |-> FALSE]
  <2>1. posts' = Append(posts, r) /\ r \in Requests
    BY <1>4 DEF Posted, Requests
  <2>2. /\ Len(posts') = Len(posts) + 1 /\ posts'[Len(posts) + 1] = r
        /\ \A i \in 1 .. Len(posts) : posts'[i] = posts[i] /\ i \in 1 .. Len(posts')
        /\ Len(posts) + 1 \in 1 .. Len(posts')
    BY <1>0, <2>1, AppendProperties
  <2>3. /\ Len(Pending') = Len(Pending) + 1 /\ Pending'[Len(Pending) + 1] = ops
        /\ \A i \in 1 .. Len(Pending) : Pending'[i] = Pending[i]
    <3>1. r.ops = ops /\ r.arrived = FALSE
      OBVIOUS
    <3> HIDE DEF r
    <3> QED
      BY <1>1, <1>2, <2>2, <3>1
  <2> QED
    BY <1>1, <1>2, <2>3, QueueGrows
<1> QED
  BY <1>3, <1>4

LEMMA SeamlessStep == Ordered /\ Seamless /\ net = "calm" /\ Ordered' /\ [Next]_vars => Seamless'
<1> SUFFICES ASSUME Ordered, Seamless, net = "calm", Ordered', [Next]_vars
             PROVE  Seamless'
  OBVIOUS
<1>0. /\ Links /\ Relayed /\ Queues /\ Links' /\ Queues'
      /\ written \in Nat /\ newest \in Nat /\ newest <= written /\ seen \in 0 .. newest
      /\ outbox \in Seq(Nat) /\ uplink \in Seq(Frames) /\ posts \in Seq(Requests)
      /\ downlink \in Seq(0 .. written)
  <2>1. Links /\ Relayed /\ Queues /\ Links' /\ Queues'
    BY DEF Ordered
  <2>2. written \in Nat /\ newest \in Nat /\ newest <= written /\ \A op \in stored : op \in 0 .. newest
    BY <2>1, BoundsAssumption DEF Relayed
  <2>3. seen \in 0 .. newest
    BY <2>1, <2>2 DEF Relayed
  <2> QED
    BY <2>1, <2>2, <2>3 DEF Relayed, Queues
<1>12. QueuesMirror /\ QueuesMirror'
  BY QueueTypes, PTL
<1>13. /\ \A op \in Due : op <= seen => op \in stored
       /\ Gapless(SentOff, stored, Due) /\ Gapless(Pending, stored, Due)
       /\ ws = "open" => Covers(SentOff, stored, Due)
       /\ ws = "none" => Covers(Pending, stored, Due)
       /\ ws \in {"connecting", "waiting"} => \A op \in Due : op \in stored \/ Holds(outbox, op)
  BY DEF Seamless
<1>14. /\ UNCHANGED posts => Pending' = Pending
       /\ UNCHANGED uplink => SentOff' = SentOff
       /\ UNCHANGED <<written, signing, late>> => Due' = Due
  BY DEF Pending, SentOff, Due
<1>15. /\ uplink' = <<>> => SentOff' = <<>> /\ Gapless(SentOff', stored', Due')
       /\ uplink = <<>> => SentOff = <<>> /\ \A op : ~Brings(SentOff, Len(SentOff), op)
       /\ posts = <<>> => Pending = <<>> /\ \A op : ~Brings(Pending, Len(Pending), op)
  <2>1. uplink' = <<>> => SentOff' = <<>> /\ Gapless(SentOff', stored', Due')
    <3>1. uplink' = <<>> => SentOff' = <<>>
      BY DEF SentOff
    <3> QED
      BY <3>1, EmptyQueue
  <2>2. uplink = <<>> => SentOff = <<>> /\ \A op : ~Brings(SentOff, Len(SentOff), op)
    <3>1. uplink = <<>> => SentOff = <<>>
      BY DEF SentOff
    <3> QED
      BY <3>1 DEF Brings
  <2>3. posts = <<>> => Pending = <<>> /\ \A op : ~Brings(Pending, Len(Pending), op)
    <3>1. posts = <<>> => Pending = <<>>
      BY DEF Pending
    <3> QED
      BY <3>1 DEF Brings
  <2> QED
    BY <2>1, <2>2, <2>3
<1>1. CASE Dispatch
  <2>1. UNCHANGED <<net, outbox, posts, ws, uplink, stored, seen>>
    BY <1>1 DEF Dispatch, relay
  <2>2. Due' = Due
    <3>1. ~\E n \in signing : SignAndRelease(n)
      BY <1>0, <1>1 DEF Dispatch, SignAndRelease
    <3> QED
      BY <1>0, <3>1, AuthorStep
  <2> QED
    BY <1>13, <1>14, <2>1, <2>2 DEF Seamless, Covers
<1>2. ASSUME NEW n \in signing, SignAndRelease(n) PROVE Seamless'
  <2>1. UNCHANGED <<net, written, ws, attempt, downlink, stored, seen, closes, failures>> /\ n \in Nat
    BY <1>0, <1>2 DEF SignAndRelease, relay, Relayed
  <2>2. /\ \A op \in Due' : op \in Due \/ op = n
        /\ \A op \in Due' : op <= seen => op \in stored
        /\ Gapless(SentOff, stored, Due') /\ Gapless(Pending, stored, Due')
    <3>1. CASE n <= newest
      <4>1. Due' = Due
        BY <1>0, <1>2, <3>1 DEF SignAndRelease, Due, Relayed
      <4> QED
        BY <1>13, <4>1
    <3>2. CASE ~(n <= newest)
      <4>1. Due' = Due \cup {n}
        BY <1>0, <1>2, <3>2 DEF SignAndRelease, Due, Relayed
      <4>2. \A i \in 1 .. Len(SentOff) : \A k \in 1 .. Len(SentOff[i]) : SentOff[i][k] < n
        <5>1. \A i \in 1 .. Len(uplink) : \A k \in 1 .. Len(uplink[i].ops) : uplink[i].ops[k] \in 1 .. newest
          BY <1>0, Elements DEF Sound
        <5>2. \A k \in 1 .. newest : k < n
          BY <1>0, <2>1, <3>2
        <5> QED
          BY <1>12, <5>1, <5>2 DEF QueuesMirror
      <4>3. \A i \in 1 .. Len(Pending) : \A k \in 1 .. Len(Pending[i]) : Pending[i][k] < n
        <5>1. \A i \in 1 .. Len(posts) : \A k \in 1 .. Len(posts[i].ops) : posts[i].ops[k] \in 1 .. newest
          BY <1>0, Elements DEF Sound
        <5>2. \A k \in 1 .. newest : k < n
          BY <1>0, <2>1, <3>2
        <5>3. ASSUME NEW i \in 1 .. Len(Pending), NEW k \in 1 .. Len(Pending[i]) PROVE Pending[i][k] < n
          <6>1. i \in 1 .. Len(posts) /\ Pending[i] = posts[i].ops
            BY <1>12 DEF QueuesMirror
          <6> QED
            BY <5>1, <5>2, <6>1
        <5> QED
          BY <5>3
      <4>4. Gapless(SentOff, stored, Due \cup {n}) /\ Gapless(Pending, stored, Due \cup {n})
        BY <1>12, <1>13, <2>1, <4>2, <4>3, GaplessAsDueGrows DEF QueuesMirror
      <4> QED
        BY <1>0, <1>13, <2>1, <3>2, <4>1, <4>4
    <3> QED
      BY <3>1, <3>2
  <2>3. CASE ws = "open"
    <3>1. uplink' = Append(uplink, Batch(<<n>>, {})) /\ UNCHANGED <<outbox, posts>>
      BY <1>2, <2>3 DEF SignAndRelease
    <3>2. <<n>> \in Seq(Nat) /\ Holds(<<n>>, n)
      BY <2>1 DEF Holds
    <3>3. Batch(<<n>>, {}) \in Frames /\ Batch(<<n>>, {}).ops = <<n>>
      BY <3>2, NonEmptyIsFrame
    <3>4. \A op \in Due' : op \in stored \/ Brings(SentOff, Len(SentOff), op) \/ Holds(<<n>>, op)
      BY <1>13, <2>2, <2>3, <3>2 DEF Covers
    <3>5. /\ Gapless(SentOff', stored', Due')
          /\ \A op : Brings(SentOff', Len(SentOff'), op) <=> Brings(SentOff, Len(SentOff), op) \/ Holds(<<n>>, op)
      BY <2>1, <2>2, <3>1, <3>2, <3>3, <3>4, SentGrows
    <3>6. Covers(SentOff, stored, Due)'
      BY <2>1, <3>4, <3>5 DEF Covers
    <3> QED
      BY <1>14, <2>1, <2>2, <2>3, <3>1, <3>5, <3>6 DEF Seamless
  <2>4. CASE ws # "open"
    <3>1. /\ outbox' = Append(outbox, n) /\ posts' = IF Http THEN Posted(outbox') ELSE posts
          /\ UNCHANGED uplink
      BY <1>2, <2>4 DEF SignAndRelease
    <3>2. outbox' \in Seq(Nat) /\ Holds(outbox', n) /\ \A op : Holds(outbox, op) => Holds(outbox', op)
      BY <1>0, <2>1, <3>1, HoldsAppend
    <3>3. CASE ~Http
      <4>1. \A op \in Due' : op \in stored \/ Holds(outbox', op)
        BY <1>0, <1>13, <2>2, <2>4, <3>2, <3>3 DEF Links, Http
      <4> QED
        BY <1>14, <2>1, <2>2, <2>4, <3>1, <3>3, <4>1 DEF Seamless, Http
    <3>4. CASE Http
      <4>1. \A op \in Due' : op \in stored \/ Brings(Pending, Len(Pending), op) \/ Holds(outbox', op)
        BY <1>13, <2>2, <3>2, <3>4 DEF Covers, Http
      <4>2. /\ Gapless(Pending', stored', Due')
            /\ \A op \in Due' : op \in stored \/ Brings(Pending', Len(Pending'), op)
        BY <2>1, <2>2, <3>1, <3>2, <3>4, <4>1, PendingGrows
      <4>3. Covers(Pending, stored, Due)'
        BY <2>1, <4>2 DEF Covers
      <4> QED
        BY <1>14, <2>1, <2>2, <3>1, <3>4, <4>2, <4>3 DEF Seamless, Http
    <3> QED
      BY <3>3, <3>4
  <2> QED
    BY <2>3, <2>4
<1>3. CASE Opens
  <2>1. /\ ws' = "open" /\ uplink' = NonEmpty(outbox, {}) \o <<Hello>> /\ outbox' = <<>> /\ ws = "connecting"
        /\ UNCHANGED <<net, written, signing, late, posts, downlink, stored, seen>>
    BY <1>3 DEF Opens, author, relay
  <2>2. \A op \in Due : op \in stored \/ Holds(outbox, op)
    BY <1>13, <2>1
  <2>3. Hello.ops = <<>>
    BY DEF Hello
  <2>4. CASE outbox = <<>>
    <3>1. uplink' = <<Hello>>
      BY <1>0, <2>1, <2>4 DEF NonEmpty
    <3>2. Len(SentOff') = 1 /\ SentOff'[1] = <<>>
      BY <1>12, <2>3, <3>1 DEF QueuesMirror
    <3>3. Gapless(SentOff', stored', Due')
      BY <3>2 DEF Gapless
    <3>4. \A op \in Due : op \in stored
      BY <2>2, <2>4 DEF Holds
    <3> QED
      BY <1>13, <1>14, <2>1, <3>3, <3>4 DEF Seamless, Covers
  <2>5. CASE outbox # <<>>
    <3>1. Len(uplink') = 2 /\ uplink'[1] = Batch(outbox, {}) /\ uplink'[2] = Hello
      <4>1. uplink' = <<Batch(outbox, {})>> \o <<Hello>>
        BY <2>1, <2>5 DEF NonEmpty
      <4>2. Batch(outbox, {}) \in Frames /\ Hello \in Frames
        BY <1>0, NonEmptyIsFrame DEF Hello, Frames
      <4>3. <<Batch(outbox, {})>> \in Seq(Frames) /\ <<Hello>> \in Seq(Frames)
        BY <4>2
      <4> QED
        BY <4>1, <4>3, ConcatProperties
    <3>2. Batch(outbox, {}).ops = outbox
      BY <1>0, NonEmptyIsFrame
    <3>3. Len(SentOff') = 2 /\ SentOff'[1] = outbox /\ SentOff'[2] = <<>>
      BY <1>12, <2>3, <3>1, <3>2 DEF QueuesMirror
    <3>4. \A op : Holds(outbox, op) => \A i \in 1 .. 2 : Brings(SentOff', i, op)
      BY <3>3 DEF Brings
    <3>5. Gapless(SentOff', stored', Due')
      <4>1. \A i \in 1 .. Len(SentOff') : i = 1 \/ i = 2
        BY <3>3
      <4> QED
        BY <1>14, <2>1, <2>2, <3>3, <3>4, <4>1 DEF Gapless
    <3>6. Covers(SentOff, stored, Due)'
      BY <1>14, <2>1, <2>2, <3>3, <3>4 DEF Covers
    <3> QED
      BY <1>13, <1>14, <2>1, <3>5, <3>6 DEF Seamless
  <2> QED
    BY <2>4, <2>5
<1>4. CASE Closes
  <2>1. /\ uplink' = <<>> /\ attempt' = attempt + 1
        /\ ws' = (IF attempt' >= 2 THEN "none" ELSE "waiting")
        /\ posts' = (IF attempt' >= 2 THEN Posted(outbox) ELSE posts)
        /\ UNCHANGED <<net, written, signing, late, outbox, stored, seen>>
        /\ \/ ws = "connecting"
           \/ ws = "open" /\ uplink = <<>>
    BY <1>4 DEF Closes, author, relay
  <2>2. \A op \in Due : op \in stored \/ Holds(outbox, op)
    BY <1>13, <1>15, <2>1 DEF Covers
  <2>3. CASE attempt' >= 2
    <3>1. /\ Gapless(Pending', stored', Due)
          /\ \A op \in Due : op \in stored \/ Brings(Pending', Len(Pending'), op)
      BY <1>0, <1>13, <2>1, <2>2, <2>3, PendingGrows
    <3> QED
      BY <1>13, <1>14, <1>15, <2>1, <2>3, <3>1 DEF Seamless, Covers
  <2>4. CASE ~(attempt' >= 2)
    BY <1>13, <1>15, <1>14, <2>1, <2>2, <2>4 DEF Seamless
  <2> QED
    BY <2>3, <2>4
<1>5. CASE Retry
  BY <1>13, <1>14, <1>5 DEF Retry, Seamless, author, relay
<1>6. CASE Keepalive
  <2>1. /\ ws = "open" /\ uplink = <<>> /\ uplink' = <<Hello>>
        /\ UNCHANGED <<net, written, signing, late, outbox, posts, ws, stored, seen>>
    BY <1>6 DEF Keepalive, author, relay
  <2>2. Len(SentOff') = 1 /\ SentOff'[1] = <<>>
    BY <1>12, <2>1 DEF QueuesMirror, Hello
  <2>3. Gapless(SentOff', stored', Due')
    BY <2>2 DEF Gapless
  <2>4. \A op \in Due : op \in stored
    BY <1>13, <1>15, <2>1 DEF Covers
  <2> QED
    BY <1>13, <1>14, <2>1, <2>3, <2>4 DEF Seamless, Covers
<1>7. CASE Push
  <2>1. /\ downlink # <<>> /\ uplink' = uplink \o NonEmpty(Above(Head(downlink)), signing)
        /\ UNCHANGED <<net, written, signing, late, outbox, posts, ws, stored, seen>>
    BY <1>7 DEF Push, relay
  <2>2. Head(downlink) \in 0 .. written /\ ws = "open"
    BY <1>0, <2>1, HeadTailProperties DEF Links
  <2> DEFINE ops == Above(Head(downlink))
  <2>3. ops \in Seq(Nat)
    <3>1. Head(downlink) \in Nat /\ Head(downlink) <= written
      BY <1>0, <2>2
    <3> QED
      BY <1>0, <3>1, AboveIsSound
  <2>4. CASE ops = <<>>
    <3>1. uplink' = uplink
      BY <1>0, <2>1, <2>4 DEF NonEmpty
    <3> QED
      BY <1>13, <1>14, <2>1, <3>1 DEF Seamless, Covers
  <2>5. CASE ops # <<>>
    <3>1. Batch(ops, signing) \in Frames /\ Batch(ops, signing).ops = ops
      BY <2>3, NonEmptyIsFrame
    <3>2. uplink' = Append(uplink, Batch(ops, signing))
      BY <1>0, <2>1, <2>5, <3>1, AppendIsConcat DEF NonEmpty
    <3>3. \A op \in Due : op \in stored \/ Brings(SentOff, Len(SentOff), op)
      BY <1>13, <2>2 DEF Covers
    <3> HIDE DEF ops
    <3>4. /\ Gapless(SentOff', stored', Due)
          /\ \A op : Brings(SentOff', Len(SentOff'), op) <=> Brings(SentOff, Len(SentOff), op) \/ Holds(ops, op)
      BY <1>0, <1>13, <2>1, <2>3, <3>1, <3>2, <3>3, SentGrows
    <3> QED
      BY <1>13, <1>14, <2>1, <2>2, <3>3, <3>4 DEF Seamless, Covers
  <2> QED
    BY <2>4, <2>5
<1>8. CASE Reads
  <2>1. /\ uplink # <<>> /\ uplink' = Tail(uplink)
        /\ UNCHANGED <<net, written, signing, late, outbox, posts, ws>>
    BY <1>8 DEF Reads, author
  <2>2. ws = "open"
    BY <1>0, <2>1 DEF Links
  <2>3. /\ Head(uplink) = uplink[1] /\ 1 \in 1 .. Len(uplink) /\ uplink[1].ops \in Seq(Nat)
        /\ Sound(uplink[1].ops, newest, late) /\ uplink[1].bare \subseteq Behind
        /\ uplink[1].t = "hello" => uplink[1].ops = <<>>
    BY <1>0, <2>1, Elements DEF Queues, Tidy
  <2>4. /\ SentOff \in Seq(Seq(Nat)) /\ SentOff' \in Seq(Seq(Nat))
        /\ 1 \in 1 .. Len(SentOff) /\ Len(SentOff') = Len(SentOff) - 1 /\ SentOff[1] = uplink[1].ops
        /\ \A i \in 1 .. Len(SentOff) - 1 : SentOff'[i] = IF i < 1 THEN SentOff[i] ELSE SentOff[i + 1]
    <3>1. /\ Len(Tail(uplink)) = Len(uplink) - 1 /\ Len(uplink) \in Nat
          /\ \A i \in 1 .. Len(Tail(uplink)) : Tail(uplink)[i] = uplink[i + 1] /\ i + 1 \in 1 .. Len(uplink)
      BY <1>0, <2>1, HeadTailProperties
    <3> QED
      BY <1>12, <2>1, <2>3, <3>1 DEF QueuesMirror
  <2>5. /\ \A op \in Due : op <= seen' => op \in stored'
        /\ stored \subseteq stored'
        /\ \A op \in Due : Holds(SentOff[1], op) => op \in stored'
    <3>1. CASE Head(uplink).t = "hello"
      BY <1>8, <1>13, <2>3, <2>4, <3>1 DEF Reads, Holds, relay
    <3>2. CASE Head(uplink).t # "hello"
      <4>1. Store(uplink[1].ops, uplink[1].bare)
        BY <1>8, <2>3, <3>2 DEF Reads
      <4>2. \A k \in 1 .. Len(SentOff[1]) : \A op \in Due :
              op <= SentOff[1][k] => op \in stored \/ Holds(SentOff[1], op)
        BY <1>13, <2>4 DEF Gapless, Brings
      <4> QED
        BY <1>0, <1>13, <2>3, <2>4, <4>1, <4>2, StoreKeeps, StoreIsSeamless
    <3> QED
      BY <3>1, <3>2
  <2>6. Gapless(SentOff', stored', Due') /\ Covers(SentOff', stored', Due')
    BY <1>13, <1>14, <2>1, <2>2, <2>4, <2>5, QueueShrinks
  <2>7. Gapless(Pending', stored', Due')
    BY <1>13, <1>14, <2>1, <2>5 DEF Gapless
  <2> QED
    BY <1>14, <2>1, <2>2, <2>5, <2>6, <2>7 DEF Seamless, Covers
<1>9. ASSUME NEW i \in DOMAIN posts, PostSucceeds(i) PROVE Seamless'
  <2>1. /\ posts[i].arrived /\ posts' = RemoveAt(posts, i)
        /\ UNCHANGED <<net, written, signing, late, ws, uplink, stored, seen>>
    BY <1>9 DEF PostSucceeds, author, relay
  <2>2. i \in 1 .. Len(posts) /\ posts # <<>> /\ ws = "none"
    BY <1>0 DEF Links, Http
  <2>3. /\ Pending \in Seq(Seq(Nat)) /\ Pending' \in Seq(Seq(Nat))
        /\ i \in 1 .. Len(Pending) /\ Len(Pending') = Len(Pending) - 1 /\ Pending[i] = <<>>
        /\ \A j \in 1 .. Len(Pending) - 1 : Pending'[j] = IF j < i THEN Pending[j] ELSE Pending[j + 1]
    <3>1. /\ Len(posts') = Len(posts) - 1 /\ Len(posts) \in Nat
          /\ \A j \in 1 .. Len(posts) - 1 : posts'[j] = IF j < i THEN posts[j] ELSE posts[j + 1]
      BY <1>0, <2>1, <2>2, RemoveAtProperties, SMTT(30)
    <3>2. \A j \in 1 .. Len(posts) - 1 : j \in 1 .. Len(posts) /\ j + 1 \in 1 .. Len(posts)
      BY <3>1
    <3>3. /\ Pending \in Seq(Seq(Nat)) /\ Pending' \in Seq(Seq(Nat))
          /\ Len(Pending) = Len(posts) /\ Len(Pending') = Len(posts')
          /\ \A j \in 1 .. Len(posts) : Pending[j] = IF posts[j].arrived THEN <<>> ELSE posts[j].ops
          /\ \A j \in 1 .. Len(posts') : Pending'[j] = IF posts'[j].arrived THEN <<>> ELSE posts'[j].ops
      BY <1>12 DEF QueuesMirror
    <3>4. ASSUME NEW j \in 1 .. Len(posts) - 1
          PROVE  Pending'[j] = IF j < i THEN Pending[j] ELSE Pending[j + 1]
      BY <3>1, <3>2, <3>3
    <3> QED
      BY <2>1, <2>2, <3>1, <3>3, <3>4
  <2>4. \A op \in Due : Holds(Pending[i], op) => op \in stored
    BY <2>3 DEF Holds
  <2>5. Gapless(Pending', stored, Due) /\ Covers(Pending', stored, Due)
    BY <1>13, <2>2, <2>3, <2>4, QueueShrinks
  <2> QED
    BY <1>13, <1>14, <2>1, <2>2, <2>5 DEF Seamless, Covers
<1>10. ASSUME NEW i \in DOMAIN posts, PostFails(i) PROVE FALSE
  BY <1>10 DEF PostFails
<1>11. ASSUME NEW i \in DOMAIN posts, PostArrives(i) PROVE Seamless'
  <2>1. /\ ~posts[i].arrived /\ \A j \in 1 .. i - 1 : posts[j].arrived
        /\ posts' = [posts EXCEPT ![i].arrived = TRUE] /\ Store(posts[i].ops, {})
        /\ UNCHANGED <<net, written, signing, late, ws, uplink>>
    BY <1>11 DEF PostArrives, author
  <2>2. /\ i \in 1 .. Len(posts) /\ posts # <<>> /\ ws = "none" /\ posts[i].ops \in Seq(Nat)
        /\ Sound(posts[i].ops, newest, late)
    <3>1. /\ DOMAIN posts = 1 .. Len(posts) /\ posts # <<>>
      BY <1>0 DEF Queues
    <3>2. ws = "none"
      BY <1>0, <3>1 DEF Links, Http
    <3>3. posts[i].ops \in Seq(Nat) /\ Sound(posts[i].ops, newest, late)
      BY <1>0, <3>1, Elements
    <3> QED
      BY <3>1, <3>2, <3>3
  <2>3. /\ Pending \in Seq(Seq(Nat)) /\ Pending' \in Seq(Seq(Nat))
        /\ i \in 1 .. Len(Pending) /\ Len(Pending') = Len(Pending) /\ Pending[i] = posts[i].ops
        /\ \A j \in 1 .. Len(Pending) : Pending'[j] = IF j = i THEN <<>> ELSE Pending[j]
    <3>1. /\ Len(posts') = Len(posts) /\ posts'[i].arrived
          /\ \A j \in 1 .. Len(posts) : j # i => posts'[j] = posts[j]
      <4>1. posts[i] \in Requests
        BY <1>0, <2>2
      <4>2. [posts[i] EXCEPT !.arrived = TRUE] \in Requests /\ [posts[i] EXCEPT !.arrived = TRUE].arrived
        BY <4>1 DEF Requests
      <4>3. posts' = [posts EXCEPT ![i] = [posts[i] EXCEPT !.arrived = TRUE]]
        BY <2>1
      <4> DEFINE r == [posts[i] EXCEPT !.arrived = TRUE]
      <4> HIDE DEF r
      <4>4. posts' = [posts EXCEPT ![i] = r] /\ r \in Requests /\ r.arrived
        BY <4>2, <4>3 DEF r
      <4> QED
        BY <1>0, <2>2, <4>4, ExceptSeq
    <3> QED
      BY <1>12, <2>1, <2>2, <3>1 DEF QueuesMirror
  <2>4. \A k \in 1 .. Len(Pending[i]) : \A op \in Due :
          op <= Pending[i][k] => op \in stored \/ Holds(Pending[i], op)
    <3>1. \A j \in 1 .. i - 1 : j \in 1 .. Len(posts) /\ Pending[j] = <<>>
      BY <1>12, <2>1, <2>2 DEF QueuesMirror
    <3>2. \A op : Brings(Pending, i, op) => Holds(Pending[i], op)
      BY <2>2, <3>1 DEF Brings, Holds
    <3> QED
      BY <1>13, <2>3, <3>2 DEF Gapless
  <2>5. /\ \A op \in Due : op <= seen' => op \in stored'
        /\ stored \subseteq stored'
        /\ \A op \in Due : Holds(Pending[i], op) => op \in stored'
    <3>1. stored \subseteq stored'
      BY <2>1 DEF Store
    <3> QED
      BY <1>0, <1>13, <2>1, <2>2, <2>3, <2>4, <3>1, StoreIsSeamless
  <2>6. Gapless(Pending', stored', Due') /\ Covers(Pending', stored', Due')
    BY <1>13, <1>14, <2>1, <2>2, <2>3, <2>5, QueueEmpties
  <2>7. Gapless(SentOff', stored', Due')
    BY <1>13, <1>14, <2>1, <2>5 DEF Gapless
  <2> QED
    BY <1>14, <2>1, <2>2, <2>5, <2>6, <2>7 DEF Seamless, Covers
<1>16. CASE UNCHANGED vars
  BY <1>13, <1>14, <1>16 DEF vars, author, relay, Seamless, Covers
<1> QED
  BY <1>1, <1>2, <1>3, <1>4, <1>5, <1>6, <1>7, <1>8, <1>9, <1>10, <1>11, <1>16 DEF Next

-----------------------------------------------------------------------------

LEMMA KeptAlways == Spec => []Kept
<1>1. Init => Kept
  BY OrderedAtFirst, SeamlessAtFirst DEF Kept
<1>2. Kept /\ [Next]_vars => Kept'
  <2> SUFFICES ASSUME Kept, [Next]_vars PROVE Kept'
    OBVIOUS
  <2>1. Ordered'
    BY OrderedStep DEF Kept
  <2>2. net' = net
    BY DEF Next, vars, Dispatch, SignAndRelease, Opens, Closes, Retry, Keepalive, Push, Reads,
           PostSucceeds, PostFails, PostArrives
  <2> QED
    BY <2>1, <2>2, SeamlessStep DEF Kept
<1> QED
  BY <1>1, <1>2, PTL DEF Spec

(* What is queued, sent and stored is what was written, in the order it    *)
(* was written but for the ops that were late, however their signing was   *)
(* interleaved; and as long as requests neither fail nor overtake each     *)
(* other, every op released in its turn is queued until it is stored with  *)
(* its signature or under way (store's signAndRelease, transport's send    *)
(* and drain, the relay's storeOps).                                       *)
THEOREM QueuesKept == Spec => []QueuesAreKept
<1>1. Kept => QueuesAreKept
  <2> SUFFICES ASSUME Kept PROVE QueuesAreKept
    OBVIOUS
  <2>0. Links /\ Relayed /\ Queues
    BY DEF Kept, Ordered
  <2>1. DOMAIN uplink = 1 .. Len(uplink) /\ DOMAIN posts = 1 .. Len(posts) /\ DOMAIN outbox = 1 .. Len(outbox)
    BY <2>0 DEF Queues
  <2>2. /\ \A i \in 1 .. Len(uplink) : \A op : op \in ToSet(uplink[i].ops) <=> Holds(uplink[i].ops, op)
        /\ \A i \in 1 .. Len(posts) : \A op : op \in ToSet(posts[i].ops) <=> Holds(posts[i].ops, op)
        /\ \A op : op \in ToSet(outbox) <=> Holds(outbox, op)
    <3>1. ASSUME NEW ops \in Seq(Nat), NEW op PROVE op \in ToSet(ops) <=> Holds(ops, op)
      BY DEF ToSet, Holds
    <3> QED
      BY <2>0, <3>1, Elements DEF Queues
  <2>3. \A op : op \in OnTheWay <=>
          \/ \E i \in 1 .. Len(uplink) : Holds(uplink[i].ops, op) /\ op \notin uplink[i].bare
          \/ \E i \in 1 .. Len(posts) : ~posts[i].arrived /\ Holds(posts[i].ops, op)
    <3>1. \A op : op \in UNION {ToSet(uplink[i].ops) \ uplink[i].bare : i \in DOMAIN uplink} <=>
            \E i \in 1 .. Len(uplink) : op \in ToSet(uplink[i].ops) \ uplink[i].bare
      BY <2>1
    <3>2. \A op : op \in UNION {ToSet(posts[i].ops) : i \in {j \in DOMAIN posts : ~posts[j].arrived}} <=>
            \E i \in 1 .. Len(posts) : ~posts[i].arrived /\ op \in ToSet(posts[i].ops)
      BY <2>1
    <3>3. \A op : op \in OnTheWay <=>
            \/ op \in UNION {ToSet(uplink[i].ops) \ uplink[i].bare : i \in DOMAIN uplink}
            \/ op \in UNION {ToSet(posts[i].ops) : i \in {j \in DOMAIN posts : ~posts[j].arrived}}
      BY DEF OnTheWay
    <3> HIDE DEF Holds
    <3> QED
      BY <2>2, <3>1, <3>2, <3>3
  <2>4. written \in Nat /\ newest \in Nat /\ newest <= written
    BY <2>0, BoundsAssumption DEF Relayed
  <2>5. TypeOK
    <3>1. ToSet(outbox) \subseteq (1 .. written) \ signing
      <4>1. \A op : Holds(outbox, op) => op \in 1 .. written
        BY <2>0, <2>4 DEF Queues, Sound, Holds
      <4> QED
        BY <2>0, <2>2, <4>1 DEF Queues
    <3>2. OnTheWay \subseteq 1 .. written
      BY <2>0, <2>3, <2>4, Elements DEF Sound, Holds
    <3>3. stored \subseteq 1 .. written
      BY <2>0, <2>4 DEF Relayed
    <3> QED
      BY <2>0, <3>1, <3>2, <3>3 DEF TypeOK, Links, Relayed
  <2>6. BatchesAscend
    BY <2>0, <2>1, Elements DEF BatchesAscend, Queues, Sound
  <2>7. Due \cap Behind = {}
    BY DEF Due, Behind
  <2>8. ASSUME net = "calm", NEW op \in Due
        PROVE  op \in (stored \ bare) \cup ToSet(outbox) \cup OnTheWay
    <3>1. Seamless /\ QueuesMirror
      BY <2>8, QueueTypes DEF Kept
    <3>2. op \notin bare
      BY <2>0, <2>7 DEF Relayed
    <3>3. CASE ws \in {"connecting", "waiting"}
      BY <2>2, <3>1, <3>2, <3>3 DEF Seamless
    <3>4. CASE ws = "open" /\ op \notin stored
      <4>1. PICK i \in 1 .. Len(SentOff) : Holds(SentOff[i], op)
        BY <3>1, <3>4 DEF Seamless, Covers, Brings
      <4>2. i \in 1 .. Len(uplink) /\ Holds(uplink[i].ops, op) /\ op \notin uplink[i].bare
        BY <2>0, <2>7, <3>1, <4>1, Elements DEF QueuesMirror
      <4> QED
        BY <2>3, <4>2
    <3>5. CASE ws = "none" /\ op \notin stored
      <4>1. PICK i \in 1 .. Len(Pending) : Holds(Pending[i], op)
        BY <3>1, <3>5 DEF Seamless, Covers, Brings
      <4>2. ~posts[i].arrived /\ Holds(posts[i].ops, op) /\ i \in 1 .. Len(posts)
        BY <3>1, <4>1, SMTT(30) DEF QueuesMirror, Holds
      <4> QED
        BY <2>3, <4>2
    <3> QED
      BY <2>0, <3>2, <3>3, <3>4, <3>5 DEF Links
  <2> QED
    BY <2>5, <2>6, <2>8 DEF QueuesAreKept, QueuedUntilSentInCalm, QueuedUntilSent
<1> QED
  BY <1>1, KeptAlways, PTL

-----------------------------------------------------------------------------
(* The walkie-talkie *)

Handset == [transmitting : BOOLEAN, stream : Nat, recorder : Nat, autoStop : Nat]
Tape == [n : Nat, stream : Nat, ending : BOOLEAN]

Mishap == {"asked twice", "let go early", "refused"}

Hands ==
  /\ asking \in [Device -> Nat] /\ drawn \in [Device -> Nat]
  /\ handset \in [Device -> Handset]
  /\ lit \in [Device -> SUBSET (Nat \ {0})]
  /\ tapes \in [Device -> SUBSET Tape] /\ alarms \in [Device -> SUBSET Nat]
  /\ held \in [Device -> BOOLEAN]
  /\ mishaps \in [Device -> SUBSET Mishap]

\* At most the stream of the handset is live, and none is while permission is
\* waited for, until a second request overtakes the first.
OneStream(d) ==
  "asked twice" \notin mishaps[d] =>
    /\ lit[d] \subseteq {handset[d].stream} /\ asking[d] <= 1
    /\ asking[d] > 0 => handset[d].stream = 0 /\ ~handset[d].transmitting

\* Without a mishap a live stream is being recorded, and whoever asked holds on.
HeldDown(d) ==
  mishaps[d] = {} =>
    /\ lit[d] # {} => held[d] /\ handset[d].transmitting
    /\ asking[d] > 0 => held[d]

Timed(d) == handset[d].transmitting => handset[d].autoStop \in alarms[d]

Handled == Hands /\ \A d \in Device : OneStream(d) /\ HeldDown(d) /\ Timed(d)

-----------------------------------------------------------------------------
(* The microphone                                                          *)

LEMMA HandsOf ==
  ASSUME Hands, NEW d \in Device
  PROVE  /\ asking[d] \in Nat /\ drawn[d] \in Nat /\ drawn[d] + 1 \in Nat \ {0}
         /\ lit[d] \subseteq Nat \ {0} /\ handset[d] \in Handset
         /\ handset[d].stream \in Nat /\ handset[d].transmitting \in BOOLEAN
<1>1. asking[d] \in Nat /\ drawn[d] \in Nat /\ lit[d] \subseteq Nat \ {0} /\ handset[d] \in Handset
  BY DEF Hands
<1> QED
  BY <1>1 DEF Handset

\* A function over the devices, changed at d.
LEMMA ChangedAt ==
  ASSUME NEW S, NEW f \in [Device -> S], NEW d \in Device, NEW e \in S, NEW g, g = [f EXCEPT ![d] = e]
  PROVE  g \in [Device -> S] /\ g[d] = e /\ \A o \in Device \ {d} : g[o] = f[o]
OBVIOUS

LEMMA MishapNames == {"asked twice", "let go early", "refused"} = Mishap
BY DEF Mishap

Steady(o) == OneStream(o) /\ HeldDown(o) /\ Timed(o)

LEMMA OthersStay ==
  ASSUME NEW o \in Device, Steady(o),
         held'[o] = held[o], asking'[o] = asking[o], handset'[o] = handset[o], lit'[o] = lit[o],
         alarms'[o] = alarms[o], mishaps'[o] = mishaps[o]
  PROVE  Steady(o)'
BY DEF Steady, OneStream, HeldDown, Timed

\* What StopTransmit leaves, of the device and of the others.
LEMMA Stopping ==
  ASSUME Hands, NEW d \in Device, NEW armed, armed \subseteq alarms[d], StopTransmit(d, armed)
  PROVE  /\ handset' \in [Device -> Handset] /\ lit' \in [Device -> SUBSET (Nat \ {0})]
         /\ tapes' \in [Device -> SUBSET Tape] /\ alarms' \in [Device -> SUBSET Nat]
         /\ \A o \in Device \ {d} :
              handset'[o] = handset[o] /\ lit'[o] = lit[o] /\ alarms'[o] = alarms[o]
         /\ ~handset'[d].transmitting
         /\ IF handset[d].transmitting
            THEN handset'[d].stream = 0 /\ lit'[d] = lit[d] \ {handset[d].stream}
            ELSE handset'[d].stream = handset[d].stream /\ lit'[d] = lit[d]
<1>1. alarms' = [alarms EXCEPT ![d] = armed \ {handset[d].autoStop}]
  BY DEF StopTransmit
<1>2. alarms' \in [Device -> SUBSET Nat] /\ \A o \in Device \ {d} : alarms'[o] = alarms[o]
  BY <1>1 DEF Hands
<1>3. handset[d] \in Handset /\ handset[d].transmitting \in BOOLEAN
  BY DEF Hands, Handset
<1>4. CASE handset[d].transmitting
  <2> DEFINE h == [handset[d] EXCEPT !.transmitting = FALSE, !.stream = 0]
             Stop(t) == IF t.n = handset[d].recorder \/ t.stream = handset[d].stream
                        THEN [t EXCEPT !.ending = TRUE] ELSE t
  <2>1. handset' = [handset EXCEPT ![d] = h]
    BY <1>4 DEF StopTransmit
  <2>2. h \in Handset /\ h.transmitting = FALSE /\ h.stream = 0
    BY <1>3 DEF Handset
  <2>3. tapes' = [tapes EXCEPT ![d] = {Stop(t) : t \in tapes[d]}]
    BY <1>4 DEF StopTransmit
  <2>4. \A t \in Tape : Stop(t) \in Tape
    BY DEF Tape
  <2>5. lit' = [lit EXCEPT ![d] = lit[d] \ {handset[d].stream}]
    BY <1>4 DEF StopTransmit
  <2> HIDE DEF h, Stop
  <2>6. handset' \in [Device -> Handset] /\ handset'[d] = h /\ \A o \in Device \ {d} : handset'[o] = handset[o]
    BY <2>1, <2>2 DEF Hands
  <2>7. {Stop(t) : t \in tapes[d]} \subseteq Tape
    BY <2>4 DEF Hands
  <2>8. tapes' \in [Device -> SUBSET Tape]
    BY <2>3, <2>7 DEF Hands
  <2>9. /\ lit' \in [Device -> SUBSET (Nat \ {0})] /\ lit'[d] = lit[d] \ {handset[d].stream}
        /\ \A o \in Device \ {d} : lit'[o] = lit[o]
    BY <2>5 DEF Hands
  <2> QED
    BY <1>2, <1>4, <2>2, <2>6, <2>8, <2>9
<1>5. CASE ~handset[d].transmitting
  <2>1. UNCHANGED <<handset, tapes, lit>>
    BY <1>5 DEF StopTransmit
  <2> QED
    BY <1>2, <1>5, <2>1 DEF Hands
<1> QED
  BY <1>4, <1>5

\* What Record leaves.
LEMMA Recording ==
  ASSUME Hands, NEW d \in Device, NEW n \in Nat, NEW stream \in Nat, Record(d, n, stream)
  PROVE  /\ drawn' \in [Device -> Nat] /\ handset' \in [Device -> Handset]
         /\ tapes' \in [Device -> SUBSET Tape] /\ alarms' \in [Device -> SUBSET Nat]
         /\ mishaps' \in [Device -> SUBSET Mishap]
         /\ \A o \in Device \ {d} :
              handset'[o] = handset[o] /\ alarms'[o] = alarms[o] /\ mishaps'[o] = mishaps[o]
         /\ handset'[d].stream = stream /\ mishaps[d] \subseteq mishaps'[d]
         /\ "asked twice" \in mishaps'[d] => "asked twice" \in mishaps[d]
         /\ \/ handset'[d].transmitting /\ handset'[d].autoStop \in alarms'[d]
            \/ /\ handset'[d].transmitting = handset[d].transmitting
               /\ handset'[d].autoStop = handset[d].autoStop /\ alarms'[d] = alarms[d]
               /\ mishaps'[d] # {}
<1>1. drawn' \in [Device -> Nat]
  BY DEF Record, Hands
<1>2. handset[d] \in Handset
  BY DEF Hands
<1>3. CASE /\ handset' = [handset EXCEPT ![d] = [transmitting |-> TRUE, stream |-> stream,
                                                 recorder |-> n, autoStop |-> n]]
           /\ tapes' = [tapes EXCEPT ![d] = @ \cup {[n |-> n, stream |-> stream, ending |-> FALSE]}]
           /\ alarms' = [alarms EXCEPT ![d] = @ \cup {n}]
           /\ UNCHANGED mishaps
  <2> DEFINE h == [transmitting |-> TRUE, stream |-> stream, recorder |-> n, autoStop |-> n]
             t == [n |-> n, stream |-> stream, ending |-> FALSE]
  <2>1. h \in Handset /\ h.transmitting /\ h.stream = stream /\ h.autoStop = n /\ t \in Tape
    BY DEF Handset, Tape
  <2>2. handset' = [handset EXCEPT ![d] = h] /\ tapes' = [tapes EXCEPT ![d] = tapes[d] \cup {t}]
    BY <1>3
  <2> HIDE DEF h, t
  <2>3. /\ handset' \in [Device -> Handset] /\ handset'[d] = h
        /\ \A o \in Device \ {d} : handset'[o] = handset[o]
    BY <2>1, <2>2 DEF Hands
  <2>4. tapes' \in [Device -> SUBSET Tape]
    BY <2>1, <2>2 DEF Hands
  <2>5. /\ alarms' \in [Device -> SUBSET Nat] /\ n \in alarms'[d]
        /\ \A o \in Device \ {d} : alarms'[o] = alarms[o]
    BY <1>3 DEF Hands
  <2> QED
    BY <1>1, <1>3, <2>1, <2>3, <2>4, <2>5 DEF Hands
<1>4. CASE /\ handset' = [handset EXCEPT ![d].stream = stream]
           /\ mishaps' = [mishaps EXCEPT ![d] = @ \cup {"refused"}]
           /\ UNCHANGED <<tapes, alarms>>
  <2> DEFINE h == [handset[d] EXCEPT !.stream = stream]
  <2>1. /\ h \in Handset /\ h.transmitting = handset[d].transmitting /\ h.stream = stream
        /\ h.autoStop = handset[d].autoStop
    BY <1>2 DEF Handset
  <2>2. handset' = [handset EXCEPT ![d] = h]
    BY <1>4
  <2> HIDE DEF h
  <2>3. /\ handset' \in [Device -> Handset] /\ handset'[d] = h
        /\ \A o \in Device \ {d} : handset'[o] = handset[o]
    BY <2>1, <2>2 DEF Hands
  <2>4. /\ mishaps' \in [Device -> SUBSET Mishap]
        /\ mishaps'[d] = mishaps[d] \cup {"refused"} /\ \A o \in Device \ {d} : mishaps'[o] = mishaps[o]
    <3>1. mishaps \in [Device -> SUBSET Mishap] /\ mishaps[d] \cup {"refused"} \in SUBSET Mishap
      BY MishapNames DEF Hands
    <3> QED
      BY <1>4, <3>1, ChangedAt
  <2> QED
    BY <1>1, <1>4, <2>1, <2>3, <2>4 DEF Hands
<1> QED
  BY <1>3, <1>4 DEF Record

LEMMA OneAsks ==
  /\ \A n \in Nat : n <= 1 /\ n > 0 => n = 1 /\ n - 1 = 0
  /\ \A n \in Nat : ~(n > 0) => n = 0 /\ n + 1 <= 1
  /\ 0 <= 1 /\ ~(0 > 0)
OBVIOUS

\* The microphone once stopped.
LEMMA Stopped ==
  ASSUME NEW d \in Device, OneStream(d), HeldDown(d), asking'[d] = asking[d],
         mishaps[d] \subseteq mishaps'[d],
         "asked twice" \in mishaps'[d] => "asked twice" \in mishaps[d],
         held'[d] = held[d] \/ (asking[d] > 0 => mishaps'[d] # {}),
         ~handset'[d].transmitting,
         IF handset[d].transmitting
         THEN handset'[d].stream = 0 /\ lit'[d] = lit[d] \ {handset[d].stream}
         ELSE handset'[d].stream = handset[d].stream /\ lit'[d] = lit[d]
  PROVE  Steady(d)'
<1>1. "asked twice" \notin mishaps'[d] => lit'[d] \subseteq {handset'[d].stream}
  BY DEF OneStream
<1>2. "asked twice" \notin mishaps'[d] /\ handset[d].transmitting => lit'[d] = {}
  BY DEF OneStream
<1>3. OneStream(d)'
  BY <1>1 DEF OneStream
<1>4. ASSUME mishaps'[d] = {} PROVE lit'[d] = {} /\ (asking'[d] > 0 => held'[d])
  <2>1. mishaps[d] = {}
    BY <1>4
  <2>2. lit'[d] = {}
    BY <1>2, <1>4, <2>1 DEF HeldDown
  <2> QED
    BY <1>4, <2>1, <2>2 DEF HeldDown
<1>5. HeldDown(d)'
  BY <1>4 DEF HeldDown
<1> QED
  BY <1>3, <1>5 DEF Steady, Timed

\* The microphone once recording is tried, on a stream.
LEMMA Recorded ==
  ASSUME NEW d \in Device, Steady(d), NEW stream \in Nat \ {0},
         asking[d] \in Nat, asking'[d] \in Nat,
         handset'[d].stream = stream, mishaps[d] \subseteq mishaps'[d],
         "asked twice" \in mishaps'[d] => "asked twice" \in mishaps[d],
         \/ handset'[d].transmitting /\ handset'[d].autoStop \in alarms'[d]
         \/ /\ handset'[d].transmitting = handset[d].transmitting
            /\ handset'[d].autoStop = handset[d].autoStop /\ alarms'[d] = alarms[d]
            /\ mishaps'[d] # {},
         \/ asking'[d] = asking[d] - 1 /\ lit'[d] = lit[d] \cup {stream} /\ asking[d] > 0
            /\ lit[d] \subseteq Nat \ {0} /\ held'[d] = held[d]
         \/ /\ asking'[d] = asking[d] /\ lit'[d] = lit[d]
            /\ handset[d].stream = stream /\ held'[d]
  PROVE  Steady(d)'
<1>1. OneStream(d) /\ HeldDown(d) /\ Timed(d)
  BY DEF Steady
<1>2. ASSUME "asked twice" \notin mishaps'[d]
      PROVE  lit'[d] \subseteq {handset'[d].stream} /\ ~(asking'[d] > 0) /\ asking'[d] <= 1
  <2>1. "asked twice" \notin mishaps[d]
    BY <1>2
  <2>2. lit[d] \subseteq {handset[d].stream} /\ asking[d] <= 1
        /\ (asking[d] > 0 => handset[d].stream = 0)
    BY <1>1, <2>1 DEF OneStream
  <2>3. CASE asking'[d] = asking[d] - 1 /\ lit'[d] = lit[d] \cup {stream} /\ asking[d] > 0
             /\ lit[d] \subseteq Nat \ {0}
    <3>1. lit[d] = {}
      BY <2>2, <2>3
    <3>2. asking[d] - 1 = 0
      <4>1. asking[d] <= 1 /\ asking[d] > 0
        BY <2>2, <2>3
      <4> QED
        BY <4>1, OneAsks, Zenon
    <3>3. asking'[d] = 0 /\ lit'[d] = {stream}
      BY <2>3, <3>1, <3>2
    <3> QED
      BY <3>3, OneAsks
  <2>4. CASE asking'[d] = asking[d] /\ lit'[d] = lit[d] /\ handset[d].stream = stream
    <3>1. ~(asking[d] > 0)
      BY <2>2, <2>4
    <3> QED
      BY <2>2, <2>4, <3>1
  <2> QED
    BY <2>3, <2>4
<1>3. OneStream(d)'
  <2>1. "asked twice" \notin mishaps'[d] =>
          lit'[d] \subseteq {handset'[d].stream} /\ ~(asking'[d] > 0) /\ asking'[d] <= 1
    BY <1>2
  <2> QED
    BY <2>1 DEF OneStream
<1>4. ASSUME mishaps'[d] = {} PROVE handset'[d].transmitting /\ held'[d]
  <2>1. mishaps[d] = {}
    BY <1>4
  <2> QED
    BY <1>1, <1>4, <2>1 DEF HeldDown
<1>5. HeldDown(d)'
  BY <1>4 DEF HeldDown
<1>6. Timed(d)'
  BY <1>1 DEF Timed
<1> QED
  BY <1>3, <1>5, <1>6 DEF Steady

LEMMA HandledAtFirst == WalkieInit => Handled
BY DEF WalkieInit, Handled, Hands, OneStream, HeldDown, Timed, Idle, Handset

LEMMA HandledStep == Handled /\ [WalkieNext]_walkieVars => Handled'
<1> SUFFICES ASSUME Handled, [WalkieNext]_walkieVars
             PROVE  Handled'
  OBVIOUS
<1>0. Hands /\ \A o \in Device : Steady(o)
  BY DEF Handled, Steady
<1>1. ASSUME UNCHANGED button PROVE Handled'
  BY <1>0, <1>1 DEF button, Handled, Hands, Steady, OneStream, HeldDown, Timed
<1>2. ASSUME Hands', NEW d \in Device, Steady(d)',
             \A o \in Device \ {d} :
               /\ held'[o] = held[o] /\ asking'[o] = asking[o] /\ handset'[o] = handset[o]
               /\ lit'[o] = lit[o] /\ alarms'[o] = alarms[o] /\ mishaps'[o] = mishaps[o]
      PROVE  Handled'
  <2>1. \A o \in Device : Steady(o)'
    BY <1>0, <1>2, OthersStay
  <2> QED
    BY <1>2, <2>1 DEF Handled, Steady
<1>3. ASSUME NEW d \in Device, NEW n \in alarms[d], AutoStop(d, n) PROVE Handled'
  <2>1. StopTransmit(d, alarms[d] \ {n}) /\ UNCHANGED <<held, asking, drawn, mishaps>>
    BY <1>3 DEF AutoStop
  <2>2. Hands'
    BY <1>0, <2>1, Stopping DEF Hands
  <2>3. Steady(d)'
    <3>1. OneStream(d) /\ HeldDown(d)
      BY <1>0 DEF Steady
    <3>2. /\ ~handset'[d].transmitting
          /\ IF handset[d].transmitting
             THEN handset'[d].stream = 0 /\ lit'[d] = lit[d] \ {handset[d].stream}
             ELSE handset'[d].stream = handset[d].stream /\ lit'[d] = lit[d]
      BY <1>0, <2>1, Stopping
    <3> QED
      BY <2>1, <3>1, <3>2, Stopped
  <2> QED
    BY <1>0, <1>2, <2>1, <2>2, <2>3, Stopping
<1>4. ASSUME NEW d \in Device, Release(d) PROVE Handled'
  <2>1. /\ StopTransmit(d, alarms[d]) /\ UNCHANGED <<asking, drawn>>
        /\ held' = [held EXCEPT ![d] = FALSE]
        /\ mishaps' = [mishaps EXCEPT ![d] = IF asking[d] > 0 THEN @ \cup {"let go early"} ELSE @]
    BY <1>4 DEF Release
  <2>2. /\ mishaps' \in [Device -> SUBSET Mishap]
        /\ \A o \in Device \ {d} : mishaps'[o] = mishaps[o] /\ held'[o] = held[o]
        /\ asking[d] > 0 => mishaps'[d] # {}
        /\ mishaps[d] \subseteq mishaps'[d]
        /\ "asked twice" \in mishaps'[d] => "asked twice" \in mishaps[d]
        /\ held' \in [Device -> BOOLEAN]
    <3>1. held \in [Device -> BOOLEAN] /\ mishaps \in [Device -> SUBSET Mishap]
      BY <1>0 DEF Hands
    <3> DEFINE m == IF asking[d] > 0 THEN mishaps[d] \cup {"let go early"} ELSE mishaps[d]
    <3>2. mishaps' = [mishaps EXCEPT ![d] = m] /\ m \in SUBSET Mishap
      BY <2>1, <3>1, MishapNames
    <3>3. /\ asking[d] > 0 => m # {}
          /\ mishaps[d] \subseteq m /\ ("asked twice" \in m => "asked twice" \in mishaps[d])
      OBVIOUS
    <3> HIDE DEF m
    <3>4. mishaps' \in [Device -> SUBSET Mishap] /\ mishaps'[d] = m /\ \A o \in Device \ {d} : mishaps'[o] = mishaps[o]
      BY <3>1, <3>2, ChangedAt
    <3>5. held' \in [Device -> BOOLEAN] /\ \A o \in Device \ {d} : held'[o] = held[o]
      BY <2>1, <3>1
    <3> QED
      BY <3>3, <3>4, <3>5
  <2>3. Hands'
    BY <1>0, <2>1, <2>2, Stopping DEF Hands
  <2>4. Steady(d)'
    <3>1. OneStream(d) /\ HeldDown(d)
      BY <1>0 DEF Steady
    <3>2. /\ ~handset'[d].transmitting
          /\ IF handset[d].transmitting
             THEN handset'[d].stream = 0 /\ lit'[d] = lit[d] \ {handset[d].stream}
             ELSE handset'[d].stream = handset[d].stream /\ lit'[d] = lit[d]
      BY <1>0, <2>1, Stopping
    <3> QED
      BY <2>1, <2>2, <3>1, <3>2, Stopped
  <2>5. \A o \in Device \ {d} : handset'[o] = handset[o] /\ lit'[o] = lit[o] /\ alarms'[o] = alarms[o]
    BY <1>0, <2>1, Stopping
  <2> QED
    BY <1>2, <2>1, <2>2, <2>3, <2>4, <2>5
<1>5. ASSUME NEW d \in Device, Press(d) PROVE Handled'
  <2>1. /\ ~held[d] /\ held' = [held EXCEPT ![d] = TRUE] /\ UNCHANGED lit /\ StartTransmit(d)
    BY <1>5 DEF Press
  <2>2. held' \in [Device -> BOOLEAN] /\ held'[d] /\ \A o \in Device \ {d} : held'[o] = held[o]
    BY <1>0, <2>1 DEF Hands
  <2>3. CASE handset[d].transmitting
    <3>1. UNCHANGED <<asking, handset, tapes, alarms, drawn, mishaps>>
      BY <2>1, <2>3 DEF StartTransmit
    <3>2. Hands' /\ Steady(d)'
      <4>0. Hands'
        BY <1>0, <2>1, <2>2, <3>1 DEF Hands
      <4>1. OneStream(d)'
        BY <1>0, <2>1, <2>2, <3>1, HandsOf DEF Steady, OneStream
      <4>2. HeldDown(d)'
        BY <1>0, <2>1, <2>2, <3>1, HandsOf DEF Steady, HeldDown
      <4>3. Timed(d)'
        BY <1>0, <2>1, <2>2, <3>1, HandsOf DEF Steady, Timed
      <4> QED
        BY <4>1, <4>2, <4>3, <4>0 DEF Steady
    <3> QED
      BY <1>2, <2>1, <2>2, <3>1, <3>2
  <2>4. CASE ~handset[d].transmitting /\ handset[d].stream = 0
    <3>1. /\ asking' = [asking EXCEPT ![d] = @ + 1]
          /\ mishaps' = [mishaps EXCEPT ![d] = IF asking[d] > 0 THEN @ \cup {"asked twice"} ELSE @]
          /\ UNCHANGED <<handset, tapes, alarms, drawn>>
      BY <2>1, <2>4 DEF StartTransmit
    <3>2. /\ mishaps' \in [Device -> SUBSET Mishap]
          /\ \A o \in Device \ {d} : mishaps'[o] = mishaps[o] /\ asking'[o] = asking[o]
          /\ asking' \in [Device -> Nat] /\ asking'[d] = asking[d] + 1 /\ asking[d] \in Nat
          /\ asking[d] > 0 => "asked twice" \in mishaps'[d]
          /\ mishaps[d] \subseteq mishaps'[d]
      <4>1. /\ asking \in [Device -> Nat]
            /\ mishaps \in [Device -> SUBSET Mishap]
        BY <1>0 DEF Hands
      <4>2. /\ asking' \in [Device -> Nat] /\ asking'[d] = asking[d] + 1
            /\ \A o \in Device \ {d} : asking'[o] = asking[o]
        <5>1. asking' = [asking EXCEPT ![d] = asking[d] + 1]
          BY <3>1
        <5>2. asking[d] + 1 \in Nat
          BY <4>1
        <5> QED
          BY <4>1, <5>1, <5>2, ChangedAt
      <4>3. /\ mishaps' \in [Device -> SUBSET Mishap]
            /\ \A o \in Device \ {d} : mishaps'[o] = mishaps[o]
            /\ mishaps'[d] = IF asking[d] > 0 THEN mishaps[d] \cup {"asked twice"} ELSE mishaps[d]
        <5>1. mishaps' = [mishaps EXCEPT ![d] =
                            IF asking[d] > 0 THEN mishaps[d] \cup {"asked twice"} ELSE mishaps[d]]
          BY <3>1
        <5>2. (IF asking[d] > 0 THEN mishaps[d] \cup {"asked twice"} ELSE mishaps[d]) \in SUBSET Mishap
          BY <4>1, MishapNames
        <5> QED
          BY <4>1, <5>1, <5>2, ChangedAt
      <4> QED
        BY <4>1, <4>2, <4>3
    <3>3. Hands'
      BY <1>0, <2>1, <2>2, <3>1, <3>2 DEF Hands
    <3>4. Steady(d)'
      <4>1. OneStream(d) /\ HeldDown(d) /\ Timed(d)
        BY <1>0 DEF Steady
      <4>2. handset'[d] = handset[d] /\ lit'[d] = lit[d] /\ alarms'[d] = alarms[d]
        BY <2>1, <3>1
      <4>3. OneStream(d)'
        <5> SUFFICES ASSUME "asked twice" \notin mishaps'[d]
                     PROVE  /\ lit'[d] \subseteq {handset'[d].stream} /\ asking'[d] <= 1
                            /\ handset'[d].stream = 0 /\ ~handset'[d].transmitting
          BY DEF OneStream
        <5>1. "asked twice" \notin mishaps[d]
          BY <3>2
        <5>2. asking[d] = 0 /\ asking[d] + 1 <= 1
          <6>1. asking[d] \in Nat /\ ~(asking[d] > 0)
            BY <3>2
          <6> QED
            BY <6>1, OneAsks, Zenon
        <5>3. lit[d] \subseteq {handset[d].stream}
          BY <4>1, <5>1 DEF OneStream
        <5>4. asking'[d] <= 1
          BY <3>2, <5>2
        <5> QED
          BY <2>4, <4>2, <5>3, <5>4
      <4>4. HeldDown(d)'
        <5>1. mishaps'[d] = {} => mishaps[d] = {}
          BY <3>2
        <5> QED
          BY <2>2, <4>1, <4>2, <5>1 DEF HeldDown
      <4>5. Timed(d)'
        BY <4>1, <4>2 DEF Timed
      <4> QED
        BY <4>3, <4>4, <4>5 DEF Steady
    <3> QED
      BY <1>2, <2>1, <2>2, <3>1, <3>2, <3>3, <3>4
  <2>5. CASE ~handset[d].transmitting /\ handset[d].stream # 0
    <3>1. Record(d, drawn[d] + 1, handset[d].stream) /\ UNCHANGED asking
      BY <2>1, <2>5 DEF StartTransmit
    <3>2. drawn[d] + 1 \in Nat /\ handset[d].stream \in Nat
      <4>1. drawn[d] \in Nat /\ handset[d] \in Handset
        BY <1>0 DEF Hands
      <4> QED
        BY <4>1 DEF Handset
    <3>3. Hands'
      BY <1>0, <2>1, <2>2, <3>1, <3>2, Recording DEF Hands
    <3>4. Steady(d)'
      <4>1. /\ handset'[d].stream = handset[d].stream /\ mishaps[d] \subseteq mishaps'[d]
            /\ "asked twice" \in mishaps'[d] => "asked twice" \in mishaps[d]
            /\ \/ handset'[d].transmitting /\ handset'[d].autoStop \in alarms'[d]
               \/ /\ handset'[d].transmitting = handset[d].transmitting
                  /\ handset'[d].autoStop = handset[d].autoStop /\ alarms'[d] = alarms[d]
                  /\ mishaps'[d] # {}
        BY <1>0, <3>1, <3>2, Recording
      <4>2. handset[d].stream \in Nat \ {0} /\ asking[d] \in Nat
        BY <1>0, <2>5, <3>2, HandsOf
      <4> QED
        BY <1>0, <2>1, <2>2, <3>1, <4>1, <4>2, Recorded
    <3> QED
      BY <1>0, <1>2, <2>1, <2>2, <3>1, <3>2, <3>3, <3>4, Recording
  <2> QED
    BY <2>3, <2>4, <2>5
<1>6. ASSUME NEW d \in Device, Granted(d) PROVE Handled'
  <2>1. /\ asking[d] > 0 /\ asking' = [asking EXCEPT ![d] = @ - 1]
        /\ lit' = [lit EXCEPT ![d] = @ \cup {drawn[d] + 1}]
        /\ Record(d, drawn[d] + 1, drawn[d] + 1) /\ UNCHANGED held
    BY <1>6 DEF Granted
  <2>2. /\ drawn[d] + 1 \in Nat \ {0} /\ asking' \in [Device -> Nat] /\ asking'[d] = asking[d] - 1
        /\ asking[d] \in Nat /\ lit' \in [Device -> SUBSET (Nat \ {0})]
        /\ lit'[d] = lit[d] \cup {drawn[d] + 1} /\ lit[d] \subseteq Nat \ {0}
        /\ \A o \in Device \ {d} : asking'[o] = asking[o] /\ lit'[o] = lit[o]
    <3>1. asking \in [Device -> Nat] /\ asking[d] - 1 \in Nat /\ drawn[d] + 1 \in Nat \ {0}
      BY <1>0, <2>1 DEF Hands
    <3>2. lit \in [Device -> SUBSET (Nat \ {0})]
      BY <1>0 DEF Hands
    <3>3. asking' \in [Device -> Nat] /\ asking'[d] = asking[d] - 1 /\ \A o \in Device \ {d} : asking'[o] = asking[o]
      BY <2>1, <3>1
    <3>4. /\ lit' \in [Device -> SUBSET (Nat \ {0})] /\ lit'[d] = lit[d] \cup {drawn[d] + 1}
          /\ \A o \in Device \ {d} : lit'[o] = lit[o]
      BY <2>1, <3>1, <3>2
    <3> QED
      BY <3>1, <3>2, <3>3, <3>4
  <2>3. Hands'
    BY <1>0, <2>1, <2>2, Recording DEF Hands
  <2>4. Steady(d)'
    <3>0. drawn[d] + 1 \in Nat
      BY <2>2
    <3>1. /\ handset'[d].stream = drawn[d] + 1 /\ mishaps[d] \subseteq mishaps'[d]
          /\ "asked twice" \in mishaps'[d] => "asked twice" \in mishaps[d]
          /\ \/ handset'[d].transmitting /\ handset'[d].autoStop \in alarms'[d]
             \/ /\ handset'[d].transmitting = handset[d].transmitting
                /\ handset'[d].autoStop = handset[d].autoStop /\ alarms'[d] = alarms[d]
                /\ mishaps'[d] # {}
      BY <1>0, <2>1, <3>0, Recording
    <3>2. asking'[d] \in Nat
      BY <2>2
    <3> QED
      BY <1>0, <2>1, <2>2, <3>1, <3>2, Recorded
  <2> QED
    BY <1>0, <1>2, <2>1, <2>2, <2>3, <2>4, Recording, ZenonT(40)
<1>7. ASSUME NEW d \in Device, Denied(d) PROVE Handled'
  <2>1. /\ asking[d] > 0 /\ asking' = [asking EXCEPT ![d] = @ - 1]
        /\ UNCHANGED <<held, handset, lit, tapes, alarms, drawn, mishaps>>
    BY <1>7 DEF Denied
  <2>2. /\ asking' \in [Device -> Nat] /\ asking'[d] = asking[d] - 1 /\ asking[d] \in Nat
        /\ \A o \in Device \ {d} : asking'[o] = asking[o]
    <3>1. asking \in [Device -> Nat] /\ asking[d] - 1 \in Nat
      BY <1>0, <2>1 DEF Hands
    <3> QED
      BY <2>1, <3>1
  <2>3. Hands' /\ Steady(d)'
    <3>0. Hands'
      BY <1>0, <2>1, <2>2 DEF Hands
    <3>1. OneStream(d)'
      <4>1. OneStream(d) /\ handset'[d] = handset[d] /\ lit'[d] = lit[d] /\ mishaps'[d] = mishaps[d]
        BY <1>0, <2>1 DEF Steady
      <4>2. asking'[d] > 0 => asking[d] > 0
        BY <2>2
      <4>3. asking[d] <= 1 => asking'[d] <= 1
        BY <2>2
      <4> QED
        BY <4>1, <4>2, <4>3 DEF OneStream
    <3>2. HeldDown(d)'
      BY <1>0, <2>1, <2>2, HandsOf DEF Steady, HeldDown
    <3>3. Timed(d)'
      BY <1>0, <2>1, <2>2, HandsOf DEF Steady, Timed
    <3> QED
      BY <3>1, <3>2, <3>3, <3>0 DEF Steady
  <2> QED
    BY <1>2, <2>1, <2>2, <2>3
<1>8. ASSUME NEW d \in Device, NEW tape \in tapes[d], OnStop(d, tape) PROVE Handled'
  <2>1. /\ tapes' = [tapes EXCEPT ![d] = @ \ {tape}] /\ handset' = [handset EXCEPT ![d].recorder = 0]
        /\ UNCHANGED <<held, asking, lit, alarms, drawn, mishaps>>
    BY <1>8 DEF OnStop
  <2>2. tapes' \in [Device -> SUBSET Tape]
    BY <1>0, <2>1 DEF Hands
  <2> DEFINE h == [handset[d] EXCEPT !.recorder = 0]
  <2>3. /\ h \in Handset /\ h.transmitting = handset[d].transmitting
        /\ h.stream = handset[d].stream /\ h.autoStop = handset[d].autoStop
    BY <1>0 DEF Hands, Handset
  <2>4. handset' = [handset EXCEPT ![d] = h]
    BY <2>1
  <2> HIDE DEF h
  <2>5. /\ handset' \in [Device -> Handset] /\ handset'[d] = h
        /\ \A o \in Device \ {d} : handset'[o] = handset[o]
    BY <1>0, <2>3, <2>4 DEF Hands
  <2>6. Hands'
    BY <1>0, <2>1, <2>2, <2>5 DEF Hands
  <2>7. Steady(d)'
    <3>1. OneStream(d)'
      BY <1>0, <2>1, <2>3, <2>5, HandsOf DEF Steady, OneStream
    <3>2. HeldDown(d)'
      BY <1>0, <2>1, <2>3, <2>5, HandsOf DEF Steady, HeldDown
    <3>3. Timed(d)'
      BY <1>0, <2>1, <2>3, <2>5, HandsOf DEF Steady, Timed
    <3> QED
      BY <3>1, <3>2, <3>3 DEF Steady
  <2> QED
    BY <1>2, <2>1, <2>5, <2>6, <2>7
<1>9. CASE WalkieMachine
  <2>1. ASSUME NEW d \in Device, NEW audio \in sounding[d],
               Ended(d, audio) \/ CannotDecode(d, audio) \/ DoneAgain(d, audio)
        PROVE  UNCHANGED button
    BY <2>1 DEF Ended, CannotDecode, DoneAgain
  <2>2. ASSUME NEW wire \in wires, NEW chunk \in air[wire], OnPtt(wire, chunk)
        PROVE  UNCHANGED button
    BY <2>2 DEF OnPtt
  <2> QED
    BY <1>1, <1>3, <1>8, <1>9, <2>1, <2>2 DEF WalkieMachine
<1>10. ASSUME NEW wire \in wires, WireFails(wire) PROVE Handled'
  BY <1>1, <1>10 DEF WireFails
<1>11. CASE UNCHANGED walkieVars
  BY <1>1, <1>11 DEF walkieVars
<1> QED
  BY <1>4, <1>5, <1>6, <1>7, <1>9, <1>10, <1>11 DEF WalkieNext

(* The microphone is live only while the button is held, and one stream at *)
(* most, unless the button was let go or pressed again before permission   *)
(* came, or the browser would not record; and a transmission always has a  *)
(* timer running that will end it (startTransmit, stopTransmit).           *)
THEOREM HandFollowed == WalkieSpec => []MicFollowsTheHand
<1>1. Handled => MicFollowsTheHand
  <2> SUFFICES ASSUME Handled, NEW d \in Device
               PROVE  /\ lit[d] # {} => held[d] \/ mishaps[d] # {}
                      /\ Cardinality(lit[d]) > 1 => "asked twice" \in mishaps[d]
                      /\ handset[d].transmitting => handset[d].autoStop \in alarms[d]
    BY DEF MicFollowsTheHand
  <2>1. OneStream(d) /\ HeldDown(d) /\ Timed(d)
    BY DEF Handled
  <2>2. ASSUME "asked twice" \notin mishaps[d] PROVE ~(Cardinality(lit[d]) > 1)
    <3>1. lit[d] = {} \/ lit[d] = {handset[d].stream}
      BY <2>1, <2>2 DEF OneStream
    <3>2. Cardinality(lit[d]) \in {0, 1}
      BY <3>1, FS_EmptySet, FS_Singleton
    <3> QED
      BY <3>2
  <2> QED
    BY <2>1, <2>2 DEF HeldDown, Timed
<1> QED
  BY <1>1, HandledAtFirst, HandledStep, PTL DEF WalkieSpec

-----------------------------------------------------------------------------
(* Clips in turn                                                           *)

Clip == Device \X Nat
Chunk == [clip : Clip, seq : Nat, total : Nat]
Player == [queue : Seq(Clip), playing : Clip \cup {NoClip}]
Sounding == [clip : Clip, due : SUBSET {"again"}]

Played ==
  /\ wires \subseteq DOMAIN air /\ \A wire \in DOMAIN air : air[wire] \subseteq Chunk
  /\ DOMAIN air \subseteq Device \X Device
  /\ speaker \in [Device -> Player] /\ sounding \in [Device -> SUBSET Sounding]
  /\ heard \in [Device -> Seq(Clip)] /\ complete \in [Device -> SUBSET Clip]
  /\ garbled \subseteq Device

\* What d has heard and what waits in its queue, among the clips it has: no two
\* of them the same, and none of its own.
Line(d, past, queue, all) ==
  /\ IsFiniteSet(ToSet(past)) /\ Cardinality(ToSet(past)) = Len(past)
  /\ \A clip \in ToSet(past) : clip \in all /\ Author(clip) # d
  /\ \A i \in 1 .. Len(queue) :
       queue[i] \in all /\ Author(queue[i]) # d /\ queue[i] \notin ToSet(past)
  /\ \A i, j \in 1 .. Len(queue) : queue[i] = queue[j] => i = j

\* The audio elements go with the clip that is said to be playing.
Voice(queue, playing, sounds, sane) ==
  /\ queue # << >> => playing # NoClip
  /\ playing # NoClip => sounds # {}
  /\ sane => /\ \E audio : sounds \subseteq {audio}
             /\ \A audio \in sounds : audio.due = {}
             /\ sounds # {} => playing # NoClip

InTurn(d) ==
  /\ Line(d, heard[d], speaker[d].queue, complete[d])
  /\ Voice(speaker[d].queue, speaker[d].playing, sounding[d], d \notin garbled)

Playing == Hands /\ Played /\ \A d \in Device : InTurn(d)

LEMMA PlayerOf ==
  ASSUME Played, NEW d \in Device
  PROVE  /\ speaker[d] \in Player /\ speaker[d].queue \in Seq(Clip)
         /\ speaker[d].playing \in Clip \cup {NoClip} /\ sounding[d] \subseteq Sounding
         /\ heard[d] \in Seq(Clip) /\ complete[d] \subseteq Clip
<1>1. speaker[d] \in Player
  BY DEF Played
<1> QED
  BY <1>1 DEF Played, Player

LEMMA ClipsAreSomething == NoClip \notin Clip
<1>1. \A clip \in Clip : clip[1] \in Device /\ clip = <<clip[1], clip[2]>>
  BY DEF Clip
<1> QED
  BY <1>1 DEF NoClip

LEMMA HeardOnceMore ==
  ASSUME NEW past \in Seq(Clip), NEW clip \in Clip
  PROVE  ToSet(Append(past, clip)) = ToSet(past) \cup {clip}
<1>1. /\ Append(past, clip) \in Seq(Clip) /\ Len(Append(past, clip)) = Len(past) + 1
      /\ \A i \in 1 .. Len(past) : Append(past, clip)[i] = past[i]
      /\ Append(past, clip)[Len(past) + 1] = clip
  BY AppendProperties
<1>2. Len(past) \in Nat /\ DOMAIN past = 1 .. Len(past)
      /\ DOMAIN Append(past, clip) = 1 .. (Len(past) + 1)
  BY <1>1
<1>3. 1 .. (Len(past) + 1) = (1 .. Len(past)) \cup {Len(past) + 1}
  BY <1>2
<1> QED
  BY <1>1, <1>2, <1>3 DEF ToSet

\* A new clip joins the queue.
LEMMA LineGrows ==
  ASSUME NEW d, NEW past \in Seq(Clip), NEW queue \in Seq(Clip), NEW all, Line(d, past, queue, all),
         NEW clip \in Clip, clip \notin all, Author(clip) # d
  PROVE  Line(d, past, Append(queue, clip), all \cup {clip})
<1>1. /\ Len(Append(queue, clip)) = Len(queue) + 1 /\ Len(queue) \in Nat
      /\ \A i \in 1 .. Len(queue) : Append(queue, clip)[i] = queue[i]
      /\ Append(queue, clip)[Len(queue) + 1] = clip
  BY AppendProperties
<1>2. \A i \in 1 .. (Len(queue) + 1) : i \in 1 .. Len(queue) \/ i = Len(queue) + 1
  BY <1>1
<1>3. \A i \in 1 .. Len(queue) : queue[i] # clip
  BY DEF Line
<1>4. \A i \in 1 .. Len(Append(queue, clip)) :
        /\ Append(queue, clip)[i] \in all \cup {clip} /\ Author(Append(queue, clip)[i]) # d
        /\ Append(queue, clip)[i] \notin ToSet(past)
  BY <1>1, <1>2 DEF Line
<1>5. \A i, j \in 1 .. Len(Append(queue, clip)) :
        Append(queue, clip)[i] = Append(queue, clip)[j] => i = j
  BY <1>1, <1>2, <1>3 DEF Line
<1> QED
  BY <1>4, <1>5 DEF Line

\* The head of the queue is played.
LEMMA LineMoves ==
  ASSUME NEW d, NEW past \in Seq(Clip), NEW queue \in Seq(Clip), NEW all, Line(d, past, queue, all),
         queue # << >>
  PROVE  Line(d, Append(past, Head(queue)), Tail(queue), all)
<1>1. /\ Head(queue) \in Clip /\ Tail(queue) \in Seq(Clip) /\ Len(queue) \in Nat \ {0}
      /\ Len(Tail(queue)) = Len(queue) - 1 /\ Head(queue) = queue[1]
      /\ \A i \in 1 .. Len(Tail(queue)) : Tail(queue)[i] = queue[i + 1]
  BY HeadTailProperties
<1>2. 1 \in 1 .. Len(queue) /\ \A i \in 1 .. Len(Tail(queue)) : i + 1 \in 1 .. Len(queue) /\ i + 1 # 1
  BY <1>1
<1>3. /\ Head(queue) \in all /\ Author(Head(queue)) # d /\ Head(queue) \notin ToSet(past)
  BY <1>1, <1>2 DEF Line
<1>4. ToSet(Append(past, Head(queue))) = ToSet(past) \cup {Head(queue)}
  BY <1>1, HeardOnceMore
<1>5. /\ IsFiniteSet(ToSet(past) \cup {Head(queue)})
      /\ Cardinality(ToSet(past) \cup {Head(queue)}) = Cardinality(ToSet(past)) + 1
  BY <1>3, FS_AddElement DEF Line
<1>6. Len(Append(past, Head(queue))) = Len(past) + 1
  BY <1>1, AppendProperties
<1>7. \A i \in 1 .. Len(Tail(queue)) :
        /\ Tail(queue)[i] \in all /\ Author(Tail(queue)[i]) # d
        /\ Tail(queue)[i] \notin ToSet(past) \cup {Head(queue)}
  BY <1>1, <1>2 DEF Line
<1>8. ASSUME NEW i \in 1 .. Len(Tail(queue)), NEW j \in 1 .. Len(Tail(queue)),
             Tail(queue)[i] = Tail(queue)[j]
      PROVE  i = j
  <2>1. i + 1 = j + 1
    BY <1>1, <1>2, <1>8 DEF Line
  <2> QED
    BY <2>1
<1> QED
  BY <1>3, <1>4, <1>5, <1>6, <1>7, <1>8 DEF Line

\* A player is done with an element: others are what still sounds.
LEMMA NextPlays ==
  ASSUME Playing, NEW d \in Device, NEW others, others \subseteq Sounding, PlayNext(d, others),
         garbled \subseteq garbled', garbled' \subseteq Device, garbled' \subseteq garbled \cup {d},
         d \notin garbled' => others = {},
         UNCHANGED <<button, wires, air, complete>>
  PROVE  Playing'
<1> DEFINE queue == speaker[d].queue
<1>0. queue \in Seq(Clip) /\ heard[d] \in Seq(Clip) /\ speaker[d] \in Player
  BY PlayerOf DEF Playing
<1>1. Line(d, heard[d], queue, complete[d])
  BY DEF Playing, InTurn
<1>2. Hands'
  BY DEF Playing, Hands, button
<1>3. /\ speaker \in [Device -> Player] /\ sounding \in [Device -> SUBSET Sounding]
      /\ heard \in [Device -> Seq(Clip)]
  BY DEF Playing, Played
<1>4. /\ speaker' \in [Device -> Player] /\ sounding' \in [Device -> SUBSET Sounding]
      /\ heard' \in [Device -> Seq(Clip)] /\ InTurn(d)'
      /\ \A e \in Device \ {d} : speaker'[e] = speaker[e] /\ sounding'[e] = sounding[e] /\ heard'[e] = heard[e]
  <2>1. CASE queue = << >>
    <3>1. /\ speaker' = [speaker EXCEPT ![d].playing = NoClip]
          /\ sounding' = [sounding EXCEPT ![d] = others] /\ heard' = heard
      BY <2>1 DEF PlayNext
    <3>2. [speaker[d] EXCEPT !.playing = NoClip] \in Player
          /\ [speaker[d] EXCEPT !.playing = NoClip].queue = queue
          /\ [speaker[d] EXCEPT !.playing = NoClip].playing = NoClip
      BY <1>0 DEF Player
    <3>3. speaker' \in [Device -> Player] /\ speaker'[d] = [speaker[d] EXCEPT !.playing = NoClip]
          /\ \A e \in Device \ {d} : speaker'[e] = speaker[e]
      BY <1>3, <3>1, <3>2
    <3>4. sounding' \in [Device -> SUBSET Sounding] /\ sounding'[d] = others
          /\ \A e \in Device \ {d} : sounding'[e] = sounding[e]
      BY <1>3, <3>1
    <3>5. speaker'[d].queue = queue /\ speaker'[d].playing = NoClip
      BY <3>2, <3>3
    <3>6. Voice(queue, NoClip, others, d \notin garbled')
      BY <2>1 DEF Voice
    <3>7. InTurn(d)'
      BY <1>1, <3>1, <3>4, <3>5, <3>6 DEF InTurn
    <3> QED
      BY <1>3, <3>1, <3>3, <3>4, <3>7
  <2>2. CASE queue # << >>
    <3> DEFINE clip == Head(queue)
    <3>0. clip \in Clip /\ Tail(queue) \in Seq(Clip)
      BY <1>0, <2>2, HeadTailProperties
    <3>1. /\ speaker' = [speaker EXCEPT ![d] = [queue |-> Tail(@.queue), playing |-> clip]]
          /\ sounding' = [sounding EXCEPT ![d] = others \cup {Audio(clip)}]
          /\ heard' = [heard EXCEPT ![d] = Append(@, clip)]
      BY <2>2 DEF PlayNext
    <3>2. [queue |-> Tail(queue), playing |-> clip] \in Player /\ Audio(clip) \in Sounding
      BY <3>0 DEF Player, Audio, Sounding
    <3>3. speaker' \in [Device -> Player] /\ speaker'[d] = [queue |-> Tail(queue), playing |-> clip]
          /\ \A e \in Device \ {d} : speaker'[e] = speaker[e]
      BY <1>3, <3>1, <3>2
    <3>4. sounding' \in [Device -> SUBSET Sounding] /\ sounding'[d] = others \cup {Audio(clip)}
          /\ \A e \in Device \ {d} : sounding'[e] = sounding[e]
      BY <1>3, <3>1, <3>2
    <3>5. heard' \in [Device -> Seq(Clip)] /\ heard'[d] = Append(heard[d], clip)
          /\ \A e \in Device \ {d} : heard'[e] = heard[e]
      BY <1>0, <1>3, <3>0, <3>1, AppendProperties
    <3>6. speaker'[d].queue = Tail(queue) /\ speaker'[d].playing = clip
      BY <3>3
    <3>7. Line(d, Append(heard[d], clip), Tail(queue), complete[d])
      BY <1>0, <1>1, <2>2, LineMoves
    <3>8. Voice(Tail(queue), clip, others \cup {Audio(clip)}, d \notin garbled')
      <4>1. clip # NoClip
        BY <3>0, ClipsAreSomething
      <4>2. Audio(clip).due = {}
        BY DEF Audio
      <4> QED
        BY <4>1, <4>2 DEF Voice
    <3>9. InTurn(d)'
      BY <3>4, <3>5, <3>6, <3>7, <3>8 DEF InTurn
    <3> QED
      BY <3>3, <3>4, <3>5, <3>9
  <2> QED
    BY <2>1, <2>2
<1>5. Played'
  BY <1>4 DEF Playing, Played
<1>6. ASSUME NEW e \in Device PROVE InTurn(e)'
  <2>1. CASE e # d
    <3>1. e \in garbled' <=> e \in garbled
      BY <2>1
    <3> QED
      BY <1>4, <2>1, <3>1 DEF Playing, InTurn
  <2> QED
    BY <1>4, <2>1
<1> QED
  BY <1>2, <1>5, <1>6 DEF Playing

\* What walkie.receive leaves of the player.
LEMMA ReceivedInTurn ==
  ASSUME Playing, NEW d \in Device, NEW chunk \in Chunk, NEW old, Receive(d, chunk, old)
  PROVE  /\ speaker' \in [Device -> Player] /\ sounding' \in [Device -> SUBSET Sounding]
         /\ heard' \in [Device -> Seq(Clip)] /\ complete' \in [Device -> SUBSET Clip]
         /\ garbled' = garbled /\ \A e \in Device : InTurn(e)'
<1> DEFINE clip == chunk.clip
           queue == speaker[d].queue
           playing == speaker[d].playing
           now == Enqueued(speaker[d], clip)
<1>0. /\ clip \in Clip /\ queue \in Seq(Clip) /\ heard[d] \in Seq(Clip)
      /\ playing \in Clip \cup {NoClip} /\ complete[d] \subseteq Clip
  BY PlayerOf DEF Playing, Chunk
<1>1. /\ speaker \in [Device -> Player] /\ sounding \in [Device -> SUBSET Sounding]
      /\ heard \in [Device -> Seq(Clip)] /\ complete \in [Device -> SUBSET Clip]
  BY DEF Playing, Played
<1>2. Line(d, heard[d], queue, complete[d]) /\ Voice(queue, playing, sounding[d], d \notin garbled)
  BY DEF Playing, InTurn
<1>3. ASSUME UNCHANGED <<complete, speaker, sounding, heard, garbled>>
      PROVE  \A e \in Device : InTurn(e)'
  BY <1>3 DEF Playing, InTurn
<1>4. CASE Author(clip) = d \/ clip \in complete[d]
  BY <1>1, <1>3, <1>4 DEF Receive, player
<1>5. CASE Author(clip) # d /\ clip \notin complete[d] /\ UNCHANGED <<complete, speaker, sounding, heard>>
  <2>1. garbled' = garbled
    BY <1>5 DEF Receive
  <2> QED
    BY <1>1, <1>3, <1>5, <2>1
<1>6. ASSUME Author(clip) # d, clip \notin complete[d], garbled' = garbled,
             complete' = [complete EXCEPT ![d] = @ \cup {clip}],
             speaker' = [speaker EXCEPT ![d] = Unplay(now)],
             sounding' = [sounding EXCEPT ![d] =
                            IF now.starts THEN @ \cup {Audio(now.playing)} ELSE @],
             heard' = [heard EXCEPT ![d] = IF now.starts THEN Append(@, now.playing) ELSE @]
      PROVE  /\ speaker' \in [Device -> Player] /\ sounding' \in [Device -> SUBSET Sounding]
             /\ heard' \in [Device -> Seq(Clip)] /\ complete' \in [Device -> SUBSET Clip]
             /\ \A e \in Device : InTurn(e)'
  <2> DEFINE longer == Append(queue, clip)
  <2>1. longer \in Seq(Clip) /\ longer # << >> /\ Line(d, heard[d], longer, complete[d] \cup {clip})
    BY <1>0, <1>2, <1>6, LineGrows, AppendProperties
  <2>2. complete' \in [Device -> SUBSET Clip] /\ complete'[d] = complete[d] \cup {clip}
        /\ \A e \in Device \ {d} : complete'[e] = complete[e]
    BY <1>0, <1>1, <1>6
  <2>3. CASE playing = NoClip
    <3> DEFINE first == Head(longer)
    <3>1. now = [queue |-> Tail(longer), playing |-> first, starts |-> TRUE]
      BY <2>3 DEF Enqueued
    <3>2. first \in Clip /\ Tail(longer) \in Seq(Clip)
      BY <2>1, HeadTailProperties
    <3>3. Unplay(now) = [queue |-> Tail(longer), playing |-> first] /\ now.starts = TRUE /\ now.playing = first
      BY <3>1 DEF Unplay
    <3> HIDE DEF now, longer, first
    <3>4. [queue |-> Tail(longer), playing |-> first] \in Player /\ Audio(first) \in Sounding
      BY <3>2 DEF Player, Audio, Sounding
    <3>5. speaker' \in [Device -> Player] /\ speaker'[d] = [queue |-> Tail(longer), playing |-> first]
          /\ \A e \in Device \ {d} : speaker'[e] = speaker[e]
      BY <1>1, <1>6, <3>3, <3>4
    <3>6. sounding' \in [Device -> SUBSET Sounding] /\ sounding'[d] = sounding[d] \cup {Audio(first)}
          /\ \A e \in Device \ {d} : sounding'[e] = sounding[e]
      BY <1>1, <1>6, <3>3, <3>4
    <3>7. heard' \in [Device -> Seq(Clip)] /\ heard'[d] = Append(heard[d], first)
          /\ \A e \in Device \ {d} : heard'[e] = heard[e]
      BY <1>0, <1>1, <1>6, <3>2, <3>3, AppendProperties
    <3>8. Line(d, Append(heard[d], first), Tail(longer), complete[d] \cup {clip})
      BY <1>0, <2>1, LineMoves DEF first
    <3>9. Voice(Tail(longer), first, sounding[d] \cup {Audio(first)}, d \notin garbled)
      <4>1. first # NoClip
        BY <3>2, ClipsAreSomething
      <4>2. Audio(first).due = {}
        BY DEF Audio
      <4>3. d \notin garbled => sounding[d] = {}
        BY <1>2, <2>3 DEF Voice
      <4> QED
        BY <4>1, <4>2, <4>3 DEF Voice
    <3>10. speaker'[d].queue = Tail(longer) /\ speaker'[d].playing = first
      BY <3>5
    <3>11. InTurn(d)'
      BY <1>6, <2>2, <3>6, <3>7, <3>8, <3>9, <3>10 DEF InTurn
    <3>12. \A e \in Device \ {d} : InTurn(e)'
      BY <1>6, <2>2, <3>5, <3>6, <3>7 DEF Playing, InTurn
    <3> QED
      BY <2>2, <3>5, <3>6, <3>7, <3>11, <3>12
  <2>4. CASE playing # NoClip
    <3>1. now = [queue |-> longer, playing |-> playing, starts |-> FALSE]
      BY <2>4 DEF Enqueued
    <3>2. Unplay(now) = [queue |-> longer, playing |-> playing] /\ now.starts = FALSE
      BY <3>1 DEF Unplay
    <3> HIDE DEF now, longer, playing
    <3>3. [queue |-> longer, playing |-> playing] \in Player
      BY <1>0, <2>1 DEF Player
    <3>4. speaker' \in [Device -> Player] /\ speaker'[d] = [queue |-> longer, playing |-> playing]
          /\ \A e \in Device \ {d} : speaker'[e] = speaker[e]
      BY <1>1, <1>6, <3>2, <3>3
    <3>5. sounding' = sounding /\ heard' = heard
      BY <1>1, <1>6, <3>2
    <3>6. speaker'[d].queue = longer /\ speaker'[d].playing = playing
      BY <3>4
    <3>7. Voice(longer, playing, sounding[d], d \notin garbled)
      BY <1>2, <2>4 DEF Voice
    <3>8. InTurn(d)'
      BY <1>6, <2>1, <2>2, <3>5, <3>6, <3>7 DEF InTurn
    <3>9. \A e \in Device \ {d} : InTurn(e)'
      BY <1>6, <2>2, <3>4, <3>5 DEF Playing, InTurn
    <3> QED
      BY <1>1, <2>2, <3>4, <3>5, <3>8, <3>9
  <2> QED
    BY <2>3, <2>4
<1>7. CASE Author(clip) # d /\ clip \notin complete[d] /\ ~UNCHANGED <<complete, speaker, sounding, heard>>
  <2>1. /\ garbled' = garbled
        /\ complete' = [complete EXCEPT ![d] = @ \cup {clip}]
        /\ speaker' = [speaker EXCEPT ![d] = Unplay(now)]
        /\ sounding' = [sounding EXCEPT ![d] =
                          IF now.starts THEN @ \cup {Audio(now.playing)} ELSE @]
        /\ heard' = [heard EXCEPT ![d] = IF now.starts THEN Append(@, now.playing) ELSE @]
    BY <1>7 DEF Receive
  <2> HIDE DEF now, clip
  <2> QED
    BY <1>6, <1>7, <2>1
<1> QED
  BY <1>4, <1>5, <1>7

\* Chunks on the air stay chunks, whoever sends on.
LEMMA SentAreChunks ==
  ASSUME NEW carried, DOMAIN carried \subseteq Device \X Device,
         \A wire \in DOMAIN carried : carried[wire] \subseteq Chunk,
         NEW d, NEW to, NEW chunks, chunks \subseteq Chunk
  PROVE  /\ DOMAIN Sent(carried, d, to, chunks) = DOMAIN carried
         /\ \A wire \in DOMAIN Sent(carried, d, to, chunks) : Sent(carried, d, to, chunks)[wire] \subseteq Chunk
BY DEF Sent

LEMMA PlayingAtFirst == WalkieInit => Playing
<1> SUFFICES ASSUME WalkieInit PROVE Playing
  OBVIOUS
<1>1. Hands
  BY HandledAtFirst DEF Handled
<1>2. DOMAIN air = wires /\ wires \subseteq Device \X Device /\ \A wire \in wires : air[wire] = {}
  BY MeshAssumption DEF WalkieInit
<1>3. << >> \in Seq(Clip) /\ NoClip \in Clip \cup {NoClip}
  OBVIOUS
<1>4. [queue |-> << >>, playing |-> NoClip] \in Player
  BY <1>3 DEF Player
<1>5. Played
  BY <1>2, <1>3, <1>4 DEF WalkieInit, Played
<1>6. ASSUME NEW d \in Device PROVE InTurn(d)
  <2>1. /\ heard[d] = << >> /\ speaker[d] = [queue |-> << >>, playing |-> NoClip]
        /\ sounding[d] = {} /\ d \notin garbled
    BY DEF WalkieInit
  <2>2. ToSet(heard[d]) = {} /\ Len(heard[d]) = 0
    BY <2>1 DEF ToSet
  <2>3. Line(d, heard[d], << >>, complete[d])
    BY <2>2, FS_EmptySet DEF Line
  <2>4. Voice(<< >>, NoClip, {}, d \notin garbled)
    BY DEF Voice
  <2>5. speaker[d].queue = << >> /\ speaker[d].playing = NoClip
    BY <2>1
  <2> QED
    BY <2>1, <2>3, <2>4, <2>5 DEF InTurn
<1> QED
  BY <1>1, <1>5, <1>6 DEF Playing

LEMMA PlayingStep == Playing /\ Handled /\ Handled' /\ [WalkieNext]_walkieVars => Playing'
<1> SUFFICES ASSUME Playing, Handled', [WalkieNext]_walkieVars PROVE Playing'
  OBVIOUS
<1>0. /\ Hands' /\ Played
      /\ DOMAIN air \subseteq Device \X Device /\ \A wire \in DOMAIN air : air[wire] \subseteq Chunk
      /\ wires \subseteq DOMAIN air /\ wires \subseteq Device \X Device
  BY DEF Playing, Played, Handled
<1>1. ASSUME UNCHANGED player, wires' \subseteq DOMAIN air',
             DOMAIN air' \subseteq Device \X Device, \A wire \in DOMAIN air' : air'[wire] \subseteq Chunk
      PROVE  Playing'
  <2>1. Played'
    BY <1>0, <1>1 DEF Played, player
  <2>2. \A d \in Device : InTurn(d)'
    BY <1>1 DEF Playing, InTurn, player
  <2> QED
    BY <1>0, <2>1, <2>2 DEF Playing
<1>2. ASSUME UNCHANGED <<mesh, player>> PROVE Playing'
  BY <1>0, <1>1, <1>2 DEF mesh
<1>3. ASSUME NEW d \in Device, NEW tape \in tapes[d], OnStop(d, tape) PROVE Playing'
  <2>1. CASE UNCHANGED <<air, complete>>
    BY <1>0, <1>1, <1>3, <2>1 DEF OnStop, player
  <2>2. ASSUME NEW total \in Totals,
               complete' = [complete EXCEPT ![d] = @ \cup {<<d, tape.n>>}],
               air' = Sent(air, d, Neighbours(d),
                           {[clip |-> <<d, tape.n>>, seq |-> i, total |-> total] : i \in 1 .. total})
        PROVE  Playing'
    <3>1. tape.n \in Nat /\ total \in Nat
      <4>1. tapes[d] \subseteq Tape
        BY DEF Playing, Hands
      <4> QED
        BY <4>1, LimitsAssumption DEF Tape
    <3>2. <<d, tape.n>> \in Clip
      BY <3>1 DEF Clip
    <3>3. {[clip |-> <<d, tape.n>>, seq |-> i, total |-> total] : i \in 1 .. total} \subseteq Chunk
      BY <3>1, <3>2 DEF Chunk
    <3>4. DOMAIN air' = DOMAIN air /\ \A wire \in DOMAIN air' : air'[wire] \subseteq Chunk
      BY <1>0, <2>2, <3>3, SentAreChunks
    <3>5. /\ complete' \in [Device -> SUBSET Clip]
          /\ \A e \in Device : complete[e] \subseteq complete'[e]
      BY <1>0, <2>2, <3>2 DEF Played
    <3>6. UNCHANGED <<wires, speaker, sounding, heard, garbled>>
      BY <1>3 DEF OnStop
    <3>7. Played'
      BY <1>0, <3>4, <3>5, <3>6 DEF Played
    <3>8. \A e \in Device : InTurn(e)'
      BY <3>5, <3>6 DEF Playing, InTurn, Line
    <3> QED
      BY <1>0, <3>7, <3>8 DEF Playing
  <2> QED
    BY <1>3, <2>1, <2>2 DEF OnStop
<1>4. ASSUME NEW wire \in wires, NEW chunk \in air[wire], OnPtt(wire, chunk) PROVE Playing'
  <2> DEFINE d == wire[2]
             taken == [air EXCEPT ![wire] = @ \ {chunk}]
  <2>0. d \in Device
    BY <1>0
  <2>1. DOMAIN taken = DOMAIN air /\ \A w \in DOMAIN taken : taken[w] \subseteq Chunk
    BY <1>0
  <2>2. CASE Contains(pttSeen[d], Key(chunk))
    <3>1. air' = taken /\ UNCHANGED player /\ wires' = wires
      BY <1>4, <2>2 DEF OnPtt
    <3> QED
      BY <1>0, <1>1, <2>1, <3>1
  <2>3. CASE ~Contains(pttSeen[d], Key(chunk))
    <3>1. PICK old : Receive(d, chunk, old)
      BY <1>4, <2>3 DEF OnPtt
    <3>2. air' = (IF Author(chunk.clip) = d THEN taken
                  ELSE Sent(taken, d, Neighbours(d) \ {wire[1]}, {chunk})) /\ wires' = wires
      BY <1>4, <2>3 DEF OnPtt
    <3>3. chunk \in Chunk
      BY <1>0
    <3> HIDE DEF d, taken
    <3>4. {chunk} \subseteq Chunk
      BY <3>3
    <3>5. DOMAIN air' = DOMAIN air /\ \A w \in DOMAIN air' : air'[w] \subseteq Chunk
      BY <1>0, <2>1, <3>2, <3>4, SentAreChunks
    <3>6. /\ speaker' \in [Device -> Player] /\ sounding' \in [Device -> SUBSET Sounding]
          /\ heard' \in [Device -> Seq(Clip)] /\ complete' \in [Device -> SUBSET Clip]
          /\ garbled' = garbled /\ \A e \in Device : InTurn(e)'
      BY <2>0, <3>1, <3>3, ReceivedInTurn
    <3>7. Played'
      BY <1>0, <3>2, <3>5, <3>6 DEF Played
    <3> QED
      BY <1>0, <3>6, <3>7 DEF Playing
  <2> QED
    BY <2>2, <2>3
<1>5. ASSUME NEW d \in Device, NEW audio \in sounding[d],
             Ended(d, audio) \/ CannotDecode(d, audio) \/ DoneAgain(d, audio)
      PROVE  Playing'
  <2>0. /\ sounding[d] \subseteq Sounding /\ garbled \subseteq Device
        /\ d \notin garbled => sounding[d] = {audio} /\ audio.due = {}
    <3>1. sounding[d] \subseteq Sounding /\ garbled \subseteq Device
      BY <1>0, PlayerOf DEF Played
    <3>2. Voice(speaker[d].queue, speaker[d].playing, sounding[d], d \notin garbled)
      BY DEF Playing, InTurn
    <3> QED
      BY <3>1, <3>2 DEF Voice
  <2>1. CASE Ended(d, audio) \/ DoneAgain(d, audio)
    <3>1. /\ PlayNext(d, sounding[d] \ {audio}) /\ garbled' = garbled
          /\ UNCHANGED <<button, wires, air, complete>>
      BY <2>1 DEF Ended, DoneAgain, mesh
    <3>2. d \notin garbled' => sounding[d] \ {audio} = {}
      BY <2>0, <3>1
    <3>3. sounding[d] \ {audio} \subseteq Sounding
      BY <2>0
    <3> QED
      BY <2>0, <3>1, <3>2, <3>3, NextPlays
  <2>2. CASE CannotDecode(d, audio)
    <3> DEFINE others == (sounding[d] \ {audio}) \cup {[audio EXCEPT !.due = {"again"}]}
    <3>1. /\ PlayNext(d, others) /\ garbled' = garbled \cup {d}
          /\ UNCHANGED <<button, wires, air, complete>>
      BY <2>2 DEF CannotDecode, mesh
    <3>2. others \subseteq Sounding
      BY <2>0 DEF Sounding
    <3> HIDE DEF others
    <3> QED
      BY <2>0, <3>1, <3>2, NextPlays
  <2> QED
    BY <1>5, <2>1, <2>2
<1>6. ASSUME NEW wire \in wires, WireFails(wire) PROVE Playing'
  <2>1. PICK both : /\ wires' = wires \ both
                    /\ air' = [w \in DOMAIN air |-> IF w \in both THEN {} ELSE air[w]]
    BY <1>6 DEF WireFails
  <2>2. UNCHANGED player
    BY <1>6 DEF WireFails
  <2> QED
    BY <1>0, <1>1, <2>1, <2>2
<1>7. ASSUME NEW d \in Device,
             Press(d) \/ Release(d) \/ Granted(d) \/ Denied(d) \/ \E n \in alarms[d] : AutoStop(d, n)
      PROVE  UNCHANGED <<mesh, player>>
  BY <1>7 DEF Press, Release, Granted, Denied, AutoStop
<1>8. CASE UNCHANGED walkieVars
  BY <1>2, <1>8 DEF walkieVars
<1> QED
  BY <1>2, <1>3, <1>4, <1>5, <1>6, <1>7, <1>8 DEF WalkieNext, WalkieMachine

\* No clip is played twice because the flood came round again, nor on the device
\* that made it; none is left in the queue with nothing playing; and two sound at
\* once only behind one that cannot be decoded (receive, #enqueue, #playNext).
THEOREM ClipsInTurn == WalkieSpec => []ClipsPlayInTurn
<1>1. Playing => ClipsPlayInTurn
  <2> SUFFICES ASSUME Playing, NEW d \in Device
               PROVE  /\ Cardinality(ToSet(heard[d])) = Len(heard[d])
                      /\ \A clip \in ToSet(heard[d]) : Author(clip) # d
                      /\ speaker[d].queue # << >> => sounding[d] # {}
                      /\ Cardinality({audio \in sounding[d] : audio.due = {}}) > 1 => d \in garbled
    BY DEF ClipsPlayInTurn
  <2>1. InTurn(d)
    BY DEF Playing
  <2>2. ASSUME d \notin garbled
        PROVE  ~(Cardinality({audio \in sounding[d] : audio.due = {}}) > 1)
    <3>1. PICK audio : sounding[d] \subseteq {audio}
      BY <2>1, <2>2 DEF InTurn, Voice
    <3>2. {a \in sounding[d] : a.due = {}} \in {{}, {audio}}
      BY <3>1
    <3>3. Cardinality({}) = 0 /\ Cardinality({audio}) = 1
      BY FS_EmptySet, FS_Singleton
    <3>4. Cardinality({a \in sounding[d] : a.due = {}}) \in {0, 1}
      BY <3>2, <3>3
    <3> QED
      BY <3>4
  <2> QED
    BY <2>1, <2>2 DEF InTurn, Line, Voice
<1> QED
  BY <1>1, HandledAtFirst, HandledStep, PlayingAtFirst, PlayingStep, PTL DEF WalkieSpec
=============================================================================
