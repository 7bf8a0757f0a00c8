-------------------------------- MODULE Relay --------------------------------
(***************************************************************************)
(* The optional relay: ServerTransport of js/sync-server.js on a device,   *)
(* and the op store of ChamberRoom (worker/src/index.js) behind it.        *)
(*                                                                         *)
(* One device writes ops 1, 2, 3, ... and hands each to the transport once, *)
(* as soon as it is signed.  Every op is signed by a promise of its own, so *)
(* ops may leave in another order than they were written; and an answer to *)
(* a vector takes along what is not signed yet.                            *)
(*                                                                         *)
(* While the WebSocket is open an op goes straight out; otherwise it waits *)
(* in the outbox.  After two failed attempts the transport turns to HTTP,  *)
(* where every drain is a request of its own and requests overlap.         *)
(***************************************************************************)
EXTENDS Integers, Sequences, FiniteSets, SequencesExt

CONSTANTS
  MaxWrites,    \* bound: how many ops are written
  MaxCloses,    \* bound: how often an open socket closes
  MaxFailures,  \* bound: how many requests fail
  Networks      \* the networks to consider: "calm", "harsh"

ASSUME BoundsAssumption ==
  /\ {MaxWrites, MaxCloses, MaxFailures} \subseteq Nat
  /\ Networks \subseteq {"calm", "harsh"}

VARIABLES
  net,       \* "harsh": requests fail or overtake each other, and a socket that
             \* closes loses what it carried; "calm": nothing of that
  written,   \* the ops dispatched so far are 1 .. written
  signing,   \* ... of which these wait for their signature
  newest,    \* history: the newest op handed to the transport, 0 for none
  late,      \* history: the ops released after a copy of them, or of a newer
             \* op, had been handed over
  outbox,    \* transport.outbox
  posts,     \* POST requests not answered yet, oldest first
  ws,        \* the socket: "connecting", "open", "waiting" to retry, "none"
  attempt,   \* transport.attempt
  uplink,    \* what the socket carries to the relay: batches of ops, hellos
  downlink,  \* ... and from it: version vectors
  stored,    \* the ops the relay stores
  bare,      \* ... of which it has a copy without a signature
  seen,      \* the relay's version vector for the device
  closes, failures

author == <<written, signing, newest, late>>
relay == <<stored, bare, seen>>
vars == <<net, author, outbox, posts, ws, attempt, uplink, downlink, relay,
          closes, failures>>

Http == ws = "none"
Hello == [t |-> "hello", ops |-> <<>>, bare |-> {}]
\* A batch of ops, of which `unsigned' are copied before they are signed.
Batch(ops, unsigned) == [t |-> "ops", ops |-> ops, bare |-> ToSet(ops) \cap unsigned]
NonEmpty(ops, unsigned) == IF ops = <<>> THEN <<>> ELSE <<Batch(ops, unsigned)>>

\* Mutant: no request is made while another is under way.
PostedOneAtATime(queue) ==
  IF queue = <<>> \/ posts # <<>> THEN posts
  ELSE Append(posts, [ops |-> queue, arrived |-> FALSE])

\* drain over HTTP: a copy of the whole outbox is posted, and stays in it.
Posted(queue) == IF queue = <<>> THEN posts ELSE Append(posts, [ops |-> queue, arrived |-> FALSE])

Init ==
  /\ net \in Networks
  /\ written = 0 /\ signing = {} /\ newest = 0 /\ late = {}
  /\ outbox = <<>> /\ posts = <<>>
  /\ ws = "connecting" /\ attempt = 0
  /\ uplink = <<>> /\ downlink = <<>>
  /\ stored = {} /\ bare = {} /\ seen = 0
  /\ closes = 0 /\ failures = 0

-----------------------------------------------------------------------------
(* The device *)

\* dispatch: the op is numbered, enters the log, and is given to be signed.
Dispatch ==
  /\ written < MaxWrites
  /\ written' = written + 1
  /\ signing' = signing \cup {written'}
  /\ UNCHANGED <<net, newest, late, outbox, posts, ws, attempt, uplink, downlink, relay,
                 closes, failures>>

\* It goes on when op n is signed: it is broadcast, transport.send.
SignAndRelease(n) ==
  /\ signing' = signing \ {n}
  /\ IF n <= newest THEN late' = late \cup {n} /\ UNCHANGED newest
                    ELSE newest' = n /\ UNCHANGED late
  /\ IF ws = "open"
     THEN uplink' = Append(uplink, Batch(<<n>>, {})) /\ UNCHANGED <<outbox, posts>>
     ELSE /\ outbox' = Append(outbox, n)
          /\ posts' = IF Http THEN Posted(outbox') ELSE posts
          /\ UNCHANGED uplink
  /\ UNCHANGED <<net, written, ws, attempt, downlink, relay, closes, failures>>

\* Mutant: the outbox is emptied without being sent.
OpensWithoutDrain ==
  /\ ws = "connecting"
  /\ ws' = "open" /\ attempt' = 0
  /\ uplink' = <<Hello>>
  /\ outbox' = <<>>
  /\ UNCHANGED <<net, author, posts, downlink, relay, closes, failures>>

\* socket.onopen: the outbox goes out first, then the coordinator says hello.
Opens ==
  /\ ws = "connecting"
  /\ ws' = "open" /\ attempt' = 0
  /\ uplink' = NonEmpty(outbox, {}) \o <<Hello>>
  /\ outbox' = <<>>
  /\ UNCHANGED <<net, author, posts, downlink, relay, closes, failures>>

\* socket.onclose and fallbackOrRetry.
Closes ==
  /\ \/ ws = "connecting" /\ UNCHANGED closes
     \/ /\ ws = "open" /\ closes < MaxCloses /\ closes' = closes + 1
        /\ net = "harsh" \/ uplink = <<>>
  /\ uplink' = <<>> /\ downlink' = <<>>
  /\ attempt' = attempt + 1
  /\ ws' = IF attempt' >= 2 THEN "none" ELSE "waiting"
  /\ posts' = IF attempt' >= 2 THEN Posted(outbox) ELSE posts
  /\ UNCHANGED <<net, author, outbox, relay, failures>>

Retry ==
  /\ ws = "waiting" /\ ws' = "connecting"
  /\ UNCHANGED <<net, author, outbox, posts, attempt, uplink, downlink, relay, closes,
                 failures>>

\* The keepalive says hello again.
Keepalive ==
  /\ ws = "open" /\ uplink = <<>> /\ downlink = <<>>
  /\ uplink' = <<Hello>>
  /\ UNCHANGED <<net, author, outbox, posts, ws, attempt, downlink, relay, closes, failures>>

\* Mutant: newest first.
AboveNewestFirst(vv) ==
  SelectSeq([i \in 1 .. written |-> written + 1 - i], LAMBDA op : op > vv)

\* sendDelta: everything in the log above the relay's vector, oldest first, what
\* is being signed without its signature.
Above(vv) == [i \in 1 .. written - vv |-> vv + i]

Push ==
  /\ downlink # <<>>
  /\ uplink' = uplink \o NonEmpty(Above(Head(downlink)), signing)
  /\ newest' = IF Above(Head(downlink)) = <<>> THEN newest ELSE written
  /\ downlink' = Tail(downlink)
  /\ UNCHANGED <<net, written, signing, late, outbox, posts, ws, attempt, relay, closes,
                 failures>>

\* The end of a drain: what was sent is dropped by its length.
PostSucceeds(i) ==
  /\ posts[i].arrived
  /\ outbox' = SubSeq(outbox, Len(posts[i].ops) + 1, Len(outbox))
  /\ posts' = RemoveAt(posts, i)
  /\ UNCHANGED <<net, author, ws, attempt, uplink, downlink, relay, closes, failures>>

\* A request may fail on its way or on its way back; the ops stay queued.
PostFails(i) ==
  /\ net = "harsh" /\ failures < MaxFailures
  /\ failures' = failures + 1
  /\ posts' = RemoveAt(posts, i)
  /\ UNCHANGED <<net, author, outbox, ws, attempt, uplink, downlink, relay, closes>>

-----------------------------------------------------------------------------
(* The relay *)

\* Mutant: the vector is whatever op came last.
StoreLast(ops, unsigned) ==
  /\ stored' = stored \cup ToSet(ops)
  /\ bare' = bare \cup unsigned
  /\ seen' = Last(ops)

\* storeOps, op by op: an op that is not above the vector, as the ops before it
\* in the batch have left it, is one "we already have".
Fresh(ops) ==
  {ops[i] : i \in {k \in DOMAIN ops : ops[k] > seen /\ \A j \in 1 .. k - 1 : ops[j] < ops[k]}}

Store(ops, unsigned) ==
  /\ stored' = stored \cup Fresh(ops)
  /\ bare' = bare \cup (Fresh(ops) \cap unsigned)
  /\ seen' \in Fresh(ops) \cup {seen} /\ \A op \in Fresh(ops) : op <= seen'

Reads ==
  /\ uplink # <<>> /\ uplink' = Tail(uplink)
  /\ IF Head(uplink).t = "hello"
     THEN downlink' = Append(downlink, seen) /\ UNCHANGED relay
     ELSE Store(Head(uplink).ops, Head(uplink).bare) /\ UNCHANGED downlink
  /\ UNCHANGED <<net, author, outbox, posts, ws, attempt, closes, failures>>

PostArrives(i) ==
  /\ ~posts[i].arrived
  /\ net = "calm" => \A j \in 1 .. i - 1 : posts[j].arrived
  /\ posts' = [posts EXCEPT ![i].arrived = TRUE]
  /\ Store(posts[i].ops, {})
  /\ UNCHANGED <<net, author, outbox, ws, attempt, uplink, downlink, closes, failures>>

Next ==
  \/ Dispatch \/ \E n \in signing : SignAndRelease(n)
  \/ Opens \/ Closes \/ Retry \/ Keepalive \/ Push \/ Reads
  \/ \E i \in DOMAIN posts : PostSucceeds(i) \/ PostFails(i) \/ PostArrives(i)

\* Signatures are made, timers fire, the network answers or refuses, and requests
\* end; nothing makes a socket open, a cousin write, or a request fail.
Fairness ==
  /\ \A n \in 1 .. MaxWrites : WF_vars(n \in signing /\ SignAndRelease(n))
  /\ WF_vars(Retry) /\ WF_vars(Opens \/ (ws = "connecting" /\ Closes))
  /\ WF_vars(Keepalive) /\ WF_vars(Push) /\ WF_vars(Reads)
  /\ WF_vars(\E i \in DOMAIN posts : PostArrives(i))
  /\ WF_vars(\E i \in DOMAIN posts : PostSucceeds(i))

Spec == Init /\ [][Next]_vars
FairSpec == Spec /\ Fairness

-----------------------------------------------------------------------------
(* Properties *)

\* The ops, with their signatures, that something carries to the relay.
OnTheWay ==
  (UNION {ToSet(uplink[i].ops) \ uplink[i].bare : i \in DOMAIN uplink})
    \cup (UNION {ToSet(posts[i].ops) : i \in {j \in DOMAIN posts : ~posts[j].arrived}})

TypeOK ==
  /\ written \in 0 .. MaxWrites /\ newest \in 0 .. written
  /\ signing \cup late \subseteq 1 .. written /\ signing \cap late = {}
  /\ ToSet(outbox) \subseteq (1 .. written) \ signing
  /\ OnTheWay \subseteq 1 .. written
  /\ ws \in {"connecting", "open", "waiting", "none"} /\ attempt \in 0 .. 2
  /\ ws # "open" => uplink = <<>> /\ downlink = <<>>
  /\ posts # <<>> => Http
  /\ bare \subseteq stored /\ stored \subseteq 1 .. written
  /\ seen \in stored \cup {0} /\ \A op \in stored : op <= seen
  /\ net \in Networks /\ closes \in 0 .. MaxCloses /\ failures \in 0 .. MaxFailures

\* The relay's one comparison per op loses none of a batch but what was late
\* before it was queued: every batch, and the outbox they are copied from, is in
\* the order the ops were written, late ops aside.
AscendsBut(ops, excused) ==
  \A i, j \in 1 .. Len(ops) : i < j => ops[i] < ops[j] \/ ops[j] \in excused
BatchesAscend ==
  /\ AscendsBut(outbox, late)
  /\ \A i \in DOMAIN posts : AscendsBut(posts[i].ops, late)
  /\ \A i \in DOMAIN uplink : AscendsBut(uplink[i].ops, late)

\* The ops that were released in their turn.
Due == (1 .. written) \ (signing \cup late)

\* "Drop exactly what we sent; anything appended meanwhile survives"
\* (js/sync-server.js, drain): an op released in its turn is queued until it is
\* stored with its signature or at least under way.
QueuedUntilSent == Due \subseteq (stored \ bare) \cup ToSet(outbox) \cup OnTheWay

\* It is, as long as requests neither fail nor overtake each other.
QueuedUntilSentInCalm == net = "calm" => QueuedUntilSent

\* Together: what is queued, sent and stored is what was written, in order but for
\* what was late, and with no hole while the network is calm.
QueuesAreKept == TypeOK /\ BatchesAscend /\ QueuedUntilSentInCalm

\* "... then our vector so the client can push what the server is missing"
\* (worker/src/index.js, onMessage): what the relay lacks, and nothing is
\* bringing it, lies above its vector. Not so on a harsh network, where a later
\* op may be stored first, nor of an op that is late.
VectorShowsWhatIsMissing ==
  \A op \in Due :
    op \in stored \cup ToSet(outbox) \cup OnTheWay \/ op > seen

\* On a calm network the relay ends up with all that was written, signed, but for
\* the ops that were late.
RelayCatchesUp ==
  net = "calm" =>
    \A op \in 1 .. MaxWrites : (written >= op) ~> (op \in (stored \ bare) \cup late)
=============================================================================
