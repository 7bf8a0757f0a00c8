------------------------------ MODULE Session ------------------------------
(***************************************************************************)
(* One connection between two devices, from the moment WebRTC has          *)
(* introduced them: the handshake of PeerTransport (js/sync-peers.js), the *)
(* Session it builds (js/crypto.js), the messages sealed over it, and the  *)
(* one-sided ratchet.                                                      *)
(*                                                                         *)
(* Every WebCrypto call is a promise. What a handler does after an await   *)
(* is a job of its own in `jobs`, and the jobs of one end finish in any    *)
(* order, interleaved with the frames that keep arriving. The channel is   *)
(* ordered and reliable for as long as it lives, as an SCTP channel is.    *)
(*                                                                         *)
(* Cryptography is abstract: a key is the list of ratchet labels it was    *)
(* derived by, a confirmation is good if both ends hold the same secret.   *)
(***************************************************************************)
EXTENDS Integers, Sequences, FiniteSets

CONSTANTS
  Chatter,  \* what the coordinator of each end says besides its first hello
            \*  and the roster
  Window,   \* REPLAY_WINDOW
  Meetings  \* what a pair of devices that meet may bring with it

\* The smaller actor opens the handshake.
Ends == {"initiator", "responder"}
Other(d) == CHOOSE o \in Ends : o # d
Messages == (UNION {Chatter[d] : d \in Ends}) \cup {"hello", "roster"}
Secrets == {"room", "another"}
Doubts == {"none", "unready", "hello", "barred"}

(* What decides the fate of a connection: REKEY_AFTER_MESSAGES, the room   *)
(* secret each end holds, why an end would turn the other away (it has no  *)
(* identity yet; the hello fails a check of pin or age; the Chair barred   *)
(* the device), and the ends whose owner freezes the link, once.           *)
Meeting == [rekey : Nat \ {0}, secret : [Ends -> Secrets], doubt : [Ends -> Doubts],
            frozen : SUBSET Ends]

ASSUME SessionAssumption == Window \in Nat /\ Meetings \subseteq Meeting

VARIABLES
  meeting,  \* what the two ends brought with them; it never changes
  link,     \* connecting, open or dropped
  session,  \* the Session object of each end
  secured,  \* link.secured
  opened,   \* has `peeropen` been dispatched
  learned,  \* is the other's key in the directory
  isolated, \* link.isolated; a link is frozen at most once
  outbox,   \* link.outbox
  said,     \* which of its chatter the coordinator has handed over
  jobs,     \* continuations waiting for a promise
  wire,     \* frames on their way to an end
  heard,    \* what reached the coordinator
  nonces    \* history: what each key, epoch and counter sealed

vars == <<meeting, link, session, secured, opened, learned, isolated,
          outbox, said, jobs, wire, heard, nonces>>

NewSession ==
  [begun |-> FALSE, ownHello |-> FALSE, established |-> FALSE, keys |-> <<>>,
   epoch |-> 0, sendCounter |-> 0, received |-> {}, highestSeen |-> -1]

Init ==
  /\ meeting \in Meetings
  /\ link = [d \in Ends |-> "connecting"]
  /\ session = [d \in Ends |-> NewSession]
  /\ secured = [d \in Ends |-> FALSE]
  /\ opened = [d \in Ends |-> FALSE]
  /\ learned = [d \in Ends |-> FALSE]
  /\ isolated = [d \in Ends |-> "never"]
  /\ outbox = [d \in Ends |-> <<>>]
  /\ said = [d \in Ends |-> {}]
  /\ jobs = [d \in Ends |-> {}]
  /\ wire = [d \in Ends |-> <<>>]
  /\ heard = [d \in Ends |-> {}]
  /\ nonces = {}

Job(name) == [job |-> name]
Handed(name, f) == [job |-> name, frame |-> f]

-----------------------------------------------------------------------------
(* Sending.                                                                *)

\* #raw: a frame leaves only through a channel that is open.
Raw(d, f) == IF link[d] = "open" THEN [wire EXCEPT ![Other(d)] = Append(@, f)] ELSE wire

\* Mutant: the limit is noticed one message late.
StartSealLate(s, m) ==
  IF s.sendCounter > meeting.rekey
  THEN [session |-> s, job |-> [job |-> "ratchet", msg |-> m, keys |-> s.keys, label |-> s.epoch + 1]]
  ELSE [session |-> [s EXCEPT !.sendCounter = @ + 1],
        job |-> [job |-> "encrypt", msg |-> m, e |-> s.epoch, c |-> s.sendCounter, inner |-> s.keys]]

(* The first, synchronous part of seal(m), given the session s. Nobody     *)
(* waits for a ratchet that another call already began.                    *)
StartSeal(s, m) ==
  IF s.sendCounter >= meeting.rekey
  THEN [session |-> s, job |-> [job |-> "ratchet", msg |-> m, keys |-> s.keys, label |-> s.epoch + 1]]
  ELSE [session |-> [s EXCEPT !.sendCounter = @ + 1],
        job |-> [job |-> "encrypt", msg |-> m, e |-> s.epoch, c |-> s.sendCounter, inner |-> s.keys]]

NonceOf(d, j) == <<d, j.inner, j.e, j.c, j.msg>>
NoncesOf(d, js) == {NonceOf(d, j) : j \in {k \in js : k.job = "encrypt"}}

\* Mutant: the calls overlap, and each takes the counter it found at first.
SealAllAtOnce(s, ms) ==
  [session |-> [s EXCEPT !.sendCounter = @ + Len(ms)], jobs |-> {StartSeal(s, ms[i]).job : i \in DOMAIN ms}]

\* The session once n calls of seal have begun.
After(s, n) == [s EXCEPT !.sendCounter = IF @ + n <= meeting.rekey THEN @ + n ELSE meeting.rekey]

\* StartSeal for each message of ms in turn: the session and jobs it leaves.
SealAll(s, ms) ==
  [session |-> After(s, Len(ms)), jobs |-> {StartSeal(After(s, i - 1), ms[i]).job : i \in DOMAIN ms}]

(* #sealTo, for a message of the coordinator: refused on a frozen link,    *)
(* queued until the link is secured, sealed otherwise.                     *)
Say(d, m) ==
  /\ link[d] # "dropped" /\ m \in Chatter[d] \ said[d]
  /\ said' = [said EXCEPT ![d] = @ \cup {m}]
  /\ \/ /\ isolated[d] = "now"
        /\ UNCHANGED <<session, jobs, nonces, outbox>>
     \/ /\ isolated[d] # "now" /\ ~secured[d]
        /\ outbox' = [outbox EXCEPT ![d] = Append(@, m)]
        /\ UNCHANGED <<session, jobs, nonces>>
     \/ /\ isolated[d] # "now" /\ secured[d]
        /\ LET r == StartSeal(session[d], m)
           IN  /\ session' = [session EXCEPT ![d] = r.session]
               /\ jobs' = [jobs EXCEPT ![d] = @ \cup {r.job}]
               /\ nonces' = nonces \cup NoncesOf(d, {r.job})
        /\ UNCHANGED outbox
  /\ UNCHANGED <<meeting, link, secured, opened, learned, isolated, wire, heard>>

\* Mutant: the counter starts over in the same epoch.
RatchetedInPlace(s, j) ==
  [s EXCEPT !.keys = Append(j.keys, j.label), !.sendCounter = 1,
            !.received = {}, !.highestSeen = -1]

(* ratchet() resolves and its seal goes on. It derives from the keys and   *)
(* the label it read when it began, and advances the epoch it finds.       *)
Ratcheted(s, j) ==
  [s EXCEPT !.keys = Append(j.keys, j.label), !.epoch = @ + 1, !.sendCounter = 1,
            !.received = {}, !.highestSeen = -1]

Ratchet(d, j) ==
  /\ j \in jobs[d] /\ j.job = "ratchet"
  /\ LET s == Ratcheted(session[d], j)
         k == [job |-> "encrypt", msg |-> j.msg, e |-> s.epoch, c |-> s.sendCounter - 1, inner |-> s.keys]
     IN  /\ session' = [session EXCEPT ![d] = s]
         /\ jobs' = [jobs EXCEPT ![d] = (@ \ {j}) \cup {k}]
         /\ nonces' = nonces \cup {NonceOf(d, k)}
  /\ UNCHANGED <<meeting, link, secured, opened, learned, isolated, outbox, said, wire, heard>>

(* The inner encryption resolves: the outer layer takes the keys of now,   *)
(* and the envelope goes out if the channel is still open.                 *)
Encrypt(d, j) ==
  /\ j \in jobs[d] /\ j.job = "encrypt"
  /\ jobs' = [jobs EXCEPT ![d] = @ \ {j}]
  /\ wire' = Raw(d, [kind |-> "sealed", msg |-> j.msg, e |-> j.e, c |-> j.c,
                     inner |-> j.inner, outer |-> session[d].keys])
  /\ UNCHANGED <<meeting, link, session, secured, opened, learned, isolated, outbox, said,
                 heard, nonces>>

-----------------------------------------------------------------------------
(* The life of the link.                                                   *)

\* #drop: close the connection and forget it. Its jobs run on regardless.
Dropped(d) == link' = [link EXCEPT ![d] = "dropped"]

\* channel.onopen; the smaller actor begins the handshake.
Open(d) ==
  /\ link[d] = "connecting" /\ link[Other(d)] # "dropped"
  /\ IF d = "initiator" /\ meeting.doubt[d] = "unready"
     THEN Dropped(d) /\ UNCHANGED <<session, jobs>>
     ELSE /\ link' = [link EXCEPT ![d] = "open"]
          /\ session' = [session EXCEPT ![d].begun = (d = "initiator")]
          /\ jobs' = [jobs EXCEPT ![d] = IF d = "initiator" THEN @ \cup {Job("createHello")} ELSE @]
  /\ UNCHANGED <<meeting, secured, opened, learned, isolated, outbox, said, wire, heard, nonces>>

\* The other end closed, or the network did.
Close(d) ==
  /\ link[d] # "dropped" /\ link[Other(d)] = "dropped"
  /\ Dropped(d)
  /\ UNCHANGED <<meeting, session, secured, opened, learned, isolated, outbox, said, jobs,
                 wire, heard, nonces>>

Fail(d) ==
  /\ link[d] = "open"
  /\ Dropped(d)
  /\ UNCHANGED <<meeting, session, secured, opened, learned, isolated, outbox, said, jobs,
                 wire, heard, nonces>>

\* togglePeerIsolation, once on and once off.
Isolate(d) ==
  /\ d \in meeting.frozen /\ link[d] # "dropped" /\ isolated[d] # "was"
  /\ isolated' = [isolated EXCEPT ![d] = IF @ = "never" THEN "now" ELSE "was"]
  /\ UNCHANGED <<meeting, link, session, secured, opened, learned, outbox, said, jobs, wire,
                 heard, nonces>>

-----------------------------------------------------------------------------
(* The handshake.                                                          *)

Hello == [kind |-> "hello"]

\* createHello resolves; the responder goes on to accept what it was sent.
CreateHello(d, j) ==
  /\ j \in jobs[d] /\ j.job \in {"createHello", "answerHello"}
  /\ IF meeting.doubt[d] = "unready"
     THEN /\ Dropped(d)
          /\ jobs' = [jobs EXCEPT ![d] = @ \ {j}]
          /\ UNCHANGED <<session, wire>>
     ELSE /\ session' = [session EXCEPT ![d].ownHello = TRUE]
          /\ wire' = Raw(d, Hello)
          /\ jobs' = [jobs EXCEPT ![d] =
               (@ \ {j}) \cup (IF j.job = "answerHello" THEN {Job("acceptHello")} ELSE {})]
          /\ UNCHANGED link
  /\ UNCHANGED <<meeting, secured, opened, learned, isolated, outbox, said, heard, nonces>>

\* Mutant: the key is learned before the other end proved the secret.
AcceptHelloAndLearn(d) ==
  /\ Job("acceptHello") \in jobs[d]
  /\ IF meeting.doubt[d] = "hello" \/ ~session[d].ownHello
     THEN /\ Dropped(d)
          /\ jobs' = [jobs EXCEPT ![d] = @ \ {Job("acceptHello")}]
          /\ UNCHANGED <<session, learned>>
     ELSE /\ session' = [session EXCEPT ![d].established = TRUE]
          /\ jobs' = [jobs EXCEPT ![d] = (@ \ {Job("acceptHello")}) \cup {Job("confirmation")}]
          /\ learned' = [learned EXCEPT ![d] = TRUE]
          /\ UNCHANGED link
  /\ UNCHANGED <<meeting, secured, opened, isolated, outbox, said, wire, heard, nonces>>

(* acceptHello resolves, with keys, or throws: a pin that does not match,  *)
(* clocks too far apart.                                                   *)
AcceptHello(d) ==
  /\ Job("acceptHello") \in jobs[d]
  /\ IF meeting.doubt[d] = "hello" \/ ~session[d].ownHello
     THEN /\ Dropped(d)
          /\ jobs' = [jobs EXCEPT ![d] = @ \ {Job("acceptHello")}]
          /\ UNCHANGED session
     ELSE /\ session' = [session EXCEPT ![d].established = TRUE]
          /\ jobs' = [jobs EXCEPT ![d] = (@ \ {Job("acceptHello")}) \cup {Job("confirmation")}]
          /\ UNCHANGED link
  /\ UNCHANGED <<meeting, secured, opened, learned, isolated, outbox, said, wire, heard, nonces>>

Confirmation(d) ==
  /\ Job("confirmation") \in jobs[d]
  /\ jobs' = [jobs EXCEPT ![d] = @ \ {Job("confirmation")}]
  /\ wire' = Raw(d, [kind |-> "confirm", mac |-> meeting.secret[d]])
  /\ UNCHANGED <<meeting, link, session, secured, opened, learned, isolated, outbox, said,
                 heard, nonces>>

\* Mutant: a confirmation that does not match is ignored.
CheckConfirmationOrIgnore(d, j) ==
  /\ j \in jobs[d] /\ j.job = "checkConfirmation"
  /\ LET good == j.frame.mac = meeting.secret[d]
     IN  /\ secured' = [secured EXCEPT ![d] = good]
         /\ learned' = [learned EXCEPT ![d] = good]
         /\ jobs' = [jobs EXCEPT ![d] = (@ \ {j}) \cup (IF good THEN {Job("safetyWord")} ELSE {})]
  /\ UNCHANGED <<meeting, link, session, opened, isolated, outbox, said, wire, heard, nonces>>

(* checkConfirmation resolves, and #secure runs to its own await: from     *)
(* here on messages are sealed, and the other's key is in the directory.   *)
CheckConfirmation(d, j) ==
  /\ j \in jobs[d] /\ j.job = "checkConfirmation"
  /\ IF j.frame.mac # meeting.secret[d]
     THEN /\ Dropped(d)
          /\ jobs' = [jobs EXCEPT ![d] = @ \ {j}]
          /\ UNCHANGED <<secured, learned>>
     ELSE /\ secured' = [secured EXCEPT ![d] = TRUE]
          /\ learned' = [learned EXCEPT ![d] = TRUE]
          /\ jobs' = [jobs EXCEPT ![d] = (@ \ {j}) \cup {Job("safetyWord")}]
          /\ UNCHANGED link
  /\ UNCHANGED <<meeting, session, opened, isolated, outbox, said, wire, heard, nonces>>

\* Mutant: the queue is copied, not emptied.
SecureCopying(d) ==
  /\ Job("safetyWord") \in jobs[d] /\ meeting.doubt[d] # "barred"
  /\ LET r == SealAll(session[d], <<"hello">> \o outbox[d] \o <<"roster">>)
     IN  /\ opened' = [opened EXCEPT ![d] = TRUE]
         /\ session' = [session EXCEPT ![d] = r.session]
         /\ jobs' = [jobs EXCEPT ![d] = (@ \ {Job("safetyWord")}) \cup r.jobs]
         /\ nonces' = nonces \cup NoncesOf(d, r.jobs)
  /\ UNCHANGED <<meeting, link, secured, learned, isolated, outbox, said, wire, heard>>

(* The rest of #secure: turn a barred device away, or introduce ourselves  *)
(* (`peeropen`, which finds the link only while it is in the map), flush   *)
(* what was queued and send the roster.                                    *)
Secure(d) ==
  /\ Job("safetyWord") \in jobs[d]
  /\ IF meeting.doubt[d] = "barred"
     THEN /\ Dropped(d)
          /\ jobs' = [jobs EXCEPT ![d] = @ \ {Job("safetyWord")}]
          /\ UNCHANGED <<session, opened, outbox, nonces>>
     ELSE LET greeting == IF link[d] = "dropped" THEN <<>> ELSE <<"hello">>
              all == IF isolated[d] = "now" THEN <<>> ELSE greeting \o outbox[d] \o <<"roster">>
              r == SealAll(session[d], all)
          IN  /\ opened' = [opened EXCEPT ![d] = TRUE]
              /\ outbox' = [outbox EXCEPT ![d] = <<>>]
              /\ session' = [session EXCEPT ![d] = r.session]
              /\ jobs' = [jobs EXCEPT ![d] = (@ \ {Job("safetyWord")}) \cup r.jobs]
              /\ nonces' = nonces \cup NoncesOf(d, r.jobs)
              /\ UNCHANGED link
  /\ UNCHANGED <<meeting, secured, learned, isolated, said, wire, heard>>

-----------------------------------------------------------------------------
(* Receiving.                                                              *)

TakeFrame(d) == wire' = [wire EXCEPT ![d] = Tail(@)]

ReceiveHello(d) ==
  /\ link[d] = "open" /\ wire[d] # <<>> /\ Head(wire[d]).kind = "hello"
  /\ TakeFrame(d)
  /\ session' = [session EXCEPT ![d].begun = TRUE]
  /\ jobs' = [jobs EXCEPT ![d] =
       @ \cup {Job(IF session[d].begun THEN "acceptHello" ELSE "answerHello")}]
  /\ UNCHANGED <<meeting, link, secured, opened, learned, isolated, outbox, said, heard, nonces>>

\* Mutant: a confirmation that comes too early is ignored.
ReceiveConfirmOrIgnore(d) ==
  /\ link[d] = "open" /\ wire[d] # <<>> /\ Head(wire[d]).kind = "confirm"
  /\ TakeFrame(d)
  /\ jobs' = [jobs EXCEPT ![d] =
       IF session[d].established THEN @ \cup {Handed("checkConfirmation", Head(wire[d]))} ELSE @]
  /\ UNCHANGED <<meeting, link, session, secured, opened, learned, isolated, outbox, said, heard, nonces>>

(* A confirmation can arrive while acceptHello is still deriving the keys; *)
(* checking it then throws, and what throws is dropped.                    *)
ReceiveConfirm(d) ==
  /\ link[d] = "open" /\ wire[d] # <<>> /\ Head(wire[d]).kind = "confirm"
  /\ TakeFrame(d)
  /\ IF session[d].established
     THEN /\ jobs' = [jobs EXCEPT ![d] = @ \cup {Handed("checkConfirmation", Head(wire[d]))}]
          /\ UNCHANGED link
     ELSE Dropped(d) /\ UNCHANGED jobs
  /\ UNCHANGED <<meeting, session, secured, opened, learned, isolated, outbox, said, heard, nonces>>

\* Mutant: counters must rise, as if nothing could overtake.
AdmitsRising(s, f) ==
  /\ f.e <= s.epoch + 1
  /\ <<f.e, f.c>> \notin s.received
  /\ f.c > s.highestSeen
  /\ f.outer = s.keys

\* open() up to its await: would session s begin to decrypt frame f?
Admits(s, f) ==
  /\ f.e <= s.epoch + 1
  /\ <<f.e, f.c>> \notin s.received
  /\ f.c >= s.highestSeen - Window
  /\ f.outer = s.keys

ReceiveSealed(d) ==
  /\ link[d] = "open" /\ wire[d] # <<>> /\ Head(wire[d]).kind = "sealed"
  /\ TakeFrame(d)
  /\ LET f == Head(wire[d])
     IN  IF isolated[d] # "now" /\ secured[d] /\ Admits(session[d], f) /\ f.inner = session[d].keys
         THEN jobs' = [jobs EXCEPT ![d] = @ \cup {Handed("decrypt", f)}]
         ELSE UNCHANGED jobs
  /\ UNCHANGED <<meeting, link, session, secured, opened, learned, isolated, outbox, said,
                 heard, nonces>>

\* Both layers authenticated: only now is the counter recorded.
Recorded(s, f) ==
  LET received == s.received \cup {<<f.e, f.c>>}
      highest  == IF f.c > s.highestSeen THEN f.c ELSE s.highestSeen
  IN  [s EXCEPT !.highestSeen = highest,
                !.received = IF Cardinality(received) > 2 * Window
                             THEN {t \in received : t[2] >= highest - Window}
                             ELSE received]

Decrypt(d, j) ==
  /\ j \in jobs[d] /\ j.job = "decrypt"
  /\ jobs' = [jobs EXCEPT ![d] = @ \ {j}]
  /\ session' = [session EXCEPT ![d] = Recorded(@, j.frame)]
  /\ heard' = [heard EXCEPT ![d] = @ \cup {j.frame.msg}]
  /\ UNCHANGED <<meeting, link, secured, opened, learned, isolated, outbox, said, wire, nonces>>

-----------------------------------------------------------------------------
Resume(d) ==
  \/ AcceptHello(d) \/ Confirmation(d) \/ Secure(d)
  \/ \E j \in jobs[d] :
       \/ CreateHello(d, j) \/ CheckConfirmation(d, j)
       \/ Ratchet(d, j) \/ Encrypt(d, j) \/ Decrypt(d, j)

Receive(d) == ReceiveHello(d) \/ ReceiveConfirm(d) \/ ReceiveSealed(d)

Next == \E d \in Ends :
  \/ Open(d) \/ Close(d) \/ Fail(d) \/ Isolate(d)
  \/ Receive(d) \/ Resume(d)
  \/ \E m \in Chatter[d] : Say(d, m)

(* Promises resolve, a live channel delivers, a dead one is noticed, and   *)
(* an offer that was answered opens. Nobody need say, fail or freeze.      *)
Fairness == \A d \in Ends :
  /\ WF_vars(Open(d)) /\ WF_vars(Close(d))
  /\ WF_vars(Receive(d)) /\ WF_vars(Resume(d))

Spec == Init /\ [][Next]_vars
FairSpec == Spec /\ Fairness

-----------------------------------------------------------------------------
Frames == [kind : {"hello"}] \cup [kind : {"confirm"}, mac : Secrets]
          \cup [kind : {"sealed"}, msg : Messages, e : Nat, c : Nat, inner : Seq(Nat), outer : Seq(Nat)]

\* The type invariant.
TypeOK ==
  /\ meeting \in Meetings
  /\ link \in [Ends -> {"connecting", "open", "dropped"}]
  /\ \A d \in Ends :
       /\ session[d] \in [begun : BOOLEAN, ownHello : BOOLEAN, established : BOOLEAN,
                          keys : Seq(Nat), epoch : Nat, sendCounter : 0 .. meeting.rekey,
                          received : SUBSET (Nat \X Nat), highestSeen : Nat \cup {-1}]
       /\ \A i \in DOMAIN wire[d] : wire[d][i] \in Frames
       /\ outbox[d] \in Seq(Chatter[d]) /\ heard[d] \subseteq Messages
  /\ secured \in [Ends -> BOOLEAN] /\ opened \in [Ends -> BOOLEAN] /\ learned \in [Ends -> BOOLEAN]
  /\ isolated \in [Ends -> {"never", "now", "was"}] /\ said \in [Ends -> SUBSET Messages]

(* A device's key enters the directory, and its messages reach the         *)
(* coordinator, only from an end that holds the same room secret and whose *)
(* hello passed (onHandshake, #secure).                                    *)
OnlyMembersGetIn ==
  \A d \in Ends : learned[d] \/ heard[d] # {} =>
    meeting.secret[d] = meeting.secret[Other(d)] /\ meeting.doubt[d] \notin {"hello", "unready"}

(* Together: only members of the room get in, and the link keeps its shape. *)
MembersOnly == TypeOK /\ OnlyMembersGetIn

(* What was queued before the link was secured leaves with it: nothing is  *)
(* put into the queue once it has been flushed (#sealTo, #secure).         *)
NothingStrands == \A d \in Ends : opened[d] => outbox[d] = <<>>

Quiet == \A d \in Ends : jobs[d] = {} /\ wire[d] = <<>>
Untouched == \A d \in Ends :
  link[d] = "open" /\ opened[d] /\ isolated[d] = "never" /\ session[d].epoch = 0

(* The end that is secured last hears the other's hello only if it had     *)
(* been secured when it arrived, and drops it otherwise. Still the sync    *)
(* begins: of the two first hellos one is always heard (#onFrame drops     *)
(* what comes before the session, peeropen).                               *)
SomebodyIsHeard == Quiet /\ Untouched => \E d \in Ends : "hello" \in heard[d]

(* Together: a link that comes up is of use: nothing is left in the queue,  *)
(* and the exchange of digests begins.                                     *)
SyncBegins == NothingStrands /\ SomebodyIsHeard

(* However many calls of seal() overlap a ratchet, no key seals two        *)
(* messages with one epoch and counter, which together are the inner nonce *)
(* (seal, ratchet).                                                        *)
NoncesAreFresh ==
  \A n, m \in nonces : (\A i \in 1 .. 4 : n[i] = m[i]) => n = m

Read(d) == wire[d] # <<>> /\ wire'[d] = Tail(wire[d])
Opens(d) == Handed("decrypt", Head(wire[d])) \in jobs'[d]

(* As long as neither end has rekeyed, an end that is secured and not      *)
(* frozen opens every envelope: overtaking inside the window, a queue that *)
(* was flushed late and a counter seen in another order lose nothing.      *)
FirstEpochIsOpened == [][\A d \in Ends :
  Read(d) /\ Head(wire[d]).kind = "sealed" /\ secured[d] /\ isolated[d] # "now"
    /\ session[d].keys = <<>> /\ Head(wire[d]).outer = <<>>
    /\ Head(wire[d]).c >= session[d].highestSeen - Window => Opens(d)]_vars

(* Together: what sealing and opening promise each other while their calls *)
(* overtake one another.                                                   *)
SealsAreSound == []NoncesAreFresh /\ FirstEpochIsOpened

(* "So both sides derive the same directional keys without an extra        *)
(* negotiation round" (js/crypto.js, Session): what one end seals the      *)
(* other opens. Not so across a ratchet, which only the sender makes.      *)
WhatIsSealedIsOpened == [][\A d \in Ends :
  Read(d) /\ Head(wire[d]).kind = "sealed" /\ secured[d] /\ isolated[d] # "now" => Opens(d)]_vars

(* A link that is secured at one end is in time secured at the other, or   *)
(* gone: a handshake that throws, fails to confirm or is refused half way  *)
(* leaves no end waiting on a peer that gave up.                           *)
NoHalfLink == \A d \in Ends : secured[d] ~> (secured[Other(d)] \/ link[d] = "dropped")

(* Two ends that share the secret and have no reason to refuse come to be  *)
(* introduced to each other, or the link falls at both.                    *)
HandshakeEnds ==
  (\A d \in Ends : link[d] = "open") ~>
    ((\A d \in Ends : opened[d]) \/ (\A d \in Ends : link[d] = "dropped"))

(* Together: a handshake settles, for both ends, one way or the other.      *)
HandshakeSettles == NoHalfLink /\ HandshakeEnds
=============================================================================
