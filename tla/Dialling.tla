------------------------------ MODULE Dialling ------------------------------
(***************************************************************************)
(* Two devices that have met before find each other again: the roster of   *)
(* known peers, redial, the attempts and their cap, connectTo, onSignal    *)
(* and #drop of js/sync-peers.js, driven by the coordinator's keepalive    *)
(* and wakes (js/sync.js). The relay carries signals in order; what is     *)
(* sent to a device that is not there is lost, and send() does not tell.   *)
(*                                                                         *)
(* A call is one RTCPeerConnection of the caller. Signals do not name the  *)
(* call they belong to, so a late answer meets whatever connection waits   *)
(* for one; the number here is what the browsers know of it (ICE           *)
(* credentials, fingerprints), and decides whether a connection comes up.  *)
(* The handshake on it is Session; here it ends or fails.                  *)
(***************************************************************************)
EXTENDS Integers, Sequences, FiniteSets, FiniteSetsExt

CONSTANTS
  MaxTries,    \* REDIAL_BACKOFF_MS.length
  Calls,       \* bound: numbers of calls; one is free again when nothing has it
  MaxSignals,  \* bound: signals on their way to a device, the last place not for a nudge
  MaxTroubles, \* bound: connections that fail by themselves, timers that
               \*  outrun what is under way
  Rosters      \* who may know whom at first

\* "small" is the device whose actor id sorts first: it places every call.
Devices == {"small", "large"}
Other(d) == CHOOSE o \in Devices : o # d

ASSUME DiallingAssumption ==
  /\ MaxTries \in Nat \ {0} /\ MaxSignals \in Nat \ {0} /\ MaxTroubles \in Nat
  /\ IsFiniteSet(Calls) /\ Calls \subseteq Nat \ {0}
  /\ Rosters \subseteq [Devices -> BOOLEAN]

VARIABLES
  up,       \* is a page of the device open
  known,    \* does its roster (localStorage) name the other
  link,     \* peers.get(other)
  dial,     \* dials.get(other): the tries so far, always with a timer set
  net,      \* signals on their way to a device
  securing, \* is a #secure of the device waiting for the safety word
  troubles  \* how many of those so far

vars == <<up, known, link, dial, net, securing, troubles>>

NoLink == [stage |-> "none"]
NoDial == -1
Linked(d) == link[d] # NoLink
Secured(d) == Linked(d) /\ link[d].secured

(* stage: the offer is being made; offered; a remote description is set,   *)
(* that of call `with`; the channel is open. old: longer than              *)
(* REDIAL_TIMEOUT_MS ago. worn: its session began with an earlier call.    *)
Link == [stage : {"creating", "offered", "described", "open"}, call : Calls, with : Calls \cup {0},
         auto : BOOLEAN, secured : BOOLEAN, old : BOOLEAN, worn : BOOLEAN]

NewLink(k, stage, auto) ==
  [stage |-> stage, call |-> k, with |-> IF auto THEN 0 ELSE k,
   auto |-> auto, secured |-> FALSE, old |-> FALSE, worn |-> FALSE]

Init ==
  /\ up = [d \in Devices |-> FALSE]
  /\ known \in Rosters
  /\ link = [d \in Devices |-> NoLink]
  /\ dial = [d \in Devices |-> NoDial]
  /\ net = [d \in Devices |-> <<>>]
  /\ securing = [d \in Devices |-> FALSE]
  /\ troubles = 0

-----------------------------------------------------------------------------
(* Signals. #relaySignal says that it delivered whenever the relay is      *)
(* connected, and whenever there are tabs; so a caller never learns more.  *)

Sent(to, signal) == IF up[to] THEN [net EXCEPT ![to] = Append(@, signal)] ELSE net
Room(to) == Len(net[to]) < MaxSignals

Matches(d) == \* the two connections belong to one call, as far as they know
  /\ Linked(d) /\ Linked(Other(d))
  /\ link[d].call = link[Other(d)].call
  /\ \A x \in Devices : link[x].with \in {0, link[x].call}

\* The other end of the connection is gone, or never was.
Doomed(d) == Linked(d) /\ link[d].stage \in {"described", "open"} /\ ~Matches(d)

CallsIn(signals) == {signals[i].call : i \in DOMAIN signals}
InUse == UNION ({{link[d].call, link[d].with} : d \in {x \in Devices : Linked(x)}}
                \cup {CallsIn(net[d]) : d \in Devices})
Free == Calls \ InUse

\* connectTo, which only the smaller actor gets through, and only once.
Called(d, l) ==
  IF d = "small" /\ l = NoLink THEN NewLink(Min(Free), "creating", TRUE) ELSE l

(* Timers of many seconds, and people, are slower than signals, promises   *)
(* and browsers, but for a few times.                                      *)
UnderWay ==
  \/ \E d \in Devices :
       net[d] # <<>> \/ Doomed(d) \/ link[d].stage = "creating" \/ securing[d]
  \/ /\ \A d \in Devices : Linked(d) /\ link[d].stage # "offered"
     /\ \E d \in Devices : ~link[d].secured
Slowly == IF UnderWay THEN troubles < MaxTroubles /\ troubles' = troubles + 1
                      ELSE UNCHANGED troubles

-----------------------------------------------------------------------------
(* Roster and redial.                                                      *)

RedialledAnyway(d, l, tries) == \* mutant: without the look at `peers`
  IF known[d] /\ tries = NoDial THEN 0 ELSE tries

\* redial({reset: false}), once what is stale is gone and link l is left.
Redialled(d, l, tries) == IF known[d] /\ l = NoLink /\ tries = NoDial THEN 0 ELSE tries

\* The page opens: redial({reset: true}) with nothing to reset.
Start(d) ==
  /\ ~up[d]
  /\ up' = [up EXCEPT ![d] = TRUE]
  /\ dial' = [dial EXCEPT ![d] = Redialled(d, NoLink, NoDial)]
  /\ UNCHANGED <<known, link, net, troubles, securing>>

\* The page closes or reloads: only the roster is left.
Stop(d) ==
  /\ up[d]
  /\ up' = [up EXCEPT ![d] = FALSE]
  /\ link' = [link EXCEPT ![d] = NoLink]
  /\ dial' = [dial EXCEPT ![d] = NoDial]
  /\ net' = [net EXCEPT ![d] = <<>>]
  /\ securing' = [securing EXCEPT ![d] = FALSE]
  /\ UNCHANGED <<known, troubles>>

\* The keepalive tick.
Tick(d) ==
  /\ up[d] /\ Slowly
  /\ dial' = [dial EXCEPT ![d] = Redialled(d, link[d], @)]
  /\ UNCHANGED <<up, known, link, net, securing>>

WakeKeepsStale(d) == \* mutant: forgets the half-open calls
  /\ up[d] /\ Slowly
  /\ dial' = [dial EXCEPT ![d] = Redialled(d, link[d], IF @ = NoDial THEN NoDial ELSE 0)]
  /\ UNCHANGED <<up, known, link, net, securing>>

\* A call of ours that never completed, and had the time to.
StaleIfOld(d) == Linked(d) /\ link[d].auto /\ link[d].old \* mutant: secured or not
Stale(d) == Linked(d) /\ link[d].auto /\ ~link[d].secured /\ link[d].old

\* Online again, visible again, the relay is back: redial({reset: true}).
Wake(d) ==
  /\ up[d] /\ Slowly
  /\ LET l == IF Stale(d) THEN NoLink ELSE link[d]
     IN  /\ link' = [link EXCEPT ![d] = l]
         /\ dial' = [dial EXCEPT ![d] = Redialled(d, l, IF @ = NoDial THEN NoDial ELSE 0)]
  /\ UNCHANGED <<up, known, net, securing>>

\* The link is not ours to retry.
Theirs(d) == Linked(d) /\ (link[d].secured \/ ~link[d].auto)

LaterAndOnce(tries) == IF tries > MaxTries THEN NoDial ELSE tries \* mutant: off by one

\* Try again, until the cap: the last of the tries forgets there were any.
Later(tries) == IF tries >= MaxTries THEN NoDial ELSE tries

(* #attemptDial: clear our own timed-out attempt and call, or ask to be    *)
(* rung back.                                                              *)
AttemptDial(d) ==
  /\ up[d] /\ dial[d] # NoDial /\ Slowly
  /\ \/ /\ Theirs(d)
        /\ dial' = [dial EXCEPT ![d] = NoDial]
        /\ UNCHANGED <<link, net>>
     \/ /\ ~Theirs(d) /\ d = "small" /\ Free # {}
        /\ dial' = [dial EXCEPT ![d] = Later(@ + 1)]
        /\ link' = [link EXCEPT ![d] = Called(d, NoLink)]
        /\ UNCHANGED net
     \/ /\ ~Theirs(d) /\ d = "large" /\ Len(net["small"]) < MaxSignals - 1
        /\ dial' = [dial EXCEPT ![d] = Later(@ + 1)]
        /\ link' = [link EXCEPT ![d] = NoLink]
        /\ net' = Sent("small", [kind |-> "dial", call |-> 0])
  /\ UNCHANGED <<up, known, securing>>

\* The timeout of a call passes.
Age(d) ==
  /\ Linked(d) /\ link[d].auto /\ ~link[d].old /\ Slowly
  /\ link' = [link EXCEPT ![d].old = TRUE]
  /\ UNCHANGED <<up, known, dial, net, securing>>

-----------------------------------------------------------------------------
(* Placing a call.                                                         *)

\* createOffer resolves.
Offer(d) ==
  /\ Linked(d) /\ link[d].stage = "creating" /\ Room(Other(d))
  /\ link' = [link EXCEPT ![d].stage = "offered"]
  /\ net' = Sent(Other(d), [kind |-> "offer", call |-> link[d].call])
  /\ UNCHANGED <<up, known, dial, troubles, securing>>

Hears(d, kind) ==
  /\ up[d] /\ net[d] # <<>> /\ Head(net[d]).kind = kind

Heard(d) == [net EXCEPT ![d] = Tail(@)]

\* onSignal, a nudge: ring back, unless there is a link of any kind.
HearDial(d) ==
  /\ Hears(d, "dial") /\ (~Linked(d) => Free # {})
  /\ net' = Heard(d)
  /\ link' = [link EXCEPT ![d] = Called(d, @)]
  /\ UNCHANGED <<up, known, dial, troubles, securing>>

(* onSignal, an offer: on a new connection, or on the one there is, which  *)
(* may refuse it, and then nobody answers; if it was up and does not, it   *)
(* keeps the session it had.                                               *)
HearOffer(d) ==
  /\ Hears(d, "offer") /\ Room(Other(d))
  /\ LET k == Head(net[d]).call
         answer == Append(net[Other(d)], [kind |-> "answer", call |-> k])
         answered == IF up[Other(d)] THEN [Heard(d) EXCEPT ![Other(d)] = answer] ELSE Heard(d)
     IN  \/ /\ ~Linked(d)
            /\ link' = [link EXCEPT ![d] = NewLink(k, "described", FALSE)]
            /\ net' = answered
         \/ /\ Linked(d)
            /\ link' = [link EXCEPT ![d].call = k, ![d].with = k, ![d].stage = "described",
                                    ![d].worn = @ \/ link[d].stage = "open"]
            /\ net' = answered
         \/ /\ Linked(d)
            /\ net' = Heard(d)
            /\ UNCHANGED link
  /\ UNCHANGED <<up, known, dial, troubles, securing>>

\* onSignal, an answer: taken by whatever offer waits for one.
HearAnswer(d) ==
  /\ Hears(d, "answer")
  /\ net' = Heard(d)
  /\ link' = IF Linked(d) /\ link[d].stage = "offered"
             THEN [link EXCEPT ![d].stage = "described", ![d].with = Head(net[d]).call]
             ELSE link
  /\ UNCHANGED <<up, known, dial, troubles, securing>>

-----------------------------------------------------------------------------
(* What the browsers make of it.                                           *)

ComesUp ==
  /\ \A d \in Devices : Matches(d) /\ link[d].stage = "described"
  /\ link' = [d \in Devices |-> [link[d] EXCEPT !.stage = "open"]]
  /\ UNCHANGED <<up, known, dial, net, troubles, securing>>

\* #drop: the attempts of this device are not told.
Drop(d) == link' = [link EXCEPT ![d] = NoLink]

\* ICE gives up on a connection.
IceFails(d) ==
  /\ Doomed(d)
  /\ Drop(d)
  /\ UNCHANGED <<up, known, dial, net, troubles, securing>>

Fails(d) ==
  /\ Linked(d) /\ link[d].stage = "open" /\ troubles < MaxTroubles
  /\ Drop(d)
  /\ troubles' = troubles + 1
  /\ UNCHANGED <<up, known, dial, net, securing>>

Met == \A d \in Devices : Matches(d) /\ link[d].stage = "open"

\* #secure, up to its await: the attempts to reach the peer may go on a while.
Secure(d) ==
  /\ Met /\ ~link[d].secured /\ \A x \in Devices : ~link[x].worn
  /\ ~securing[d] \* a new call takes longer than that of an earlier one
  /\ link' = [link EXCEPT ![d].secured = TRUE]
  /\ securing' = [securing EXCEPT ![d] = TRUE]
  /\ UNCHANGED <<up, known, dial, net, troubles>>

\* #secure, after it: remember the peer and end the attempts, whatever has
\* become of the link meanwhile.
EndDial(d) ==
  /\ securing[d]
  /\ securing' = [securing EXCEPT ![d] = FALSE]
  /\ known' = [known EXCEPT ![d] = TRUE]
  /\ dial' = [dial EXCEPT ![d] = NoDial]
  /\ UNCHANGED <<up, link, net, troubles>>

(* The other end still has the session of an earlier call: it sends no     *)
(* hello, and its confirmation is of nothing.                              *)
HandshakeThrows(d) ==
  /\ Met /\ link[Other(d)].worn
  /\ Drop(d)
  /\ UNCHANGED <<up, known, dial, net, troubles, securing>>

-----------------------------------------------------------------------------
Hear(d) == HearDial(d) \/ HearOffer(d) \/ HearAnswer(d)
Handshake(d) == Secure(d) \/ HandshakeThrows(d)

Next ==
  \/ ComesUp
  \/ \E d \in Devices :
       \/ Start(d) \/ Stop(d) \/ Tick(d) \/ Wake(d) \/ AttemptDial(d) \/ Age(d)
       \/ Offer(d) \/ Hear(d) \/ IceFails(d) \/ Fails(d) \/ Handshake(d)
       \/ EndDial(d)

(* Promises resolve, the relay delivers, and the browsers finish or fail   *)
(* what they began; timers fire, and signals going by do not put them off  *)
(* for ever (Slowly only orders the two). Nobody need open a page, close   *)
(* it or look at it.                                                       *)
Fairness ==
  /\ WF_vars(ComesUp)
  /\ \A d \in Devices :
       /\ SF_vars(Tick(d)) /\ SF_vars(AttemptDial(d)) /\ SF_vars(Age(d))
       /\ WF_vars(Offer(d)) /\ WF_vars(Hear(d))
       /\ WF_vars(IceFails(d)) /\ WF_vars(Handshake(d)) /\ WF_vars(EndDial(d))

Spec == Init /\ [][Next]_vars /\ Fairness

\* A cousin looks at the page again and again, or the network comes back.
VisitedSpec == Spec /\ \A d \in Devices : SF_vars(Wake(d))

-----------------------------------------------------------------------------
\* The type invariant.
TypeOK ==
  /\ up \in [Devices -> BOOLEAN] /\ known \in [Devices -> BOOLEAN]
  /\ \A d \in Devices : link[d] \in Link \cup {NoLink}
  /\ dial \in [Devices -> NoDial .. MaxTries - 1]
  /\ \A d \in Devices : \A i \in DOMAIN net[d] :
       net[d][i] \in [kind : {"dial", "offer", "answer"}, call : Calls \cup {0}]
  /\ \A d \in Devices : Len(net[d]) <= MaxSignals /\ (~up[d] => ~Linked(d) /\ dial[d] = NoDial)
  /\ securing \in [Devices -> BOOLEAN] /\ troubles \in 0 .. MaxTroubles

(* "Its presence is exactly what 'reconnecting' means" (`dials`): a device *)
(* whose link is secured, to the end of #secure, is not trying to reach    *)
(* that peer any more, though nudges, offers and timers of earlier         *)
(* attempts may still be about.                                            *)
NotReconnectingOnceSecured ==
  \A d \in Devices : Secured(d) /\ ~securing[d] => dial[d] = NoDial

(* Together: attempts, signals and links keep their shape, and an attempt   *)
(* ends with the link it was for.                                          *)
AttemptsEndInLinks == TypeOK /\ NotReconnectingOnceSecured

BothUp == \A d \in Devices : up[d]
BothSecured == \A d \in Devices : Secured(d)

(* What works is left alone: a connection that is up and secured at both   *)
(* ends is not cut, nor an end of it moved to another call, by anything    *)
(* the two do to find each other: attempts still running, wakes, nudges,   *)
(* offers and answers of earlier calls that arrive late. Only a page that  *)
(* closes or the network itself ends it (redial, #attemptDial, connectTo,  *)
(* onSignal).                                                              *)
WhatWorksIsLeftAlone == [][
  Met /\ BothSecured => Met' \/ \E d \in Devices : Stop(d) \/ Fails(d)]_vars

(* "A reload tore down every data channel but changed nothing else ... so  *)
(* the live channel is ours to rebuild" (start): once both pages stay      *)
(* open, the two come to be connected, whoever reloaded, whatever was      *)
(* lost, answered late or retried.                                         *)
LiveChannelIsRebuilt == <>[]BothUp => <>[]BothSecured
=============================================================================
