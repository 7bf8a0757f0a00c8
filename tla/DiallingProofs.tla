---------------------------- MODULE DiallingProofs ----------------------------
(***************************************************************************)
(* Redialling proved safe for any cap on the attempts, any numbers of      *)
(* calls and signals and any rosters: an attempt ends with the link it was *)
(* for, and a connection that works is left alone.                         *)
(*                                                                         *)
(* The second needs to know that nothing is about that could move the end  *)
(* of a working connection: signals arrive in order, so once the other     *)
(* device has taken the latest offer there is no older one (InTurn), an    *)
(* offer still on its way is of a call its receiver has not taken part in  *)
(* (Fresh), and no session of an earlier call is left where the two ends   *)
(* have met (Quiet).                                                       *)
(***************************************************************************)
EXTENDS Dialling, WellFoundedInduction, TLAPS

Signal == [kind : {"dial", "offer", "answer"}, call : Calls \cup {0}]

Shape ==
  /\ up \in [Devices -> BOOLEAN] /\ known \in [Devices -> BOOLEAN]
  /\ link \in [Devices -> Link \cup {NoLink}]
  /\ dial \in [Devices -> NoDial .. MaxTries - 1]
  /\ net \in [Devices -> Seq(Signal)]
  /\ \A d \in Devices : Len(net[d]) <= MaxSignals
  /\ \A d \in Devices : ~up[d] => link[d] = NoLink /\ dial[d] = NoDial /\ net[d] = <<>>
  /\ securing \in [Devices -> BOOLEAN]
  /\ troubles \in 0 .. MaxTroubles

Caller == link["small"]
Callee == link["large"]
Offers == net["large"]

\* Who calls and who answers.
Roles ==
  /\ \A i \in 1 .. Len(Offers) : Offers[i].kind = "offer" /\ Offers[i].call \in Calls
  /\ \A i \in 1 .. Len(net["small"]) : net["small"][i].kind # "offer"
  /\ Linked("large") => Callee.stage \in {"described", "open"}

\* An offer on its way, or about to be made, is of a call that is new to the
\* other end.
Fresh ==
  /\ \A i, j \in 1 .. Len(Offers) : Offers[i].call = Offers[j].call => i = j
  /\ \A i \in 1 .. Len(Offers) : Linked("large") => Callee.call # Offers[i].call
  /\ Linked("small") /\ Caller.stage = "creating" =>
       /\ \A i \in 1 .. Len(Offers) : Caller.call # Offers[i].call
       /\ Linked("large") => Callee.call # Caller.call

\* The last offer on its way is of the call that waits for its answer.
InTurn ==
  Linked("small") /\ Caller.stage # "creating" /\ Offers # <<>> =>
    Offers[Len(Offers)].call = Caller.call

\* Once the caller's end is secured there is no offer about, and no session of
\* an earlier call.
Quiet ==
  /\ Linked("small") => ~Caller.worn
  /\ Secured("small") => Caller.stage = "open" /\ Offers = <<>>
  /\ Secured("small") /\ Linked("large") => ~Callee.worn

IInv == Shape /\ Roles /\ Fresh /\ InTurn /\ Quiet /\ NotReconnectingOnceSecured

-----------------------------------------------------------------------------
(* Signals and links *)

LEMMA TwoDevices ==
  /\ Other("small") = "large" /\ Other("large") = "small"
  /\ \A d \in Devices : Other(d) \in Devices /\ Other(d) # d
<1>1. \A d \in Devices : \E o \in Devices : o # d
  BY DEF Devices
<1>2. \A d \in Devices : Other(d) \in Devices /\ Other(d) # d
  BY <1>1 DEF Other
<1> QED
  BY <1>2 DEF Devices

LEMMA NoLinkIsNone == NoLink \notin Link /\ NoLink.stage = "none" /\ \A l \in Link : l.stage # "none"
<1>1. \A l \in Link : l.stage # "none"
  BY DEF Link
<1> QED
  BY <1>1 DEF NoLink

LEMMA ShapeIsTypeOK == Shape => TypeOK
<1> SUFFICES ASSUME Shape PROVE TypeOK
  OBVIOUS
<1>1. \A d \in Devices : net[d] \in Seq(Signal)
  BY DEF Shape
<1>2. \A d \in Devices : \A i \in DOMAIN net[d] : net[d][i] \in Signal
  BY <1>1
<1> QED
  BY <1>2 DEF Shape, TypeOK, Signal, Linked

LEMMA Least ==
  ASSUME NEW S \in SUBSET Nat, S # {}
  PROVE  \E n \in S : \A k \in S : n <= k
<1> DEFINE R == OpToRel(<, Nat)
<1>1. IsWellFoundedOn(R, Nat)
  BY NatLessThanWellFounded DEF OpToRel
<1>2. \A x, y \in Nat : y < x => <<y, x>> \in R
  BY DEF OpToRel
<1> HIDE DEF R
<1>3. PICK n \in S : \A k \in S : ~ (<<k, n>> \in R)
  BY <1>1, WFMin
<1>4. \A k \in S : ~ (k < n)
  BY <1>2, <1>3
<1> QED
  BY <1>3, <1>4

\* A number that is free names neither a link nor a signal.
LEMMA FreeIsFree ==
  ASSUME Shape, Free # {}
  PROVE  /\ Min(Free) \in Calls
         /\ \A d \in Devices : Linked(d) => link[d].call # Min(Free)
         /\ \A d \in Devices : \A i \in 1 .. Len(net[d]) : net[d][i].call # Min(Free)
<1>1. Free \subseteq Calls /\ Calls \subseteq Nat
  BY DiallingAssumption DEF Free
<1>2. \E k \in Free : \A j \in Free : k <= j
  BY <1>1, Least
<1>3. Min(Free) \in Free
  BY <1>2 DEF Min
<1>4. Min(Free) \notin InUse
  BY <1>3 DEF Free
<1>5. ASSUME NEW d \in Devices, Linked(d)
      PROVE  link[d].call \in InUse
  BY <1>5 DEF InUse
<1>6. ASSUME NEW d \in Devices, NEW i \in 1 .. Len(net[d])
      PROVE  net[d][i].call \in InUse
  <2>1. i \in DOMAIN net[d]
    BY DEF Shape
  <2>2. net[d][i].call \in CallsIn(net[d])
    BY <2>1 DEF CallsIn
  <2> QED
    BY <2>2 DEF InUse
<1> QED
  BY <1>1, <1>3, <1>4, <1>5, <1>6

-----------------------------------------------------------------------------
(* The steps *)

\* What a sent signal makes of the queues.
LEMMA SentShape ==
  ASSUME Shape, NEW to \in Devices, NEW s \in Signal, Room(to)
  PROVE  /\ Sent(to, s) \in [Devices -> Seq(Signal)]
         /\ \A d \in Devices : Len(Sent(to, s)[d]) <= MaxSignals /\ (~up[d] => Sent(to, s)[d] = <<>>)
         /\ \A d \in Devices : d # to => Sent(to, s)[d] = net[d]
         /\ Sent(to, s)[to] \in {net[to], Append(net[to], s)}
         /\ up[to] => Sent(to, s)[to] = Append(net[to], s)
         /\ ~up[to] => Sent(to, s)[to] = <<>>
<1>1. net[to] \in Seq(Signal) /\ Append(net[to], s) \in Seq(Signal)
      /\ Len(Append(net[to], s)) = Len(net[to]) + 1 /\ Len(net[to]) \in Nat /\ MaxSignals \in Nat
  BY DiallingAssumption DEF Shape
<1> QED
  BY <1>1 DEF Sent, Shape, Room

LEMMA HeardShape ==
  ASSUME Shape, NEW d \in Devices, net[d] # <<>>
  PROVE  /\ Heard(d) \in [Devices -> Seq(Signal)]
         /\ \A x \in Devices : Len(Heard(d)[x]) <= MaxSignals /\ (~up[x] => Heard(d)[x] = <<>>)
         /\ \A x \in Devices : x # d => Heard(d)[x] = net[x]
         /\ Heard(d)[d] = Tail(net[d]) /\ Head(net[d]) = net[d][1] /\ Head(net[d]) \in Signal
         /\ Len(Heard(d)[d]) = Len(net[d]) - 1 /\ Len(net[d]) \in Nat \ {0}
         /\ \A i \in 1 .. Len(Heard(d)[d]) : Heard(d)[d][i] = net[d][i + 1] /\ i + 1 \in 1 .. Len(net[d])
<1>1. net[d] \in Seq(Signal) /\ Len(net[d]) \in Nat \ {0} /\ MaxSignals \in Nat /\ Len(net[d]) <= MaxSignals
  BY DiallingAssumption DEF Shape
<1>2. Tail(net[d]) \in Seq(Signal) /\ Len(Tail(net[d])) = Len(net[d]) - 1 /\ Head(net[d]) = net[d][1]
      /\ \A i \in 1 .. Len(net[d]) - 1 : Tail(net[d])[i] = net[d][i + 1]
  BY <1>1
<1>3. up[d]
  BY DEF Shape
<1>4. Heard(d) \in [Devices -> Seq(Signal)] /\ Heard(d)[d] = Tail(net[d])
      /\ \A x \in Devices : x # d => Heard(d)[x] = net[x]
  BY <1>2 DEF Heard, Shape
<1> QED
  BY <1>1, <1>2, <1>3, <1>4 DEF Shape

LEMMA InitHolds == Init => IInv
<1> SUFFICES ASSUME Init PROVE IInv
  OBVIOUS
<1>1. Shape
  BY DiallingAssumption DEF Init, Shape, NoDial
<1>2. /\ ~Linked("small") /\ ~Linked("large") /\ \A d \in Devices : ~Linked(d)
      /\ Len(net["small"]) = 0 /\ Len(net["large"]) = 0
  BY DEF Init, Linked, Devices
<1>3. Roles /\ Fresh /\ InTurn
  BY <1>2 DEF Roles, Fresh, InTurn, Caller, Callee, Offers
<1>4. Quiet /\ NotReconnectingOnceSecured
  BY <1>2 DEF Quiet, NotReconnectingOnceSecured, Secured
<1> QED
  BY <1>1, <1>3, <1>4 DEF IInv

-----------------------------------------------------------------------------
(* Steps that touch neither signals nor links, and steps that only cut one *)

\* With the links and the signals as they were, only the shape and the attempts
\* are left to see to.
LEMMA LinksStay ==
  ASSUME IInv, link' = link, net' = net
  PROVE  Roles' /\ Fresh' /\ InTurn' /\ Quiet'
  BY DEF IInv, Roles, Fresh, InTurn, Quiet, Caller, Callee, Offers, Linked, Secured

\* A link that goes takes nothing else with it.
LEMMA DropHolds ==
  ASSUME IInv, NEW d \in Devices, Drop(d), UNCHANGED <<up, known, dial, net, securing>>,
         troubles' \in 0 .. MaxTroubles
  PROVE  IInv'
<1>1. link' \in [Devices -> Link \cup {NoLink}] /\ link'[d] = NoLink
      /\ \A x \in Devices : x # d => link'[x] = link[x]
  BY DEF IInv, Shape, Drop
<1>2. Shape'
  BY <1>1 DEF IInv, Shape
<1>3. \A x \in Devices : Linked(x)' => Linked(x) /\ link'[x] = link[x]
  BY <1>1 DEF Linked
<1>4. "small" \in Devices /\ "large" \in Devices
  BY DEF Devices
<1>5. Roles' /\ Fresh' /\ InTurn'
  BY <1>3, <1>4 DEF IInv, Roles, Fresh, InTurn, Caller, Callee, Offers
<1>6. Quiet' /\ NotReconnectingOnceSecured'
  BY <1>3, <1>4 DEF IInv, Quiet, Caller, Callee, Offers, NotReconnectingOnceSecured, Secured
<1> QED
  BY <1>2, <1>5, <1>6 DEF IInv

LEMMA StartHolds ==
  ASSUME IInv, NEW d \in Devices, Start(d)
  PROVE  IInv'
<1>1. Shape'
  BY DiallingAssumption DEF IInv, Shape, Start, Redialled, NoDial
<1>2. NotReconnectingOnceSecured'
  BY DEF IInv, Shape, Start, NotReconnectingOnceSecured, Secured, Linked
<1> QED
  BY <1>1, <1>2, LinksStay DEF IInv, Start

LEMMA StopHolds ==
  ASSUME IInv, NEW d \in Devices, Stop(d)
  PROVE  IInv'
<1>1. /\ link' \in [Devices -> Link \cup {NoLink}] /\ link'[d] = NoLink
      /\ net' \in [Devices -> Seq(Signal)] /\ net'[d] = <<>>
      /\ \A x \in Devices : x # d => link'[x] = link[x] /\ net'[x] = net[x]
  BY DEF IInv, Shape, Stop
<1>2. Shape'
  BY <1>1, DiallingAssumption DEF IInv, Shape, Stop, NoDial
<1>3. \A x \in Devices : Linked(x)' => Linked(x) /\ link'[x] = link[x] /\ x # d
  BY <1>1 DEF Linked
<1>4. "small" \in Devices /\ "large" \in Devices
  BY DEF Devices
<1>5. \A x \in Devices : net'[x] = net[x] \/ (net'[x] = <<>> /\ Len(net'[x]) = 0)
  BY <1>1
<1>6. Roles' /\ Fresh' /\ InTurn'
  BY <1>3, <1>4, <1>5 DEF IInv, Roles, Fresh, InTurn, Caller, Callee, Offers
<1>7. Quiet'
  BY <1>3, <1>4, <1>5 DEF IInv, Quiet, Caller, Callee, Offers, Secured
<1>8. NotReconnectingOnceSecured'
  BY <1>3 DEF IInv, Shape, NotReconnectingOnceSecured, Secured, Stop
<1> QED
  BY <1>2, <1>6, <1>7, <1>8 DEF IInv

LEMMA SlowlyShape == ASSUME Shape, Slowly PROVE troubles' \in 0 .. MaxTroubles
  BY DiallingAssumption DEF Shape, Slowly

LEMMA TickHolds ==
  ASSUME IInv, NEW d \in Devices, Tick(d)
  PROVE  IInv'
<1>1. Shape'
  BY DiallingAssumption, SlowlyShape DEF IInv, Shape, Tick, Redialled, NoDial
<1>2. NotReconnectingOnceSecured'
  BY DEF IInv, Shape, Tick, Redialled, NotReconnectingOnceSecured, Secured, Linked
<1> QED
  BY <1>1, <1>2, LinksStay DEF IInv, Tick

LEMMA WakeHolds ==
  ASSUME IInv, NEW d \in Devices, Wake(d)
  PROVE  IInv'
<1>1. /\ link' \in [Devices -> Link \cup {NoLink}] /\ link'[d] \in {NoLink, link[d]}
      /\ Secured(d) => link'[d] = link[d]
      /\ \A x \in Devices : x # d => link'[x] = link[x]
  BY DEF IInv, Shape, Wake, Stale, Secured
<1>2. Shape'
  BY <1>1, DiallingAssumption, SlowlyShape DEF IInv, Shape, Wake, Redialled, NoDial
<1>3. \A x \in Devices : Linked(x)' => Linked(x) /\ link'[x] = link[x]
  BY <1>1 DEF Linked
<1>4. "small" \in Devices /\ "large" \in Devices
  BY DEF Devices
<1>5. Roles' /\ Fresh' /\ InTurn' /\ Quiet'
  BY <1>3, <1>4 DEF IInv, Roles, Fresh, InTurn, Quiet, Caller, Callee, Offers, Secured, Wake
<1>6. NotReconnectingOnceSecured'
  BY <1>3 DEF IInv, Shape, NotReconnectingOnceSecured, Secured, Linked, Wake, Redialled
<1> QED
  BY <1>2, <1>5, <1>6 DEF IInv

LEMMA AgeHolds ==
  ASSUME IInv, NEW d \in Devices, Age(d)
  PROVE  IInv'
<1>1. /\ link[d] \in Link /\ link' = [link EXCEPT ![d] = [link[d] EXCEPT !.old = TRUE]]
  BY DEF IInv, Shape, Age, Linked
<1>2. [link[d] EXCEPT !.old = TRUE] \in Link
  BY <1>1 DEF Link
<1>3. Shape'
  BY <1>1, <1>2, SlowlyShape, NoLinkIsNone DEF IInv, Shape, Age, Linked
<1>4. \A x \in Devices : Linked(x)' => /\ Linked(x) /\ link'[x].stage = link[x].stage
        /\ link'[x].call = link[x].call /\ link'[x].secured = link[x].secured
        /\ link'[x].worn = link[x].worn
  BY <1>1, <1>2, NoLinkIsNone DEF Linked, IInv, Shape, Link
<1>5. "small" \in Devices /\ "large" \in Devices
  BY DEF Devices
<1>6. Roles' /\ Fresh' /\ InTurn' /\ Quiet'
  BY <1>4, <1>5 DEF IInv, Roles, Fresh, InTurn, Quiet, Caller, Callee, Offers, Secured, Age
<1>7. NotReconnectingOnceSecured'
  BY <1>4 DEF IInv, NotReconnectingOnceSecured, Secured, Age
<1> QED
  BY <1>3, <1>6, <1>7 DEF IInv

-----------------------------------------------------------------------------
(* Steps of a call *)

\* A new call has a number of its own, and nothing waits for its answer yet.
LEMMA PlacedCall ==
  ASSUME IInv, Free # {}, net'["large"] = net["large"],
         link' = [link EXCEPT !["small"] = NewLink(Min(Free), "creating", TRUE)]
  PROVE  /\ link' \in [Devices -> Link \cup {NoLink}] /\ ~link'["small"].secured
         /\ Linked("large")' = Linked("large") /\ link'["large"] = link["large"]
         /\ Fresh' /\ InTurn' /\ Quiet'
<1> DEFINE l == NewLink(Min(Free), "creating", TRUE)
<1>1. l \in Link /\ l.stage = "creating" /\ ~l.secured /\ ~l.worn /\ l.call = Min(Free)
  BY FreeIsFree DEF NewLink, Link, IInv
<1> HIDE DEF l
<1>2. /\ "small" \in Devices /\ "large" \in Devices /\ "small" # "large"
  BY DEF Devices
<1>3. /\ link' \in [Devices -> Link \cup {NoLink}] /\ link'["small"] = l
      /\ link'["large"] = link["large"]
  BY <1>1, <1>2 DEF IInv, Shape, l
<1>4. Linked("large")' = Linked("large")
  BY <1>3 DEF Linked
<1>5. Fresh'
  BY <1>1, <1>2, <1>3, <1>4, FreeIsFree DEF IInv, Fresh, Caller, Callee, Offers
<1>6. InTurn' /\ Quiet'
  BY <1>1, <1>2, <1>3, <1>4 DEF IInv, InTurn, Quiet, Caller, Callee, Offers, Secured
<1> QED
  BY <1>1, <1>3, <1>4, <1>5, <1>6

LEMMA AttemptDialHolds ==
  ASSUME IInv, NEW d \in Devices, AttemptDial(d)
  PROVE  IInv'
<1>0. troubles' \in 0 .. MaxTroubles /\ securing' = securing /\ "small" \in Devices /\ "large" \in Devices
      /\ \A x \in Devices : x \in {"small", "large"}
  BY SlowlyShape DEF IInv, AttemptDial, Devices
<1>1. dial[d] \in 0 .. MaxTries - 1 /\ Later(dial[d] + 1) \in NoDial .. MaxTries - 1 /\ up[d]
  BY DiallingAssumption DEF IInv, Shape, AttemptDial, Later, NoDial
<1>2. CASE Theirs(d) /\ dial' = [dial EXCEPT ![d] = NoDial] /\ UNCHANGED <<link, net>>
  <2>1. Shape'
    BY <1>0, <1>2, DiallingAssumption DEF IInv, Shape, AttemptDial, NoDial
  <2>2. NotReconnectingOnceSecured'
    BY <1>0, <1>2 DEF IInv, Shape, NotReconnectingOnceSecured, Secured, Linked
  <2> QED
    BY <1>2, <2>1, <2>2, LinksStay DEF IInv
<1>3. CASE /\ ~Theirs(d) /\ d = "small" /\ Free # {}
           /\ dial' = [dial EXCEPT ![d] = Later(@ + 1)]
           /\ link' = [link EXCEPT ![d] = Called(d, NoLink)]
           /\ UNCHANGED net
  <2>1. link' = [link EXCEPT !["small"] = NewLink(Min(Free), "creating", TRUE)]
    BY <1>3 DEF Called
  <2>2. /\ link' \in [Devices -> Link \cup {NoLink}] /\ ~link'["small"].secured
        /\ Linked("large")' = Linked("large") /\ link'["large"] = link["large"]
        /\ Fresh' /\ InTurn' /\ Quiet'
    BY <1>3, <2>1, PlacedCall
  <2>3. Shape'
    BY <1>0, <1>1, <1>3, <2>2 DEF IInv, Shape, AttemptDial
  <2>4. Roles'
    BY <1>3, <2>2 DEF IInv, Roles, Caller, Callee, Offers
  <2>5. NotReconnectingOnceSecured'
    BY <1>0, <1>3, <2>2 DEF IInv, Shape, NotReconnectingOnceSecured, Secured
  <2> QED
    BY <2>2, <2>3, <2>4, <2>5 DEF IInv
<1>4. CASE /\ ~Theirs(d) /\ d = "large" /\ Len(net["small"]) < MaxSignals - 1
           /\ dial' = [dial EXCEPT ![d] = Later(@ + 1)]
           /\ link' = [link EXCEPT ![d] = NoLink]
           /\ net' = Sent("small", [kind |-> "dial", call |-> 0])
  <2> DEFINE s == [kind |-> "dial", call |-> 0]
  <2>1. s \in Signal /\ Room("small") /\ s.kind = "dial"
    BY <1>4, DiallingAssumption, <1>0 DEF Signal, Room, IInv, Shape
  <2>a. net' = Sent("small", s)
    BY <1>4
  <2> HIDE DEF s
  <2>2. /\ net' \in [Devices -> Seq(Signal)] /\ net'["large"] = net["large"]
        /\ \A x \in Devices : Len(net'[x]) <= MaxSignals /\ (~up[x] => net'[x] = <<>>)
        /\ net'["small"] \in {net["small"], Append(net["small"], s)}
    <3>1. Shape
      BY DEF IInv
    <3>2. /\ Sent("small", s) \in [Devices -> Seq(Signal)]
          /\ \A x \in Devices : Len(Sent("small", s)[x]) <= MaxSignals /\ (~up[x] => Sent("small", s)[x] = <<>>)
          /\ \A x \in Devices : x # "small" => Sent("small", s)[x] = net[x]
          /\ Sent("small", s)["small"] \in {net["small"], Append(net["small"], s)}
      BY <1>0, <2>1, <3>1, SentShape
    <3> QED
      BY <1>0, <2>a, <3>2
  <2>3. /\ link' \in [Devices -> Link \cup {NoLink}] /\ link'["large"] = NoLink
        /\ link'["small"] = link["small"]
    BY <1>0, <1>4 DEF IInv, Shape
  <2>4. Shape'
    BY <1>0, <1>1, <1>4, <2>2, <2>3 DEF IInv, Shape, AttemptDial
  <2>5. ~Linked("large")' /\ Linked("small")' = Linked("small")
    BY <2>3 DEF Linked
  <2>6. \A i \in 1 .. Len(net'["small"]) : net'["small"][i].kind # "offer"
    <3>1. net["small"] \in Seq(Signal)
      BY <1>0 DEF IInv, Shape
    <3>2. \A i \in 1 .. Len(net["small"]) : net["small"][i].kind # "offer"
      BY DEF IInv, Roles
    <3>3. CASE net'["small"] = Append(net["small"], s)
      <4>1. /\ Len(net'["small"]) = Len(net["small"]) + 1 /\ net'["small"][Len(net["small"]) + 1] = s
            /\ Len(net["small"]) \in Nat
            /\ \A i \in 1 .. Len(net["small"]) : net'["small"][i] = net["small"][i]
        BY <3>1, <3>3
      <4> QED
        BY <2>1, <3>2, <4>1
    <3> QED
      BY <2>2, <3>2, <3>3
  <2>7. Roles' /\ Fresh' /\ InTurn' /\ Quiet'
    BY <2>2, <2>3, <2>5, <2>6 DEF IInv, Roles, Fresh, InTurn, Quiet, Caller, Callee, Offers, Secured
  <2>8. NotReconnectingOnceSecured'
    BY <1>0, <1>4, <2>3, <2>5 DEF IInv, Shape, NotReconnectingOnceSecured, Secured
  <2> QED
    BY <2>4, <2>7, <2>8 DEF IInv
<1> QED
  BY <1>2, <1>3, <1>4 DEF AttemptDial

\* Only the caller has an offer to make.
LEMMA OfferHolds ==
  ASSUME IInv, NEW d \in Devices, Offer(d)
  PROVE  IInv'
<1>0. /\ "small" \in Devices /\ "large" \in Devices /\ "small" # "large"
      /\ \A x \in Devices : x \in {"small", "large"}
  BY DEF Devices
<1>1. d = "small" /\ Linked("small") /\ Caller.stage = "creating" /\ Room("large")
  BY <1>0, TwoDevices DEF IInv, Roles, Offer, Callee, Caller
<1>a. Caller \in Link
  BY <1>0, <1>1 DEF IInv, Shape, Caller, Linked
<1> DEFINE l == [Caller EXCEPT !.stage = "offered"]
           s == [kind |-> "offer", call |-> Caller.call]
<1>2. /\ Caller \in Link /\ l \in Link /\ l.stage = "offered" /\ l.call = Caller.call
      /\ l.secured = Caller.secured /\ l.worn = Caller.worn /\ Caller.call \in Calls
  BY <1>a DEF Link
<1>3. s \in Signal /\ s.kind = "offer" /\ s.call = Caller.call
  BY <1>2 DEF Signal
<1>4. link' = [link EXCEPT !["small"] = l] /\ net' = Sent("large", s) /\ UNCHANGED <<up, known, dial, troubles, securing>>
  BY <1>1, TwoDevices DEF Offer, Caller
<1> HIDE DEF l, s
<1>5. /\ link' \in [Devices -> Link \cup {NoLink}] /\ link'["small"] = l
      /\ link'["large"] = link["large"]
  BY <1>0, <1>2, <1>4 DEF IInv, Shape
<1>6. /\ net' \in [Devices -> Seq(Signal)] /\ net'["small"] = net["small"]
      /\ \A x \in Devices : Len(net'[x]) <= MaxSignals /\ (~up[x] => net'[x] = <<>>)
      /\ up["large"] => net'["large"] = Append(net["large"], s)
      /\ ~up["large"] => net'["large"] = <<>>
      /\ net["large"] \in Seq(Signal)
  <2>1. net["large"] \in Seq(Signal) /\ Shape
    BY <1>0 DEF IInv, Shape
  <2>2. /\ Sent("large", s) \in [Devices -> Seq(Signal)]
        /\ \A x \in Devices : Len(Sent("large", s)[x]) <= MaxSignals /\ (~up[x] => Sent("large", s)[x] = <<>>)
        /\ Sent("large", s)["small"] = net["small"]
        /\ up["large"] => Sent("large", s)["large"] = Append(net["large"], s)
        /\ ~up["large"] => Sent("large", s)["large"] = <<>>
    BY <1>0, <1>1, <1>3, <2>1, SentShape
  <2> QED
    BY <1>4, <2>1, <2>2
<1>7. Linked("small")' /\ Linked("large")' = Linked("large") /\ link["small"] # NoLink
  BY <1>1, <1>2, <1>5, NoLinkIsNone DEF Linked
<1>8. Shape'
  BY <1>0, <1>2, <1>4, <1>5, <1>6, <1>7 DEF IInv, Shape
<1>9. ASSUME ~up["large"] PROVE Roles' /\ Fresh' /\ InTurn' /\ Quiet'
  <2>1. net'["large"] = <<>> /\ Len(net'["large"]) = 0
    BY <1>6, <1>9
  <2> QED
  BY <2>1, <1>0, <1>1, <1>2, <1>5, <1>6, <1>7, <1>9
     DEF IInv, Roles, Fresh, InTurn, Quiet, Caller, Callee, Offers, Secured
<1>10. ASSUME up["large"] PROVE Roles' /\ Fresh' /\ InTurn' /\ Quiet'
  <2>1. /\ Len(Offers') = Len(Offers) + 1 /\ Len(Offers) \in Nat /\ Offers'[Len(Offers')] = s
        /\ \A i \in 1 .. Len(Offers) : Offers'[i] = Offers[i]
    BY <1>6, <1>10 DEF Offers
  <2>2. /\ Caller' = l /\ Callee' = Callee
        /\ \A i \in 1 .. Len(Offers') : i \in 1 .. Len(Offers) \/ i = Len(Offers')
    BY <1>5, <2>1 DEF Caller, Callee
  <2>3. Roles'
    BY <1>2, <1>3, <1>6, <1>7, <2>1, <2>2 DEF IInv, Roles
  <2>4. Fresh'
    BY <1>1, <1>2, <1>3, <1>7, <2>1, <2>2 DEF IInv, Fresh
  <2>5. InTurn'
    BY <1>2, <1>3, <2>1, <2>2 DEF InTurn
  <2>6. Quiet'
    BY <1>1, <1>2, <1>7, <2>2 DEF IInv, Quiet, Secured, Caller
  <2> QED
    BY <2>3, <2>4, <2>5, <2>6
<1>11. NotReconnectingOnceSecured'
  BY <1>0, <1>1, <1>2, <1>4, <1>5, <1>7 DEF IInv, NotReconnectingOnceSecured, Secured, Caller
<1> QED
  BY <1>8, <1>9, <1>10, <1>11 DEF IInv

\* Only the caller is asked to ring back.
LEMMA HearDialHolds ==
  ASSUME IInv, NEW d \in Devices, HearDial(d)
  PROVE  IInv'
<1>0. /\ "small" \in Devices /\ "large" \in Devices /\ "small" # "large"
      /\ \A x \in Devices : x \in {"small", "large"}
  BY DEF Devices
<1>1. Shape /\ net[d] # <<>> /\ Head(net[d]).kind = "dial" /\ net' = Heard(d)
      /\ UNCHANGED <<up, known, dial, troubles, securing>>
  BY DEF IInv, HearDial, Hears
<1>2. /\ net' \in [Devices -> Seq(Signal)]
      /\ \A x \in Devices : Len(net'[x]) <= MaxSignals /\ (~up[x] => net'[x] = <<>>)
      /\ \A x \in Devices : x # d => net'[x] = net[x]
      /\ Head(net[d]) = net[d][1] /\ 1 \in 1 .. Len(net[d])
      /\ \A i \in 1 .. Len(net'[d]) : net'[d][i] = net[d][i + 1] /\ i + 1 \in 1 .. Len(net[d])
  BY <1>1, HeardShape
<1>3. d = "small"
  BY <1>0, <1>1, <1>2 DEF IInv, Roles, Offers
<1>4. net'["large"] = net["large"] /\ \A i \in 1 .. Len(net'["small"]) : net'["small"][i].kind # "offer"
  BY <1>0, <1>2, <1>3 DEF IInv, Roles
<1>5. CASE link["small"] = NoLink
  <2>1. Free # {} /\ link' = [link EXCEPT !["small"] = NewLink(Min(Free), "creating", TRUE)]
    BY <1>3, <1>5 DEF HearDial, Called, Linked
  <2>2. /\ link' \in [Devices -> Link \cup {NoLink}] /\ ~link'["small"].secured
        /\ Linked("large")' = Linked("large") /\ link'["large"] = link["large"]
        /\ Fresh' /\ InTurn' /\ Quiet'
    BY <1>4, <2>1, PlacedCall
  <2>3. up["small"] /\ link'["large"] = link["large"]
    BY <1>3, <2>2 DEF HearDial, Hears
  <2>4. Shape'
    BY <1>0, <1>1, <1>2, <2>2, <2>3 DEF Shape
  <2>5. Roles'
    BY <1>4, <2>2 DEF IInv, Roles, Callee, Offers
  <2>6. NotReconnectingOnceSecured'
    BY <1>0, <1>1, <2>2 DEF IInv, NotReconnectingOnceSecured, Secured
  <2> QED
    BY <2>2, <2>4, <2>5, <2>6 DEF IInv
<1>6. CASE link["small"] # NoLink
  <2>1. link' = link
    BY <1>0, <1>1, <1>3, <1>6 DEF HearDial, Called, Shape
  <2>2. Shape'
    BY <1>1, <1>2, <2>1 DEF Shape
  <2>3. Roles' /\ Fresh' /\ InTurn' /\ Quiet'
    BY <1>4, <2>1 DEF IInv, Roles, Fresh, InTurn, Quiet, Caller, Callee, Offers, Linked, Secured
  <2>4. NotReconnectingOnceSecured'
    BY <1>1, <2>1 DEF IInv, NotReconnectingOnceSecured, Secured, Linked
  <2> QED
    BY <2>2, <2>3, <2>4 DEF IInv
<1> QED
  BY <1>5, <1>6

LEMMA HearAnswerHolds ==
  ASSUME IInv, NEW d \in Devices, HearAnswer(d)
  PROVE  IInv'
<1>0. /\ "small" \in Devices /\ "large" \in Devices /\ "small" # "large"
      /\ \A x \in Devices : x \in {"small", "large"}
  BY DEF Devices
<1>1. Shape /\ net[d] # <<>> /\ Head(net[d]).kind = "answer" /\ net' = Heard(d)
      /\ UNCHANGED <<up, known, dial, troubles, securing>>
  BY DEF IInv, HearAnswer, Hears
<1>2. /\ net' \in [Devices -> Seq(Signal)]
      /\ \A x \in Devices : Len(net'[x]) <= MaxSignals /\ (~up[x] => net'[x] = <<>>)
      /\ \A x \in Devices : x # d => net'[x] = net[x]
      /\ Head(net[d]) = net[d][1] /\ 1 \in 1 .. Len(net[d]) /\ Head(net[d]) \in Signal
      /\ \A i \in 1 .. Len(net'[d]) : net'[d][i] = net[d][i + 1] /\ i + 1 \in 1 .. Len(net[d])
  BY <1>1, HeardShape
<1>3. d = "small"
  BY <1>0, <1>1, <1>2 DEF IInv, Roles, Offers
<1>4. net'["large"] = net["large"] /\ \A i \in 1 .. Len(net'["small"]) : net'["small"][i].kind # "offer"
  BY <1>0, <1>2, <1>3 DEF IInv, Roles
<1>5. CASE Linked("small") /\ Caller.stage = "offered"
  <2> DEFINE l == [Caller EXCEPT !.stage = "described", !.with = Head(net["small"]).call]
  <2>1. Caller \in Link /\ Head(net["small"]).call \in Calls \cup {0}
    BY <1>0, <1>1, <1>2, <1>3, <1>5 DEF Shape, Caller, Linked, Signal
  <2>2. /\ l \in Link /\ l.stage = "described" /\ l.call = Caller.call
        /\ l.secured = Caller.secured /\ l.worn = Caller.worn
    BY <2>1 DEF Link
  <2>3. link' = [link EXCEPT !["small"] = l]
    BY <1>3, <1>5 DEF HearAnswer, Caller
  <2> HIDE DEF l
  <2>4. /\ link' \in [Devices -> Link \cup {NoLink}] /\ link'["small"] = l
        /\ link'["large"] = link["large"]
    BY <1>0, <1>1, <2>2, <2>3 DEF Shape
  <2>5. Linked("small")' /\ Linked("large")' = Linked("large") /\ ~Secured("small")
    BY <1>5, <2>2, <2>4, NoLinkIsNone DEF Linked, IInv, Quiet
  <2>6. Shape'
    BY <1>0, <1>1, <1>2, <1>5, <2>4 DEF Shape, Linked
  <2>7. Roles' /\ Fresh' /\ InTurn' /\ Quiet'
    BY <1>4, <1>5, <2>2, <2>4, <2>5
       DEF IInv, Roles, Fresh, InTurn, Quiet, Caller, Callee, Offers, Secured
  <2>8. NotReconnectingOnceSecured'
    BY <1>0, <1>1, <1>5, <2>2, <2>4, <2>5 DEF IInv, NotReconnectingOnceSecured, Secured, Caller
  <2> QED
    BY <2>6, <2>7, <2>8 DEF IInv
<1>6. CASE ~(Linked("small") /\ Caller.stage = "offered")
  <2>1. link' = link
    BY <1>3, <1>6 DEF HearAnswer, Caller
  <2>2. Shape'
    BY <1>1, <1>2, <2>1 DEF Shape
  <2>3. Roles' /\ Fresh' /\ InTurn' /\ Quiet'
    BY <1>4, <2>1 DEF IInv, Roles, Fresh, InTurn, Quiet, Caller, Callee, Offers, Linked, Secured
  <2>4. NotReconnectingOnceSecured'
    BY <1>1, <2>1 DEF IInv, NotReconnectingOnceSecured, Secured, Linked
  <2> QED
    BY <2>2, <2>3, <2>4 DEF IInv
<1> QED
  BY <1>5, <1>6

LEMMA ComesUpHolds ==
  ASSUME IInv, ComesUp
  PROVE  IInv'
<1>0. "small" \in Devices /\ "large" \in Devices
  BY DEF Devices
<1>1. \A d \in Devices : link[d] \in Link /\ link[d].stage = "described"
  BY <1>0 DEF ComesUp, Matches, Linked, IInv, Shape
<1>2. \A d \in Devices : /\ link'[d] \in Link /\ link'[d].stage = "open" /\ link'[d].call = link[d].call
                         /\ link'[d].secured = link[d].secured /\ link'[d].worn = link[d].worn
  BY <1>1 DEF ComesUp, Link
<1>3. link' \in [Devices -> Link \cup {NoLink}] /\ UNCHANGED <<up, known, dial, net, troubles, securing>>
  BY <1>2 DEF ComesUp
<1>4. \A d \in Devices : Linked(d) /\ Linked(d)'
  BY <1>1, <1>2, NoLinkIsNone DEF Linked
<1>5. Shape'
  BY <1>3, <1>4 DEF IInv, Shape, Linked
<1>6. ~Secured("small")
  BY <1>0, <1>1 DEF IInv, Quiet, Caller
<1>7. Roles' /\ Fresh' /\ InTurn' /\ Quiet'
  BY <1>0, <1>1, <1>2, <1>3, <1>4, <1>6
     DEF IInv, Roles, Fresh, InTurn, Quiet, Caller, Callee, Offers, Secured
<1>8. NotReconnectingOnceSecured'
  BY <1>2, <1>3, <1>4 DEF IInv, NotReconnectingOnceSecured, Secured
<1> QED
  BY <1>5, <1>7, <1>8 DEF IInv

\* Where the two ends have met there is no offer about.
LEMMA NoOfferWhereMet ==
  ASSUME IInv, Met
  PROVE  /\ Offers = <<>> /\ \A d \in Devices : Linked(d) /\ link[d] \in Link /\ link[d].stage = "open"
<1>1. \A d \in Devices : Linked(d) /\ link[d] \in Link /\ link[d].stage = "open"
  BY DEF Met, Matches, IInv, Shape, Linked
<1>2. "small" \in Devices /\ "large" \in Devices /\ Caller.call = Callee.call
  BY TwoDevices DEF Met, Matches, Devices, Caller, Callee
<1>3. Offers \in Seq(Signal)
  BY <1>2 DEF IInv, Shape, Offers
<1>4. ASSUME Offers # <<>>
      PROVE  FALSE
  <2>1. Len(Offers) \in 1 .. Len(Offers)
    BY <1>3, <1>4
  <2>2. Offers[Len(Offers)].call = Caller.call
    BY <1>1, <1>2, <1>4 DEF IInv, InTurn, Caller
  <2> QED
    BY <1>1, <1>2, <2>1, <2>2 DEF IInv, Fresh
<1> QED
  BY <1>1, <1>4

LEMMA SecureHolds ==
  ASSUME IInv, NEW d \in Devices, Secure(d)
  PROVE  IInv'
<1>0. "small" \in Devices /\ "large" \in Devices
  BY DEF Devices
<1>1. /\ Offers = <<>> /\ \A x \in Devices : Linked(x) /\ link[x] \in Link /\ link[x].stage = "open"
      /\ \A x \in Devices : ~link[x].worn
  BY NoOfferWhereMet DEF Secure
<1> DEFINE l == [link[d] EXCEPT !.secured = TRUE]
<1>2. l \in Link /\ l.stage = "open" /\ l.call = link[d].call /\ ~l.worn
  BY <1>1 DEF Link
<1>3. link' = [link EXCEPT ![d] = l] /\ UNCHANGED <<up, known, dial, net, troubles>>
  BY DEF Secure
<1> HIDE DEF l
<1>4. /\ link' \in [Devices -> Link \cup {NoLink}] /\ link'[d] = l
      /\ \A x \in Devices : x # d => link'[x] = link[x]
  BY <1>2, <1>3 DEF IInv, Shape
<1>5. \A x \in Devices : /\ link'[x] \in Link /\ link'[x].stage = "open"
                         /\ link'[x].call = link[x].call /\ ~link'[x].worn
  BY <1>1, <1>2, <1>4
<1>6. \A x \in Devices : Linked(x)'
  BY <1>5, NoLinkIsNone DEF Linked
<1>7. Shape'
  BY <1>1, <1>3, <1>4, <1>6, DiallingAssumption DEF IInv, Shape, Secure, NoDial, Linked
<1>8. Roles' /\ Fresh' /\ InTurn' /\ Quiet'
  BY <1>0, <1>1, <1>3, <1>5, <1>6
     DEF IInv, Roles, Fresh, InTurn, Quiet, Caller, Callee, Offers, Secured
<1>9. NotReconnectingOnceSecured'
  BY <1>1, <1>3, <1>4 DEF IInv, Shape, NotReconnectingOnceSecured, Secured, Linked, Secure
<1> QED
  BY <1>7, <1>8, <1>9 DEF IInv

LEMMA EndDialHolds ==
  ASSUME IInv, NEW d \in Devices, EndDial(d)
  PROVE  IInv'
<1>1. Shape'
  BY DiallingAssumption DEF IInv, Shape, EndDial, NoDial
<1>2. NotReconnectingOnceSecured'
  BY DEF IInv, Shape, EndDial, NotReconnectingOnceSecured, Secured, Linked
<1> QED
  BY <1>1, <1>2, LinksStay DEF IInv, EndDial

\* What taking an offer leaves of the queues, whether it is answered or not.
LEMMA OfferTaken ==
  ASSUME IInv, NEW d \in Devices, HearOffer(d)
  PROVE  /\ d = "large" /\ Linked("small")' = Linked("small") /\ link'["small"] = link["small"]
         /\ net' \in [Devices -> Seq(Signal)]
         /\ \A x \in Devices : Len(net'[x]) <= MaxSignals /\ (~up[x] => net'[x] = <<>>)
         /\ \A i \in 1 .. Len(net'["small"]) : net'["small"][i].kind # "offer"
         /\ Head(net["large"]).call = Offers[1].call /\ Offers[1].call \in Calls /\ Offers # <<>>
         /\ Len(Offers) \in Nat \ {0} /\ Len(Offers') = Len(Offers) - 1
         /\ \A i \in 1 .. Len(Offers') : Offers'[i] = Offers[i + 1]
<1>0. /\ "small" \in Devices /\ "large" \in Devices /\ "small" # "large"
      /\ \A x \in Devices : x \in {"small", "large"}
  BY DEF Devices
<1>1. Shape /\ net[d] # <<>> /\ Head(net[d]).kind = "offer" /\ Room(Other(d))
  BY DEF IInv, HearOffer, Hears
<1>2. /\ Heard(d) \in [Devices -> Seq(Signal)]
      /\ \A x \in Devices : Len(Heard(d)[x]) <= MaxSignals /\ (~up[x] => Heard(d)[x] = <<>>)
      /\ \A x \in Devices : x # d => Heard(d)[x] = net[x]
      /\ Head(net[d]) = net[d][1] /\ Len(net[d]) \in Nat \ {0}
      /\ Len(Heard(d)[d]) = Len(net[d]) - 1
      /\ \A i \in 1 .. Len(Heard(d)[d]) : Heard(d)[d][i] = net[d][i + 1]
  BY <1>1, HeardShape
<1>3. d = "large"
  BY <1>0, <1>1, <1>2 DEF IInv, Roles
<1>4. Offers[1].call \in Calls
  BY <1>2, <1>3 DEF IInv, Roles, Offers
<1> DEFINE s == [kind |-> "answer", call |-> Head(net["large"]).call]
           answered == IF up["small"] THEN [Heard("large") EXCEPT !["small"] = Append(net["small"], s)]
                       ELSE Heard("large")
<1>5. s \in Signal /\ s.kind # "offer"
  BY <1>2, <1>3, <1>4 DEF Signal, Offers
<1>6. net' \in {Heard("large"), answered} /\ link'["small"] = link["small"]
  BY <1>0, <1>3, TwoDevices DEF HearOffer, IInv, Shape
<1> HIDE DEF s
<1>7. /\ net["small"] \in Seq(Signal) /\ \A i \in 1 .. Len(net["small"]) : net["small"][i].kind # "offer"
      /\ Len(net["small"]) < MaxSignals /\ MaxSignals \in Nat /\ Len(net["small"]) \in Nat
  BY <1>0, <1>1, <1>3, TwoDevices, DiallingAssumption DEF IInv, Shape, Roles, Room
<1>8. /\ Append(net["small"], s) \in Seq(Signal) /\ Len(Append(net["small"], s)) <= MaxSignals
      /\ \A i \in 1 .. Len(Append(net["small"], s)) : Append(net["small"], s)[i].kind # "offer"
  <2>1. /\ Append(net["small"], s) \in Seq(Signal)
        /\ Len(Append(net["small"], s)) = Len(net["small"]) + 1
        /\ Append(net["small"], s)[Len(net["small"]) + 1] = s
        /\ \A i \in 1 .. Len(net["small"]) : Append(net["small"], s)[i] = net["small"][i]
    BY <1>5, <1>7
  <2> QED
    BY <1>5, <1>7, <2>1
<1>9. /\ answered \in [Devices -> Seq(Signal)] /\ answered["large"] = Heard("large")["large"]
      /\ answered["small"] \in {net["small"], Append(net["small"], s)}
      /\ ~up["small"] => answered["small"] = <<>>
  BY <1>0, <1>2, <1>3, <1>8
<1> HIDE DEF answered
<1>10. /\ net' \in [Devices -> Seq(Signal)] /\ net'["large"] = Heard("large")["large"]
       /\ net'["small"] \in {net["small"], Append(net["small"], s)}
       /\ ~up["small"] => net'["small"] = <<>>
  BY <1>0, <1>2, <1>3, <1>6, <1>9
<1>11. \A x \in Devices : Len(net'[x]) <= MaxSignals /\ (~up[x] => net'[x] = <<>>)
  BY <1>0, <1>2, <1>3, <1>7, <1>8, <1>10
<1>12. \A i \in 1 .. Len(net'["small"]) : net'["small"][i].kind # "offer"
  BY <1>7, <1>8, <1>10
<1>13. Linked("small")' = Linked("small")
  BY <1>6 DEF Linked
<1> QED
  BY <1>1, <1>2, <1>3, <1>4, <1>6, <1>10, <1>11, <1>12, <1>13 DEF Offers

LEMMA HearOfferHolds ==
  ASSUME IInv, NEW d \in Devices, HearOffer(d)
  PROVE  IInv'
<1>0. /\ "small" \in Devices /\ "large" \in Devices /\ "small" # "large"
      /\ \A x \in Devices : x \in {"small", "large"}
  BY DEF Devices
<1> DEFINE k == Offers[1].call
<1>1. /\ d = "large" /\ Linked("small")' = Linked("small") /\ link'["small"] = link["small"]
      /\ net' \in [Devices -> Seq(Signal)]
      /\ \A x \in Devices : Len(net'[x]) <= MaxSignals /\ (~up[x] => net'[x] = <<>>)
      /\ \A i \in 1 .. Len(net'["small"]) : net'["small"][i].kind # "offer"
      /\ Head(net["large"]).call = k /\ k \in Calls /\ Offers # <<>>
      /\ Len(Offers) \in Nat \ {0} /\ Len(Offers') = Len(Offers) - 1
      /\ \A i \in 1 .. Len(Offers') : Offers'[i] = Offers[i + 1]
  BY OfferTaken
<1>2. up["large"] /\ UNCHANGED <<up, known, dial, troubles, securing>>
  BY <1>1 DEF HearOffer, Hears
\* The new end of the large device: as it was, or of the call that was offered.
<1>3. \/ link' = link
      \/ /\ link'["large"] \in Link /\ link' \in [Devices -> Link \cup {NoLink}]
         /\ Callee'.call = k /\ Callee'.stage = "described"
         /\ Callee'.secured => Secured("large")
  <2>1. CASE link' = [link EXCEPT !["large"] = NewLink(k, "described", FALSE)]
    <3>1. NewLink(k, "described", FALSE) \in Link
      BY <1>1 DEF NewLink, Link
    <3> QED
      BY <1>0, <2>1, <3>1 DEF IInv, Shape, Callee, NewLink
  <2>2. CASE /\ Linked("large")
             /\ link' = [link EXCEPT !["large"].call = k, !["large"].with = k,
                        !["large"].stage = "described",
                        !["large"].worn = @ \/ link["large"].stage = "open"]
    <3> DEFINE l == [Callee EXCEPT !.call = k, !.with = k, !.stage = "described",
                                   !.worn = @ \/ link["large"].stage = "open"]
    <3>1. Callee \in Link
      BY <1>0, <2>2 DEF IInv, Shape, Linked, Callee
    <3>2. l \in Link /\ l.call = k /\ l.stage = "described" /\ l.secured = Callee.secured
      BY <1>1, <3>1 DEF Link
    <3>3. link' = [link EXCEPT !["large"] = l]
      BY <1>0, <2>2 DEF IInv, Shape, Callee
    <3> QED
      BY <1>0, <2>2, <3>2, <3>3 DEF IInv, Shape, Callee, Secured
  <2>3. CASE link' = link
    BY <2>3
  <2> QED
    BY <1>1, <2>1, <2>2, <2>3 DEF HearOffer
<1>4. Shape'
  BY <1>0, <1>1, <1>2, <1>3, NoLinkIsNone DEF IInv, Shape
<1>5. /\ Linked("large")' => (Linked("large") /\ Callee' = Callee)
                            \/ (Callee'.call = k /\ Callee'.stage = "described")
      /\ Caller' = Caller
  BY <1>1, <1>3 DEF Linked, Callee, Caller
<1>6. \A i \in 1 .. Len(Offers') : i + 1 \in 1 .. Len(Offers) /\ Offers'[i] = Offers[i + 1] /\ i + 1 # 1
  BY <1>1
<1>7. 1 \in 1 .. Len(Offers)
  BY <1>1
<1>8. Roles'
  BY <1>1, <1>5, <1>6 DEF IInv, Roles
<1>9. Fresh'
  <2>1. ASSUME NEW i \in 1 .. Len(Offers')
        PROVE  Offers'[i].call # k
    BY <1>6, <1>7 DEF IInv, Fresh
  <2>2. ASSUME NEW i \in 1 .. Len(Offers'), NEW j \in 1 .. Len(Offers'), Offers'[i].call = Offers'[j].call
        PROVE  i = j
    <3>1. i + 1 = j + 1
      BY <1>6, <2>2 DEF IInv, Fresh
    <3> QED
      BY <3>1, <1>1
  <2>3. ASSUME Linked("large")', NEW i \in 1 .. Len(Offers')
        PROVE  Callee'.call # Offers'[i].call
    BY <1>5, <1>6, <2>1, <2>3 DEF IInv, Fresh
  <2>4. ASSUME Linked("small")', Caller'.stage = "creating"
        PROVE  /\ \A i \in 1 .. Len(Offers') : Caller'.call # Offers'[i].call
               /\ Linked("large")' => Callee'.call # Caller'.call
    BY <1>1, <1>5, <1>6, <1>7, <2>4 DEF IInv, Fresh
  <2> QED
    BY <2>2, <2>3, <2>4 DEF Fresh
<1>10. InTurn'
  <2>1. ASSUME Offers' # <<>>
        PROVE  Len(Offers') \in 1 .. Len(Offers') /\ Len(Offers') + 1 = Len(Offers)
    <3>1. Offers' \in Seq(Signal)
      BY <1>0, <1>1 DEF Offers
    <3> QED
      BY <1>1, <2>1, <3>1
  <2> QED
    BY <1>1, <1>5, <1>6, <2>1 DEF IInv, InTurn
<1>11. Quiet'
  BY <1>1, <1>5 DEF IInv, Quiet, Secured, Caller
<1>12. NotReconnectingOnceSecured'
  BY <1>0, <1>1, <1>2, <1>3 DEF IInv, NotReconnectingOnceSecured, Secured, Linked, Callee
<1> QED
  BY <1>4, <1>8, <1>9, <1>10, <1>11, <1>12 DEF IInv

-----------------------------------------------------------------------------
(* The theorems *)

LEMMA StepHolds ==
  ASSUME IInv, [Next]_vars
  PROVE  IInv'
<1>1. CASE UNCHANGED vars
  <2>1. Shape'
    BY <1>1 DEF IInv, Shape, vars
  <2>2. NotReconnectingOnceSecured'
    BY <1>1 DEF IInv, NotReconnectingOnceSecured, Secured, Linked, vars
  <2> QED
    BY <1>1, <2>1, <2>2, LinksStay DEF IInv, vars
<1>2. CASE ComesUp
  BY <1>2, ComesUpHolds
<1>3. ASSUME NEW d \in Devices, IceFails(d) \/ Fails(d) \/ HandshakeThrows(d)
      PROVE  IInv'
  <2>1. troubles' \in 0 .. MaxTroubles
    BY <1>3, DiallingAssumption DEF IInv, Shape, IceFails, Fails, HandshakeThrows
  <2> QED
    BY <1>3, <2>1, DropHolds DEF IceFails, Fails, HandshakeThrows
<1>4. ASSUME NEW d \in Devices,
             \/ Start(d) \/ Stop(d) \/ Tick(d) \/ Wake(d) \/ AttemptDial(d) \/ Age(d)
             \/ Offer(d) \/ Hear(d) \/ Secure(d) \/ EndDial(d)
      PROVE  IInv'
  BY <1>4, StartHolds, StopHolds, TickHolds, WakeHolds, AttemptDialHolds, AgeHolds, OfferHolds,
     HearDialHolds, HearOfferHolds, HearAnswerHolds, SecureHolds, EndDialHolds DEF Hear
<1> QED
  BY <1>1, <1>2, <1>3, <1>4 DEF Next, Handshake

\* Attempts end with the link they were for: a device whose link is secured is
\* not trying to reach that peer any more (redial, #attemptDial, #secure), for
\* any number of attempts, calls and signals.
THEOREM AttemptsEnd == Spec => []AttemptsEndInLinks
<1>1. IInv => AttemptsEndInLinks
  BY ShapeIsTypeOK DEF IInv, AttemptsEndInLinks
<1> QED
  BY <1>1, InitHolds, StepHolds, PTL DEF Spec

\* A connection that is up and secured at both ends is cut by a page that closes
\* or by the network, and by nothing that the two devices do to find each other
\* (connectTo, onSignal, #attemptDial, redial).
THEOREM WorkingLinksStay == Spec => WhatWorksIsLeftAlone
<1>1. ASSUME IInv, [Next]_vars, Met, BothSecured
      PROVE  Met' \/ \E d \in Devices : Stop(d) \/ Fails(d)
  <2>0. "small" \in Devices /\ "large" \in Devices /\ \A x \in Devices : x \in {"small", "large"}
    BY DEF Devices
  <2>1. /\ Len(Offers) = 0 /\ Offers = <<>>
        /\ \A d \in Devices : Linked(d) /\ link[d] \in Link /\ link[d].stage = "open" /\ link[d].secured
    BY <1>1, NoOfferWhereMet DEF BothSecured, Secured
  <2>2. \A d \in Devices : ~link[d].worn
    BY <1>1, <2>0, <2>1 DEF IInv, Quiet, Secured, Caller, Callee
  <2>3. ASSUME \A d \in Devices : /\ link'[d] \in Link /\ link'[d].stage = "open"
                                  /\ link'[d].call = link[d].call /\ link'[d].with = link[d].with
        PROVE  Met'
    <3>1. \A d \in Devices : Other(d) \in Devices
      BY TwoDevices
    <3>2. \A d \in Devices : Linked(d)'
      BY <2>3, NoLinkIsNone DEF Linked
    <3>3. \A d \in Devices : Other(d)' = Other(d)
      BY DEF Other
    <3> QED
      BY <1>1, <2>3, <3>1, <3>2 DEF Met, Matches
  <2>4. CASE link' = link
    BY <2>1, <2>3, <2>4
  <2>5. CASE ComesUp
    BY <2>0, <2>1, <2>5 DEF ComesUp
  <2>6. ASSUME NEW d \in Devices, IceFails(d) \/ HandshakeThrows(d) \/ Offer(d)
        PROVE  FALSE
    <3>1. Other(d) \in Devices
      BY TwoDevices
    <3> QED
      BY <1>1, <2>1, <2>2, <2>6, <3>1 DEF IceFails, Doomed, Met, HandshakeThrows, Offer
  <2>7. ASSUME NEW d \in Devices,
               Start(d) \/ Tick(d) \/ Wake(d) \/ AttemptDial(d) \/ HearDial(d) \/ HearAnswer(d) \/ EndDial(d)
        PROVE  link' = link
    <3>1. CASE Start(d) \/ Tick(d) \/ EndDial(d)
      BY <3>1 DEF Start, Tick, EndDial
    <3>2. CASE Wake(d)
      BY <1>1, <2>1, <3>2 DEF Wake, Stale, IInv, Shape
    <3>3. CASE AttemptDial(d)
      BY <2>1, <3>3 DEF AttemptDial, Theirs
    <3>4. CASE HearDial(d)
      BY <1>1, <2>1, <3>4 DEF HearDial, Called, Linked, IInv, Shape
    <3>5. CASE HearAnswer(d)
      BY <2>1, <3>5 DEF HearAnswer
    <3> QED
      BY <2>7, <3>1, <3>2, <3>3, <3>4, <3>5
  <2>8. ASSUME NEW d \in Devices, HearOffer(d)
        PROVE  FALSE
    BY <1>1, <2>1, <2>8, OfferTaken
  <2>9. ASSUME NEW d \in Devices, Age(d) \/ Secure(d)
        PROVE  Met'
    <3>1. PICK l \in {[link[d] EXCEPT !.old = TRUE], [link[d] EXCEPT !.secured = TRUE]} :
            link' = [link EXCEPT ![d] = l]
      BY <2>9 DEF Age, Secure
    <3>2. l \in Link /\ l.stage = "open" /\ l.call = link[d].call /\ l.with = link[d].with
      BY <2>1 DEF Link
    <3> QED
      BY <1>1, <2>1, <2>3, <3>1, <3>2 DEF IInv, Shape
  <2> QED
    BY <1>1, <2>4, <2>5, <2>6, <2>7, <2>8, <2>9 DEF Next, Hear, Handshake, vars
<1>2. IInv /\ [Next]_vars => (Met /\ BothSecured => Met' \/ \E d \in Devices : Stop(d) \/ Fails(d))
  BY <1>1
<1> QED
  BY <1>2, InitHolds, StepHolds, PTL DEF Spec, WhatWorksIsLeftAlone
=============================================================================
