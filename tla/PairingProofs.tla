---------------------------- MODULE PairingProofs ----------------------------
(***************************************************************************)
(* That rooms stay apart, proved for any devices, any beginning and any    *)
(* number of invites.                                                      *)
(*                                                                         *)
(* The gate of ingest is open as long as a page has no room key, and the   *)
(* quarantine keeps what came in meanwhile.  What saves the rooms is that  *)
(* such a page folds nothing: Kept says that a page which is up has a key, *)
(* and that every key, derived or on its way, is one it was told of.       *)
(***************************************************************************)
EXTENDS Pairing, TLAPS

Shape ==
  /\ start \in Starts
  /\ secret \in [Device -> Device]
  /\ macKey \in [Device -> Device \cup {None}] /\ planned \in [Device -> Device \cup {None}]
  /\ deriving \in [Device -> SUBSET Device]
  /\ stage \in [Device -> {"loading", "deriving", "up"}]
  /\ log = [d \in Device |-> log[d]]
  /\ \A offer \in offers : offer.room \in Device
  /\ scanned = [d \in Device |-> scanned[d]]

\* The rooms a device was told of.
Rooms(d) == {start.room[d]} \cup {code.room : code \in scanned[d]}

\* Keys: of a room told of; a page that derives one has planned it, one that is
\* up has it.
Keyed(d) ==
  /\ secret[d] \in Rooms(d)
  /\ macKey[d] \in Rooms(d) \cup {None} /\ planned[d] \in Rooms(d) \cup {None}
  /\ deriving[d] \subseteq Rooms(d)
  /\ stage[d] = "deriving" => planned[d] # None
  /\ stage[d] = "up" => macKey[d] # None

Apart(d) == \A o \in log[d] : o.by # d => o.room \in Rooms(d)

Kept == Shape /\ \A d \in Device : Keyed(d) /\ Apart(d)

-----------------------------------------------------------------------------

LEMMA NobodyIsNone == None \notin Device
BY DevicesAreOrdered DEF None

LEMMA KeptAtFirst == Init => Kept
<1> SUFFICES ASSUME Init PROVE Kept
  OBVIOUS
<1>1. start \in Starts /\ start.room \in [Device -> Device]
      /\ \A d, e \in Device : {d, e} \in start.links => start.room[d] = start.room[e]
  BY StartsAreChambers DEF Init
<1>2. Shape
  BY <1>1 DEF Init, Shape
<1>3. ASSUME NEW d \in Device PROVE Keyed(d) /\ Apart(d)
  <2>1. secret[d] = start.room[d] /\ planned[d] = None /\ deriving[d] = {}
    BY DEF Init
  <2>2. start.room[d] # None
    BY <1>1, NobodyIsNone
  <2>3. stage[d] = "up" => macKey[d] = start.room[d]
    BY DEF Init
  <2>4. macKey[d] \in {start.room[d], None} /\ stage[d] # "deriving"
    BY DEF Init
  <2>5. Keyed(d)
    BY <2>1, <2>2, <2>3, <2>4 DEF Keyed, Rooms
  <2>6. ASSUME NEW o \in log[d], o.by # d PROVE o.room = start.room[d]
    <3>1. PICK e \in {f \in start.up : f = d \/ {d, f} \in start.links} :
            o = [by |-> e, n |-> 1, kind |-> "announce", room |-> start.room[e]]
      BY <2>6 DEF Init
    <3>2. e \in Device /\ {d, e} \in start.links
      BY <3>1, <2>6, <1>1, StartsAreChambers
    <3> QED
      BY <3>1, <3>2, <1>1
  <2> QED
    BY <2>5, <2>6 DEF Apart, Rooms
<1> QED
  BY <1>2, <1>3 DEF Kept

-----------------------------------------------------------------------------

\* What a device was told is never unsaid, and all else is left as it was.
LEMMA KeptAlong ==
  ASSUME Kept, NEW d \in Device, start' = start, scanned'[d] = scanned[d],
         secret'[d] = secret[d], macKey'[d] = macKey[d], planned'[d] = planned[d],
         deriving'[d] = deriving[d], stage'[d] = stage[d]
  PROVE  Keyed(d)' /\ Rooms(d)' = Rooms(d)
BY DEF Kept, Keyed, Rooms

LEMMA ApartAlong ==
  ASSUME Kept, NEW d \in Device, Rooms(d) \subseteq Rooms(d)',
         \A o \in log'[d] \ log[d] : o.by = d \/ o.room \in Rooms(d)
  PROVE  Apart(d)'
BY DEF Kept, Apart

\* The gate: what is folded of an exchange, and what it releases.
LEMMA GateHolds ==
  ASSUME Kept, NEW d \in Device, NEW ops, \A o \in ops : InRoom(d, o),
         NEW o \in Folded(d, ops) \cup Released(d, ops)
  PROVE  o.room \in Rooms(d)
<1>1. stage[d] = "up" /\ InRoom(d, o)
  BY DEF Folded, Released, Explained
<1>2. macKey[d] # None /\ macKey[d] \in Rooms(d) \cup {None}
  BY <1>1 DEF Kept, Keyed
<1> QED
  BY <1>1, <1>2 DEF InRoom

\* The gate as Exchange passes it.
LEMMA ArrivingIsInRoom ==
  ASSUME NEW d, NEW all, NEW o \in Arriving(d, all)
  PROVE  InRoom(d, o)
BY DEF Arriving

-----------------------------------------------------------------------------
(* One lemma for each kind of step                                         *)

LEMMA MeshKeeps ==
  ASSUME Kept, UNCHANGED <<start, secret, macKey, deriving, stage, planned, log, scanned>>,
         \A offer \in offers' : offer.room \in Device
  PROVE  Kept'
<1>1. Shape'
  BY DEF Kept, Shape
<1>2. ASSUME NEW d \in Device PROVE Keyed(d)' /\ Apart(d)'
  <2>1. Keyed(d)' /\ Rooms(d)' = Rooms(d)
    BY KeptAlong
  <2> QED
    BY <2>1, ApartAlong
<1> QED
  BY <1>1, <1>2 DEF Kept

LEMMA LoadingKeeps ==
  ASSUME Kept, NEW d \in Device, IdentityLoaded(d)
  PROVE  Kept'
<1> USE DEF IdentityLoaded, mesh, codes
<1>1. Shape'
  <2>1. secret[d] \in Device
    BY DEF Kept, Shape
  <2> QED
    BY <2>1 DEF Kept, Shape
<1>2. ASSUME NEW e \in Device PROVE Keyed(e)' /\ Apart(e)'
  <2>1. CASE e = d
    <3>1. planned'[d] = secret[d] /\ stage'[d] = "deriving"
      BY DEF Kept, Shape
    <3>2. secret[d] # None /\ Rooms(d)' = Rooms(d)
      BY NobodyIsNone DEF Kept, Shape, Rooms
    <3>3. Keyed(d)'
      BY <3>1, <3>2 DEF Kept, Keyed
    <3> QED
      BY <2>1, <3>2, <3>3, ApartAlong
  <2>2. CASE e # d
    <3>1. planned'[e] = planned[e] /\ stage'[e] = stage[e]
      BY <2>2 DEF Kept, Shape
    <3>2. Keyed(e)' /\ Rooms(e)' = Rooms(e)
      BY <3>1, KeptAlong
    <3> QED
      BY <3>2, ApartAlong
  <2> QED
    BY <2>1, <2>2
<1> QED
  BY <1>1, <1>2 DEF Kept

LEMMA ProvisioningKeeps ==
  ASSUME Kept, NEW d \in Device, Provisioned(d)
  PROVE  Kept'
<1> USE DEF Provisioned, mesh, codes
<1>1. Shape'
  <2>1. planned[d] \in Device \cup {None}
    BY DEF Kept, Shape
  <2> QED
    BY <2>1 DEF Kept, Shape
<1>2. ASSUME NEW e \in Device PROVE Keyed(e)' /\ Apart(e)'
  <2>1. CASE e = d
    <3>1. planned'[d] = None /\ stage'[d] = "up" /\ macKey'[d] = planned[d]
      BY DEF Kept, Shape
    <3>2. planned[d] # None /\ Rooms(d)' = Rooms(d)
      BY DEF Kept, Keyed, Rooms
    <3>3. Keyed(d)'
      BY <3>1, <3>2 DEF Kept, Keyed
    <3>4. \A o \in log'[d] \ log[d] : o.by = d
      BY DEF Kept, Shape, Written
    <3> QED
      BY <2>1, <3>2, <3>3, <3>4, ApartAlong
  <2>2. CASE e # d
    <3>1. planned'[e] = planned[e] /\ stage'[e] = stage[e] /\ macKey'[e] = macKey[e]
          /\ log'[e] = log[e]
      BY <2>2 DEF Kept, Shape
    <3>2. Keyed(e)' /\ Rooms(e)' = Rooms(e)
      BY <3>1, KeptAlong
    <3> QED
      BY <3>1, <3>2, ApartAlong
  <2> QED
    BY <2>1, <2>2
<1> QED
  BY <1>1, <1>2 DEF Kept

LEMMA DerivingKeeps ==
  ASSUME Kept, NEW d \in Device, NEW room \in deriving[d], RoomKeyDerived(d, room)
  PROVE  Kept'
<1> USE DEF RoomKeyDerived, mesh, codes
<1>1. room \in Device /\ room \in Rooms(d) /\ room # None
  BY NobodyIsNone DEF Kept, Shape, Keyed
<1>2. Shape'
  BY <1>1 DEF Kept, Shape
<1>3. ASSUME NEW e \in Device PROVE Keyed(e)' /\ Apart(e)'
  <2>1. CASE e = d
    <3>1. macKey'[d] = room /\ deriving'[d] \subseteq deriving[d]
      BY DEF Kept, Shape
    <3>2. Rooms(d)' = Rooms(d)
      BY DEF Rooms
    <3>3. Keyed(d)'
      BY <1>1, <3>1, <3>2 DEF Kept, Keyed
    <3> QED
      BY <2>1, <3>2, <3>3, ApartAlong
  <2>2. CASE e # d
    <3>1. macKey'[e] = macKey[e] /\ deriving'[e] = deriving[e]
      BY <2>2 DEF Kept, Shape
    <3>2. Keyed(e)' /\ Rooms(e)' = Rooms(e)
      BY <3>1, KeptAlong
    <3> QED
      BY <3>2, ApartAlong
  <2> QED
    BY <2>1, <2>2
<1> QED
  BY <1>2, <1>3 DEF Kept

LEMMA ReloadKeeps ==
  ASSUME Kept, NEW d \in Device, Reload(d)
  PROVE  Kept'
<1> USE DEF Reload
<1>1. Shape'
  BY DEF Kept, Shape
<1>2. ASSUME NEW e \in Device PROVE Keyed(e)' /\ Apart(e)'
  <2>1. CASE e = d
    <3>1. macKey'[d] = None /\ planned'[d] = None /\ deriving'[d] = {} /\ stage'[d] = "loading"
      BY DEF Kept, Shape
    <3>2. Rooms(d)' = Rooms(d)
      BY DEF Rooms
    <3>3. Keyed(d)'
      BY <3>1, <3>2 DEF Kept, Keyed
    <3> QED
      BY <2>1, <3>2, <3>3, ApartAlong
  <2>2. CASE e # d
    <3>1. macKey'[e] = macKey[e] /\ deriving'[e] = deriving[e]
          /\ planned'[e] = planned[e] /\ stage'[e] = stage[e]
      BY <2>2 DEF Kept, Shape
    <3>2. Keyed(e)' /\ Rooms(e)' = Rooms(e)
      BY <3>1, KeptAlong
    <3> QED
      BY <3>2, ApartAlong
  <2> QED
    BY <2>1, <2>2
<1> QED
  BY <1>1, <1>2 DEF Kept

\* A code is scanned: the device is told of its room, and adopts it.
LEMMA AdoptingKeeps ==
  ASSUME Kept, NEW d \in Device, NEW code, code.room \in Device, Adopt(d, code.room),
         scanned' = [scanned EXCEPT ![d] = @ \cup {code}],
         UNCHANGED <<start, macKey, stage, planned, log, offers>>
  PROVE  Kept'
<1> USE DEF Adopt
<1>1. Shape'
  BY DEF Kept, Shape
<1>2. ASSUME NEW e \in Device PROVE Keyed(e)' /\ Apart(e)'
  <2>1. CASE e = d
    <3>1. /\ secret'[d] = code.room /\ deriving'[d] = deriving[d] \cup {code.room}
          /\ scanned'[d] = scanned[d] \cup {code}
      BY DEF Kept, Shape
    <3>2. Rooms(d)' = Rooms(d) \cup {code.room}
      BY <3>1 DEF Rooms
    <3>3. Keyed(d)'
      BY <3>1, <3>2 DEF Kept, Keyed
    <3> QED
      BY <2>1, <3>2, <3>3, ApartAlong
  <2>2. CASE e # d
    <3>1. secret'[e] = secret[e] /\ deriving'[e] = deriving[e] /\ scanned'[e] = scanned[e]
      BY <2>2 DEF Kept, Shape
    <3>2. Keyed(e)' /\ Rooms(e)' = Rooms(e)
      BY <3>1, KeptAlong
    <3> QED
      BY <3>2, ApartAlong
  <2> QED
    BY <2>1, <2>2
<1> QED
  BY <1>1, <1>2 DEF Kept

\* Ops come into the logs of some: their own, or of a room they were told of.
LEMMA LogsKeep ==
  ASSUME Kept, UNCHANGED <<start, secret, macKey, deriving, stage, planned, offers, scanned>>,
         log' = [d \in Device |-> log'[d]],
         \A d \in Device : \A o \in log'[d] \ log[d] : o.by = d \/ o.room \in Rooms(d)
  PROVE  Kept'
<1>1. Shape'
  BY DEF Kept, Shape
<1>2. ASSUME NEW d \in Device PROVE Keyed(d)' /\ Apart(d)'
  <2>1. Keyed(d)' /\ Rooms(d)' = Rooms(d)
    BY KeptAlong
  <2> QED
    BY <2>1, ApartAlong
<1> QED
  BY <1>1, <1>2 DEF Kept

LEMMA HandshakeKeeps ==
  ASSUME Kept, NEW d \in Device, NEW e \in Device, Handshake(d, e)
  PROVE  Kept'
<1> USE DEF Handshake, codes
<1>1. CASE secret[d] = secret[e]
  <2>1. log' = [log EXCEPT ![d] = @ \cup {Written(d, "seen", Tag(d))},
                           ![e] = @ \cup {Written(e, "seen", Tag(e))}]
    BY <1>1
  <2>2. Written(d, "seen", Tag(d)).by = d /\ Written(e, "seen", Tag(e)).by = e
    BY DEF Written
  <2>3. log' = [o \in Device |-> log'[o]]
    BY <2>1 DEF Kept, Shape
  <2>4. \A f \in Device : \A o \in log'[f] \ log[f] : o.by = f
    BY <2>1, <2>2 DEF Kept, Shape
  <2> QED
    BY <2>3, <2>4, LogsKeep
<1>2. CASE secret[d] # secret[e]
  BY <1>2, MeshKeeps DEF Kept, Shape
<1> QED
  BY <1>1, <1>2

LEMMA ExchangeKeeps ==
  ASSUME Kept, NEW d \in Device, NEW e \in Device, Exchange(d, e)
  PROVE  Kept'
<1>1. PICK ops \in {Arriving(e, {o \in log[d] : o.n > Frontier(e, o.by)})} : Ingest(e, ops)
  BY DEF Exchange
<1>2. \A o \in ops : InRoom(e, o)
  BY <1>1, ArrivingIsInRoom
<1>3. log' = [log EXCEPT ![e] = @ \cup Folded(e, ops) \cup Released(e, ops)]
  BY <1>1 DEF Ingest
<1>4. log' = [o \in Device |-> log'[o]]
  BY <1>3 DEF Kept, Shape
<1>5. \A f \in Device : \A o \in log'[f] \ log[f] : o.room \in Rooms(f)
  <2>1. \A o \in Folded(e, ops) \cup Released(e, ops) : o.room \in Rooms(e)
    BY <1>2, GateHolds
  <2>2. \A f \in Device \ {e} : log'[f] = log[f]
    BY <1>3 DEF Kept, Shape
  <2>3. log'[e] \ log[e] \subseteq Folded(e, ops) \cup Released(e, ops)
    BY <1>3 DEF Kept, Shape
  <2> QED
    BY <2>1, <2>2, <2>3
<1> QED
  BY <1>4, <1>5, LogsKeep DEF Exchange, codes

-----------------------------------------------------------------------------

LEMMA StepsKeep == Kept /\ [Next]_vars => Kept'
<1> SUFFICES ASSUME Kept, [Next]_vars PROVE Kept'
  OBVIOUS
<1>0. \A offer \in offers : offer.room \in Device
  BY DEF Kept, Shape
<1>1. ASSUME NEW d \in Device, IdentityLoaded(d) PROVE Kept'
  BY <1>1, LoadingKeeps
<1>2. ASSUME NEW d \in Device, Provisioned(d) PROVE Kept'
  BY <1>2, ProvisioningKeeps
<1>3. ASSUME NEW d \in Device, NEW room \in deriving[d], RoomKeyDerived(d, room) PROVE Kept'
  BY <1>3, DerivingKeeps
<1>4. ASSUME NEW d \in Device, Reload(d) PROVE Kept'
  BY <1>4, ReloadKeeps
<1>5. ASSUME NEW d \in Device, Invite(d) PROVE Kept'
  <2>1. secret[d] \in Device
    BY DEF Kept, Shape
  <2>2. PICK conn : offers' = offers \cup {Ticket(d, conn)}
    BY <1>5 DEF Invite
  <2>3. \A offer \in offers' : offer.room \in Device
    BY <1>0, <2>1, <2>2 DEF Ticket
  <2> QED
    BY <1>5, <2>3, MeshKeeps DEF Invite, pages
<1>6. ASSUME NEW d \in Device, NEW offer \in offers, Accept(d, offer) PROVE Kept'
  BY <1>0, <1>6, AdoptingKeeps DEF Accept
<1>7. ASSUME NEW d \in Device, NEW answer \in answers, Complete(d, answer) PROVE Kept'
  BY <1>0, <1>7, MeshKeeps DEF Complete, pages
<1>8. ASSUME NEW d \in Device, NEW e \in Device, ScanSeatCode(d, e) PROVE Kept'
  <2>1. secret[e] \in Device
    BY DEF Kept, Shape
  <2>2. PICK code : code = [conn |-> None, from |-> e, room |-> secret[e]]
    OBVIOUS
  <2>3. code.room = secret[e]
    BY <2>2
  <2> QED
    BY <1>8, <2>1, <2>2, <2>3, AdoptingKeeps DEF ScanSeatCode
<1>9. ASSUME NEW d \in Device, NEW e \in Device, Handshake(d, e) PROVE Kept'
  BY <1>9, HandshakeKeeps
<1>10. ASSUME NEW d \in Device, NEW e \in Device, Exchange(d, e) PROVE Kept'
  BY <1>10, ExchangeKeeps
<1>11. ASSUME NEW d \in Device, NEW e \in Device,
              Call(d, e) \/ Redial(d, e) \/ Lost(d, e) \/ GivesUp(d, e)
       PROVE  Kept'
  BY <1>0, <1>11, MeshKeeps DEF Call, Redial, Lost, GivesUp, Drops, pages, codes
<1>12. CASE UNCHANGED vars
  BY <1>0, <1>12, MeshKeeps DEF vars, pages, mesh, codes
<1> QED
  BY <1>1, <1>2, <1>3, <1>4, <1>5, <1>6, <1>7, <1>8, <1>9, <1>10, <1>11, <1>12 DEF Next

\* A chamber's ops do not reach a device that was never told of its room: not
\* those that came while the page had no key, not those it held meanwhile, and
\* not through a device that is told of a second room later.
THEOREM RoomsKeptApart == Spec => []RoomsStayApart
<1>1. Kept => RoomsStayApart
  BY DEF Kept, Apart, Rooms, RoomsStayApart
<1> QED
  BY <1>1, KeptAtFirst, StepsKeep, PTL DEF Spec
=============================================================================
