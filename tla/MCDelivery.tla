------------------------------ MODULE MCDelivery ------------------------------
(***************************************************************************)
(* Two ways by which what a device sends is delivered, one at a time: its  *)
(* ops through the relay, and its voice through the mesh.                  *)
(***************************************************************************)
EXTENDS Relay, Walkie

CONSTANTS d1, d2, d3, d4

VARIABLE subject   \* "relay" or "voice"
allVars == <<subject, vars, walkieVars>>

Both(a, b) == {<<a, b>>, <<b, a>>}
\* Two devices; three in a chain; one beside a triangle of three.
Pair == Both(d1, d2)
Chain == Both(d1, d2) \cup Both(d2, d3)
Tailed == Both(d1, d2) \cup Both(d2, d3) \cup Both(d3, d4) \cup Both(d4, d2)
AllMeshes == {Pair, Chain, Tailed}
AllBrowsers == {{"deny", "refuse"}, {"garble"}, {"slow"}, {}}
Shape == DOMAIN air

\* In the pair d1 fights its browser, or its clips trouble d2; in the chain the
\* devices at its ends talk at once; next to the triangle a link may fail.
DeliveryInit ==
  /\ Init /\ WalkieInit
  /\ subject \in {"relay", "voice"}
  /\ IF subject = "relay" THEN wires = Pair /\ quirks = {}
     ELSE /\ net = "calm"
          /\ CASE wires = Pair -> quirks \in {{"deny", "refuse"}, {"garble"}}
               [] wires = Chain -> quirks = {"slow"}
               [] wires = Tailed -> quirks = {}

Presses(d) ==
  CASE Shape = Pair -> IF d = d1 THEN 3 ELSE 0
    [] Shape = Chain -> IF d \in {d1, d3} THEN 1 ELSE 0
    [] Shape = Tailed -> IF d = d1 THEN 1 ELSE 0

\* In the chain and next to the triangle nobody lets go early, and all have
\* spoken before the flood begins.
VoiceStep ==
  /\ WalkieNext
  /\ \A d \in Device : drawn'[d] + asking'[d] <= Presses(d)
  /\ Shape # Pair =>
       /\ \A d \in Device : held[d] => held'[d] \/ asking[d] = 0
       /\ pttSeen' # pttSeen => \A d \in Device : drawn[d] = Presses(d) /\ tapes[d] = {}
  /\ Shape = Pair => \A wire \in Shape : \A chunk \in air'[wire] : chunk.total = 1
  /\ cut' # {} => Shape = Tailed

ByRelay(A) == subject = "relay" /\ A /\ UNCHANGED <<subject, walkieVars>>
ByVoice(A) == subject = "voice" /\ A /\ UNCHANGED <<subject, vars>>

DeliveryNext == ByRelay(Next) \/ ByVoice(VoiceStep)

DeliveryFairness ==
  /\ \A n \in 1 .. MaxWrites : WF_allVars(ByRelay(n \in signing /\ SignAndRelease(n)))
  /\ WF_allVars(ByRelay(Retry))
  /\ WF_allVars(ByRelay(Opens \/ (ws = "connecting" /\ Closes)))
  /\ WF_allVars(ByRelay(Keepalive))
  /\ WF_allVars(ByRelay(Push))
  /\ WF_allVars(ByRelay(Reads))
  /\ WF_allVars(ByRelay(\E i \in DOMAIN posts : PostArrives(i)))
  /\ WF_allVars(ByRelay(\E i \in DOMAIN posts : PostSucceeds(i)))
  /\ WF_allVars(ByVoice(WalkieMachine))

DeliverySpec == DeliveryInit /\ [][DeliveryNext]_allVars /\ DeliveryFairness
=============================================================================
