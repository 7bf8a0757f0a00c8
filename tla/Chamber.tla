------------------------------- MODULE Chamber -------------------------------
(***************************************************************************)
(* The floor as a whole: whatever the pages of Legislature and of Bulletin *)
(* write, on any device, while ops are on their way.                       *)
(***************************************************************************)
EXTENDS Legislature, Bulletin

FloorNext ==
  \/ LegislatureNext
  \/ BulletinNext
  \/ \E d \in Device : \E i \in DOMAIN chamber : Learn(d, chamber[i].n)

FloorSpec == FloorInit /\ [][FloorNext]_floor
=============================================================================
