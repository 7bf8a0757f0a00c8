------------------------------- MODULE MCFloor -------------------------------
(***************************************************************************)
(* Sittings of a chamber of three seats and one that is added.  Devices d1 *)
(* and d2 hold the gavel, d1 and d3 share a seat, and the third seat is    *)
(* nobody's yet.                                                           *)
(***************************************************************************)
EXTENDS Chamber, TLC

CONSTANTS d1, d2, d3, m1, m2, m3, m4, v1, v2, b1, b2, p1, p2, p3, p4, p5, p6, h1

Seats == (d1 :> m1) @@ (d2 :> m2) @@ (d3 :> m1)
Thresholds == (v1 :> "twothirds") @@ (v2 :> "majority")
Kinds == (p1 :> "statuses") @@ (p2 :> "statuses") @@ (p3 :> "news")
           @@ (p4 :> "comments") @@ (p5 :> "chat") @@ (p6 :> "announcements")

\* Bound: the sittings with many kinds of op are kept to three of them, but for
\* the clearing itself.
Short == 3

VARIABLE sitting \* what this sitting of the chamber is about

SittingInit ==
  FloorInit /\ sitting \in {"roll call", "calendar", "clearing", "board", "switches", "doors"}

\* d3 writes without ever hearing of the others.
RollCall ==
  \/ Cast(d1, v1, "yea")
  \/ \E c \in {"yea", "nay"} : Cast(d2, v1, c)
  \/ Cast(d3, v1, "nay")
  \/ \E d \in {d1, d2} : CloseVote(d, v1)
  \/ DelegateProxy(d1, m2)
  \/ \E m \in {m1, m3} : DelegateProxy(d2, m)
  \/ RevokeProxy(d3)

Calendar ==
  \/ \E d \in {d1, d2} : AdvanceStage(d, b1)
  \/ SubmitBill(d3, b2)
  \/ AdvanceStage(d2, b2)
  \/ Cosponsor(d2, b1)

Clearing ==
  \/ Len(chamber) < Short /\ ClearDemo(d1)
  \/ /\ \/ AdvanceStage(d2, b1)
        \/ OpenVote(d2, v2)
        \/ CloseVote(d1, v2)
        \/ Cast(d1, v2, "present")
        \/ RemoveMember(d2, m3)
     /\ Len(chamber') <= Short

Board ==
  \/ \E d \in {d2, d3} : PostStatus(d, p2, "present")
  \/ PostNote(d2, p3)
  \/ PostNews(d1, p3)
  \/ PostAnnouncement(d2, p6)
  \/ Comment(d3, p4)
  \/ \E d \in {d2, d3} : ChatSend(d, p5)
  \/ ChatPolicy(d1)
  \/ \E d \in {d1, d2} : ShareLive(d, h1) \/ RevokeShare(d, h1)
  \/ ReleaseSeat(d3)

Switches ==
  \/ \E d \in {d1, d2} : ToggleFreeze(d, m1) \/ ToggleChat(d, m2) \/ ToggleLock(d)
  \/ ToggleStun(d1)
  \/ TalkiePolicy(d2)
  \/ AddMember(d2, m4, TRUE)
  \/ ToggleTalk(d1, m4)
  \/ CheckIn(d3, "remote")
  \/ ToggleDnd(d2)
  \/ ResetPin(d1, m2)

\* d3 is barred, and let in again, while the others meet it.
Doors ==
  \/ \E d \in {d1, d2} : Secure(d, d3) \/ RevokeDevice(d, d3) \/ UnrevokeDevice(d, d3)
  \/ Secure(d3, d1)

SittingNext ==
  /\ \/ sitting = "roll call" /\ RollCall /\ Len(chamber') <= Short
     \/ sitting = "calendar" /\ Calendar /\ Len(chamber') <= 4
     \/ sitting = "clearing" /\ Clearing
     \/ sitting = "board" /\ Board /\ Len(chamber') <= Short
     \/ sitting = "switches" /\ Switches /\ Len(chamber') <= Short
     \/ sitting = "doors" /\ Doors /\ Len(chamber') <= 4
     \/ \E d \in {d1, d2} : \E i \in DOMAIN chamber : Learn(d, chamber[i].n)
  /\ UNCHANGED sitting

SittingSpec == SittingInit /\ [][SittingNext]_<<floor, sitting>>
=============================================================================
