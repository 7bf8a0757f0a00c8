---------------------------- MODULE SessionProofs ----------------------------
(***************************************************************************)
(* Theorems about the cryptography of a connection.  First about one       *)
(* connection, for any chatter, any limit of a key, any window, and        *)
(* whatever the two ends bring with them; then, at the end, about the      *)
(* arithmetic of the authenticator in every envelope, for every key and    *)
(* every message.                                                          *)
(***************************************************************************)
EXTENDS Session, Poly1305, FiniteSetTheorems, TLAPS

LEMMA OtherEnd ==
  ASSUME NEW d \in Ends
  PROVE  /\ Other(d) \in Ends /\ Other(d) # d /\ Other(Other(d)) = d
         /\ \A o \in Ends : o = d \/ o = Other(d)
<1>1. \E o \in Ends : o # d
  BY DEF Ends
<1>2. \A x \in Ends : Other(x) \in Ends /\ Other(x) # x
  <2> SUFFICES ASSUME NEW x \in Ends PROVE Other(x) \in Ends /\ Other(x) # x
    OBVIOUS
  <2>1. \E o \in Ends : o # x
    BY DEF Ends
  <2> QED
    BY <2>1 DEF Other
<1> QED
  BY <1>2 DEF Ends

-----------------------------------------------------------------------------
(* Shapes *)

Counters == SUBSET (Nat \X Nat)
Sessions == [begun : BOOLEAN, ownHello : BOOLEAN, established : BOOLEAN, keys : Seq(Nat),
             epoch : Nat, sendCounter : 0 .. meeting.rekey,
             received : Counters, highestSeen : Nat \cup {-1}]
Confirms == [kind : {"confirm"}, mac : Secrets]
Envelopes == [kind : {"sealed"}, msg : Messages, e : Nat, c : Nat, inner : Seq(Nat), outer : Seq(Nat)]
Plain == [job : {"createHello", "answerHello", "acceptHello", "confirmation", "safetyWord"}]
Checks == [job : {"checkConfirmation"}, frame : Confirms]
Ratchets == [job : {"ratchet"}, msg : Messages, keys : Seq(Nat), label : Nat]
Encrypts == [job : {"encrypt"}, msg : Messages, e : Nat, c : Nat, inner : Seq(Nat)]
Decrypts == [job : {"decrypt"}, frame : Envelopes]
Jobs == Plain \cup Checks \cup Ratchets \cup Encrypts \cup Decrypts

Shape ==
  /\ meeting \in Meetings
  /\ link \in [Ends -> {"connecting", "open", "dropped"}]
  /\ session \in [Ends -> Sessions]
  /\ secured \in [Ends -> BOOLEAN] /\ opened \in [Ends -> BOOLEAN] /\ learned \in [Ends -> BOOLEAN]
  /\ isolated \in [Ends -> {"never", "now", "was"}]
  /\ outbox \in [Ends -> Seq(Messages)] /\ \A d \in Ends : outbox[d] \in Seq(Chatter[d])
  /\ said \in [Ends -> SUBSET Messages]
  /\ jobs \in [Ends -> SUBSET Jobs]
  /\ wire \in [Ends -> Seq(Frames)]
  /\ heard \in [Ends -> SUBSET Messages]

LEMMA ShapeIsTypeOK == Shape => TypeOK
<1> SUFFICES ASSUME Shape PROVE TypeOK
  OBVIOUS
<1>1. \A d \in Ends : session[d] \in Sessions /\ heard[d] \subseteq Messages
                      /\ wire[d] \in Seq(Frames) /\ outbox[d] \in Seq(Chatter[d])
  BY DEF Shape
<1>2. \A d \in Ends : \A i \in DOMAIN wire[d] : wire[d][i] \in Frames
  BY <1>1
<1> QED
  BY <1>1, <1>2 DEF Shape, TypeOK, Sessions, Counters

LEMMA MeetingShape ==
  ASSUME Shape
  PROVE  /\ meeting.rekey \in Nat /\ meeting.rekey >= 1
         /\ \A d \in Ends : meeting.secret[d] \in Secrets /\ meeting.doubt[d] \in Doubts
  BY SessionAssumption DEF Shape, Meeting

\* A job says what it is.
LEMMA KindsOfJobs ==
  ASSUME NEW j \in Jobs
  PROVE  /\ j.job = "checkConfirmation" => j \in Checks
         /\ j.job = "ratchet" => j \in Ratchets
         /\ j.job = "encrypt" => j \in Encrypts
         /\ j.job = "decrypt" => j \in Decrypts
  BY DEF Jobs, Plain, Checks, Ratchets, Encrypts, Decrypts

LEMMA KindsOfFrames ==
  ASSUME NEW f \in Frames
  PROVE  /\ f.kind = "confirm" => f \in Confirms
         /\ f.kind = "sealed" => f \in Envelopes
  BY DEF Frames, Confirms, Envelopes

LEMMA RawShape ==
  ASSUME Shape, NEW d \in Ends, NEW f \in Frames
  PROVE  Raw(d, f) \in [Ends -> Seq(Frames)]
  BY OtherEnd DEF Raw, Shape

LEMMA StartSealShape ==
  ASSUME Shape, NEW s \in Sessions, NEW m \in Messages
  PROVE  /\ StartSeal(s, m).session \in Sessions
         /\ StartSeal(s, m).job \in Ratchets \cup Encrypts
<1>1. s.sendCounter \in Nat /\ s.sendCounter <= meeting.rekey /\ meeting.rekey \in Nat
      /\ s.keys \in Seq(Nat) /\ s.epoch \in Nat
  BY MeetingShape DEF Sessions
<1>2. CASE s.sendCounter >= meeting.rekey
  BY <1>1, <1>2 DEF StartSeal, Ratchets
<1>3. CASE ~(s.sendCounter >= meeting.rekey)
  <2>1. [s EXCEPT !.sendCounter = @ + 1] \in Sessions
    BY <1>1, <1>3 DEF Sessions
  <2> QED
    BY <1>1, <1>3, <2>1 DEF StartSeal, Encrypts
<1> QED
  BY <1>2, <1>3

LEMMA AfterShape ==
  ASSUME Shape, NEW s \in Sessions, NEW n \in Nat
  PROVE  /\ After(s, n) \in Sessions
         /\ After(s, n).keys = s.keys /\ After(s, n).epoch = s.epoch
         /\ s.sendCounter <= After(s, n).sendCounter
  BY MeetingShape DEF After, Sessions

LEMMA SealAllShape ==
  ASSUME Shape, NEW s \in Sessions, NEW ms \in Seq(Messages)
  PROVE  SealAll(s, ms).session \in Sessions /\ SealAll(s, ms).jobs \subseteq Ratchets \cup Encrypts
<1>1. Len(ms) \in Nat /\ \A i \in DOMAIN ms : i - 1 \in Nat /\ ms[i] \in Messages
  OBVIOUS
<1>2. \A i \in DOMAIN ms : StartSeal(After(s, i - 1), ms[i]).job \in Ratchets \cup Encrypts
  BY <1>1, AfterShape, StartSealShape
<1> QED
  BY <1>1, <1>2, AfterShape DEF SealAll

\* What #secure seals.
LEMMA FlushShape ==
  ASSUME Shape, NEW d \in Ends
  PROVE  (IF isolated[d] = "now" THEN <<>>
          ELSE (IF link[d] = "dropped" THEN <<>> ELSE <<"hello">>) \o outbox[d] \o <<"roster">>)
         \in Seq(Messages)
<1> DEFINE greeting == IF link[d] = "dropped" THEN <<>> ELSE <<"hello">>
<1>1. outbox[d] \in Seq(Messages) /\ \A x \in {"hello", "roster"} : x \in Messages
  BY DEF Shape, Messages
<1>2. greeting \in Seq(Messages) /\ <<"roster">> \in Seq(Messages) /\ <<>> \in Seq(Messages)
  BY <1>1
<1> HIDE DEF greeting
<1>3. greeting \o outbox[d] \o <<"roster">> \in Seq(Messages)
  BY <1>1, <1>2
<1> QED
  BY <1>2, <1>3 DEF greeting

LEMMA InitShape == Init => Shape
<1> SUFFICES ASSUME Init PROVE Shape
  OBVIOUS
<1>1. meeting.rekey \in Nat
  BY SessionAssumption DEF Init, Meeting
<1>2. NewSession \in Sessions
  BY <1>1 DEF NewSession, Sessions, Counters
<1> QED
  BY <1>2 DEF Init, Shape

LEMMA SessionUpdates ==
  ASSUME NEW s \in Sessions
  PROVE  /\ \A b \in BOOLEAN : [s EXCEPT !.begun = b] \in Sessions
         /\ \A b \in BOOLEAN : [s EXCEPT !.ownHello = b] \in Sessions
         /\ \A b \in BOOLEAN : [s EXCEPT !.established = b] \in Sessions
  BY DEF Sessions

\* Sealing and opening leave the standing of a session alone.
LEMMA StandingKept ==
  ASSUME NEW s \in Sessions, NEW m, NEW ms, NEW j, NEW f
  PROVE  \A x \in {StartSeal(s, m).session, SealAll(s, ms).session, Ratcheted(s, j), Recorded(s, f)} :
           x.ownHello = s.ownHello /\ x.established = s.established
  BY DEF StartSeal, SealAll, After, Ratcheted, Recorded, Sessions

LEMMA RatchetedShape ==
  ASSUME Shape, NEW s \in Sessions, NEW j \in Ratchets
  PROVE  /\ Ratcheted(s, j) \in Sessions /\ Ratcheted(s, j).epoch = s.epoch + 1
         /\ Ratcheted(s, j).sendCounter = 1 /\ Ratcheted(s, j).keys # <<>>
         /\ Ratcheted(s, j).received = {}
<1>1. j.keys \in Seq(Nat) /\ j.label \in Nat
  BY DEF Ratchets
<1>2. Append(j.keys, j.label) \in Seq(Nat) /\ Len(Append(j.keys, j.label)) = Len(j.keys) + 1
      /\ Len(j.keys) \in Nat
  BY <1>1
<1>3. Append(j.keys, j.label) # <<>>
  BY <1>2
<1>4. s.epoch + 1 \in Nat
  BY DEF Sessions
<1>5. 1 \in 0 .. meeting.rekey
  BY MeetingShape
<1>6. {} \in Counters
  BY DEF Counters
<1> QED
  BY <1>2, <1>3, <1>4, <1>5, <1>6 DEF Ratcheted, Sessions

LEMMA RecordedShape ==
  ASSUME NEW s \in Sessions, NEW f \in Envelopes
  PROVE  /\ Recorded(s, f) \in Sessions
         /\ Recorded(s, f).received \subseteq s.received \cup {<<f.e, f.c>>}
         /\ Recorded(s, f).keys = s.keys /\ Recorded(s, f).epoch = s.epoch
         /\ Recorded(s, f).sendCounter = s.sendCounter
         /\ Recorded(s, f).established = s.established /\ Recorded(s, f).ownHello = s.ownHello
<1> DEFINE received == s.received \cup {<<f.e, f.c>>}
           highest == IF f.c > s.highestSeen THEN f.c ELSE s.highestSeen
           remembered == IF Cardinality(received) > 2 * Window
                         THEN {t \in received : t[2] >= highest - Window} ELSE received
<1>1. received \in Counters
  BY DEF Sessions, Envelopes, Counters
<1>2. remembered \in Counters /\ remembered \subseteq received
  BY <1>1 DEF Counters
<1>3. highest \in Nat \cup {-1}
  BY DEF Sessions, Envelopes
<1>4. Recorded(s, f) = [s EXCEPT !.highestSeen = highest, !.received = remembered]
  BY DEF Recorded
<1> HIDE DEF highest, remembered
<1> QED
  BY <1>2, <1>3, <1>4 DEF Sessions

\* The shape of the next state, variable by variable.
LEMMA ShapeKept ==
  ASSUME Shape, meeting' = meeting,
         link' \in [Ends -> {"connecting", "open", "dropped"}],
         session' \in [Ends -> Sessions], jobs' \in [Ends -> SUBSET Jobs],
         wire' \in [Ends -> Seq(Frames)],
         secured' \in [Ends -> BOOLEAN], opened' \in [Ends -> BOOLEAN],
         learned' \in [Ends -> BOOLEAN], isolated' \in [Ends -> {"never", "now", "was"}],
         outbox' \in [Ends -> Seq(Messages)], \A d \in Ends : outbox'[d] \in Seq(Chatter[d]),
         said' \in [Ends -> SUBSET Messages], heard' \in [Ends -> SUBSET Messages]
  PROVE  Shape'
<1>1. Sessions' = Sessions
  BY DEF Sessions
<1> QED
  BY <1>1 DEF Shape

\* What most steps do to an end: its session, its jobs, its queue.
LEMMA Puts ==
  ASSUME Shape, NEW d \in Ends
  PROVE  /\ \A s \in Sessions : [session EXCEPT ![d] = s] \in [Ends -> Sessions]
         /\ \A js \in SUBSET Jobs : [jobs EXCEPT ![d] = js] \in [Ends -> SUBSET Jobs]
         /\ \A q \in Seq(Chatter[d]) :
              /\ [outbox EXCEPT ![d] = q] \in [Ends -> Seq(Messages)]
              /\ \A o \in Ends : [outbox EXCEPT ![d] = q][o] \in Seq(Chatter[o])
<1>1. Chatter[d] \subseteq Messages
  BY DEF Messages
<1>2. Seq(Chatter[d]) \subseteq Seq(Messages)
  BY <1>1
<1>3. /\ session \in [Ends -> Sessions] /\ jobs \in [Ends -> SUBSET Jobs]
      /\ outbox \in [Ends -> Seq(Messages)] /\ \A o \in Ends : outbox[o] \in Seq(Chatter[o])
  BY DEF Shape
<1>4. \A q \in Seq(Chatter[d]) : [outbox EXCEPT ![d] = q] \in [Ends -> Seq(Messages)]
  BY <1>2, <1>3
<1>5. \A q \in Seq(Chatter[d]), o \in Ends : [outbox EXCEPT ![d] = q][o] \in Seq(Chatter[o])
  BY <1>3
<1> QED
  BY <1>3, <1>4, <1>5

LEMMA ShapeStep == Shape /\ [Next]_vars => Shape'
<1> SUFFICES ASSUME Shape, [Next]_vars PROVE Shape'
  OBVIOUS
<1>1. CASE UNCHANGED vars
  BY <1>1 DEF vars, Shape, Sessions
<1>2. SUFFICES ASSUME NEW d \in Ends, meeting' = meeting,
                      \/ Open(d) \/ Close(d) \/ Fail(d) \/ Isolate(d)
                      \/ Receive(d) \/ Resume(d) \/ \E m \in Chatter[d] : Say(d, m)
               PROVE  Shape'
  <2> SUFFICES ASSUME NEW d \in Ends,
                      \/ Open(d) \/ Close(d) \/ Fail(d) \/ Isolate(d)
                      \/ Receive(d) \/ Resume(d) \/ \E m \in Chatter[d] : Say(d, m)
               PROVE  meeting' = meeting
    BY <1>1 DEF Next
  <2> QED
    BY DEF Open, Close, Fail, Isolate, Receive, Resume, Say, ReceiveHello, ReceiveConfirm,
           ReceiveSealed, AcceptHello, Confirmation, Secure, CreateHello, CheckConfirmation,
           Ratchet, Encrypt, Decrypt
<1>3. /\ session[d] \in Sessions /\ jobs[d] \in SUBSET Jobs /\ wire[d] \in Seq(Frames)
      /\ outbox[d] \in Seq(Chatter[d]) /\ outbox[d] \in Seq(Messages)
  BY DEF Shape
<1>0. /\ link \in [Ends -> {"connecting", "open", "dropped"}]
      /\ session \in [Ends -> Sessions] /\ jobs \in [Ends -> SUBSET Jobs] /\ wire \in [Ends -> Seq(Frames)]
      /\ secured \in [Ends -> BOOLEAN] /\ opened \in [Ends -> BOOLEAN]
      /\ learned \in [Ends -> BOOLEAN] /\ isolated \in [Ends -> {"never", "now", "was"}]
      /\ outbox \in [Ends -> Seq(Messages)] /\ \A o \in Ends : outbox[o] \in Seq(Chatter[o])
      /\ said \in [Ends -> SUBSET Messages] /\ heard \in [Ends -> SUBSET Messages]
  BY DEF Shape
<1>21. session \in [Ends -> Sessions]
  BY <1>0
<1>22. jobs \in [Ends -> SUBSET Jobs]
  BY <1>0
<1>4. \A name \in {"createHello", "answerHello", "acceptHello", "confirmation", "safetyWord"} :
        Job(name) \in Jobs
  BY DEF Job, Jobs, Plain
<1>5. wire[d] # <<>> => /\ Head(wire[d]) \in Frames
                        /\ [wire EXCEPT ![d] = Tail(@)] \in [Ends -> Seq(Frames)]
  BY <1>3 DEF Shape
<1>6. Ratchets \cup Encrypts \subseteq Jobs
  BY DEF Jobs
<1>7. CASE Open(d)
  <2>1. \A b \in BOOLEAN : [session[d] EXCEPT !.begun = b] \in Sessions
    BY <1>3, SessionUpdates
  <2>2. /\ session' = session \/ session' = [session EXCEPT ![d] = [session[d] EXCEPT !.begun = (d = "initiator")]]
        /\ jobs' = jobs \/ jobs' = [jobs EXCEPT ![d] = IF d = "initiator" THEN @ \cup {Job("createHello")} ELSE @]
        /\ link' \in [Ends -> {"connecting", "open", "dropped"}]
        /\ UNCHANGED <<secured, opened, learned, isolated, outbox, said, wire, heard>>
    BY <1>7 DEF Open, Dropped, Shape
  <2>3. (IF d = "initiator" THEN jobs[d] \cup {Job("createHello")} ELSE jobs[d]) \in SUBSET Jobs
    BY <1>3, <1>4
  <2>4. session' \in [Ends -> Sessions]
    BY <1>21, <2>1, <2>2
  <2>5. jobs' \in [Ends -> SUBSET Jobs]
    BY <1>22, <2>2, <2>3
  <2> QED
    BY <1>0, <1>2, <2>2, <2>4, <2>5, ShapeKept
<1>8. CASE Close(d) \/ Fail(d) \/ Isolate(d)
  <2>1. /\ link' \in [Ends -> {"connecting", "open", "dropped"}]
        /\ isolated' \in [Ends -> {"never", "now", "was"}]
        /\ UNCHANGED <<session, secured, opened, learned, outbox, said, jobs, wire, heard>>
    BY <1>8 DEF Close, Fail, Isolate, Dropped, Shape
  <2> QED
    BY <1>0, <1>2, <2>1, Puts, ShapeKept
<1>9. CASE ReceiveHello(d)
  <2>1. [session[d] EXCEPT !.begun = TRUE] \in Sessions
    BY <1>3, SessionUpdates
  <2>2. /\ session' = [session EXCEPT ![d] = [session[d] EXCEPT !.begun = TRUE]]
        /\ jobs' = [jobs EXCEPT ![d] = jobs[d] \cup {Job(IF session[d].begun THEN "acceptHello" ELSE "answerHello")}]
        /\ wire[d] # <<>> /\ wire' = [wire EXCEPT ![d] = Tail(@)]
        /\ UNCHANGED <<link, secured, opened, learned, isolated, outbox, said, heard>>
    BY <1>9 DEF ReceiveHello, TakeFrame, Shape
  <2>3. jobs[d] \cup {Job(IF session[d].begun THEN "acceptHello" ELSE "answerHello")} \in SUBSET Jobs
    BY <1>3, <1>4
  <2> QED
    BY <1>0, <1>2, <1>5, <2>1, <2>2, <2>3, Puts, ShapeKept
<1>10. CASE ReceiveConfirm(d)
  <2>1. /\ link' \in [Ends -> {"connecting", "open", "dropped"}]
        /\ wire[d] # <<>> /\ wire' = [wire EXCEPT ![d] = Tail(@)] /\ Head(wire[d]).kind = "confirm"
        /\ \/ jobs' = jobs
           \/ jobs' = [jobs EXCEPT ![d] = jobs[d] \cup {Handed("checkConfirmation", Head(wire[d]))}]
        /\ UNCHANGED <<session, secured, opened, learned, isolated, outbox, said, heard>>
    BY <1>10 DEF ReceiveConfirm, TakeFrame, Dropped, Shape
  <2>2. Handed("checkConfirmation", Head(wire[d])) \in Jobs
    BY <1>5, <2>1, KindsOfFrames DEF Handed, Jobs, Checks
  <2>3. jobs[d] \cup {Handed("checkConfirmation", Head(wire[d]))} \in SUBSET Jobs
    BY <1>3, <2>2
  <2> QED
    BY <1>0, <1>2, <1>5, <2>1, <2>3, Puts, ShapeKept
<1>11. CASE ReceiveSealed(d)
  <2>1. /\ wire[d] # <<>> /\ wire' = [wire EXCEPT ![d] = Tail(@)] /\ Head(wire[d]).kind = "sealed"
        /\ \/ jobs' = jobs
           \/ jobs' = [jobs EXCEPT ![d] = jobs[d] \cup {Handed("decrypt", Head(wire[d]))}]
        /\ UNCHANGED <<link, session, secured, opened, learned, isolated, outbox, said, heard>>
    BY <1>11 DEF ReceiveSealed, TakeFrame, Shape
  <2>2. Handed("decrypt", Head(wire[d])) \in Jobs
    BY <1>5, <2>1, KindsOfFrames DEF Handed, Jobs, Decrypts
  <2>3. jobs[d] \cup {Handed("decrypt", Head(wire[d]))} \in SUBSET Jobs
    BY <1>3, <2>2
  <2> QED
    BY <1>0, <1>2, <1>5, <2>1, <2>3, Puts, ShapeKept
<1>12. CASE AcceptHello(d)
  <2>1. [session[d] EXCEPT !.established = TRUE] \in Sessions
    BY <1>3, SessionUpdates
  <2>2. /\ session' = session \/ session' = [session EXCEPT ![d] = [session[d] EXCEPT !.established = TRUE]]
        /\ \/ jobs' = [jobs EXCEPT ![d] = jobs[d] \ {Job("acceptHello")}]
           \/ jobs' = [jobs EXCEPT ![d] = (jobs[d] \ {Job("acceptHello")}) \cup {Job("confirmation")}]
        /\ link' \in [Ends -> {"connecting", "open", "dropped"}]
        /\ UNCHANGED <<secured, opened, learned, isolated, outbox, said, wire, heard>>
    BY <1>12 DEF AcceptHello, Dropped, Shape
  <2>3. /\ jobs[d] \ {Job("acceptHello")} \in SUBSET Jobs
        /\ (jobs[d] \ {Job("acceptHello")}) \cup {Job("confirmation")} \in SUBSET Jobs
    BY <1>3, <1>4
  <2>4. session' \in [Ends -> Sessions]
    BY <1>21, <2>1, <2>2
  <2>5. jobs' \in [Ends -> SUBSET Jobs]
    BY <1>22, <2>2, <2>3
  <2> QED
    BY <1>0, <1>2, <2>2, <2>4, <2>5, ShapeKept
<1>13. CASE Confirmation(d)
  <2>1. [kind |-> "confirm", mac |-> meeting.secret[d]] \in Frames
    BY MeetingShape DEF Frames
  <2>2. wire' \in [Ends -> Seq(Frames)] /\ jobs[d] \ {Job("confirmation")} \in SUBSET Jobs
    BY <1>3, <1>13, <2>1, RawShape DEF Confirmation
  <2> QED
    BY <1>0, <1>2, <1>13, <2>2, Puts, ShapeKept DEF Confirmation
<1>14. CASE Secure(d)
  <2>1. CASE meeting.doubt[d] = "barred"
    <3>1. /\ jobs' = [jobs EXCEPT ![d] = jobs[d] \ {Job("safetyWord")}]
          /\ link' \in [Ends -> {"connecting", "open", "dropped"}]
          /\ UNCHANGED <<session, secured, opened, learned, isolated, outbox, said, wire, heard>>
      BY <1>14, <2>1 DEF Secure, Dropped, Shape
    <3>2. jobs[d] \ {Job("safetyWord")} \in SUBSET Jobs
      BY <1>3
    <3> QED
      BY <1>0, <1>2, <3>1, <3>2, Puts, ShapeKept
  <2>2. CASE meeting.doubt[d] # "barred"
    <3> DEFINE greeting == IF link[d] = "dropped" THEN <<>> ELSE <<"hello">>
               all == IF isolated[d] = "now" THEN <<>> ELSE greeting \o outbox[d] \o <<"roster">>
               outcome == SealAll(session[d], all)
    <3>1. all \in Seq(Messages)
      BY FlushShape
    <3>2. /\ session' = [session EXCEPT ![d] = outcome.session]
          /\ jobs' = [jobs EXCEPT ![d] = (jobs[d] \ {Job("safetyWord")}) \cup outcome.jobs]
          /\ opened' \in [Ends -> BOOLEAN]
          /\ outbox' = [outbox EXCEPT ![d] = <<>>]
          /\ UNCHANGED <<link, secured, learned, isolated, said, wire, heard>>
      BY <1>14, <2>2 DEF Secure, Shape
    <3> HIDE DEF all
    <3>3. outcome.session \in Sessions /\ outcome.jobs \subseteq Jobs
      BY <1>3, <1>6, <3>1, SealAllShape
    <3> HIDE DEF outcome
    <3>4. (jobs[d] \ {Job("safetyWord")}) \cup outcome.jobs \in SUBSET Jobs /\ <<>> \in Seq(Chatter[d])
      BY <1>3, <3>3
    <3> QED
      BY <1>0, <1>2, <3>2, <3>3, <3>4, Puts, ShapeKept
  <2> QED
    BY <2>1, <2>2
<1>15. ASSUME NEW j \in jobs[d], CreateHello(d, j) PROVE Shape'
  <2>1. [session[d] EXCEPT !.ownHello = TRUE] \in Sessions /\ Hello \in Frames
    BY <1>3, SessionUpdates DEF Hello, Frames
  <2>2. /\ session' = session \/ session' = [session EXCEPT ![d] = [session[d] EXCEPT !.ownHello = TRUE]]
        /\ \/ jobs' = [jobs EXCEPT ![d] = jobs[d] \ {j}]
           \/ jobs' = [jobs EXCEPT ![d] = (jobs[d] \ {j}) \cup (IF j.job = "answerHello" THEN {Job("acceptHello")} ELSE {})]
        /\ link' \in [Ends -> {"connecting", "open", "dropped"}]
        /\ wire' = wire \/ wire' = Raw(d, Hello)
        /\ UNCHANGED <<secured, opened, learned, isolated, outbox, said, heard>>
    BY <1>15 DEF CreateHello, Dropped, Shape
  <2>3. /\ jobs[d] \ {j} \in SUBSET Jobs
        /\ (jobs[d] \ {j}) \cup (IF j.job = "answerHello" THEN {Job("acceptHello")} ELSE {}) \in SUBSET Jobs
    BY <1>3, <1>4
  <2>4. wire' \in [Ends -> Seq(Frames)]
    BY <2>1, <2>2, RawShape DEF Shape
  <2>5. session' \in [Ends -> Sessions]
    BY <1>21, <2>1, <2>2
  <2>6. jobs' \in [Ends -> SUBSET Jobs]
    BY <1>22, <2>2, <2>3
  <2> QED
    BY <1>0, <1>2, <2>2, <2>4, <2>5, <2>6, ShapeKept
<1>16. ASSUME NEW j \in jobs[d], CheckConfirmation(d, j) PROVE Shape'
  <2>1. /\ secured' \in [Ends -> BOOLEAN] /\ learned' \in [Ends -> BOOLEAN]
        /\ \/ jobs' = [jobs EXCEPT ![d] = jobs[d] \ {j}]
           \/ jobs' = [jobs EXCEPT ![d] = (jobs[d] \ {j}) \cup {Job("safetyWord")}]
        /\ link' \in [Ends -> {"connecting", "open", "dropped"}]
        /\ UNCHANGED <<session, opened, isolated, outbox, said, wire, heard>>
    BY <1>16 DEF CheckConfirmation, Dropped, Shape
  <2>2. jobs[d] \ {j} \in SUBSET Jobs /\ (jobs[d] \ {j}) \cup {Job("safetyWord")} \in SUBSET Jobs
    BY <1>3, <1>4
  <2>3. jobs' \in [Ends -> SUBSET Jobs]
    BY <1>22, <2>1, <2>2
  <2> QED
    BY <1>0, <1>2, <2>1, <2>3, ShapeKept
<1>17. ASSUME NEW j \in jobs[d], Ratchet(d, j) PROVE Shape'
  <2> DEFINE s == Ratcheted(session[d], j)
             k == [job |-> "encrypt", msg |-> j.msg, e |-> s.epoch, c |-> s.sendCounter - 1, inner |-> s.keys]
  <2>1. j \in Ratchets
    BY <1>3, <1>17, KindsOfJobs DEF Ratchet
  <2>2. s \in Sessions /\ s.sendCounter = 1
    BY <1>3, <2>1, RatchetedShape
  <2>3. /\ session' = [session EXCEPT ![d] = s]
        /\ jobs' = [jobs EXCEPT ![d] = (jobs[d] \ {j}) \cup {k}]
        /\ UNCHANGED <<link, secured, opened, learned, isolated, outbox, said, wire, heard>>
    BY <1>17 DEF Ratchet, Shape
  <2> HIDE DEF s
  <2>4. k \in Jobs
    BY <2>1, <2>2 DEF Jobs, Encrypts, Ratchets, Sessions
  <2> HIDE DEF k
  <2>5. (jobs[d] \ {j}) \cup {k} \in SUBSET Jobs
    BY <1>3, <2>4
  <2> QED
    BY <1>0, <1>2, <2>2, <2>3, <2>5, Puts, ShapeKept
<1>18. ASSUME NEW j \in jobs[d], Encrypt(d, j) PROVE Shape'
  <2> DEFINE f == [kind |-> "sealed", msg |-> j.msg, e |-> j.e, c |-> j.c,
                   inner |-> j.inner, outer |-> session[d].keys]
  <2>1. j \in Encrypts
    BY <1>3, <1>18, KindsOfJobs DEF Encrypt
  <2>2. f \in Frames
    BY <1>3, <2>1 DEF Encrypts, Sessions, Frames
  <2>3. wire' = Raw(d, f) /\ jobs' = [jobs EXCEPT ![d] = jobs[d] \ {j}]
        /\ UNCHANGED <<link, session, secured, opened, learned, isolated, outbox, said, heard>>
    BY <1>18 DEF Encrypt, Shape
  <2> HIDE DEF f
  <2>4. wire' \in [Ends -> Seq(Frames)] /\ jobs[d] \ {j} \in SUBSET Jobs
    BY <1>3, <2>2, <2>3, RawShape
  <2> QED
    BY <1>0, <1>2, <2>3, <2>4, Puts, ShapeKept
<1>19. ASSUME NEW j \in jobs[d], Decrypt(d, j) PROVE Shape'
  <2>1. j \in Decrypts
    BY <1>3, <1>19, KindsOfJobs DEF Decrypt
  <2>2. Recorded(session[d], j.frame) \in Sessions /\ j.frame.msg \in Messages
    BY <1>3, <2>1, RecordedShape DEF Decrypts, Envelopes
  <2>3. /\ session' = [session EXCEPT ![d] = Recorded(session[d], j.frame)]
        /\ jobs' = [jobs EXCEPT ![d] = jobs[d] \ {j}]
        /\ heard' = [heard EXCEPT ![d] = heard[d] \cup {j.frame.msg}]
        /\ UNCHANGED <<link, secured, opened, learned, isolated, outbox, said, wire>>
    BY <1>19 DEF Decrypt, Shape
  <2>4. heard' \in [Ends -> SUBSET Messages] /\ jobs[d] \ {j} \in SUBSET Jobs
    BY <1>3, <2>2, <2>3 DEF Shape
  <2> QED
    BY <1>0, <1>2, <2>2, <2>3, <2>4, Puts, ShapeKept
<1>20. ASSUME NEW m \in Chatter[d], Say(d, m) PROVE Shape'
  <2> DEFINE outcome == StartSeal(session[d], m)
  <2>1. m \in Messages /\ said' \in [Ends -> SUBSET Messages]
    BY <1>20 DEF Say, Messages, Shape
  <2>2. outcome.session \in Sessions /\ jobs[d] \cup {outcome.job} \in SUBSET Jobs
    BY <1>3, <1>6, <2>1, StartSealShape
  <2>3. Append(outbox[d], m) \in Seq(Chatter[d])
    <3>1. \A S, q, x : q \in Seq(S) /\ x \in S => Append(q, x) \in Seq(S)
      OBVIOUS
    <3> QED
      BY <1>3, <3>1
  <2>4. /\ session' = session \/ session' = [session EXCEPT ![d] = outcome.session]
        /\ jobs' = jobs \/ jobs' = [jobs EXCEPT ![d] = jobs[d] \cup {outcome.job}]
        /\ outbox' = outbox \/ outbox' = [outbox EXCEPT ![d] = Append(outbox[d], m)]
        /\ UNCHANGED <<link, secured, opened, learned, isolated, wire, heard>>
    BY <1>20 DEF Say, Shape
  <2> HIDE DEF outcome
  <2>5. session' \in [Ends -> Sessions]
    BY <1>21, <2>2, <2>4
  <2>6. jobs' \in [Ends -> SUBSET Jobs]
    BY <1>22, <2>2, <2>4
  <2> DEFINE q == Append(outbox[d], m)
  <2>7. q \in Seq(Messages) /\ q \in Seq(Chatter[d])
    BY <1>3, <2>1, <2>3
  <2>8. outbox' = outbox \/ outbox' = [outbox EXCEPT ![d] = q]
    BY <2>4
  <2> HIDE DEF q
  <2>9. outbox' \in [Ends -> Seq(Messages)]
    BY <1>0, <2>7, <2>8
  <2>10. \A o \in Ends : outbox'[o] \in Seq(Chatter[o])
    BY <1>0, <2>7, <2>8
  <2> QED
    BY <1>0, <1>2, <2>1, <2>4, <2>5, <2>6, <2>9, <2>10, ShapeKept
<1> QED
  BY <1>2, <1>7, <1>8, <1>9, <1>10, <1>11, <1>12, <1>13, <1>14, <1>15, <1>16, <1>17, <1>18,
     <1>19, <1>20 DEF Receive, Resume

-----------------------------------------------------------------------------
(* Who gets in.                                                            *)

(* A session is established only by an end whose hello passed; what its    *)
(* confirmation is compared with is the secret the other end holds; and    *)
(* nothing is learned or opened before the comparison.                     *)
OnWire(d) == {wire[d][i] : i \in DOMAIN wire[d]}

Passed ==
  \A d \in Ends :
    /\ session[d].ownHello => meeting.doubt[d] # "unready"
    /\ session[d].established => session[d].ownHello /\ meeting.doubt[d] # "hello"
    /\ \A f \in OnWire(d) : f.kind = "confirm" => f.mac = meeting.secret[Other(d)]
    /\ \A j \in jobs[d] :
         j.job = "checkConfirmation" => session[d].established /\ j.frame.mac = meeting.secret[Other(d)]
    /\ secured[d] => session[d].established /\ meeting.secret[d] = meeting.secret[Other(d)]
    /\ learned[d] => secured[d]
    /\ \A j \in jobs[d] : j.job = "decrypt" => secured[d]
    /\ heard[d] # {} => secured[d]

LEMMA FrameSent ==
  ASSUME Shape, NEW d \in Ends, NEW f \in Frames, wire' = Raw(d, f)
  PROVE  \A o \in Ends : \A g \in OnWire(o)' : g \in OnWire(o) \/ (g = f /\ o = Other(d))
<1> SUFFICES ASSUME NEW o \in Ends, NEW i \in DOMAIN wire'[o]
             PROVE  wire'[o][i] \in OnWire(o) \/ (wire'[o][i] = f /\ o = Other(d))
  BY DEF OnWire
<1>1. wire \in [Ends -> Seq(Frames)] /\ Other(d) \in Ends
  BY OtherEnd DEF Shape
<1>2. CASE link[d] = "open" /\ o = Other(d)
  <2>1. wire'[o] = Append(wire[o], f) /\ wire[o] \in Seq(Frames)
    BY <1>1, <1>2 DEF Raw
  <2> QED
    BY <1>2, <2>1 DEF OnWire
<1>3. CASE ~(link[d] = "open" /\ o = Other(d))
  <2>1. wire'[o] = wire[o]
    BY <1>1, <1>3 DEF Raw
  <2> QED
    BY <2>1 DEF OnWire
<1> QED
  BY <1>2, <1>3

LEMMA FrameTaken ==
  ASSUME Shape, NEW d \in Ends, wire[d] # <<>>, TakeFrame(d)
  PROVE  Head(wire[d]) \in OnWire(d) /\ \A o \in Ends : OnWire(o)' \subseteq OnWire(o)
<1>1. wire[d] \in Seq(Frames)
  BY DEF Shape
<1>2. Head(wire[d]) = wire[d][1] /\ 1 \in DOMAIN wire[d]
  BY <1>1
<1>3. \A i \in DOMAIN Tail(wire[d]) : i + 1 \in DOMAIN wire[d] /\ Tail(wire[d])[i] = wire[d][i + 1]
  BY <1>1
<1>4. wire'[d] = Tail(wire[d]) /\ \A o \in Ends \ {d} : wire'[o] = wire[o]
  BY DEF TakeFrame, Shape
<1>5. Head(wire[d]) \in OnWire(d)
  BY <1>2 DEF OnWire
<1>6. OnWire(d)' \subseteq OnWire(d)
  BY <1>3, <1>4 DEF OnWire
<1>7. \A o \in Ends \ {d} : OnWire(o)' \subseteq OnWire(o)
  BY <1>4 DEF OnWire
<1> QED
  BY <1>5, <1>6, <1>7

\* Most steps leave the standing of both ends alone.
LEMMA PassedKept ==
  ASSUME Passed, meeting' = meeting,
         \A o \in Ends : /\ session'[o].ownHello = session[o].ownHello
                         /\ session'[o].established = session[o].established,
         \A o \in Ends : \A f \in OnWire(o)' :
           f \in OnWire(o) \/ (f.kind = "confirm" => f.mac = meeting.secret[Other(o)]),
         \A o \in Ends : \A j \in jobs'[o] :
           j \in jobs[o] \/ j.job \notin {"checkConfirmation", "decrypt"},
         secured' = secured, learned' = learned, heard' = heard
  PROVE  Passed'
  BY DEF Passed

\* The others let an end rise, by the check that is due.
LEMMA PassedRaised ==
  ASSUME Passed, meeting' = meeting,
         \A o \in Ends : /\ session[o].ownHello => session'[o].ownHello
                         /\ session[o].established => session'[o].established
                         /\ session'[o].ownHello => session[o].ownHello \/ meeting.doubt[o] # "unready"
                         /\ session'[o].established => session[o].established
                              \/ (session[o].ownHello /\ meeting.doubt[o] # "hello"),
         \A o \in Ends : \A f \in OnWire(o)' : f \in OnWire(o) \/ f.kind # "confirm",
         \A o \in Ends : \A j \in jobs'[o] :
           j \in jobs[o] \/ j.job \notin {"checkConfirmation", "decrypt"},
         \A o \in Ends : /\ secured[o] => secured'[o]
                         /\ secured'[o] => secured[o] \/ (session[o].established
                              /\ meeting.secret[o] = meeting.secret[Other(o)])
                         /\ learned'[o] => learned[o] \/ secured'[o]
                         /\ heard'[o] # {} => heard[o] # {} \/ secured[o]
  PROVE  Passed'
<1> SUFFICES ASSUME NEW o \in Ends
             PROVE  /\ session'[o].ownHello => meeting'.doubt[o] # "unready"
                    /\ session'[o].established => session'[o].ownHello /\ meeting'.doubt[o] # "hello"
                    /\ \A f \in OnWire(o)' : f.kind = "confirm" => f.mac = meeting'.secret[Other(o)]
                    /\ \A j \in jobs'[o] : j.job = "checkConfirmation" =>
                         session'[o].established /\ j.frame.mac = meeting'.secret[Other(o)]
                    /\ secured'[o] => session'[o].established /\ meeting'.secret[o] = meeting'.secret[Other(o)]
                    /\ learned'[o] => secured'[o]
                    /\ \A j \in jobs'[o] : j.job = "decrypt" => secured'[o]
                    /\ heard'[o] # {} => secured'[o]
  BY DEF Passed
<1>1. /\ session'[o].ownHello => meeting'.doubt[o] # "unready"
      /\ session'[o].established => session'[o].ownHello /\ meeting'.doubt[o] # "hello"
  BY DEF Passed
<1>2. \A f \in OnWire(o)' : f.kind = "confirm" => f.mac = meeting'.secret[Other(o)]
  BY DEF Passed
<1>3. /\ \A j \in jobs'[o] : j.job = "checkConfirmation" =>
           session'[o].established /\ j.frame.mac = meeting'.secret[Other(o)]
      /\ \A j \in jobs'[o] : j.job = "decrypt" => secured'[o]
  BY DEF Passed
<1>4. /\ secured'[o] => session'[o].established /\ meeting'.secret[o] = meeting'.secret[Other(o)]
      /\ learned'[o] => secured'[o] /\ (heard'[o] # {} => secured'[o])
  BY DEF Passed
<1> QED
  BY <1>1, <1>2, <1>3, <1>4 DEF Passed

LEMMA PassedStep == Shape /\ Passed /\ [Next]_vars => Passed'
<1> SUFFICES ASSUME Shape, Passed, [Next]_vars PROVE Passed'
  OBVIOUS
<1>1. CASE UNCHANGED vars
  BY <1>1 DEF vars, Passed, OnWire
<1>2. SUFFICES ASSUME NEW d \in Ends,
                      \/ Open(d) \/ Close(d) \/ Fail(d) \/ Isolate(d)
                      \/ Receive(d) \/ Resume(d) \/ \E m \in Chatter[d] : Say(d, m)
               PROVE  Passed'
  BY <1>1 DEF Next
<1>3. /\ session \in [Ends -> Sessions] /\ jobs \in [Ends -> SUBSET Jobs]
      /\ session[d] \in Sessions /\ jobs[d] \subseteq Jobs
  BY DEF Shape
<1>5. CASE Open(d)
  <2>1. \A o \in Ends : /\ session'[o].ownHello = session[o].ownHello
                        /\ session'[o].established = session[o].established
    <3> DEFINE s == [session[d] EXCEPT !.begun = (d = "initiator")]
    <3>1. s.ownHello = session[d].ownHello /\ s.established = session[d].established
      BY <1>3 DEF Sessions
    <3>2. session' = session \/ session' = [session EXCEPT ![d] = s]
      BY <1>5 DEF Open
    <3> HIDE DEF s
    <3> QED
      BY <1>3, <3>1, <3>2
  <2>2. \A o \in Ends : \A j \in jobs'[o] : j \in jobs[o] \/ j.job \notin {"checkConfirmation", "decrypt"}
    BY <1>3, <1>5 DEF Open, Job
  <2>3. UNCHANGED <<meeting, wire, secured, learned, heard>>
    BY <1>5 DEF Open
  <2> QED
    BY <2>1, <2>2, <2>3, PassedKept DEF OnWire
<1>6. CASE Close(d) \/ Fail(d) \/ Isolate(d)
  <2>1. UNCHANGED <<meeting, session, jobs, wire, secured, learned, heard>>
    BY <1>6 DEF Close, Fail, Isolate
  <2> QED
    BY <2>1, PassedKept DEF OnWire
<1>7. CASE ReceiveHello(d)
  <2>1. \A o \in Ends : /\ session'[o].ownHello = session[o].ownHello
                        /\ session'[o].established = session[o].established
    <3>1. session' = [session EXCEPT ![d] = [session[d] EXCEPT !.begun = TRUE]]
      BY <1>7 DEF ReceiveHello
    <3>2. \A o \in Ends : session'[o] = IF o = d THEN [session[d] EXCEPT !.begun = TRUE] ELSE session[o]
      BY <1>3, <3>1
    <3> QED
      BY <1>3, <3>2 DEF Sessions
  <2>2. \A o \in Ends : \A j \in jobs'[o] : j \in jobs[o] \/ j.job \notin {"checkConfirmation", "decrypt"}
    BY <1>3, <1>7 DEF ReceiveHello, Job
  <2>3. wire[d] # <<>> /\ TakeFrame(d) /\ UNCHANGED <<meeting, secured, learned, heard>>
    BY <1>7 DEF ReceiveHello
  <2> QED
    BY <2>1, <2>2, <2>3, FrameTaken, PassedKept
<1>8. CASE ReceiveConfirm(d)
  <2>1. /\ wire[d] # <<>> /\ TakeFrame(d) /\ Head(wire[d]).kind = "confirm"
        /\ UNCHANGED <<meeting, session, secured, learned, heard>>
    BY <1>8 DEF ReceiveConfirm
  <2>2. \A o \in Ends : OnWire(o)' \subseteq OnWire(o)
    BY <2>1, FrameTaken
  <2>3. Head(wire[d]).mac = meeting.secret[Other(d)]
    BY <2>1, FrameTaken DEF Passed
  <2>4. \A o \in Ends : \A j \in jobs'[o] :
          j \in jobs[o] \/ (session[o].established /\ o = d /\ j = Handed("checkConfirmation", Head(wire[d])))
    BY <1>3, <1>8 DEF ReceiveConfirm
  <2>5. \A o \in Ends : \A j \in jobs'[o] :
          /\ j.job = "checkConfirmation" => session[o].established /\ j.frame.mac = meeting.secret[Other(o)]
          /\ j.job = "decrypt" => secured[o]
    BY <2>3, <2>4 DEF Passed, Handed
  <2> QED
    BY <2>1, <2>2, <2>5 DEF Passed
<1>9. CASE ReceiveSealed(d)
  <2>1. /\ wire[d] # <<>> /\ TakeFrame(d)
        /\ UNCHANGED <<meeting, session, secured, learned, heard>>
    BY <1>9 DEF ReceiveSealed
  <2>2. \A o \in Ends : OnWire(o)' \subseteq OnWire(o)
    BY <2>1, FrameTaken
  <2>3. \A o \in Ends : \A j \in jobs'[o] :
          j \in jobs[o] \/ (secured[o] /\ o = d /\ j = Handed("decrypt", Head(wire[d])))
    BY <1>3, <1>9 DEF ReceiveSealed
  <2>4. \A o \in Ends : \A j \in jobs'[o] :
          /\ j.job = "checkConfirmation" => session[o].established /\ j.frame.mac = meeting.secret[Other(o)]
          /\ j.job = "decrypt" => secured[o]
    BY <2>3 DEF Passed, Handed
  <2> QED
    BY <2>1, <2>2, <2>4 DEF Passed
<1>10. CASE AcceptHello(d)
  <2>1. \A o \in Ends : /\ session'[o].ownHello = session[o].ownHello
                        /\ session[o].established => session'[o].established
                        /\ session'[o].established => session[o].established
                             \/ (session[o].ownHello /\ meeting.doubt[o] # "hello")
    BY <1>3, <1>10 DEF AcceptHello, Sessions
  <2>2. \A o \in Ends : \A j \in jobs'[o] : j \in jobs[o] \/ j.job \notin {"checkConfirmation", "decrypt"}
    BY <1>3, <1>10 DEF AcceptHello, Job
  <2>3. UNCHANGED <<meeting, wire, secured, learned, heard>>
    BY <1>10 DEF AcceptHello
  <2>4. \A o \in Ends : OnWire(o)' = OnWire(o)
    BY <2>3 DEF OnWire
  <2> QED
    BY <2>1, <2>2, <2>3, <2>4, PassedRaised
<1>11. CASE Confirmation(d)
  <2> DEFINE f == [kind |-> "confirm", mac |-> meeting.secret[d]]
  <2>1. f \in Frames /\ f.mac = meeting.secret[d]
    BY MeetingShape DEF Frames
  <2>2. /\ wire' = Raw(d, f) /\ jobs' = [jobs EXCEPT ![d] = jobs[d] \ {Job("confirmation")}]
        /\ UNCHANGED <<meeting, session, secured, learned, heard>>
    BY <1>11 DEF Confirmation
  <2> HIDE DEF f
  <2>3. \A o \in Ends : \A g \in OnWire(o)' : g \in OnWire(o) \/ g.mac = meeting.secret[Other(o)]
    BY <2>1, <2>2, FrameSent, OtherEnd
  <2>4. \A o \in Ends : jobs'[o] \subseteq jobs[o]
    BY <1>3, <2>2
  <2> QED
    BY <2>2, <2>3, <2>4, PassedKept
<1>12. CASE Secure(d)
  <2>1. UNCHANGED <<meeting, wire, secured, learned, heard>>
    BY <1>12 DEF Secure
  <2>2. CASE meeting.doubt[d] = "barred"
    <3>1. session' = session /\ \A o \in Ends : jobs'[o] \subseteq jobs[o]
      BY <1>3, <1>12, <2>2 DEF Secure
    <3> QED
      BY <2>1, <3>1, PassedKept DEF OnWire
  <2>3. CASE meeting.doubt[d] # "barred"
    <3> DEFINE greeting == IF link[d] = "dropped" THEN <<>> ELSE <<"hello">>
               all == IF isolated[d] = "now" THEN <<>> ELSE greeting \o outbox[d] \o <<"roster">>
               outcome == SealAll(session[d], all)
    <3>1. /\ session' = [session EXCEPT ![d] = outcome.session]
          /\ jobs' = [jobs EXCEPT ![d] = (jobs[d] \ {Job("safetyWord")}) \cup outcome.jobs]
      BY <1>12, <2>3 DEF Secure
    <3> HIDE DEF all
    <3>2. outcome.session.ownHello = session[d].ownHello /\ outcome.session.established = session[d].established
      BY <1>3, StandingKept
    <3>3. \A j \in outcome.jobs : j.job \notin {"checkConfirmation", "decrypt"}
      BY DEF SealAll, StartSeal
    <3> HIDE DEF outcome
    <3>4. \A o \in Ends : /\ session'[o].ownHello = session[o].ownHello
                          /\ session'[o].established = session[o].established
      BY <1>3, <3>1, <3>2
    <3>5. \A o \in Ends : \A j \in jobs'[o] : j \in jobs[o] \/ j.job \notin {"checkConfirmation", "decrypt"}
      BY <1>3, <3>1, <3>3
    <3> QED
      BY <2>1, <3>4, <3>5, PassedKept DEF OnWire
  <2> QED
    BY <2>2, <2>3
<1>13. ASSUME NEW j \in jobs[d], CreateHello(d, j) PROVE Passed'
  <2>1. Hello \in Frames /\ Hello.kind # "confirm"
    BY DEF Hello, Frames
  <2>2. (wire' = wire \/ wire' = Raw(d, Hello)) /\ UNCHANGED <<meeting, secured, learned, heard>>
    BY <1>13 DEF CreateHello
  <2>3. \A o \in Ends : \A f \in OnWire(o)' : f \in OnWire(o) \/ f.kind # "confirm"
    <3>1. CASE wire' = wire
      BY <3>1 DEF OnWire
    <3> QED
      BY <2>1, <2>2, <3>1, FrameSent
  <2>4. \A o \in Ends : /\ session'[o].established = session[o].established
                        /\ session[o].ownHello => session'[o].ownHello
                        /\ session'[o].ownHello => session[o].ownHello \/ meeting.doubt[o] # "unready"
    BY <1>3, <1>13 DEF CreateHello, Sessions
  <2>5. \A o \in Ends : \A k \in jobs'[o] : k \in jobs[o] \/ k.job \notin {"checkConfirmation", "decrypt"}
    BY <1>3, <1>13 DEF CreateHello, Job
  <2> QED
    BY <2>2, <2>3, <2>4, <2>5, PassedRaised
<1>14. ASSUME NEW j \in jobs[d], CheckConfirmation(d, j) PROVE Passed'
  <2>1. UNCHANGED <<meeting, session, wire, heard>>
    BY <1>14 DEF CheckConfirmation
  <2>2. \A o \in Ends : \A k \in jobs'[o] : k \in jobs[o] \/ k.job \notin {"checkConfirmation", "decrypt"}
    BY <1>3, <1>14 DEF CheckConfirmation, Job
  <2>3. session[d].established /\ j.frame.mac = meeting.secret[Other(d)]
    BY <1>14 DEF CheckConfirmation, Passed
  <2>4. \A o \in Ends : /\ secured[o] => secured'[o]
                        /\ secured'[o] => secured[o] \/ (o = d /\ j.frame.mac = meeting.secret[d])
                        /\ learned'[o] => learned[o] \/ secured'[o]
    BY <1>14 DEF CheckConfirmation, Shape
  <2>5. \A o \in Ends : OnWire(o)' = OnWire(o)
    BY <2>1 DEF OnWire
  <2> QED
    BY <2>1, <2>2, <2>3, <2>4, <2>5, PassedRaised
<1>15. ASSUME NEW j \in jobs[d], Ratchet(d, j) PROVE Passed'
  <2>1. UNCHANGED <<meeting, wire, secured, learned, heard>>
    BY <1>15 DEF Ratchet
  <2>2. session' = [session EXCEPT ![d] = Ratcheted(session[d], j)]
    BY <1>15 DEF Ratchet
  <2>3. \A o \in Ends : /\ session'[o].ownHello = session[o].ownHello
                        /\ session'[o].established = session[o].established
    BY <1>3, <2>2, StandingKept
  <2>4. \A o \in Ends : \A k \in jobs'[o] : k \in jobs[o] \/ k.job \notin {"checkConfirmation", "decrypt"}
    BY <1>3, <1>15 DEF Ratchet
  <2> QED
    BY <2>1, <2>3, <2>4, PassedKept DEF OnWire
<1>16. ASSUME NEW j \in jobs[d], Encrypt(d, j) PROVE Passed'
  <2> DEFINE f == [kind |-> "sealed", msg |-> j.msg, e |-> j.e, c |-> j.c,
                   inner |-> j.inner, outer |-> session[d].keys]
  <2>1. j \in Encrypts
    BY <1>3, <1>16, KindsOfJobs DEF Encrypt
  <2>2. f \in Frames /\ f.kind # "confirm"
    BY <1>3, <2>1 DEF Encrypts, Sessions, Frames
  <2>3. /\ wire' = Raw(d, f) /\ jobs' = [jobs EXCEPT ![d] = jobs[d] \ {j}]
        /\ UNCHANGED <<meeting, session, secured, learned, heard>>
    BY <1>16 DEF Encrypt
  <2> HIDE DEF f
  <2>4. \A o \in Ends : \A g \in OnWire(o)' : g \in OnWire(o) \/ g.kind # "confirm"
    BY <2>2, <2>3, FrameSent
  <2>5. \A o \in Ends : jobs'[o] \subseteq jobs[o]
    BY <1>3, <2>3
  <2> QED
    BY <2>3, <2>4, <2>5, PassedKept
<1>17. ASSUME NEW j \in jobs[d], Decrypt(d, j) PROVE Passed'
  <2>1. UNCHANGED <<meeting, secured, learned, wire>> /\ secured[d]
    BY <1>17 DEF Decrypt, Passed
  <2>2. session' = [session EXCEPT ![d] = Recorded(session[d], j.frame)]
    BY <1>17 DEF Decrypt
  <2>3. \A o \in Ends : /\ session'[o].ownHello = session[o].ownHello
                        /\ session'[o].established = session[o].established
    BY <1>3, <2>2, StandingKept
  <2>4. \A o \in Ends : jobs'[o] \subseteq jobs[o]
    BY <1>3, <1>17 DEF Decrypt
  <2>5. \A o \in Ends : heard'[o] # {} => heard[o] # {} \/ secured[o]
    BY <1>17, <2>1 DEF Decrypt, Shape
  <2>6. \A o \in Ends : OnWire(o)' = OnWire(o)
    BY <2>1 DEF OnWire
  <2> QED
    BY <2>1, <2>3, <2>4, <2>5, <2>6 DEF Passed
<1>18. ASSUME NEW m \in Chatter[d], Say(d, m) PROVE Passed'
  <2>1. UNCHANGED <<meeting, wire, secured, learned, heard>>
    BY <1>18 DEF Say
  <2>2. session' = session \/ session' = [session EXCEPT ![d] = StartSeal(session[d], m).session]
    BY <1>18 DEF Say
  <2>3. \A o \in Ends : /\ session'[o].ownHello = session[o].ownHello
                        /\ session'[o].established = session[o].established
    BY <1>3, <2>2, StandingKept
  <2>4. \A o \in Ends : \A k \in jobs'[o] : k \in jobs[o] \/ k.job \notin {"checkConfirmation", "decrypt"}
    BY <1>3, <1>18 DEF Say, StartSeal
  <2> QED
    BY <2>1, <2>3, <2>4, PassedKept DEF OnWire
<1> QED
  BY <1>2, <1>5, <1>6, <1>7, <1>8, <1>9, <1>10, <1>11, <1>12, <1>13, <1>14, <1>15, <1>16,
     <1>17, <1>18 DEF Receive, Resume

(* Who gets in, whatever is said and however the calls overlap.  A         *)
(* confirmation proves the secret of the end that made it, so an end is    *)
(* secured only by one that holds its own secret, and only then is the     *)
(* key learned and a message opened (onHandshake, #secure).                *)
THEOREM MembersOnlyGetIn == Spec => []MembersOnly
<1>1. Init => Shape /\ Passed
  <2> SUFFICES ASSUME Init PROVE Passed
    BY InitShape
  <2> QED
    BY DEF Init, NewSession, Passed, OnWire
<1>2. Shape /\ Passed /\ [Next]_vars => (Shape /\ Passed)'
  BY ShapeStep, PassedStep
<1>3. Shape /\ Passed => MembersOnly
  <2> SUFFICES ASSUME Shape, Passed PROVE OnlyMembersGetIn
    BY ShapeIsTypeOK DEF MembersOnly
  <2> QED
    BY DEF Passed, OnlyMembersGetIn
<1> QED
  BY <1>1, <1>2, <1>3, PTL DEF Spec

-----------------------------------------------------------------------------
(* Sealing.                                                                *)

\* What a nonce is made of: whose key, its labels, epoch and counter, and what they sealed.
Nonces == Ends \X Seq(Nat) \X Nat \X Nat \X Messages

Number(x) == <<x.e, x.c>>
Numbers(q) == {Number(q[i]) : i \in {k \in DOMAIN q : q[k].kind = "sealed"}}
Distinct(q) ==
  \A i, k \in DOMAIN q :
    q[i].kind = "sealed" /\ q[k].kind = "sealed" /\ Number(q[i]) = Number(q[k]) => i = k

Spent(o) == {<<n[3], n[4]>> : n \in {m \in nonces : m[1] = o}}
Waiting(o) == {Number(j) : j \in {k \in jobs[o] : k.job = "encrypt"}}
Sent(d) == Numbers(wire[d])
Taken(d) == session[d].received \cup {Number(j.frame) : j \in {k \in jobs[d] : k.job = "decrypt"}}

\* An epoch and a counter are used once, and those still to come lie above.
Counted ==
  /\ nonces \subseteq Nonces
  /\ \A d \in Ends : session[d].keys = <<>> <=> session[d].epoch = 0
  /\ \A n \in nonces : n[3] <= session[n[1]].epoch
  /\ \A n \in nonces : n[3] = session[n[1]].epoch => n[4] < session[n[1]].sendCounter
  /\ \A n \in nonces : n[3] = 0 => n[2] = <<>>
  /\ \A n, m \in nonces : n[1] = m[1] /\ n[3] = m[3] /\ n[4] = m[4] => n = m
  /\ \A d \in Ends : NoncesOf(d, jobs[d]) \subseteq nonces

\* An envelope is being encrypted, on its way or taken in, and only one of these.
Carried ==
  \A d \in Ends :
    /\ Sent(d) \subseteq Spent(Other(d)) /\ Taken(d) \subseteq Spent(Other(d))
    /\ Waiting(Other(d)) \cap Sent(d) = {} /\ Waiting(Other(d)) \cap Taken(d) = {}
    /\ Sent(d) \cap Taken(d) = {}
    /\ Distinct(wire[d])
    /\ \A f \in OnWire(d) : f.kind = "sealed" /\ f.outer = <<>> => f.e = 0 /\ f.inner = <<>>

LEMMA NonceShape ==
  ASSUME NEW n \in Nonces
  PROVE  n[1] \in Ends /\ n[2] \in Seq(Nat) /\ n[3] \in Nat /\ n[4] \in Nat
  BY DEF Nonces

LEMMA NonceOfJob ==
  ASSUME NEW d \in Ends, NEW j \in Encrypts
  PROVE  /\ NonceOf(d, j) \in Nonces
         /\ NonceOf(d, j)[1] = d /\ NonceOf(d, j)[2] = j.inner
         /\ NonceOf(d, j)[3] = j.e /\ NonceOf(d, j)[4] = j.c /\ NonceOf(d, j)[5] = j.msg
  BY DEF NonceOf, Nonces, Encrypts

(* The one way an end seals: at the epoch of the session s that results,    *)
(* below its counter, and above all it sealed before; `new` are the jobs.   *)
Seals(d, s, new) ==
  /\ s \in Sessions /\ new \subseteq Encrypts
  /\ session'[d] = s /\ \A o \in Ends \ {d} : session'[o] = session[o] /\ jobs'[o] = jobs[o]
  /\ \A j \in jobs'[d] : j \in jobs[d] \/ j \in new \/ j.job \notin {"encrypt", "decrypt"}
  /\ nonces \subseteq nonces' /\ \A j \in new : NonceOf(d, j) \in nonces'
  /\ \A n \in nonces' : n \in nonces \/ \E j \in new : n = NonceOf(d, j)
  /\ s.keys = <<>> <=> s.epoch = 0
  /\ s.received \subseteq session[d].received
  /\ \/ s.epoch > session[d].epoch
     \/ s.epoch = session[d].epoch /\ s.sendCounter >= session[d].sendCounter
  /\ \A j \in new : /\ j.e = s.epoch /\ j.inner = s.keys /\ j.c < s.sendCounter
                    /\ j.e > session[d].epoch \/ j.c >= session[d].sendCounter
  /\ \A j, k \in new : j.c = k.c => j = k

LEMMA CountedKept ==
  ASSUME Shape, Counted, NEW d \in Ends, NEW s, NEW new, Seals(d, s, new)
  PROVE  Counted' /\ \A j \in new : Number(j) \notin Spent(d)
<1>0. /\ s \in Sessions /\ new \subseteq Encrypts
      /\ \A j \in jobs'[d] : j.job = "encrypt" => j \in jobs[d] \/ j \in new
      /\ \A o \in Ends \ {d} : jobs'[o] = jobs[o]
      /\ s.keys = <<>> <=> s.epoch = 0
      /\ \/ s.epoch > session[d].epoch
         \/ s.epoch = session[d].epoch /\ s.sendCounter >= session[d].sendCounter
      /\ \A j \in new : /\ j.e = s.epoch /\ j.inner = s.keys /\ j.c < s.sendCounter
                        /\ j.e > session[d].epoch \/ j.c >= session[d].sendCounter
      /\ \A j, k \in new : j.c = k.c => j = k
  BY DEF Seals
<1>1. /\ session \in [Ends -> Sessions] /\ session[d] \in Sessions
      /\ \A o \in Ends : session'[o] = IF o = d THEN s ELSE session[o]
  BY DEF Shape, Seals
<1>2. /\ s.epoch \in Nat /\ s.sendCounter \in Nat /\ session[d].epoch \in Nat
      /\ session[d].sendCounter \in Nat
  BY <1>0, <1>1, MeetingShape DEF Sessions
<1>3. \A n \in nonces : /\ n \in Nonces /\ n[1] \in Ends /\ n[3] \in Nat /\ n[4] \in Nat
                        /\ n[3] <= session[n[1]].epoch
                        /\ n[3] = session[n[1]].epoch => n[4] < session[n[1]].sendCounter
  BY NonceShape DEF Counted
<1>4. \A j \in new : j \in Encrypts /\ j.e \in Nat /\ j.c \in Nat
  BY <1>0 DEF Encrypts
<1>5. \A j \in new : /\ NonceOf(d, j) \in Nonces
                     /\ NonceOf(d, j)[1] = d /\ NonceOf(d, j)[2] = j.inner
                     /\ NonceOf(d, j)[3] = j.e /\ NonceOf(d, j)[4] = j.c
  BY <1>0, NonceOfJob
<1>6. ASSUME NEW n \in nonces, n[1] = d, NEW j \in new PROVE ~(n[3] = j.e /\ n[4] = j.c)
  BY <1>0, <1>2, <1>3, <1>4, <1>6
<1>7. \A n \in nonces' : n \in nonces \/ \E j \in new : n = NonceOf(d, j)
  BY DEF Seals
<1>8. nonces' \subseteq Nonces
  BY <1>3, <1>5, <1>7
<1>9. \A o \in Ends : session'[o].keys = <<>> <=> session'[o].epoch = 0
  BY <1>0, <1>1 DEF Counted
<1>10. ASSUME NEW n \in nonces'
       PROVE  /\ n[3] <= session'[n[1]].epoch
              /\ n[3] = session'[n[1]].epoch => n[4] < session'[n[1]].sendCounter
              /\ n[3] = 0 => n[2] = <<>>
  <2>1. CASE n \in nonces /\ n[1] = d
    BY <1>0, <1>1, <1>2, <1>3, <2>1 DEF Counted
  <2>2. CASE n \in nonces /\ n[1] # d
    BY <1>1, <1>3, <2>2 DEF Counted
  <2>3. ASSUME NEW j \in new, n = NonceOf(d, j)
        PROVE  /\ n[3] <= session'[n[1]].epoch
               /\ n[3] = session'[n[1]].epoch => n[4] < session'[n[1]].sendCounter
               /\ n[3] = 0 => n[2] = <<>>
    BY <1>0, <1>1, <1>2, <1>4, <1>5, <2>3
  <2> QED
    BY <1>7, <2>1, <2>2, <2>3
<1>11. ASSUME NEW n \in nonces', NEW m \in nonces', n[1] = m[1], n[3] = m[3], n[4] = m[4]
       PROVE  n = m
  <2>1. CASE n \in nonces /\ m \in nonces
    BY <1>11, <2>1 DEF Counted
  <2>2. CASE n \in nonces /\ m \notin nonces
    BY <1>5, <1>6, <1>7, <1>11, <2>2
  <2>3. CASE n \notin nonces /\ m \in nonces
    BY <1>5, <1>6, <1>7, <1>11, <2>3
  <2>4. CASE n \notin nonces /\ m \notin nonces
    BY <1>0, <1>5, <1>7, <1>11, <2>4
  <2> QED
    BY <2>1, <2>2, <2>3, <2>4
<1>12. \A o \in Ends : NoncesOf(o, jobs'[o]) \subseteq nonces'
  BY <1>0 DEF Counted, NoncesOf, Seals
<1>13. ASSUME NEW j \in new PROVE Number(j) \notin Spent(d)
  <2> SUFFICES ASSUME NEW n \in nonces, n[1] = d, <<n[3], n[4]>> = <<j.e, j.c>> PROVE FALSE
    BY DEF Spent, Number
  <2> QED
    BY <1>6
<1> QED
  BY <1>8, <1>9, <1>10, <1>11, <1>12, <1>13 DEF Counted

\* Most steps seal nothing.
LEMMA CountedStays ==
  ASSUME Counted, nonces' = nonces,
         \A o \in Ends :
           /\ session'[o].keys = session[o].keys
           /\ session'[o].epoch = session[o].epoch
           /\ session'[o].sendCounter = session[o].sendCounter,
         \A o \in Ends : \A j \in jobs'[o] : j \in jobs[o] \/ j.job # "encrypt"
  PROVE  Counted'
<1>1. \A n \in nonces : n[1] \in Ends
  BY NonceShape DEF Counted
<1>2. \A o \in Ends : NoncesOf(o, jobs'[o]) \subseteq nonces'
  BY DEF Counted, NoncesOf
<1> QED
  BY <1>1, <1>2 DEF Counted

\* What one call of seal, or several in turn, seal at once.
LEMMA SealedAtOnce ==
  ASSUME Shape, NEW s \in Sessions, NEW m \in Messages
  PROVE  LET outcome == StartSeal(s, m)
         IN  /\ outcome.session.keys = s.keys /\ outcome.session.epoch = s.epoch /\ outcome.session.received = s.received
             /\ outcome.session.sendCounter >= s.sendCounter
             /\ outcome.job.job = "encrypt" =>
                  /\ outcome.job \in Encrypts /\ outcome.job.e = s.epoch /\ outcome.job.inner = s.keys /\ outcome.job.c = s.sendCounter
                  /\ s.sendCounter < meeting.rekey
                  /\ outcome.session.sendCounter = s.sendCounter + 1
<1>1. s.sendCounter \in Nat /\ meeting.rekey \in Nat
  BY MeetingShape DEF Sessions
<1>2. StartSeal(s, m).job \in Ratchets \cup Encrypts
  BY StartSealShape
<1>3. CASE s.sendCounter >= meeting.rekey
  BY <1>1, <1>3 DEF StartSeal
<1>4. CASE ~(s.sendCounter >= meeting.rekey)
  BY <1>1, <1>2, <1>4 DEF StartSeal, Sessions, Ratchets
<1> QED
  BY <1>3, <1>4

LEMMA AfterCounts ==
  ASSUME Shape, NEW s \in Sessions, NEW n \in Nat
  PROVE  /\ After(s, n).keys = s.keys /\ After(s, n).epoch = s.epoch /\ After(s, n).received = s.received
         /\ After(s, n).sendCounter \in Nat /\ s.sendCounter \in Nat /\ meeting.rekey \in Nat
         /\ s.sendCounter + n <= meeting.rekey => After(s, n).sendCounter = s.sendCounter + n
         /\ s.sendCounter + n > meeting.rekey => After(s, n).sendCounter = meeting.rekey
         /\ s.sendCounter <= meeting.rekey
  BY MeetingShape DEF After, Sessions

LEMMA SealedInTurn ==
  ASSUME Shape, NEW s \in Sessions, NEW ms \in Seq(Messages)
  PROVE  LET outcome == SealAll(s, ms)
             new == {j \in outcome.jobs : j.job = "encrypt"}
         IN  /\ outcome.session.keys = s.keys /\ outcome.session.epoch = s.epoch /\ outcome.session.received = s.received
             /\ outcome.session.sendCounter >= s.sendCounter
             /\ \A j \in new : /\ j \in Encrypts /\ j.e = s.epoch /\ j.inner = s.keys
                               /\ s.sendCounter <= j.c /\ j.c < outcome.session.sendCounter
             /\ \A j, k \in new : j.c = k.c => j = k
<1> DEFINE outcome == SealAll(s, ms)
           new == {j \in outcome.jobs : j.job = "encrypt"}
           At(i) == StartSeal(After(s, i - 1), ms[i]).job
<1>1. Len(ms) \in Nat /\ DOMAIN ms = 1 .. Len(ms) /\ \A i \in DOMAIN ms : ms[i] \in Messages
  OBVIOUS
<1>2. outcome.session = After(s, Len(ms)) /\ outcome.jobs = {At(i) : i \in DOMAIN ms}
  BY DEF SealAll
<1>3. ASSUME NEW i \in DOMAIN ms, At(i).job = "encrypt"
      PROVE  /\ At(i) \in Encrypts /\ At(i).e = s.epoch /\ At(i).inner = s.keys
             /\ At(i).c = s.sendCounter + (i - 1) /\ At(i).c < outcome.session.sendCounter
  <2> DEFINE n == i - 1
  <2>0. n \in Nat
    BY <1>1
  <2>1. After(s, n) \in Sessions
    BY <2>0, AfterShape
  <2>2. /\ At(i) \in Encrypts /\ At(i).e = After(s, n).epoch /\ At(i).inner = After(s, n).keys
        /\ At(i).c = After(s, n).sendCounter /\ After(s, n).sendCounter < meeting.rekey
    BY <1>1, <1>3, <2>1, SealedAtOnce
  <2>3. At(i).e = s.epoch /\ At(i).inner = s.keys
    BY <2>0, <2>2, AfterCounts
  <2>4. At(i).c = s.sendCounter + n /\ s.sendCounter + n < meeting.rekey
    <3> DEFINE c == After(s, n).sendCounter
    <3>1. /\ c \in Nat /\ s.sendCounter \in Nat /\ meeting.rekey \in Nat
          /\ s.sendCounter + n <= meeting.rekey => c = s.sendCounter + n
          /\ s.sendCounter + n > meeting.rekey => c = meeting.rekey
      BY <2>0, AfterCounts
    <3>2. At(i).c = c /\ c < meeting.rekey
      BY <2>2
    <3> HIDE DEF n, c, At
    <3> QED
      BY <2>0, <3>1, <3>2
  <2>5. n < Len(ms)
    BY <1>1
  <2>6. s.sendCounter + n < After(s, Len(ms)).sendCounter
    BY <1>1, <2>0, <2>4, <2>5, AfterCounts
  <2> QED
    BY <1>2, <2>2, <2>3, <2>4, <2>6
<1>4. /\ outcome.session.keys = s.keys /\ outcome.session.epoch = s.epoch /\ outcome.session.received = s.received
      /\ outcome.session.sendCounter >= s.sendCounter
  BY <1>1, <1>2, AfterCounts
<1>5. \A j \in new : \E i \in DOMAIN ms : j = At(i) /\ At(i).job = "encrypt"
  BY <1>2
<1>6. s.sendCounter \in Nat
  BY AfterCounts, <1>1
<1> HIDE DEF outcome, new, At
<1>7. \A j \in new : /\ j \in Encrypts /\ j.e = s.epoch /\ j.inner = s.keys
                     /\ s.sendCounter <= j.c /\ j.c < outcome.session.sendCounter
  BY <1>1, <1>3, <1>5, <1>6
<1>8. ASSUME NEW j \in new, NEW k \in new, j.c = k.c PROVE j = k
  <2>1. PICK i \in DOMAIN ms : j = At(i) /\ At(i).job = "encrypt"
    BY <1>5
  <2>2. PICK o \in DOMAIN ms : k = At(o) /\ At(o).job = "encrypt"
    BY <1>5
  <2>3. i = o
    BY <1>1, <1>3, <1>6, <1>8, <2>1, <2>2
  <2> QED
    BY <2>1, <2>2, <2>3
<1> QED
  BY <1>4, <1>7, <1>8 DEF outcome, new

-----------------------------------------------------------------------------
(* Carrying.                                                               *)

LEMMA NumbersAppended ==
  ASSUME NEW q \in Seq(Frames), NEW f \in Frames
  PROVE  /\ \A x \in Numbers(Append(q, f)) : x \in Numbers(q) \/ (f.kind = "sealed" /\ x = Number(f))
         /\ Distinct(q) /\ (f.kind = "sealed" => Number(f) \notin Numbers(q)) => Distinct(Append(q, f))
<1> DEFINE a == Append(q, f)
<1>1. /\ DOMAIN a = 1 .. (Len(q) + 1) /\ a[Len(q) + 1] = f /\ DOMAIN q = 1 .. Len(q) /\ Len(q) \in Nat
      /\ \A i \in DOMAIN q : a[i] = q[i]
  OBVIOUS
<1>2. \A i \in DOMAIN a : (i \in DOMAIN q /\ a[i] = q[i]) \/ (i = Len(q) + 1 /\ a[i] = f)
  BY <1>1
<1> HIDE DEF a
<1>3. \A x \in Numbers(a) : x \in Numbers(q) \/ (f.kind = "sealed" /\ x = Number(f))
  BY <1>2 DEF Numbers
<1>4. ASSUME Distinct(q), f.kind = "sealed" => Number(f) \notin Numbers(q) PROVE Distinct(a)
  BY <1>2, <1>4 DEF Distinct, Numbers
<1> QED
  BY <1>3, <1>4 DEF a

LEMMA NumbersTaken ==
  ASSUME NEW q \in Seq(Frames), q # <<>>
  PROVE  /\ Numbers(Tail(q)) \subseteq Numbers(q)
         /\ Distinct(q) => Distinct(Tail(q))
         /\ Head(q).kind = "sealed" => Number(Head(q)) \in Numbers(q)
         /\ Distinct(q) /\ Head(q).kind = "sealed" => Number(Head(q)) \notin Numbers(Tail(q))
<1> DEFINE a == Tail(q)
<1>1. /\ DOMAIN q = 1 .. Len(q) /\ Len(q) \in Nat /\ Head(q) = q[1] /\ 1 \in DOMAIN q
      /\ \A i \in DOMAIN a : i \in Nat /\ i >= 1 /\ i + 1 \in DOMAIN q /\ a[i] = q[i + 1]
  OBVIOUS
<1> HIDE DEF a
<1>2. Numbers(a) \subseteq Numbers(q)
  BY <1>1 DEF Numbers
<1>3. ASSUME Distinct(q) PROVE Distinct(a)
  <2> SUFFICES ASSUME NEW i \in DOMAIN a, NEW k \in DOMAIN a, a[i].kind = "sealed", a[k].kind = "sealed",
                      Number(a[i]) = Number(a[k])
               PROVE  i = k
    BY DEF Distinct
  <2>1. i + 1 = k + 1
    BY <1>1, <1>3 DEF Distinct
  <2> QED
    BY <1>1, <2>1
<1>4. Head(q).kind = "sealed" => Number(Head(q)) \in Numbers(q)
  BY <1>1 DEF Numbers
<1>5. ASSUME Distinct(q), Head(q).kind = "sealed", Number(Head(q)) \in Numbers(a) PROVE FALSE
  <2>1. PICK i \in DOMAIN a : a[i].kind = "sealed" /\ Number(a[i]) = Number(Head(q))
    BY <1>5 DEF Numbers
  <2>2. i + 1 = 1
    BY <1>1, <1>5, <2>1 DEF Distinct
  <2> QED
    BY <1>1, <2>2
<1> QED
  BY <1>2, <1>3, <1>4, <1>5 DEF a

LEMMA SpentGrows ==
  ASSUME nonces \subseteq nonces', NEW o
  PROVE  Spent(o) \subseteq Spent(o)'
  BY DEF Spent

\* Most steps carry nothing.
LEMMA CarriedStays ==
  ASSUME Carried, wire' = wire, nonces \subseteq nonces',
         \A o \in Ends : Taken(o)' \subseteq Taken(o),
         \A o \in Ends : \A x \in Waiting(o)' : x \in Waiting(o) \/ x \notin Spent(o)
  PROVE  Carried'
<1> SUFFICES ASSUME NEW d \in Ends
             PROVE  /\ Sent(d)' \subseteq Spent(Other(d))' /\ Taken(d)' \subseteq Spent(Other(d))'
                    /\ Waiting(Other(d))' \cap Sent(d)' = {} /\ Waiting(Other(d))' \cap Taken(d)' = {}
                    /\ Sent(d)' \cap Taken(d)' = {}
                    /\ Distinct(wire'[d])
                    /\ \A f \in OnWire(d)' : f.kind = "sealed" /\ f.outer = <<>> => f.e = 0 /\ f.inner = <<>>
  BY DEF Carried
<1>1. Sent(d)' = Sent(d) /\ OnWire(d)' = OnWire(d) /\ wire'[d] = wire[d]
  BY DEF Sent, OnWire
<1>2. Spent(Other(d)) \subseteq Spent(Other(d))' /\ Other(d) \in Ends
  BY SpentGrows, OtherEnd
<1> QED
  BY <1>1, <1>2 DEF Carried

\* An envelope stops waiting when it is sent.
LEMMA CarriedSent ==
  ASSUME Shape, Carried, NEW d \in Ends, NEW f \in Frames, wire' = Raw(d, f), nonces' = nonces,
         \A o \in Ends : Taken(o)' \subseteq Taken(o) /\ Waiting(o)' \subseteq Waiting(o),
         f.kind = "sealed" =>
           /\ Number(f) \in Waiting(d) /\ Number(f) \notin Waiting(d)' /\ Number(f) \in Spent(d)
           /\ f.outer = <<>> => f.e = 0 /\ f.inner = <<>>
  PROVE  Carried'
<1> SUFFICES ASSUME NEW end \in Ends
             PROVE  /\ Sent(end)' \subseteq Spent(Other(end))' /\ Taken(end)' \subseteq Spent(Other(end))'
                    /\ Waiting(Other(end))' \cap Sent(end)' = {} /\ Waiting(Other(end))' \cap Taken(end)' = {}
                    /\ Sent(end)' \cap Taken(end)' = {}
                    /\ Distinct(wire'[end])
                    /\ \A g \in OnWire(end)' : g.kind = "sealed" /\ g.outer = <<>> => g.e = 0 /\ g.inner = <<>>
  BY DEF Carried
<1>1. Other(end) \in Ends /\ Spent(Other(end))' = Spent(Other(end)) /\ wire \in [Ends -> Seq(Frames)]
      /\ Other(d) \in Ends /\ Other(Other(d)) = d
  BY OtherEnd DEF Spent, Shape
<1>2. \A g \in OnWire(end)' : g.kind = "sealed" /\ g.outer = <<>> => g.e = 0 /\ g.inner = <<>>
  BY FrameSent DEF Carried
<1>3. CASE link[d] = "open" /\ end = Other(d)
  <2>1. wire'[end] = Append(wire[end], f) /\ wire[end] \in Seq(Frames) /\ Other(end) = d
    BY <1>1, <1>3 DEF Raw
  <2>2. \A x \in Sent(end)' : x \in Sent(end) \/ (f.kind = "sealed" /\ x = Number(f))
    BY <2>1, NumbersAppended DEF Sent
  <2>3. f.kind = "sealed" => Number(f) \notin Sent(end) /\ Number(f) \notin Taken(end)
    BY <2>1 DEF Carried
  <2>4. Distinct(wire'[end])
    BY <2>1, <2>3, NumbersAppended DEF Carried, Sent
  <2> QED
    BY <1>1, <1>2, <2>1, <2>2, <2>3, <2>4 DEF Carried
<1>4. CASE ~(link[d] = "open" /\ end = Other(d))
  <2>1. wire'[end] = wire[end]
    BY <1>1, <1>4 DEF Raw
  <2>2. Sent(end)' = Sent(end)
    BY <2>1 DEF Sent
  <2> QED
    BY <1>1, <1>2, <2>1, <2>2 DEF Carried
<1> QED
  BY <1>3, <1>4

\* It leaves the wire for the end that takes it, or for nobody.
LEMMA CarriedTaken ==
  ASSUME Shape, Carried, NEW d \in Ends, wire[d] # <<>>, TakeFrame(d), nonces' = nonces,
         \A o \in Ends : Waiting(o)' \subseteq Waiting(o),
         \A o \in Ends : \A x \in Taken(o)' :
           x \in Taken(o) \/ (o = d /\ Head(wire[d]).kind = "sealed" /\ x = Number(Head(wire[d])))
  PROVE  Carried'
<1> SUFFICES ASSUME NEW end \in Ends
             PROVE  /\ Sent(end)' \subseteq Spent(Other(end))' /\ Taken(end)' \subseteq Spent(Other(end))'
                    /\ Waiting(Other(end))' \cap Sent(end)' = {} /\ Waiting(Other(end))' \cap Taken(end)' = {}
                    /\ Sent(end)' \cap Taken(end)' = {}
                    /\ Distinct(wire'[end])
                    /\ \A g \in OnWire(end)' : g.kind = "sealed" /\ g.outer = <<>> => g.e = 0 /\ g.inner = <<>>
  BY DEF Carried
<1>1. Other(end) \in Ends /\ Spent(Other(end))' = Spent(Other(end)) /\ wire \in [Ends -> Seq(Frames)]
  BY OtherEnd DEF Spent, Shape
<1>2. \A g \in OnWire(end)' : g.kind = "sealed" /\ g.outer = <<>> => g.e = 0 /\ g.inner = <<>>
  BY FrameTaken DEF Carried
<1>3. CASE end = d
  <2>1. wire'[end] = Tail(wire[end]) /\ wire[end] \in Seq(Frames) /\ wire[end] # <<>>
    BY <1>1, <1>3 DEF TakeFrame
  <2>2. Sent(end)' = Numbers(Tail(wire[end])) /\ Sent(end) = Numbers(wire[end]) /\ Distinct(wire[end])
    BY <2>1 DEF Sent, Carried
  <2>3. /\ Sent(end)' \subseteq Sent(end) /\ Distinct(wire'[end])
        /\ Head(wire[end]).kind = "sealed" =>
             Number(Head(wire[end])) \in Sent(end) /\ Number(Head(wire[end])) \notin Sent(end)'
    BY <2>1, <2>2, NumbersTaken
  <2> QED
    BY <1>1, <1>2, <1>3, <2>3 DEF Carried
<1>4. CASE end # d
  <2>1. wire'[end] = wire[end]
    BY <1>1, <1>4 DEF TakeFrame
  <2>2. Sent(end)' = Sent(end)
    BY <2>1 DEF Sent
  <2> QED
    BY <1>1, <1>2, <1>4, <2>1, <2>2 DEF Carried
<1> QED
  BY <1>3, <1>4

\* Whoever seals keeps both.
LEMMA SealingKeeps ==
  ASSUME Shape, Counted, Carried, NEW d \in Ends, NEW s, NEW new, Seals(d, s, new), wire' = wire
  PROVE  Counted' /\ Carried'
<1>1. \A j \in jobs'[d] : j.job = "encrypt" => j \in jobs[d] \/ j \in new
  BY DEF Seals
<1>2. Counted' /\ \A j \in new : Number(j) \notin Spent(d)
  BY CountedKept
<1>3. /\ session \in [Ends -> Sessions] /\ \A j \in new : j.job = "encrypt"
      /\ \A o \in Ends : session'[o] = IF o = d THEN s ELSE session[o]
  BY DEF Shape, Encrypts, Seals
<1>4. ASSUME NEW o \in Ends PROVE Taken(o)' \subseteq Taken(o)
  <2>1. session'[o].received \subseteq session[o].received
    BY <1>3 DEF Seals
  <2>2. \A j \in jobs'[o] : j.job = "decrypt" => j \in jobs[o]
    BY <1>3 DEF Seals
  <2> QED
    BY <2>1, <2>2 DEF Taken
<1>5. ASSUME NEW o \in Ends, NEW x \in Waiting(o)' PROVE x \in Waiting(o) \/ x \notin Spent(o)
  <2>1. PICK j \in jobs'[o] : j.job = "encrypt" /\ x = Number(j)
    BY <1>5 DEF Waiting
  <2>2. j \in jobs[o] \/ (o = d /\ j \in new)
    BY <1>1, <2>1 DEF Seals
  <2> QED
    BY <1>2, <2>1, <2>2 DEF Waiting
<1>6. Carried'
  BY <1>4, <1>5, CarriedStays DEF Seals
<1> QED
  BY <1>2, <1>6

LEMMA SealsStep == Shape /\ Counted /\ Carried /\ [Next]_vars => (Counted /\ Carried)'
<1> SUFFICES ASSUME Shape, Counted, Carried, [Next]_vars PROVE Counted' /\ Carried'
  OBVIOUS
<1> DEFINE Still(o) == /\ session'[o].keys = session[o].keys
                       /\ session'[o].epoch = session[o].epoch
                       /\ session'[o].sendCounter = session[o].sendCounter
           Unsealed(o) == \A j \in jobs'[o] : j \in jobs[o] \/ j.job \notin {"encrypt", "decrypt"}
<1>1. /\ session \in [Ends -> Sessions] /\ jobs \in [Ends -> SUBSET Jobs]
      /\ \A o \in Ends : session[o] \in Sessions /\ jobs[o] \subseteq Jobs
  BY DEF Shape
\* A step that seals, sends and takes nothing.
<1>2. ASSUME wire' = wire, nonces' = nonces, \A o \in Ends : Still(o) /\ Unsealed(o),
             \A o \in Ends : session'[o].received = session[o].received
      PROVE  Counted' /\ Carried'
  <2>1. Counted'
    BY <1>2, CountedStays
  <2>2. \A o \in Ends : Taken(o)' \subseteq Taken(o)
    BY <1>2 DEF Taken
  <2>3. \A o \in Ends : Waiting(o)' \subseteq Waiting(o)
    BY <1>2 DEF Waiting
  <2> QED
    BY <1>2, <2>1, <2>2, <2>3, CarriedStays
\* A step that takes a frame, and at most has it decrypted.
<1>3. ASSUME NEW d \in Ends, wire[d] # <<>>, TakeFrame(d), nonces' = nonces,
             \A o \in Ends : Still(o) /\ session'[o].received = session[o].received,
             \A o \in Ends \ {d} : jobs'[o] = jobs[o],
             \A j \in jobs'[d] : \/ j \in jobs[d] \/ j.job \notin {"encrypt", "decrypt"}
                                 \/ Head(wire[d]).kind = "sealed" /\ j = Handed("decrypt", Head(wire[d]))
      PROVE  Counted' /\ Carried'
  <2>1. \A o \in Ends : \A j \in jobs'[o] : j \in jobs[o] \/ j.job # "encrypt"
    BY <1>3 DEF Handed
  <2>2. Counted'
    BY <1>3, <2>1, CountedStays
  <2>3. \A o \in Ends : \A x \in Taken(o)' :
          x \in Taken(o) \/ (o = d /\ Head(wire[d]).kind = "sealed" /\ x = Number(Head(wire[d])))
    BY <1>3 DEF Taken, Handed
  <2>4. \A o \in Ends : Waiting(o)' \subseteq Waiting(o)
    BY <2>1 DEF Waiting
  <2> QED
    BY <1>3, <2>2, <2>3, <2>4, CarriedTaken
<1>4. CASE UNCHANGED vars
  BY <1>2, <1>4 DEF vars
<1>5. SUFFICES ASSUME NEW d \in Ends,
                      \/ Open(d) \/ Close(d) \/ Fail(d) \/ Isolate(d)
                      \/ Receive(d) \/ Resume(d) \/ \E m \in Chatter[d] : Say(d, m)
               PROVE  Counted' /\ Carried'
  BY <1>4 DEF Next
<1>6. CASE Open(d)
  <2> DEFINE s == [session[d] EXCEPT !.begun = (d = "initiator")]
  <2>1. s.keys = session[d].keys /\ s.epoch = session[d].epoch /\ s.sendCounter = session[d].sendCounter
        /\ s.received = session[d].received
    BY <1>1 DEF Sessions
  <2>2. session' = session \/ session' = [session EXCEPT ![d] = s]
    BY <1>6 DEF Open
  <2> HIDE DEF s
  <2>3. \A o \in Ends : Still(o) /\ session'[o].received = session[o].received
    BY <1>1, <2>1, <2>2
  <2>4. \A o \in Ends : Unsealed(o)
    BY <1>1, <1>6 DEF Open, Job
  <2>5. wire' = wire /\ nonces' = nonces
    BY <1>6 DEF Open
  <2> QED
    BY <1>2, <2>3, <2>4, <2>5
<1>7. CASE Close(d) \/ Fail(d) \/ Isolate(d)
  <2>1. UNCHANGED <<session, jobs, wire, nonces>>
    BY <1>7 DEF Close, Fail, Isolate
  <2> QED
    BY <1>2, <2>1
<1>8. CASE ReceiveHello(d)
  <2> DEFINE s == [session[d] EXCEPT !.begun = TRUE]
  <2>1. s.keys = session[d].keys /\ s.epoch = session[d].epoch /\ s.sendCounter = session[d].sendCounter
        /\ s.received = session[d].received
    BY <1>1 DEF Sessions
  <2>2. session' = [session EXCEPT ![d] = s] /\ wire[d] # <<>> /\ TakeFrame(d) /\ nonces' = nonces
    BY <1>8 DEF ReceiveHello
  <2> HIDE DEF s
  <2>3. \A o \in Ends : Still(o) /\ session'[o].received = session[o].received
    BY <1>1, <2>1, <2>2
  <2>4. /\ \A o \in Ends \ {d} : jobs'[o] = jobs[o]
        /\ \A j \in jobs'[d] : j \in jobs[d] \/ j.job \notin {"encrypt", "decrypt"}
    BY <1>1, <1>8 DEF ReceiveHello, Job
  <2> QED
    BY <1>3, <2>2, <2>3, <2>4
<1>9. CASE ReceiveConfirm(d)
  <2>1. wire[d] # <<>> /\ TakeFrame(d) /\ UNCHANGED <<session, nonces>>
    BY <1>9 DEF ReceiveConfirm
  <2>2. /\ \A o \in Ends \ {d} : jobs'[o] = jobs[o]
        /\ \A j \in jobs'[d] : j \in jobs[d] \/ j.job \notin {"encrypt", "decrypt"}
    BY <1>1, <1>9 DEF ReceiveConfirm, Handed
  <2> QED
    BY <1>3, <2>1, <2>2
<1>10. CASE ReceiveSealed(d)
  <2>1. wire[d] # <<>> /\ TakeFrame(d) /\ Head(wire[d]).kind = "sealed" /\ UNCHANGED <<session, nonces>>
    BY <1>10 DEF ReceiveSealed
  <2>2. /\ \A o \in Ends \ {d} : jobs'[o] = jobs[o]
        /\ \A j \in jobs'[d] : j \in jobs[d] \/ j = Handed("decrypt", Head(wire[d]))
    BY <1>1, <1>10 DEF ReceiveSealed
  <2> QED
    BY <1>3, <2>1, <2>2
<1>11. CASE AcceptHello(d)
  <2> DEFINE s == [session[d] EXCEPT !.established = TRUE]
  <2>1. s.keys = session[d].keys /\ s.epoch = session[d].epoch /\ s.sendCounter = session[d].sendCounter
        /\ s.received = session[d].received
    BY <1>1 DEF Sessions
  <2>2. session' = session \/ session' = [session EXCEPT ![d] = s]
    BY <1>11 DEF AcceptHello
  <2> HIDE DEF s
  <2>3. \A o \in Ends : Still(o) /\ session'[o].received = session[o].received
    BY <1>1, <2>1, <2>2
  <2>4. \A o \in Ends : Unsealed(o)
    BY <1>1, <1>11 DEF AcceptHello, Job
  <2>5. wire' = wire /\ nonces' = nonces
    BY <1>11 DEF AcceptHello
  <2> QED
    BY <1>2, <2>3, <2>4, <2>5
\* A step that sends a frame of the handshake.
<1>12. ASSUME NEW f \in Frames, f.kind # "sealed", wire' = Raw(d, f), nonces' = nonces,
              \A o \in Ends : Still(o) /\ Unsealed(o),
              \A o \in Ends : session'[o].received = session[o].received
       PROVE  Counted' /\ Carried'
  <2>1. Counted'
    BY <1>12, CountedStays
  <2>2. \A o \in Ends : Taken(o)' \subseteq Taken(o)
    BY <1>12 DEF Taken
  <2>3. \A o \in Ends : Waiting(o)' \subseteq Waiting(o)
    BY <1>12 DEF Waiting
  <2> QED
    BY <1>12, <2>1, <2>2, <2>3, CarriedSent
<1>13. CASE Confirmation(d)
  <2> DEFINE f == [kind |-> "confirm", mac |-> meeting.secret[d]]
  <2>1. f \in Frames /\ f.kind # "sealed"
    BY MeetingShape DEF Frames
  <2>2. wire' = Raw(d, f) /\ UNCHANGED <<session, nonces>>
    BY <1>13 DEF Confirmation
  <2> HIDE DEF f
  <2>3. \A o \in Ends : Unsealed(o)
    BY <1>1, <1>13 DEF Confirmation
  <2> QED
    BY <1>12, <2>1, <2>2, <2>3
<1>14. ASSUME NEW j \in jobs[d], CreateHello(d, j) PROVE Counted' /\ Carried'
  <2> DEFINE s == [session[d] EXCEPT !.ownHello = TRUE]
  <2>1. s.keys = session[d].keys /\ s.epoch = session[d].epoch /\ s.sendCounter = session[d].sendCounter
        /\ s.received = session[d].received
    BY <1>1 DEF Sessions
  <2>2. session' = session \/ session' = [session EXCEPT ![d] = s]
    BY <1>14 DEF CreateHello
  <2> HIDE DEF s
  <2>3. \A o \in Ends : Still(o) /\ session'[o].received = session[o].received
    BY <1>1, <2>1, <2>2
  <2>4. \A o \in Ends : Unsealed(o)
    BY <1>1, <1>14 DEF CreateHello, Job
  <2>5. nonces' = nonces /\ (wire' = wire \/ wire' = Raw(d, Hello))
    BY <1>14 DEF CreateHello
  <2>6. Hello \in Frames /\ Hello.kind # "sealed"
    BY DEF Hello, Frames
  <2> QED
    BY <1>2, <1>12, <2>3, <2>4, <2>5, <2>6
<1>15. ASSUME NEW j \in jobs[d], CheckConfirmation(d, j) PROVE Counted' /\ Carried'
  <2>1. UNCHANGED <<session, wire, nonces>>
    BY <1>15 DEF CheckConfirmation
  <2>2. \A o \in Ends : Unsealed(o)
    BY <1>1, <1>15 DEF CheckConfirmation, Job
  <2> QED
    BY <1>2, <2>1, <2>2
<1>16. \A o \in Ends : session[o].keys = <<>> <=> session[o].epoch = 0
  BY DEF Counted
<1>17. ASSUME NEW m \in Chatter[d], Say(d, m) PROVE Counted' /\ Carried'
  <2>1. wire' = wire
    BY <1>17 DEF Say
  <2>2. CASE UNCHANGED <<session, jobs, nonces>>
    BY <1>2, <2>1, <2>2
  <2>3. CASE ~UNCHANGED <<session, jobs, nonces>>
    <3> DEFINE outcome == StartSeal(session[d], m)
               new == {j \in {outcome.job} : j.job = "encrypt"}
               s == outcome.session
    <3>1. m \in Messages
      BY DEF Messages
    <3>2. /\ session' = [session EXCEPT ![d] = s] /\ jobs' = [jobs EXCEPT ![d] = jobs[d] \cup {outcome.job}]
          /\ nonces' = nonces \cup {NonceOf(d, j) : j \in new}
      BY <1>17, <2>3 DEF Say, NoncesOf
    <3>3. /\ s \in Sessions /\ new \in SUBSET Encrypts
          /\ s.keys = session[d].keys /\ s.epoch = session[d].epoch /\ s.received = session[d].received
          /\ s.sendCounter >= session[d].sendCounter
      BY <1>1, <3>1, StartSealShape, SealedAtOnce
    <3>4. session[d].sendCounter \in Nat
      BY <1>1, MeetingShape DEF Sessions
    <3>5. \A j \in new : /\ j.e = s.epoch /\ j.inner = s.keys
                         /\ j.c = session[d].sendCounter /\ s.sendCounter = session[d].sendCounter + 1
      BY <1>1, <3>1, SealedAtOnce
    <3>6. \A j, k \in new : j = k
      OBVIOUS
    <3>7. \A j \in jobs'[d] : j \in jobs[d] \/ j \in new \/ j.job \notin {"encrypt", "decrypt"}
      <4>1. outcome.job.job \in {"encrypt", "ratchet"}
        BY DEF StartSeal
      <4> QED
        BY <1>1, <3>2, <4>1
    <3>8. \A o \in Ends \ {d} : jobs'[o] = jobs[o]
      BY <1>1, <3>2
    <3>9. /\ \A j \in new : j.c < s.sendCounter /\ j.c >= session[d].sendCounter
      BY <3>4, <3>5
    <3> HIDE DEF outcome, new, s
    <3>10. session'[d] = s /\ \A o \in Ends \ {d} : session'[o] = session[o]
      BY <1>1, <3>2
    <3>11. Seals(d, s, new)
      BY <1>16, <3>2, <3>3, <3>5, <3>6, <3>7, <3>8, <3>9, <3>10 DEF Seals
    <3> QED
      BY <2>1, <3>11, SealingKeeps
  <2> QED
    BY <2>2, <2>3
<1>18. CASE Secure(d)
  <2>1. wire' = wire
    BY <1>18 DEF Secure
  <2>2. CASE meeting.doubt[d] = "barred"
    <3>1. session' = session /\ nonces' = nonces
      BY <1>18, <2>2 DEF Secure
    <3>2. \A o \in Ends : Unsealed(o)
      BY <1>1, <1>18, <2>2 DEF Secure
    <3> QED
      BY <1>2, <2>1, <3>1, <3>2
  <2>3. CASE meeting.doubt[d] # "barred"
    <3> DEFINE greeting == IF link[d] = "dropped" THEN <<>> ELSE <<"hello">>
               all == IF isolated[d] = "now" THEN <<>> ELSE greeting \o outbox[d] \o <<"roster">>
               outcome == SealAll(session[d], all)
               new == {j \in outcome.jobs : j.job = "encrypt"}
               s == outcome.session
    <3>1. all \in Seq(Messages)
      BY FlushShape
    <3>2. /\ session' = [session EXCEPT ![d] = s]
          /\ jobs' = [jobs EXCEPT ![d] = (jobs[d] \ {Job("safetyWord")}) \cup outcome.jobs]
          /\ nonces' = nonces \cup {NonceOf(d, j) : j \in new}
      BY <1>18, <2>3 DEF Secure, NoncesOf
    <3> HIDE DEF all
    <3>3. \A j \in outcome.jobs : j.job \in {"encrypt", "ratchet"}
      BY <1>1, <3>1, SealAllShape DEF Ratchets, Encrypts
    <3>4. s \in Sessions
      BY <1>1, <3>1, SealAllShape
    <3>5. /\ s.keys = session[d].keys /\ s.epoch = session[d].epoch /\ s.received = session[d].received
          /\ s.sendCounter >= session[d].sendCounter
          /\ \A j \in new : /\ j \in Encrypts /\ j.e = session[d].epoch /\ j.inner = session[d].keys
                            /\ session[d].sendCounter <= j.c /\ j.c < s.sendCounter
          /\ \A j, k \in new : j.c = k.c => j = k
      BY <1>1, <3>1, SealedInTurn
    <3>6. \A j \in jobs'[d] : j \in jobs[d] \/ j \in new \/ j.job \notin {"encrypt", "decrypt"}
      BY <1>1, <3>2, <3>3
    <3>7. \A o \in Ends \ {d} : jobs'[o] = jobs[o]
      BY <1>1, <3>2
    <3>8. session[d].sendCounter \in Nat /\ \A j \in new : j.c \in Nat
      BY <1>1, <3>5, MeetingShape DEF Sessions, Encrypts
    <3> HIDE DEF outcome, new, s
    <3>9. \A j \in new : /\ j.e = s.epoch /\ j.inner = s.keys /\ j.c < s.sendCounter
                         /\ j.c >= session[d].sendCounter
      BY <3>5, <3>8
    <3>10. new \in SUBSET Encrypts
      BY <3>5
    <3>11. session'[d] = s /\ \A o \in Ends \ {d} : session'[o] = session[o]
      BY <1>1, <3>2
    <3>12. Seals(d, s, new)
      BY <1>16, <3>2, <3>4, <3>5, <3>6, <3>7, <3>9, <3>10, <3>11 DEF Seals
    <3> QED
      BY <2>1, <3>12, SealingKeeps
  <2> QED
    BY <2>2, <2>3
<1>19. ASSUME NEW j \in jobs[d], Ratchet(d, j) PROVE Counted' /\ Carried'
  <2> DEFINE s == Ratcheted(session[d], j)
             k == [job |-> "encrypt", msg |-> j.msg, e |-> s.epoch, c |-> s.sendCounter - 1, inner |-> s.keys]
             new == {k}
  <2>1. j \in Ratchets
    BY <1>1, <1>19, KindsOfJobs DEF Ratchet
  <2>2. /\ s \in Sessions /\ s.epoch = session[d].epoch + 1 /\ s.sendCounter = 1
        /\ s.keys # <<>> /\ s.received = {}
    BY <1>1, <2>1, RatchetedShape
  <2>3. /\ session' = [session EXCEPT ![d] = s] /\ wire' = wire
        /\ jobs' = [jobs EXCEPT ![d] = (jobs[d] \ {j}) \cup {k}]
        /\ nonces' = nonces \cup {NonceOf(d, i) : i \in new}
    BY <1>19 DEF Ratchet
  <2> HIDE DEF s
  <2>4. k \in Encrypts /\ k.e = s.epoch /\ k.c = 0 /\ k.inner = s.keys
    BY <2>1, <2>2 DEF Encrypts, Ratchets, Sessions
  <2> HIDE DEF k
  <2>5. session[d].epoch \in Nat /\ s.epoch # 0 /\ s.epoch > session[d].epoch
    BY <1>1, <2>2 DEF Sessions
  <2>6. /\ \A i \in jobs'[d] : i \in jobs[d] \/ i \in new \/ i.job \notin {"encrypt", "decrypt"}
        /\ \A o \in Ends \ {d} : jobs'[o] = jobs[o]
    BY <1>1, <2>3
  <2>7. /\ new \in SUBSET Encrypts
        /\ \A i \in new : i.e = s.epoch /\ i.inner = s.keys /\ i.c < s.sendCounter /\ i.e > session[d].epoch
        /\ \A i, o \in new : i.c = o.c => i = o
    BY <2>2, <2>4, <2>5
  <2> HIDE DEF new
  <2>8. session'[d] = s /\ \A o \in Ends \ {d} : session'[o] = session[o]
    BY <1>1, <2>3
  <2>9. Seals(d, s, new)
    BY <2>2, <2>3, <2>5, <2>6, <2>7, <2>8 DEF Seals
  <2> QED
    BY <2>3, <2>9, SealingKeeps
<1>20. ASSUME NEW j \in jobs[d], Encrypt(d, j) PROVE Counted' /\ Carried'
  <2> DEFINE f == [kind |-> "sealed", msg |-> j.msg, e |-> j.e, c |-> j.c,
                   inner |-> j.inner, outer |-> session[d].keys]
  <2>1. j \in Encrypts /\ j.job = "encrypt"
    BY <1>1, <1>20, KindsOfJobs DEF Encrypt
  <2>2. f \in Frames /\ f.kind = "sealed" /\ Number(f) = Number(j) /\ f.outer = session[d].keys
        /\ f.e = j.e /\ f.inner = j.inner
    BY <1>1, <2>1 DEF Encrypts, Sessions, Frames, Number
  <2>3. /\ wire' = Raw(d, f) /\ jobs' = [jobs EXCEPT ![d] = jobs[d] \ {j}]
        /\ UNCHANGED <<session, nonces>>
    BY <1>20 DEF Encrypt
  <2> HIDE DEF f
  <2>4. \A o \in Ends : jobs'[o] \subseteq jobs[o]
    BY <1>1, <2>3
  <2>5. Counted'
    BY <2>3, <2>4, CountedStays
  <2>6. \A o \in Ends : Taken(o)' \subseteq Taken(o) /\ Waiting(o)' \subseteq Waiting(o)
    BY <2>3, <2>4 DEF Taken, Waiting
  <2>7. NonceOf(d, j) \in nonces
    BY <2>1 DEF Counted, NoncesOf
  <2>8. Number(j) \in Waiting(d) /\ Number(j) \in Spent(d)
    BY <2>1, <2>7, NonceOfJob DEF Waiting, Spent, Number
  <2>9. Number(j) \notin Waiting(d)'
    <3> SUFFICES ASSUME NEW k \in jobs'[d], k.job = "encrypt", Number(k) = Number(j) PROVE FALSE
      BY DEF Waiting
    <3>1. k \in jobs[d] /\ k # j
      BY <1>1, <2>3
    <3>2. k \in Encrypts
      BY <1>1, <3>1, KindsOfJobs
    <3>3. NonceOf(d, k) \in nonces
      BY <3>1 DEF Counted, NoncesOf
    <3>4. k.e = j.e /\ k.c = j.c
      BY DEF Number
    <3>5. NonceOf(d, k) = NonceOf(d, j)
      BY <2>1, <2>7, <3>2, <3>3, <3>4, NonceOfJob DEF Counted
    <3>6. k.inner = j.inner /\ k.msg = j.msg
      BY <3>5 DEF NonceOf
    <3> QED
      BY <2>1, <3>1, <3>2, <3>4, <3>6 DEF Encrypts
  <2>10. f.outer = <<>> => f.e = 0 /\ f.inner = <<>>
    <3> SUFFICES ASSUME session[d].keys = <<>> PROVE j.e = 0 /\ j.inner = <<>>
      BY <2>2
    <3>1. session[d].epoch = 0 /\ j.e \in Nat
      BY <1>16, <2>1 DEF Encrypts
    <3>2. j.e <= session[d].epoch
      BY <2>1, <2>7, NonceOfJob DEF Counted
    <3> QED
      BY <2>1, <2>7, <3>1, <3>2, NonceOfJob DEF Counted
  <2>11. Carried'
    BY <2>2, <2>3, <2>6, <2>8, <2>9, <2>10, CarriedSent
  <2> QED
    BY <2>5, <2>11
<1>21. ASSUME NEW j \in jobs[d], Decrypt(d, j) PROVE Counted' /\ Carried'
  <2> DEFINE s == Recorded(session[d], j.frame)
  <2>1. j \in Decrypts /\ j.job = "decrypt" /\ j.frame \in Envelopes
    <3>1. j \in Decrypts /\ j.job = "decrypt"
      BY <1>1, <1>21, KindsOfJobs DEF Decrypt
    <3> QED
      BY <3>1 DEF Decrypts
  <2>2. /\ s.keys = session[d].keys /\ s.epoch = session[d].epoch /\ s.sendCounter = session[d].sendCounter
        /\ s.received \subseteq session[d].received \cup {Number(j.frame)}
    BY <1>1, <2>1, RecordedShape DEF Number
  <2>3. /\ session' = [session EXCEPT ![d] = s] /\ wire' = wire /\ nonces' = nonces
        /\ jobs' = [jobs EXCEPT ![d] = jobs[d] \ {j}]
    BY <1>21 DEF Decrypt
  <2> HIDE DEF s
  <2>4. \A o \in Ends : Still(o) /\ jobs'[o] \subseteq jobs[o]
    BY <1>1, <2>2, <2>3
  <2>5. Counted'
    BY <2>3, <2>4, CountedStays
  <2>6. \A o \in Ends : session'[o].received \subseteq session[o].received \cup
                          IF o = d THEN {Number(j.frame)} ELSE {}
    BY <1>1, <2>2, <2>3
  <2>7. \A o \in Ends : Taken(o)' \subseteq Taken(o)
    BY <2>1, <2>4, <2>6 DEF Taken
  <2>8. \A o \in Ends : Waiting(o)' \subseteq Waiting(o)
    BY <2>4 DEF Waiting
  <2>9. Carried'
    BY <2>3, <2>7, <2>8, CarriedStays
  <2> QED
    BY <2>5, <2>9
<1> QED
  BY <1>5, <1>6, <1>7, <1>8, <1>9, <1>10, <1>11, <1>13, <1>14, <1>15, <1>17, <1>18, <1>19,
     <1>20, <1>21 DEF Receive, Resume

-----------------------------------------------------------------------------
(* Opening.                                                                *)

\* Before any ratchet, a secured end that is not frozen takes what it reads.
Taking ==
  \A d \in Ends :
    Read(d) /\ Head(wire[d]).kind = "sealed" /\ secured[d] /\ isolated[d] # "now"
      /\ session[d].keys = <<>> /\ Head(wire[d]).outer = <<>>
      /\ Head(wire[d]).c >= session[d].highestSeen - Window => Opens(d)

\* Only the end itself takes a frame from its wire.
LEMMA WhoReads ==
  ASSUME Shape, [Next]_vars, NEW d \in Ends, Read(d), Head(wire[d]).kind = "sealed"
  PROVE  ReceiveSealed(d)
<1>1. wire \in [Ends -> Seq(Frames)] /\ wire[d] \in Seq(Frames) /\ wire[d] # <<>>
  BY DEF Shape, Read
<1>2. Len(wire'[d]) = Len(wire[d]) - 1 /\ Len(wire[d]) \in Nat
  BY <1>1 DEF Read
<1>3. wire'[d] # wire[d]
  BY <1>1, <1>2
<1>4. ASSUME NEW o \in Ends, NEW f, wire' = Raw(o, f) PROVE FALSE
  <2>1. wire'[d] = wire[d] \/ wire'[d] = Append(wire[d], f)
    BY <1>1, <1>4 DEF Raw
  <2> QED
    BY <1>1, <1>2, <1>3, <2>1
<1>5. ~UNCHANGED vars
  BY <1>3 DEF vars
<1>6. PICK o \in Ends : \/ Open(o) \/ Close(o) \/ Fail(o) \/ Isolate(o)
                        \/ Receive(o) \/ Resume(o) \/ \E m \in Chatter[o] : Say(o, m)
  BY <1>5 DEF Next
<1>7. ~(Open(o) \/ Close(o) \/ Fail(o) \/ Isolate(o) \/ \E m \in Chatter[o] : Say(o, m))
  BY <1>3 DEF Open, Close, Fail, Isolate, Say
<1>8. ~Resume(o)
  <2>1. ~(AcceptHello(o) \/ Confirmation(o) \/ Secure(o))
    BY <1>3, <1>4 DEF AcceptHello, Confirmation, Secure
  <2>2. ASSUME NEW j \in jobs[o] PROVE ~(CheckConfirmation(o, j) \/ Ratchet(o, j) \/ Decrypt(o, j))
    BY <1>3 DEF CheckConfirmation, Ratchet, Decrypt
  <2>3. ASSUME NEW j \in jobs[o] PROVE ~(CreateHello(o, j) \/ Encrypt(o, j))
    BY <1>3, <1>4 DEF CreateHello, Encrypt
  <2> QED
    BY <2>1, <2>2, <2>3 DEF Resume
<1>9. Receive(o)
  BY <1>6, <1>7, <1>8
<1>10. o = d
  <2>1. TakeFrame(o)
    BY <1>9 DEF Receive, ReceiveHello, ReceiveConfirm, ReceiveSealed
  <2> QED
    BY <1>1, <1>3, <2>1 DEF TakeFrame
<1> QED
  BY <1>9, <1>10 DEF Receive, ReceiveHello, ReceiveConfirm

LEMMA TakingStep == Shape /\ Carried /\ [Next]_vars => Taking
<1> SUFFICES ASSUME Shape, Carried, [Next]_vars, NEW d \in Ends,
                    Read(d), Head(wire[d]).kind = "sealed", secured[d], isolated[d] # "now",
                    session[d].keys = <<>>, Head(wire[d]).outer = <<>>,
                    Head(wire[d]).c >= session[d].highestSeen - Window
             PROVE  Opens(d)
  BY DEF Taking
<1> DEFINE f == Head(wire[d])
           s == session[d]
<1>1. ReceiveSealed(d)
  BY WhoReads
<1>2. wire[d] \in Seq(Frames) /\ wire[d] # <<>> /\ s \in Sessions
  BY DEF Shape, Read
<1>3. f \in OnWire(d) /\ Number(f) \in Sent(d)
  <2>1. TakeFrame(d)
    BY <1>1 DEF ReceiveSealed
  <2> QED
    BY <1>2, <2>1, FrameTaken, NumbersTaken DEF Sent
<1>4. f.e = 0 /\ f.inner = <<>>
  BY <1>3 DEF Carried
<1>5. <<f.e, f.c>> \notin s.received
  BY <1>3 DEF Carried, Taken, Number
<1>6. s.epoch \in Nat
  BY <1>2 DEF Sessions
<1>7. Admits(s, f) /\ f.inner = s.keys
  BY <1>4, <1>5, <1>6 DEF Admits
<1>8. jobs \in [Ends -> SUBSET Jobs]
  BY DEF Shape
<1> QED
  BY <1>1, <1>7, <1>8 DEF ReceiveSealed, Opens

(* What sealing and opening promise each other.  A ratchet moves to an     *)
(* epoch no call has sealed in, so its first counter is as fresh as those  *)
(* counted up before it; and what an end holds in its record of the        *)
(* counters it has seen it never sees again, so the record refuses nothing *)
(* that was sealed (seal, ratchet, open).                                  *)
THEOREM SealsHold == Spec => SealsAreSound
<1>1. Init => Shape /\ Counted /\ Carried
  <2> SUFFICES ASSUME Init PROVE Counted /\ Carried
    BY InitShape
  <2>1. Counted
    BY DEF Init, NewSession, Counted, NoncesOf
  <2>2. Carried
    BY OtherEnd DEF Init, NewSession, Carried, Sent, Taken, Waiting, Spent, Numbers, Distinct, OnWire
  <2> QED
    BY <2>1, <2>2
<1>2. Shape /\ Counted /\ Carried /\ [Next]_vars => (Shape /\ Counted /\ Carried)'
  BY ShapeStep, SealsStep
<1>3. Counted => NoncesAreFresh
  <2> SUFFICES ASSUME Counted, NEW n \in nonces, NEW m \in nonces, \A i \in 1 .. 4 : n[i] = m[i]
               PROVE  n = m
    BY DEF NoncesAreFresh
  <2>1. n[1] = m[1] /\ n[3] = m[3] /\ n[4] = m[4]
    OBVIOUS
  <2> QED
    BY <2>1 DEF Counted
<1>4. Shape /\ Carried /\ [Next]_vars => [Taking]_vars
  BY TakingStep
<1>5. Spec => [][Taking]_vars /\ []NoncesAreFresh
  BY <1>1, <1>2, <1>3, <1>4, PTL DEF Spec
<1> QED
  BY <1>5 DEF SealsAreSound, FirstEpochIsOpened, Taking

-----------------------------------------------------------------------------
(* The queue.                                                              *)

Flushed ==
  \A d \in Ends :
    /\ Job("safetyWord") \in jobs[d] => secured[d]
    /\ opened[d] => secured[d] /\ outbox[d] = <<>>

LEMMA FlushedKept ==
  ASSUME Flushed,
         \A o \in Ends :
           /\ Job("safetyWord") \in jobs'[o] => Job("safetyWord") \in jobs[o] \/ secured'[o]
           /\ secured[o] => secured'[o]
           /\ opened'[o] => \/ opened[o] /\ outbox'[o] = outbox[o]
                            \/ secured[o] /\ outbox'[o] = <<>>
  PROVE  Flushed'
  BY DEF Flushed

LEMMA FlushedStep == Shape /\ Flushed /\ [Next]_vars => Flushed'
<1> SUFFICES ASSUME Shape, Flushed, [Next]_vars PROVE Flushed'
  OBVIOUS
<1> DEFINE Unnamed(o) == Job("safetyWord") \in jobs'[o] => Job("safetyWord") \in jobs[o]
<1>1. CASE UNCHANGED vars
  BY <1>1 DEF vars, Flushed
<1>2. SUFFICES ASSUME NEW d \in Ends,
                      \/ Open(d) \/ Close(d) \/ Fail(d) \/ Isolate(d)
                      \/ Receive(d) \/ Resume(d) \/ \E m \in Chatter[d] : Say(d, m)
               PROVE  Flushed'
  BY <1>1 DEF Next
<1>3. /\ jobs \in [Ends -> SUBSET Jobs] /\ secured \in [Ends -> BOOLEAN] /\ opened \in [Ends -> BOOLEAN]
      /\ outbox \in [Ends -> Seq(Messages)]
  BY DEF Shape
<1>4. ASSUME UNCHANGED <<secured, opened, outbox>>, \A o \in Ends : Unnamed(o) PROVE Flushed'
  BY <1>4, FlushedKept
<1>12. \A name \in {"createHello", "answerHello", "acceptHello", "confirmation"} : Job(name) # Job("safetyWord")
  <2> SUFFICES ASSUME NEW name \in {"createHello", "answerHello", "acceptHello", "confirmation"},
                      Job(name) = Job("safetyWord")
               PROVE  FALSE
    OBVIOUS
  <2>1. Job(name).job = name /\ Job("safetyWord").job = "safetyWord"
    BY DEF Job
  <2> QED
    BY <2>1
<1>13. ASSUME NEW f PROVE Handed("decrypt", f) # Job("safetyWord") /\ Handed("checkConfirmation", f) # Job("safetyWord")
  BY DEF Handed, Job
<1>5. CASE Open(d) \/ Close(d) \/ Fail(d) \/ Isolate(d)
  <2>1. UNCHANGED <<secured, opened, outbox>>
    BY <1>5 DEF Open, Close, Fail, Isolate
  <2>2. \A o \in Ends : Unnamed(o)
    BY <1>3, <1>5, <1>12 DEF Open, Close, Fail, Isolate
  <2> QED
    BY <1>4, <2>1, <2>2
<1>6. CASE Receive(d)
  <2>1. UNCHANGED <<secured, opened, outbox>>
    BY <1>6 DEF Receive, ReceiveHello, ReceiveConfirm, ReceiveSealed
  <2>2. ReceiveHello(d) => \A o \in Ends : Unnamed(o)
    BY <1>3, <1>12 DEF ReceiveHello
  <2>3. ReceiveConfirm(d) \/ ReceiveSealed(d) => \A o \in Ends : Unnamed(o)
    BY <1>3, <1>13 DEF ReceiveConfirm, ReceiveSealed
  <2> QED
    BY <1>4, <1>6, <2>1, <2>2, <2>3 DEF Receive
<1>7. CASE AcceptHello(d) \/ Confirmation(d)
  <2>1. UNCHANGED <<secured, opened, outbox>>
    BY <1>7 DEF AcceptHello, Confirmation
  <2>2. \A o \in Ends : Unnamed(o)
    BY <1>3, <1>7, <1>12 DEF AcceptHello, Confirmation
  <2> QED
    BY <1>4, <2>1, <2>2
<1>8. CASE Secure(d)
  <2>1. CASE meeting.doubt[d] = "barred"
    BY <1>3, <1>4, <1>8, <2>1 DEF Secure
  <2>2. CASE meeting.doubt[d] # "barred"
    <3>1. secured' = secured /\ secured[d]
      BY <1>8 DEF Secure, Flushed
    <3>2. \A o \in Ends : /\ o = d => outbox'[o] = <<>>
                          /\ o # d => outbox'[o] = outbox[o] /\ jobs'[o] = jobs[o] /\ opened'[o] = opened[o]
      BY <1>3, <1>8, <2>2 DEF Secure
    <3> QED
      BY <3>1, <3>2, FlushedKept
  <2> QED
    BY <2>1, <2>2
<1>9. ASSUME NEW j \in jobs[d], CreateHello(d, j) \/ Ratchet(d, j) \/ Encrypt(d, j) \/ Decrypt(d, j)
      PROVE  Flushed'
  BY <1>3, <1>4, <1>9 DEF CreateHello, Ratchet, Encrypt, Decrypt, Job
<1>10. ASSUME NEW j \in jobs[d], CheckConfirmation(d, j) PROVE Flushed'
  <2>1. UNCHANGED <<opened, outbox>>
    BY <1>10 DEF CheckConfirmation
  <2>2. \A o \in Ends : /\ Job("safetyWord") \in jobs'[o] => Job("safetyWord") \in jobs[o] \/ secured'[o]
                        /\ secured[o] => secured'[o]
    BY <1>3, <1>10 DEF CheckConfirmation
  <2> QED
    BY <2>1, <2>2, FlushedKept
<1>11. ASSUME NEW m \in Chatter[d], Say(d, m) PROVE Flushed'
  <2>1. UNCHANGED <<secured, opened>>
    BY <1>11 DEF Say
  <2>2. \A o \in Ends : secured[o] => outbox'[o] = outbox[o]
    BY <1>3, <1>11 DEF Say
  <2>3. \A o \in Ends : Unnamed(o)
    BY <1>3, <1>11 DEF Say, StartSeal, Job
  <2>4. \A o \in Ends : opened[o] => outbox'[o] = outbox[o]
    BY <2>2 DEF Flushed
  <2> QED
    BY <2>1, <2>3, <2>4, FlushedKept
<1> QED
  BY <1>2, <1>5, <1>6, <1>7, <1>8, <1>9, <1>10, <1>11 DEF Resume

(* No message is left behind in the queue of a link that has been           *)
(* introduced: a message is queued only before the link is secured, and    *)
(* the queue leaves after that (#sealTo, #secure).                         *)
THEOREM NothingIsLeftBehind == Spec => []NothingStrands
<1>1. Init => Shape /\ Flushed
  BY InitShape DEF Init, Flushed
<1>2. Shape /\ Flushed /\ [Next]_vars => (Shape /\ Flushed)'
  BY ShapeStep, FlushedStep
<1>3. Flushed => NothingStrands
  BY DEF Flushed, NothingStrands
<1> QED
  BY <1>1, <1>2, <1>3, PTL DEF Spec

-----------------------------------------------------------------------------
(* The first hello.                                                        *)

\* The way to the moment an end o is introduced: its hello is made, sent and
\* accepted, and the other's confirmation is made, sent and checked.
Pending(d, name) == \E j \in jobs[d] : j.job = name
Coming(d, kind) == \E f \in OnWire(d) : f.kind = kind
Stages == 1 .. 10

Stage(o, n) ==
  \/ n = 1 /\ Pending(o, "createHello")
  \/ n = 2 /\ Pending(o, "answerHello")
  \/ n = 3 /\ Coming(Other(o), "hello")
  \/ n = 4 /\ Pending(Other(o), "answerHello")
  \/ n = 5 /\ Pending(Other(o), "acceptHello")
  \/ n = 6 /\ Pending(Other(o), "confirmation")
  \/ n = 7 /\ Coming(o, "confirm")
  \/ n = 8 /\ Pending(o, "checkConfirmation")
  \/ n = 9 /\ Pending(o, "safetyWord")
  \/ n = 10 /\ opened[o]

Once(q) ==
  \A i, k \in DOMAIN q : q[i].kind = q[k].kind /\ q[i].kind \in {"hello", "confirm"} => i = k

\* An end goes that way once, one stage at a time.
OneWay ==
  \A o \in Ends :
    /\ \A m, n \in Stages : Stage(o, m) /\ Stage(o, n) => m = n
    /\ Once(wire[o])
    /\ \A j, k \in jobs[o] : j.job = "checkConfirmation" /\ k.job = "checkConfirmation" => j = k
    /\ ~session[o].begun => \A n \in Stages : ~Stage(o, n)
    /\ ~session["initiator"].begun => \A n \in Stages : ~Stage(o, n)

\* Nothing happens at an end before its channel opens.
Waits ==
  \A d \in Ends : link[d] = "connecting" =>
    jobs[d] = {} /\ ~opened[d] /\ ~secured[d] /\ ~session[d].begun

\* In its first epoch an end seals no more than it has to say, its hello and the roster.
Budget ==
  \A d \in Ends :
    /\ said[d] \subseteq Chatter[d]
    /\ session[d].epoch = 0 =>
         /\ session[d].sendCounter + Len(outbox[d]) <= Cardinality(said[d]) + (IF opened[d] THEN 2 ELSE 0)
         /\ session[Other(d)].highestSeen < session[d].sendCounter

\* Neither end has more to say than the window holds, with the hello and the roster.
FewWords == \A d \in Ends : IsFiniteSet(Chatter[d]) /\ Cardinality(Chatter[d]) + 1 <= Window

Calm == \A d \in Ends : link[d] # "dropped" /\ isolated[d] = "never" /\ session[d].epoch = 0

\* A hello of end d is being sealed, sent, opened, or was heard.
Travels(d) ==
  \/ \E j \in jobs[d] : j.job \in {"encrypt", "ratchet"} /\ j.msg = "hello"
  \/ \E f \in OnWire(Other(d)) : f.kind = "sealed" /\ f.msg = "hello" /\ f.outer = <<>>
  \/ \E j \in jobs[Other(d)] : j.job = "decrypt" /\ j.frame.msg = "hello"
  \/ "hello" \in heard[Other(d)]

OnItsWay == Calm /\ (\A d \in Ends : opened[d]) => \E d \in Ends : Travels(d)

-----------------------------------------------------------------------------
LEMMA WaitsStep == Shape /\ Waits /\ [Next]_vars => Waits'
<1> SUFFICES ASSUME Shape, Waits, [Next]_vars PROVE Waits'
  OBVIOUS
<1>1. CASE UNCHANGED vars
  BY <1>1 DEF vars, Waits
<1>2. SUFFICES ASSUME NEW d \in Ends,
                      \/ Open(d) \/ Close(d) \/ Fail(d) \/ Isolate(d)
                      \/ Receive(d) \/ Resume(d) \/ \E m \in Chatter[d] : Say(d, m)
               PROVE  Waits'
  BY <1>1 DEF Next
<1>3. /\ jobs \in [Ends -> SUBSET Jobs] /\ session \in [Ends -> Sessions]
      /\ link \in [Ends -> {"connecting", "open", "dropped"}]
      /\ secured \in [Ends -> BOOLEAN] /\ opened \in [Ends -> BOOLEAN]
  BY DEF Shape
\* An end that has opened its channel cannot go back.
<1>4. ASSUME link'[d] # "connecting",
             \A o \in Ends \ {d} : /\ link'[o] = link[o] /\ jobs'[o] = jobs[o] /\ opened'[o] = opened[o]
                                   /\ secured'[o] = secured[o] /\ session'[o] = session[o]
      PROVE  Waits'
  BY <1>4 DEF Waits
<1>5. ASSUME link[d] = "open" \/ jobs[d] # {},
             link'[d] = link[d] \/ link'[d] = "dropped",
             \A o \in Ends \ {d} : /\ link'[o] = link[o] /\ jobs'[o] = jobs[o] /\ opened'[o] = opened[o]
                                   /\ secured'[o] = secured[o] /\ session'[o] = session[o]
      PROVE  Waits'
  <2>1. link[d] # "connecting"
    BY <1>5 DEF Waits
  <2> QED
    BY <1>4, <1>5, <2>1
<1>6. CASE Open(d)
  BY <1>3, <1>4, <1>6 DEF Open, Dropped
<1>7. CASE Close(d) \/ Fail(d)
  BY <1>3, <1>4, <1>7 DEF Close, Fail, Dropped
<1>8. CASE Isolate(d)
  BY <1>8 DEF Isolate, Waits
<1>9. CASE Receive(d)
  <2>1. ReceiveHello(d) => Waits'
    BY <1>3, <1>5 DEF ReceiveHello
  <2>2. ReceiveConfirm(d) => Waits'
    BY <1>3, <1>5 DEF ReceiveConfirm, Dropped
  <2>3. ReceiveSealed(d) => Waits'
    <3> SUFFICES ASSUME ReceiveSealed(d) PROVE Waits'
      OBVIOUS
    <3>1. link[d] = "open" /\ UNCHANGED <<link, opened, secured, session>>
      BY DEF ReceiveSealed
    <3>2. \A o \in Ends \ {d} : jobs'[o] = jobs[o]
      BY <1>3 DEF ReceiveSealed
    <3> QED
      BY <1>5, <3>1, <3>2
  <2> QED
    BY <1>9, <2>1, <2>2, <2>3 DEF Receive
<1>10. CASE AcceptHello(d)
  BY <1>3, <1>5, <1>10 DEF AcceptHello, Dropped
<1>11. CASE Confirmation(d)
  BY <1>3, <1>5, <1>11 DEF Confirmation
<1>12. CASE Secure(d)
  <2>1. jobs[d] # {} /\ UNCHANGED secured
    BY <1>12 DEF Secure
  <2>2. link'[d] = link[d] \/ link'[d] = "dropped"
    BY <1>3, <1>12 DEF Secure, Dropped
  <2>3. \A o \in Ends \ {d} : /\ link'[o] = link[o] /\ jobs'[o] = jobs[o] /\ opened'[o] = opened[o]
                              /\ session'[o] = session[o]
    BY <1>3, <1>12 DEF Secure, Dropped
  <2> QED
    BY <1>5, <2>1, <2>2, <2>3
<1>13. ASSUME NEW j \in jobs[d],
              CreateHello(d, j) \/ CheckConfirmation(d, j) \/ Ratchet(d, j) \/ Encrypt(d, j) \/ Decrypt(d, j)
       PROVE  Waits'
  <2>1. CreateHello(d, j) => Waits'
    BY <1>3, <1>5 DEF CreateHello, Dropped
  <2>2. CheckConfirmation(d, j) => Waits'
    BY <1>3, <1>5 DEF CheckConfirmation, Dropped
  <2>3. Ratchet(d, j) => Waits'
    BY <1>3, <1>5 DEF Ratchet
  <2>4. Encrypt(d, j) => Waits'
    BY <1>3, <1>5 DEF Encrypt
  <2>5. Decrypt(d, j) => Waits'
    BY <1>3, <1>5 DEF Decrypt
  <2> QED
    BY <1>13, <2>1, <2>2, <2>3, <2>4, <2>5
<1>14. ASSUME NEW m \in Chatter[d], Say(d, m) PROVE Waits'
  <2>1. UNCHANGED <<link, opened, secured>>
    BY <1>14 DEF Say
  <2>2. \A o \in Ends \ {d} : jobs'[o] = jobs[o] /\ session'[o] = session[o]
    BY <1>3, <1>14 DEF Say
  <2>3. ~secured[d] => jobs'[d] = jobs[d] /\ session'[d] = session[d]
    BY <1>14 DEF Say
  <2> QED
    BY <2>1, <2>2, <2>3 DEF Waits
<1> QED
  BY <1>2, <1>6, <1>7, <1>8, <1>9, <1>10, <1>11, <1>12, <1>13, <1>14 DEF Resume

-----------------------------------------------------------------------------
\* Whoever has a name is nothing but the name.
LEMMA NamedJobs ==
  ASSUME NEW j \in Jobs, NEW name \in {"createHello", "answerHello", "acceptHello", "confirmation", "safetyWord"}
  PROVE  /\ j.job = name <=> j = Job(name)
         /\ Job(name) \in Jobs /\ Job(name).job = name
<1>1. Job(name) \in Plain /\ Job(name).job = name
  BY DEF Job, Plain
<1>2. ASSUME j.job = name PROVE j = Job(name)
  <2>1. j \in Plain
    BY <1>2 DEF Jobs, Checks, Ratchets, Encrypts, Decrypts
  <2> QED
    BY <1>2, <2>1 DEF Plain, Job
<1> QED
  BY <1>1, <1>2 DEF Jobs

\* A frame that is sent comes to the other end, once.
LEMMA ComesOnce ==
  ASSUME Shape, NEW d \in Ends, NEW f \in Frames, wire' = Raw(d, f)
  PROVE  /\ \A o \in Ends : \A kind : Coming(o, kind)' => Coming(o, kind) \/ (o = Other(d) /\ kind = f.kind)
         /\ \A o \in Ends : Once(wire[o]) /\ ~Coming(Other(d), f.kind) => Once(wire'[o])
         /\ f.kind = "sealed" => \A o \in Ends : Once(wire[o]) => Once(wire'[o])
<1>1. wire \in [Ends -> Seq(Frames)] /\ Other(d) \in Ends
  BY OtherEnd DEF Shape
<1>2. \A o \in Ends : \A kind : Coming(o, kind)' => Coming(o, kind) \/ (o = Other(d) /\ kind = f.kind)
  BY FrameSent DEF Coming
<1>3. ASSUME NEW o \in Ends, Once(wire[o]), ~Coming(Other(d), f.kind) \/ f.kind = "sealed"
      PROVE  Once(wire'[o])
  <2>1. CASE wire'[o] = wire[o]
    BY <1>3, <2>1
  <2>2. CASE wire'[o] = Append(wire[o], f) /\ o = Other(d)
    <3>1. wire[o] \in Seq(Frames) /\ Len(wire[o]) \in Nat
      BY <1>1
    <3>2. \A i \in DOMAIN wire'[o] : \/ i \in DOMAIN wire[o] /\ wire'[o][i] = wire[o][i]
                                     \/ i = Len(wire[o]) + 1 /\ wire'[o][i] = f
      BY <2>2, <3>1
    <3>3. \A i \in DOMAIN wire[o] : f.kind = "sealed" \/ wire[o][i].kind # f.kind
      BY <1>3, <2>2 DEF Coming, OnWire
    <3> QED
      BY <1>3, <3>2, <3>3 DEF Once
  <2> QED
    BY <1>1, <2>1, <2>2 DEF Raw
<1> QED
  BY <1>2, <1>3

\* A frame that is taken comes no longer.
LEMMA ComesNoMore ==
  ASSUME Shape, NEW d \in Ends, NEW f, wire[d] # <<>>, f = Head(wire[d]), TakeFrame(d)
  PROVE  /\ \A o \in Ends : \A kind : Coming(o, kind)' => Coming(o, kind)
         /\ \A o \in Ends : Once(wire[o]) => Once(wire'[o])
         /\ Coming(d, f.kind)
         /\ Once(wire[d]) /\ f.kind \in {"hello", "confirm"} => ~Coming(d, f.kind)'
<1>1. wire \in [Ends -> Seq(Frames)] /\ wire[d] \in Seq(Frames)
  BY DEF Shape
<1>2. wire'[d] = Tail(wire[d]) /\ \A o \in Ends \ {d} : wire'[o] = wire[o]
  BY <1>1 DEF TakeFrame
<1>3. /\ 1 \in DOMAIN wire[d] /\ f = wire[d][1]
      /\ \A i \in DOMAIN wire'[d] : i \in Nat /\ i >= 1 /\ i + 1 \in DOMAIN wire[d] /\ wire'[d][i] = wire[d][i + 1]
  BY <1>1, <1>2
<1>4. \A o \in Ends : \A kind : Coming(o, kind)' => Coming(o, kind)
  BY FrameTaken DEF Coming
<1>5. ASSUME Once(wire[d]) PROVE Once(wire'[d])
  <2> SUFFICES ASSUME NEW i \in DOMAIN wire'[d], NEW k \in DOMAIN wire'[d],
                      wire'[d][i].kind = wire'[d][k].kind, wire'[d][i].kind \in {"hello", "confirm"}
               PROVE  i = k
    BY DEF Once
  <2>1. i + 1 = k + 1
    BY <1>3, <1>5 DEF Once
  <2> QED
    BY <1>3, <2>1
<1>6. ASSUME Once(wire[d]), f.kind \in {"hello", "confirm"}, Coming(d, f.kind)'
      PROVE  FALSE
  <2>1. PICK i \in DOMAIN wire'[d] : wire'[d][i].kind = f.kind
    BY <1>6 DEF Coming, OnWire
  <2>2. i + 1 = 1
    BY <1>3, <1>6, <2>1 DEF Once
  <2> QED
    BY <1>3, <2>1, <2>2
<1>7. Coming(d, f.kind)
  BY <1>3 DEF Coming, OnWire
<1> QED
  BY <1>2, <1>4, <1>5, <1>6, <1>7

Kept(o) == \A n \in Stages : Stage(o, n)' => Stage(o, n)
Goes(o, m, n) ==
  /\ m \in Stages /\ n \in Stages /\ Stage(o, m) /\ ~Stage(o, m)'
  /\ \A k \in Stages : Stage(o, k)' => Stage(o, k) \/ k = n
Starts(o, n) ==
  /\ \A k \in Stages : ~Stage(o, k) /\ (Stage(o, k)' => k = n)
  /\ session'[o].begun /\ session'["initiator"].begun
Moves(o) == Kept(o) \/ (\E m, n \in Stages : Goes(o, m, n)) \/ (\E n \in Stages : Starts(o, n))

LEMMA OneWayKept ==
  ASSUME OneWay,
         \A o \in Ends : /\ session[o].begun => session'[o].begun
                         /\ Moves(o)
                         /\ Once(wire'[o])
                         /\ \A j, k \in jobs'[o] : j.job = "checkConfirmation" /\ k.job = "checkConfirmation" => j = k
  PROVE  OneWay'
<1> SUFFICES ASSUME NEW o \in Ends
             PROVE  /\ \A m, n \in Stages : Stage(o, m)' /\ Stage(o, n)' => m = n
                    /\ Once(wire'[o])
                    /\ \A j, k \in jobs'[o] : j.job = "checkConfirmation" /\ k.job = "checkConfirmation" => j = k
                    /\ ~session'[o].begun => \A n \in Stages : ~Stage(o, n)'
                    /\ ~session'["initiator"].begun => \A n \in Stages : ~Stage(o, n)'
  BY DEF OneWay, Stages
<1>1. "initiator" \in Ends
  BY DEF Ends
<1>2. CASE Kept(o)
  BY <1>1, <1>2 DEF Kept, OneWay
<1>3. CASE \E m, n \in Stages : Goes(o, m, n)
  <2>1. PICK m \in Stages, n \in Stages : Goes(o, m, n)
    BY <1>3
  <2>2. \A k \in Stages : Stage(o, k)' => k = n
    BY <2>1 DEF Goes, OneWay
  <2>3. session'[o].begun /\ session'["initiator"].begun
    BY <1>1, <2>1 DEF Goes, OneWay
  <2> QED
    BY <2>2, <2>3
<1>4. CASE \E n \in Stages : Starts(o, n)
  BY <1>4 DEF Starts
<1> QED
  BY <1>2, <1>3, <1>4 DEF Moves

Steps == {"createHello", "answerHello", "acceptHello", "confirmation", "checkConfirmation", "safetyWord"}

\* One job of an end is done, and others begin.
Turned(d, j, new) == jobs' = [jobs EXCEPT ![d] = (@ \ {j}) \cup new]

LEMMA JobsMoved ==
  ASSUME Shape, NEW d \in Ends, NEW j, NEW new, Turned(d, j, new)
  PROVE  /\ \A o \in Ends, name \in Steps :
              Pending(o, name)' => Pending(o, name) \/ (o = d /\ \E k \in new : k.job = name)
         /\ \A name \in Steps : Pending(d, name)' =>
              (\E i \in jobs[d] : i # j /\ i.job = name) \/ \E k \in new : k.job = name
         /\ j \in jobs[d] /\ j.job \in Steps \ {"checkConfirmation"} /\ (\A k \in new : k.job # j.job) =>
              ~Pending(d, j.job)'
         /\ (\A k \in new : k.job # "checkConfirmation") =>
              \A o \in Ends : \A i \in jobs'[o] : i.job = "checkConfirmation" => i \in jobs[o]
<1>1. /\ jobs \in [Ends -> SUBSET Jobs] /\ jobs[d] \subseteq Jobs
      /\ \A o \in Ends : jobs'[o] = IF o = d THEN (jobs[d] \ {j}) \cup new ELSE jobs[o]
  BY DEF Shape, Turned
<1>2. \A o \in Ends, name \in Steps :
        Pending(o, name)' => Pending(o, name) \/ (o = d /\ \E k \in new : k.job = name)
  BY <1>1 DEF Pending
<1>3. \A name \in Steps : Pending(d, name)' => (\E i \in jobs[d] : i # j /\ i.job = name) \/ \E k \in new : k.job = name
  BY <1>1 DEF Pending
<1>4. ASSUME j \in jobs[d], j.job \in Steps \ {"checkConfirmation"}, \A k \in new : k.job # j.job,
             Pending(d, j.job)'
      PROVE  FALSE
  <2>1. PICK i \in jobs[d] : i # j /\ i.job = j.job
    BY <1>3, <1>4
  <2>2. i = Job(j.job) /\ j = Job(j.job)
    BY <1>1, <1>4, <2>1, NamedJobs DEF Steps
  <2> QED
    BY <2>1, <2>2
<1> QED
  BY <1>1, <1>2, <1>3, <1>4

\* Nothing new on the way of either end.
LEMMA NobodyMoves ==
  ASSUME OneWay, opened' = opened,
         \A o \in Ends : /\ session[o].begun => session'[o].begun
                         /\ \A name \in Steps : Pending(o, name)' => Pending(o, name)
                         /\ \A kind : kind \in {"hello", "confirm"} /\ Coming(o, kind)' => Coming(o, kind)
                         /\ Once(wire'[o])
                         /\ \A i \in jobs'[o] : i.job = "checkConfirmation" => i \in jobs[o]
  PROVE  OneWay'
<1>1. \A o \in Ends : Other(o) \in Ends
  BY OtherEnd
<1>2. \A o \in Ends : Kept(o)
  BY <1>1 DEF Kept, Stages, Stage, Steps
<1>3. \A o \in Ends : \A j, k \in jobs'[o] : j.job = "checkConfirmation" /\ k.job = "checkConfirmation" => j = k
  BY DEF OneWay
<1> QED
  BY <1>2, <1>3, OneWayKept DEF Moves

\* A stage follows another, or begins the way.
LEMMA Moved ==
  ASSUME NEW d \in Ends, NEW m \in Stages, NEW n \in Stages, Stage(d, m), ~Stage(d, m)',
         \A k \in Stages \ {n} : Stage(d, k)' => Stage(d, k)
  PROVE  Moves(d)
<1>1. Goes(d, m, n)
  BY DEF Goes
<1> QED
  BY <1>1 DEF Moves

LEMMA BegunKept ==
  ASSUME NEW s \in Sessions, NEW m, NEW ms, NEW j, NEW f
  PROVE  \A x \in {StartSeal(s, m).session, SealAll(s, ms).session, Ratcheted(s, j), Recorded(s, f)} :
           x.begun = s.begun
  BY DEF StartSeal, SealAll, After, Ratcheted, Recorded, Sessions

\* Sealing puts nothing on the way.
LEMMA SealingIsNoStep ==
  ASSUME Shape, NEW s \in Sessions, NEW ms \in Seq(Messages), NEW m \in Messages
  PROVE  StartSeal(s, m).job.job \notin Steps /\ \A j \in SealAll(s, ms).jobs : j.job \notin Steps
<1>1. \A j \in Ratchets \cup Encrypts : j.job \notin Steps
  BY DEF Ratchets, Encrypts, Steps
<1> QED
  BY <1>1, StartSealShape, SealAllShape

LEMMA OneWayStep == Shape /\ Waits /\ OneWay /\ [Next]_vars => OneWay'
<1> SUFFICES ASSUME Shape, Waits, OneWay, [Next]_vars PROVE OneWay'
  OBVIOUS
<1>1. CASE UNCHANGED vars
  BY <1>1, NobodyMoves DEF vars, Pending, Coming, OnWire, OneWay
<1>2. SUFFICES ASSUME NEW d \in Ends,
                      \/ Open(d) \/ Close(d) \/ Fail(d) \/ Isolate(d)
                      \/ Receive(d) \/ Resume(d) \/ \E m \in Chatter[d] : Say(d, m)
               PROVE  OneWay'
  BY <1>1 DEF Next
<1>3. /\ jobs \in [Ends -> SUBSET Jobs] /\ session \in [Ends -> Sessions] /\ session[d] \in Sessions
      /\ link \in [Ends -> {"connecting", "open", "dropped"}] /\ opened \in [Ends -> BOOLEAN]
      /\ wire \in [Ends -> Seq(Frames)]
  BY DEF Shape
<1>4. /\ Other(d) \in Ends /\ Other(d) # d /\ Other(Other(d)) = d /\ \A o \in Ends : o = d \/ o = Other(d)
      /\ "initiator" \in Ends
  BY OtherEnd DEF Ends
<1>5. /\ \A o \in Ends : Once(wire[o])
      /\ \A o \in Ends : \A j, k \in jobs[o] : j.job = "checkConfirmation" /\ k.job = "checkConfirmation" => j = k
      /\ \A o \in Ends : \A m, n \in Stages : Stage(o, m) /\ Stage(o, n) => m = n
      /\ \A o \in Ends : ~session[o].begun \/ ~session["initiator"].begun => \A n \in Stages : ~Stage(o, n)
  BY DEF OneWay
\* A step that neither sends nor takes.
<1>6. ASSUME wire' = wire
      PROVE  (\A o \in Ends : \A kind : Coming(o, kind)' <=> Coming(o, kind)) /\ \A o \in Ends : Once(wire'[o])
  BY <1>5, <1>6 DEF Coming, OnWire
\* A step that leaves everything on the way where it is.
<1>7. ASSUME wire' = wire, opened' = opened,
             \A o \in Ends : session[o].begun => session'[o].begun,
             \A o \in Ends : \A i \in jobs'[o] : i \in jobs[o] \/ i.job \notin Steps
      PROVE  OneWay'
  <2>1. \A o \in Ends, name \in Steps : Pending(o, name)' => Pending(o, name)
    BY <1>7 DEF Pending
  <2>2. \A o \in Ends : \A i \in jobs'[o] : i.job = "checkConfirmation" => i \in jobs[o]
    BY <1>7 DEF Steps
  <2> QED
    BY <1>6, <1>7, <2>1, <2>2, NobodyMoves
<1>8. CASE Close(d) \/ Fail(d) \/ Isolate(d)
  <2>1. UNCHANGED <<wire, opened, session, jobs>>
    BY <1>8 DEF Close, Fail, Isolate
  <2> QED
    BY <1>7, <2>1
<1>9. CASE Open(d)
  <2>1. wire' = wire /\ opened' = opened
    BY <1>9 DEF Open
  <2>2. link[d] = "connecting" /\ ~session[d].begun
    BY <1>9 DEF Open, Waits
  <2>3. CASE d = "initiator" /\ meeting.doubt[d] = "unready"
    <3>1. UNCHANGED <<session, jobs>>
      BY <1>9, <2>3 DEF Open
    <3> QED
      BY <1>7, <2>1, <3>1
  <2>4. CASE d # "initiator"
    <3>1. jobs' = jobs /\ \A o \in Ends : session[o].begun => session'[o].begun
      BY <1>3, <1>9, <2>2, <2>4 DEF Open, Sessions
    <3> QED
      BY <1>7, <2>1, <3>1
  <2>5. CASE d = "initiator" /\ meeting.doubt[d] # "unready"
    <3>1. /\ jobs' = [jobs EXCEPT ![d] = @ \cup {Job("createHello")}]
          /\ session' = [session EXCEPT ![d].begun = TRUE]
      BY <1>9, <2>5 DEF Open
    <3>2. session'[d].begun /\ \A o \in Ends : session[o].begun => session'[o].begun
      BY <1>3, <3>1 DEF Sessions
    <3>3. \A o \in Ends : \A i \in jobs'[o] : i \in jobs[o] \/ (o = d /\ i = Job("createHello"))
      BY <1>3, <3>1
    <3>4. Job("createHello").job = "createHello"
      BY DEF Job
    <3>5. \A o \in Ends, n \in Stages : ~Stage(o, n)
      BY <1>5, <2>2, <2>5
    <3>6. \A o \in Ends, name \in Steps : Pending(o, name)' => Pending(o, name) \/ (o = d /\ name = "createHello")
      BY <3>3, <3>4 DEF Pending
    <3>7. \A o \in Ends : \A i \in jobs'[o] : i.job = "checkConfirmation" => i \in jobs[o]
      BY <3>3, <3>4
    <3>8. \A k \in Stages : Stage(d, k)' => Stage(d, k) \/ k = 1
      BY <1>4, <1>6, <2>1, <3>6 DEF Stages, Stage, Steps
    <3>9. Kept(Other(d))
      BY <1>4, <1>6, <2>1, <3>6 DEF Kept, Stages, Stage, Steps
    <3>10. Starts(d, 1)
      BY <2>5, <3>2, <3>5, <3>8 DEF Starts
    <3>11. \A o \in Ends : Moves(o)
      BY <1>4, <3>9, <3>10 DEF Moves, Stages
    <3>12. \A o \in Ends : \A j, k \in jobs'[o] : j.job = "checkConfirmation" /\ k.job = "checkConfirmation" => j = k
      BY <1>5, <3>7
    <3> QED
      BY <1>6, <2>1, <3>2, <3>11, <3>12, OneWayKept
  <2> QED
    BY <2>3, <2>4, <2>5
<1>10. CASE ReceiveSealed(d)
  <2>1. /\ TakeFrame(d) /\ wire[d] # <<>> /\ UNCHANGED <<opened, session>>
        /\ \A o \in Ends : \A i \in jobs'[o] : i \in jobs[o] \/ i.job = "decrypt"
    <3>1. jobs' = jobs \/ jobs' = [jobs EXCEPT ![d] = @ \cup {Handed("decrypt", Head(wire[d]))}]
      BY <1>10 DEF ReceiveSealed
    <3>2. Handed("decrypt", Head(wire[d])).job = "decrypt"
      BY DEF Handed
    <3>3. \A o \in Ends : \A i \in jobs'[o] : i \in jobs[o] \/ i.job = "decrypt"
      BY <1>3, <3>1, <3>2
    <3> QED
      BY <1>10, <3>3 DEF ReceiveSealed
  <2>2. /\ \A o \in Ends : \A kind : Coming(o, kind)' => Coming(o, kind)
        /\ \A o \in Ends : Once(wire'[o])
    BY <1>5, <2>1, ComesNoMore
  <2>3. \A o \in Ends, name \in Steps : Pending(o, name)' => Pending(o, name)
    BY <2>1 DEF Pending, Steps
  <2>4. \A o \in Ends : \A i \in jobs'[o] : i.job = "checkConfirmation" => i \in jobs[o]
    BY <2>1
  <2> QED
    BY <2>1, <2>2, <2>3, <2>4, NobodyMoves
<1>11. CASE ReceiveConfirm(d)
  <2> DEFINE f == Head(wire[d])
             new == IF session[d].established THEN {Handed("checkConfirmation", f)} ELSE {}
  <2>1. /\ TakeFrame(d) /\ wire[d] # <<>> /\ f.kind = "confirm" /\ UNCHANGED <<opened, session>>
        /\ jobs' = [jobs EXCEPT ![d] = @ \cup new]
    BY <1>3, <1>11 DEF ReceiveConfirm
  <2>2. /\ \A o \in Ends : \A kind : Coming(o, kind)' => Coming(o, kind)
        /\ \A o \in Ends : Once(wire'[o])
        /\ Coming(d, "confirm")
        /\ ~Coming(d, "confirm")'
    BY <1>5, <2>1, ComesNoMore
  <2>3. \A o \in Ends : \A i \in jobs'[o] : i \in jobs[o] \/ (o = d /\ i = Handed("checkConfirmation", f))
    BY <1>3, <2>1
  <2>4. Handed("checkConfirmation", f).job = "checkConfirmation"
    BY DEF Handed
  <2> HIDE DEF f, new
  <2>5. \A o \in Ends, name \in Steps : Pending(o, name)' => Pending(o, name) \/ (o = d /\ name = "checkConfirmation")
    BY <2>3, <2>4 DEF Pending
  <2>6. Stage(d, 7) /\ ~Stage(d, 7)' /\ \A k \in Stages \ {8} : Stage(d, k)' => Stage(d, k)
    BY <1>4, <2>1, <2>2, <2>5 DEF Stage, Stages, Steps
  <2>7. Moves(d)
    BY <2>6, Moved DEF Stages
  <2>8. Kept(Other(d))
    BY <1>4, <2>1, <2>2, <2>5 DEF Kept, Stage, Stages, Steps
  <2>9. \A o \in Ends : Moves(o)
    BY <1>4, <2>7, <2>8 DEF Moves
  <2>10. ~Pending(d, "checkConfirmation")
    <3>1. ~Stage(d, 8)
      BY <1>5, <2>6 DEF Stages
    <3> QED
      BY <3>1 DEF Stage
  <2>11. \A o \in Ends : \A j, k \in jobs'[o] : j.job = "checkConfirmation" /\ k.job = "checkConfirmation" => j = k
    BY <1>5, <2>3, <2>10 DEF Pending
  <2> QED
    BY <2>1, <2>2, <2>9, <2>11, OneWayKept
<1>12. CASE ReceiveHello(d)
  <2> DEFINE f == Head(wire[d])
             name0 == IF session[d].begun THEN "acceptHello" ELSE "answerHello"
  <2>1. /\ TakeFrame(d) /\ wire[d] # <<>> /\ f.kind = "hello" /\ opened' = opened
        /\ jobs' = [jobs EXCEPT ![d] = @ \cup {Job(name0)}]
        /\ session' = [session EXCEPT ![d].begun = TRUE]
    BY <1>12 DEF ReceiveHello
  <2>2. /\ \A o \in Ends : \A kind : Coming(o, kind)' => Coming(o, kind)
        /\ \A o \in Ends : Once(wire'[o])
        /\ Coming(d, "hello")
        /\ ~Coming(d, "hello")'
    BY <1>5, <2>1, ComesNoMore
  <2>3. \A o \in Ends : \A i \in jobs'[o] : i \in jobs[o] \/ (o = d /\ i = Job(name0))
    BY <1>3, <2>1
  <2>4. Job(name0).job = name0 /\ name0 \in {"acceptHello", "answerHello"}
    BY DEF Job
  <2>5. session'[d].begun /\ \A o \in Ends : session[o].begun => session'[o].begun
    BY <1>3, <2>1 DEF Sessions
  <2>6. session[d].begun => name0 = "acceptHello"
    OBVIOUS
  <2> HIDE DEF f, name0
  <2>7. \A o \in Ends, name \in Steps : Pending(o, name)' => Pending(o, name) \/ (o = d /\ name = name0)
    BY <2>3, <2>4 DEF Pending
  <2>8. Stage(Other(d), 3) /\ ~Stage(Other(d), 3)'
    BY <1>4, <2>2 DEF Stage
  <2>9. session["initiator"].begun
    BY <1>4, <1>5, <2>8 DEF Stages
  <2>10. session'["initiator"].begun
    BY <1>4, <2>5, <2>9
  <2>11. Moves(Other(d))
    <3>1. CASE name0 = "acceptHello"
      <4>1. \A k \in Stages \ {5} : Stage(Other(d), k)' => Stage(Other(d), k)
        BY <1>4, <2>1, <2>2, <2>7, <3>1 DEF Stage, Stages, Steps
      <4> QED
        BY <1>4, <2>8, <4>1, Moved DEF Stages
    <3>2. CASE name0 = "answerHello"
      <4>1. \A k \in Stages \ {4} : Stage(Other(d), k)' => Stage(Other(d), k)
        BY <1>4, <2>1, <2>2, <2>7, <3>2 DEF Stage, Stages, Steps
      <4> QED
        BY <1>4, <2>8, <4>1, Moved DEF Stages
    <3> QED
      BY <2>4, <3>1, <3>2
  <2>12. Moves(d)
    <3>1. CASE session[d].begun
      <4>1. Kept(d)
        BY <1>4, <2>1, <2>2, <2>6, <2>7, <3>1 DEF Kept, Stage, Stages, Steps
      <4> QED
        BY <4>1 DEF Moves
    <3>2. CASE ~session[d].begun
      <4>1. \A k \in Stages : ~Stage(d, k)
        BY <1>5, <3>2
      <4>2. \A k \in Stages : Stage(d, k)' => Stage(d, k) \/ k = 2
        BY <1>4, <2>1, <2>2, <2>4, <2>7 DEF Stage, Stages, Steps
      <4>3. Starts(d, 2)
        BY <2>5, <2>10, <4>1, <4>2 DEF Starts
      <4> QED
        BY <4>3 DEF Moves, Stages
    <3> QED
      BY <3>1, <3>2
  <2>13. \A o \in Ends : \A i \in jobs'[o] : i.job = "checkConfirmation" => i \in jobs[o]
    BY <2>3, <2>4
  <2>14. \A o \in Ends : \A j, k \in jobs'[o] : j.job = "checkConfirmation" /\ k.job = "checkConfirmation" => j = k
    BY <1>5, <2>13
  <2> QED
    BY <1>4, <2>2, <2>5, <2>11, <2>12, <2>14, OneWayKept
\* A job of the way is done, and at most another begins.
<1>13. ASSUME NEW j \in jobs[d], NEW new, Turned(d, j, new),
              j.job \in Steps, \A k \in new : k.job \notin {"checkConfirmation", j.job}
       PROVE  /\ \A o \in Ends, name \in Steps :
                   Pending(o, name)' => Pending(o, name) \/ (o = d /\ \E k \in new : k.job = name)
              /\ Pending(d, j.job) /\ ~Pending(d, j.job)'
              /\ \A o \in Ends : \A i, k \in jobs'[o] : i.job = "checkConfirmation" /\ k.job = "checkConfirmation" => i = k
              /\ \A o \in Ends : \A i \in jobs'[o] : i.job = "checkConfirmation" => i \in jobs[o]
  <2>1. \A o \in Ends, name \in Steps :
          Pending(o, name)' => Pending(o, name) \/ (o = d /\ \E k \in new : k.job = name)
    BY <1>13, JobsMoved
  <2>2. Pending(d, j.job)
    BY <1>13 DEF Pending
  <2>3. j.job # "checkConfirmation" => ~Pending(d, j.job)'
    BY <1>13, JobsMoved DEF Steps
  <2>4. ASSUME j.job = "checkConfirmation", Pending(d, "checkConfirmation")' PROVE FALSE
    <3>1. (\E i \in jobs[d] : i # j /\ i.job = "checkConfirmation") \/ \E k \in new : k.job = "checkConfirmation"
      BY <1>13, <2>4, JobsMoved DEF Steps
    <3> QED
      BY <1>5, <1>13, <2>4, <3>1
  <2>5. \A o \in Ends : \A i \in jobs'[o] : i.job = "checkConfirmation" => i \in jobs[o]
    BY <1>13, JobsMoved
  <2>6. ~Pending(d, j.job)'
    <3>1. CASE j.job = "checkConfirmation"
      BY <2>4, <3>1
    <3> QED
      BY <2>3, <3>1
  <2> QED
    BY <1>5, <2>1, <2>2, <2>5, <2>6
\* It is done and leads nowhere.
<1>14. ASSUME NEW j \in jobs[d], jobs' = [jobs EXCEPT ![d] = @ \ {j}],
              wire' = wire, opened' = opened, session' = session
       PROVE  OneWay'
  BY <1>3, <1>7, <1>14
<1>15. ASSUME NEW j \in jobs[d], CreateHello(d, j) PROVE OneWay'
  <2> DEFINE new == IF j.job = "answerHello" THEN {Job("acceptHello")} ELSE {}
  <2>1. CASE meeting.doubt[d] = "unready"
    BY <1>14, <1>15, <2>1 DEF CreateHello
  <2>2. CASE meeting.doubt[d] # "unready"
    <3>1. /\ Turned(d, j, new) /\ wire' = Raw(d, Hello) /\ opened' = opened
          /\ session' = [session EXCEPT ![d].ownHello = TRUE] /\ j.job \in {"createHello", "answerHello"}
      BY <1>15, <2>2 DEF CreateHello, Turned
    <3>2. \A k \in new : k.job = "acceptHello" /\ j.job = "answerHello"
      BY DEF Job
    <3> HIDE DEF new
    <3>3. \A o \in Ends : session[o].begun => session'[o].begun
      BY <1>3, <3>1 DEF Sessions
    <3>4. Hello \in Frames /\ Hello.kind = "hello"
      BY DEF Hello, Frames
    <3>5. /\ \A o \in Ends, name \in Steps :
               Pending(o, name)' => Pending(o, name) \/ (o = d /\ name = "acceptHello" /\ j.job = "answerHello")
          /\ Pending(d, j.job) /\ ~Pending(d, j.job)'
          /\ \A o \in Ends : \A i, k \in jobs'[o] : i.job = "checkConfirmation" /\ k.job = "checkConfirmation" => i = k
      BY <1>13, <3>1, <3>2 DEF Steps
    <3>6. \E m \in {1, 2} : Stage(d, m) /\ ~Stage(d, m)'
      BY <3>1, <3>5 DEF Stage
    <3>7. ~Coming(Other(d), "hello")
      <4>1. ~Stage(d, 3)
        BY <1>5, <3>6 DEF Stages
      <4> QED
        BY <4>1 DEF Stage
    <3>8. /\ \A o \in Ends : \A kind : Coming(o, kind)' => Coming(o, kind) \/ (o = Other(d) /\ kind = "hello")
          /\ \A o \in Ends : Once(wire'[o])
      BY <1>5, <3>1, <3>4, <3>7, ComesOnce
    <3>9. \A k \in Stages \ {3} : Stage(d, k)' => Stage(d, k)
      BY <1>4, <3>1, <3>5, <3>8 DEF Stage, Stages, Steps
    <3>10. Moves(d)
      BY <3>6, <3>9, Moved DEF Stages
    <3>11. Moves(Other(d))
      <4>1. CASE j.job = "answerHello"
        <5>1. Stage(Other(d), 4) /\ ~Stage(Other(d), 4)'
          BY <1>4, <3>5, <4>1 DEF Stage
        <5>2. \A k \in Stages \ {5} : Stage(Other(d), k)' => Stage(Other(d), k)
          BY <1>4, <3>1, <3>5, <3>8 DEF Stage, Stages, Steps
        <5> QED
          BY <1>4, <5>1, <5>2, Moved DEF Stages
      <4>2. CASE j.job # "answerHello"
        <5>1. Kept(Other(d))
          BY <1>4, <3>1, <3>5, <3>8, <4>2 DEF Kept, Stage, Stages, Steps
        <5> QED
          BY <5>1 DEF Moves
      <4> QED
        BY <4>1, <4>2
    <3> QED
      BY <1>4, <3>3, <3>5, <3>8, <3>10, <3>11, OneWayKept
  <2> QED
    BY <2>1, <2>2
<1>16. CASE AcceptHello(d)
  <2> DEFINE j == Job("acceptHello")
  <2>1. j \in jobs[d] /\ j.job = "acceptHello" /\ wire' = wire /\ opened' = opened
    BY <1>16 DEF AcceptHello, Job
  <2>2. CASE meeting.doubt[d] = "hello" \/ ~session[d].ownHello
    <3>1. jobs' = [jobs EXCEPT ![d] = @ \ {j}] /\ session' = session
      BY <1>16, <2>2 DEF AcceptHello
    <3> QED
      BY <1>14, <2>1, <3>1
  <2>3. CASE ~(meeting.doubt[d] = "hello" \/ ~session[d].ownHello)
    <3>1. /\ Turned(d, j, {Job("confirmation")})
          /\ session' = [session EXCEPT ![d].established = TRUE]
      BY <1>16, <2>3 DEF AcceptHello, Turned
    <3>2. Job("confirmation").job = "confirmation"
      BY DEF Job
    <3> HIDE DEF j
    <3>3. \A o \in Ends : session[o].begun => session'[o].begun
      BY <1>3, <3>1 DEF Sessions
    <3>4. /\ \A o \in Ends, name \in Steps : Pending(o, name)' => Pending(o, name) \/ (o = d /\ name = "confirmation")
          /\ Pending(d, "acceptHello") /\ ~Pending(d, "acceptHello")'
          /\ \A o \in Ends : \A i, k \in jobs'[o] : i.job = "checkConfirmation" /\ k.job = "checkConfirmation" => i = k
      BY <1>13, <2>1, <3>1, <3>2 DEF Steps
    <3>5. /\ Stage(Other(d), 5) /\ ~Stage(Other(d), 5)'
          /\ \A k \in Stages \ {6} : Stage(Other(d), k)' => Stage(Other(d), k)
      BY <1>4, <1>6, <2>1, <3>4 DEF Stage, Stages, Steps
    <3>6. Moves(Other(d))
      BY <1>4, <3>5, Moved DEF Stages
    <3>7. Kept(d)
      BY <1>4, <1>6, <2>1, <3>4 DEF Kept, Stage, Stages, Steps
    <3>8. \A o \in Ends : Moves(o)
      BY <1>4, <3>6, <3>7 DEF Moves
    <3> QED
      BY <1>6, <2>1, <3>3, <3>4, <3>8, OneWayKept
  <2> QED
    BY <2>2, <2>3
<1>17. CASE Confirmation(d)
  <2> DEFINE j == Job("confirmation")
             f == [kind |-> "confirm", mac |-> meeting.secret[d]]
  <2>1. /\ j \in jobs[d] /\ j.job = "confirmation" /\ wire' = Raw(d, f) /\ opened' = opened /\ session' = session
        /\ jobs' = [jobs EXCEPT ![d] = @ \ {j}]
    BY <1>17 DEF Confirmation, Job
  <2>2. Turned(d, j, {})
    BY <2>1 DEF Turned
  <2>3. f \in Frames /\ f.kind = "confirm"
    BY MeetingShape DEF Frames
  <2> HIDE DEF j, f
  <2>4. /\ \A o \in Ends, name \in Steps : Pending(o, name)' => Pending(o, name)
        /\ Pending(d, "confirmation") /\ ~Pending(d, "confirmation")'
        /\ \A o \in Ends : \A i, k \in jobs'[o] : i.job = "checkConfirmation" /\ k.job = "checkConfirmation" => i = k
    BY <1>13, <2>1, <2>2 DEF Steps
  <2>5. Stage(Other(d), 6) /\ ~Stage(Other(d), 6)'
    BY <1>4, <2>4 DEF Stage
  <2>6. ~Coming(Other(d), "confirm")
    <3>1. ~Stage(Other(d), 7)
      BY <1>4, <1>5, <2>5 DEF Stages
    <3> QED
      BY <3>1 DEF Stage
  <2>7. /\ \A o \in Ends : \A kind : Coming(o, kind)' => Coming(o, kind) \/ (o = Other(d) /\ kind = "confirm")
        /\ \A o \in Ends : Once(wire'[o])
    BY <1>5, <2>1, <2>3, <2>6, ComesOnce
  <2>8. \A k \in Stages \ {7} : Stage(Other(d), k)' => Stage(Other(d), k)
    BY <1>4, <2>1, <2>4, <2>7 DEF Stage, Stages, Steps
  <2>9. Moves(Other(d))
    BY <1>4, <2>5, <2>8, Moved DEF Stages
  <2>10. Kept(d)
    BY <1>4, <2>1, <2>4, <2>7 DEF Kept, Stage, Stages, Steps
  <2>11. \A o \in Ends : Moves(o)
    BY <1>4, <2>9, <2>10 DEF Moves
  <2> QED
    BY <2>1, <2>4, <2>7, <2>11, OneWayKept
<1>18. ASSUME NEW j \in jobs[d], CheckConfirmation(d, j) PROVE OneWay'
  <2>1. j.job = "checkConfirmation" /\ wire' = wire /\ opened' = opened /\ session' = session
    BY <1>18 DEF CheckConfirmation
  <2>2. CASE j.frame.mac # meeting.secret[d]
    <3>1. jobs' = [jobs EXCEPT ![d] = @ \ {j}]
      BY <1>18, <2>2 DEF CheckConfirmation
    <3> QED
      BY <1>14, <2>1, <3>1
  <2>3. CASE j.frame.mac = meeting.secret[d]
    <3>1. Turned(d, j, {Job("safetyWord")}) /\ Job("safetyWord").job = "safetyWord"
      BY <1>18, <2>3 DEF CheckConfirmation, Job, Turned
    <3>2. /\ \A o \in Ends, name \in Steps : Pending(o, name)' => Pending(o, name) \/ (o = d /\ name = "safetyWord")
          /\ Pending(d, "checkConfirmation") /\ ~Pending(d, "checkConfirmation")'
          /\ \A o \in Ends : \A i, k \in jobs'[o] : i.job = "checkConfirmation" /\ k.job = "checkConfirmation" => i = k
      BY <1>13, <2>1, <3>1 DEF Steps
    <3>3. /\ Stage(d, 8) /\ ~Stage(d, 8)'
          /\ \A k \in Stages \ {9} : Stage(d, k)' => Stage(d, k)
      BY <1>4, <1>6, <2>1, <3>2 DEF Stage, Stages, Steps
    <3>4. Moves(d)
      BY <3>3, Moved DEF Stages
    <3>5. Kept(Other(d))
      BY <1>4, <1>6, <2>1, <3>2 DEF Kept, Stage, Stages, Steps
    <3>6. \A o \in Ends : Moves(o)
      BY <1>4, <3>4, <3>5 DEF Moves
    <3> QED
      BY <1>6, <2>1, <3>2, <3>6, OneWayKept
  <2> QED
    BY <2>2, <2>3
<1>19. CASE Secure(d)
  <2> DEFINE j == Job("safetyWord")
             all == IF isolated[d] = "now" THEN <<>>
                    ELSE (IF link[d] = "dropped" THEN <<>> ELSE <<"hello">>) \o outbox[d] \o <<"roster">>
             outcome == SealAll(session[d], all)
  <2>1. j \in jobs[d] /\ j.job = "safetyWord" /\ wire' = wire
    BY <1>19 DEF Secure, Job
  <2>2. CASE meeting.doubt[d] = "barred"
    <3>1. jobs' = [jobs EXCEPT ![d] = @ \ {j}] /\ session' = session /\ opened' = opened
      BY <1>19, <2>2 DEF Secure
    <3> QED
      BY <1>14, <2>1, <3>1
  <2>3. CASE meeting.doubt[d] # "barred"
    <3>1. /\ Turned(d, j, outcome.jobs) /\ session' = [session EXCEPT ![d] = outcome.session]
          /\ opened' = [opened EXCEPT ![d] = TRUE]
      BY <1>19, <2>3 DEF Secure, Turned
    <3>2. all \in Seq(Messages)
      BY FlushShape
    <3> HIDE DEF all
    <3>3. outcome.session.begun = session[d].begun /\ \A k \in outcome.jobs : k.job \notin Steps
      BY <1>3, <3>2, BegunKept, SealingIsNoStep, "hello" \in Messages DEF Messages
    <3> HIDE DEF j, outcome
    <3>4. \A o \in Ends : session[o].begun => session'[o].begun
      BY <1>3, <3>1, <3>3
    <3>5. /\ \A o \in Ends, name \in Steps : Pending(o, name)' => Pending(o, name)
          /\ Pending(d, "safetyWord") /\ ~Pending(d, "safetyWord")'
          /\ \A o \in Ends : \A i, k \in jobs'[o] : i.job = "checkConfirmation" /\ k.job = "checkConfirmation" => i = k
      BY <1>13, <2>1, <3>1, <3>3 DEF Steps
    <3>6. Stage(d, 9) /\ ~Stage(d, 9)'
      BY <3>5 DEF Stage
    <3>7. opened'[Other(d)] = opened[Other(d)]
      BY <1>3, <1>4, <3>1
    <3>8. \A k \in Stages \ {10} : Stage(d, k)' => Stage(d, k)
      BY <1>4, <1>6, <2>1, <3>5 DEF Stage, Stages, Steps
    <3>9. Moves(d)
      BY <3>6, <3>8, Moved DEF Stages
    <3>10. Kept(Other(d))
      BY <1>4, <1>6, <2>1, <3>5, <3>7 DEF Kept, Stage, Stages, Steps
    <3>11. \A o \in Ends : Moves(o)
      BY <1>4, <3>9, <3>10 DEF Moves
    <3> QED
      BY <1>6, <2>1, <3>4, <3>5, <3>11, OneWayKept
  <2> QED
    BY <2>2, <2>3
<1>20. ASSUME NEW j \in jobs[d], Ratchet(d, j) PROVE OneWay'
  <2>1. wire' = wire /\ opened' = opened /\ session' = [session EXCEPT ![d] = Ratcheted(session[d], j)]
    BY <1>20 DEF Ratchet
  <2>2. \A o \in Ends : \A i \in jobs'[o] : i \in jobs[o] \/ i.job = "encrypt"
    BY <1>3, <1>20 DEF Ratchet
  <2>3. \A o \in Ends : session[o].begun => session'[o].begun
    BY <1>3, <2>1, BegunKept
  <2> QED
    BY <1>7, <2>1, <2>2, <2>3 DEF Steps
<1>21. ASSUME NEW j \in jobs[d], Encrypt(d, j) PROVE OneWay'
  <2> DEFINE f == [kind |-> "sealed", msg |-> j.msg, e |-> j.e, c |-> j.c,
                   inner |-> j.inner, outer |-> session[d].keys]
  <2>1. wire' = Raw(d, f) /\ opened' = opened /\ session' = session /\ j \in Encrypts
        /\ \A o \in Ends : jobs'[o] \subseteq jobs[o]
    BY <1>3, <1>21, KindsOfJobs DEF Encrypt
  <2>2. f \in Frames /\ f.kind = "sealed"
    BY <1>3, <2>1 DEF Frames, Encrypts, Sessions
  <2> HIDE DEF f
  <2>3. /\ \A o \in Ends : \A kind : Coming(o, kind)' => Coming(o, kind) \/ (o = Other(d) /\ kind = "sealed")
        /\ \A o \in Ends : Once(wire'[o])
    BY <1>5, <2>1, <2>2, ComesOnce
  <2>4. \A o \in Ends, name \in Steps : Pending(o, name)' => Pending(o, name)
    BY <2>1 DEF Pending
  <2> QED
    BY <2>1, <2>3, <2>4, NobodyMoves
<1>22. ASSUME NEW j \in jobs[d], Decrypt(d, j) PROVE OneWay'
  <2>1. wire' = wire /\ opened' = opened /\ session' = [session EXCEPT ![d] = Recorded(@, j.frame)]
        /\ \A o \in Ends : jobs'[o] \subseteq jobs[o]
    BY <1>3, <1>22 DEF Decrypt
  <2>2. \A o \in Ends : session[o].begun => session'[o].begun
    BY <1>3, <2>1, BegunKept
  <2> QED
    BY <1>7, <2>1, <2>2
<1>23. ASSUME NEW m \in Chatter[d], Say(d, m) PROVE OneWay'
  <2>1. wire' = wire /\ opened' = opened /\ m \in Messages
    BY <1>23 DEF Say, Messages
  <2> DEFINE outcome == StartSeal(session[d], m)
  <2>2. (session' = session /\ jobs' = jobs)
        \/ (session' = [session EXCEPT ![d] = outcome.session] /\ jobs' = [jobs EXCEPT ![d] = @ \cup {outcome.job}])
    BY <1>23 DEF Say
  <2>3. outcome.session.begun = session[d].begun /\ outcome.job.job \notin Steps
    BY <1>3, <2>1, BegunKept, SealingIsNoStep, <<>> \in Seq(Messages)
  <2> HIDE DEF outcome
  <2>4. /\ \A o \in Ends : session[o].begun => session'[o].begun
        /\ \A o \in Ends : \A i \in jobs'[o] : i \in jobs[o] \/ i.job \notin Steps
    <3>1. CASE session' = session /\ jobs' = jobs
      BY <3>1
    <3>2. CASE session' = [session EXCEPT ![d] = outcome.session] /\ jobs' = [jobs EXCEPT ![d] = @ \cup {outcome.job}]
      <4>1. \A o \in Ends : session[o].begun => session'[o].begun
        BY <1>3, <2>3, <3>2
      <4>2. \A o \in Ends : \A i \in jobs'[o] : i \in jobs[o] \/ i = outcome.job
        BY <1>3, <3>2
      <4> QED
        BY <2>3, <4>1, <4>2
    <3> QED
      BY <2>2, <3>1, <3>2
  <2> QED
    BY <1>7, <2>1, <2>4
<1> QED
  BY <1>2, <1>8, <1>9, <1>10, <1>11, <1>12, <1>15, <1>16, <1>17, <1>18, <1>19, <1>20, <1>21, <1>22, <1>23
     DEF Receive, Resume

-----------------------------------------------------------------------------
\* What an end says is counted.
LEMMA WordsCounted ==
  ASSUME FewWords, Budget, NEW d \in Ends
  PROVE  /\ IsFiniteSet(said[d]) /\ Cardinality(said[d]) \in Nat
         /\ Cardinality(said[d]) + 1 <= Window
         /\ \A m : m \notin said[d] => Cardinality(said[d] \cup {m}) = Cardinality(said[d]) + 1
<1>1. IsFiniteSet(Chatter[d]) /\ Cardinality(Chatter[d]) + 1 <= Window /\ said[d] \subseteq Chatter[d]
  BY DEF FewWords, Budget
<1>2. IsFiniteSet(said[d]) /\ Cardinality(said[d]) <= Cardinality(Chatter[d])
  BY <1>1, FS_Subset
<1>3. Cardinality(said[d]) \in Nat /\ Cardinality(Chatter[d]) \in Nat
  BY <1>1, <1>2, FS_CardinalityType
<1>4. \A m : m \notin said[d] => Cardinality(said[d] \cup {m}) = Cardinality(said[d]) + 1
  BY <1>2, FS_AddElement
<1> QED
  BY <1>1, <1>2, <1>3, <1>4, SessionAssumption

\* So nothing is overtaken by more than the window.
LEMMA InsideWindow ==
  ASSUME Shape, FewWords, Budget, NEW d \in Ends, session[Other(d)].epoch = 0
  PROVE  session[d].highestSeen <= Window
<1> DEFINE o == Other(d)
<1>1. o \in Ends /\ Other(o) = d
  BY OtherEnd
<1>2. /\ session[o].sendCounter + Len(outbox[o]) <= Cardinality(said[o]) + (IF opened[o] THEN 2 ELSE 0)
      /\ session[d].highestSeen < session[o].sendCounter
  BY <1>1 DEF Budget
<1>3. /\ session[o] \in Sessions /\ session[d] \in Sessions /\ Len(outbox[o]) \in Nat
  BY <1>1 DEF Shape
<1>4. session[o].sendCounter \in Nat /\ session[d].highestSeen \in Int
  BY <1>3, MeetingShape DEF Sessions
<1>5. Cardinality(said[o]) \in Nat /\ Cardinality(said[o]) + 1 <= Window
  BY <1>1, WordsCounted
<1> QED
  BY <1>2, <1>3, <1>4, <1>5, SessionAssumption

Due(d) == Cardinality(said[d]) + (IF opened[d] THEN 2 ELSE 0)

\* A step that may raise the counter of one end, and what is due from it by as much.
LEMMA BudgetKept ==
  ASSUME Shape, Shape', Budget, NEW d \in Ends,
         \A o \in Ends : said'[o] \subseteq Chatter[o],
         \A o \in Ends \ {d} : /\ session'[o] = session[o] /\ outbox'[o] = outbox[o]
                               /\ said'[o] = said[o] /\ opened'[o] = opened[o],
         session'[d].epoch = 0 =>
           /\ session[d].epoch = 0
           /\ session'[d].sendCounter >= session[d].sendCounter
           /\ session[d].sendCounter + Len(outbox[d]) <= Due(d) =>
                session'[d].sendCounter + Len(outbox'[d]) <= Due(d)',
         \/ session'[d].highestSeen \in {-1, session[d].highestSeen}
         \/ session[Other(d)].epoch = 0 => session'[d].highestSeen < session[Other(d)].sendCounter
  PROVE  Budget'
<1>1. /\ Other(d) \in Ends /\ Other(d) # d /\ Other(Other(d)) = d /\ \A o \in Ends : o = d \/ o = Other(d)
  BY OtherEnd
<1>2. \A o \in Ends : session[o] \in Sessions /\ session'[o] \in Sessions'
  BY DEF Shape
<1>3. \A o \in Ends : /\ session[o].sendCounter \in Nat /\ session[o].highestSeen \in Int
                      /\ session'[o].sendCounter \in Nat /\ session'[o].highestSeen \in Int
  <2>1. meeting.rekey \in Nat /\ meeting'.rekey \in Nat
    BY MeetingShape, SessionAssumption DEF Shape, Meeting
  <2> QED
    BY <1>2, <2>1 DEF Sessions
<1>4. \A o \in Ends : session[o].epoch = 0 =>
        /\ session[o].sendCounter + Len(outbox[o]) <= Due(o)
        /\ session[Other(o)].highestSeen < session[o].sendCounter
  BY DEF Budget, Due
<1>5. \A o \in Ends \ {d} : Due(o)' = Due(o)
  BY DEF Due
<1>6. ASSUME NEW o \in Ends, session'[o].epoch = 0
      PROVE  session'[o].sendCounter + Len(outbox'[o]) <= Due(o)'
  BY <1>4, <1>5, <1>6
<1>7. ASSUME session'[d].epoch = 0
      PROVE  session'[Other(d)].highestSeen < session'[d].sendCounter
  <2>1. session[Other(d)].highestSeen < session[d].sendCounter /\ session'[Other(d)] = session[Other(d)]
    BY <1>1, <1>4, <1>7
  <2> QED
    BY <1>1, <1>3, <1>7, <2>1
<1>8. ASSUME session'[Other(d)].epoch = 0
      PROVE  session'[d].highestSeen < session'[Other(d)].sendCounter
  <2>1. session'[Other(d)] = session[Other(d)] /\ session[d].highestSeen < session[Other(d)].sendCounter
    BY <1>1, <1>4, <1>8
  <2> QED
    BY <1>1, <1>3, <1>8, <2>1
<1>9. \A o \in Ends : session'[o].epoch = 0 => session'[Other(o)].highestSeen < session'[o].sendCounter
  BY <1>1, <1>7, <1>8
<1> QED
  BY <1>6, <1>9 DEF Budget, Due

\* A session of which no more than the standing changes keeps its counts.
LEMMA MarkedOnly ==
  ASSUME Shape, NEW d \in Ends, NEW b \in BOOLEAN,
         \/ session' = session \/ session' = [session EXCEPT ![d].begun = b]
         \/ session' = [session EXCEPT ![d].ownHello = b]
         \/ session' = [session EXCEPT ![d].established = b]
  PROVE  \A o \in Ends : /\ session'[o].epoch = session[o].epoch
                         /\ session'[o].sendCounter = session[o].sendCounter
                         /\ session'[o].highestSeen = session[o].highestSeen
<1>1. session \in [Ends -> Sessions] /\ session[d] \in Sessions
  BY DEF Shape
<1>2. \A x \in {session[d], [session[d] EXCEPT !.begun = b], [session[d] EXCEPT !.ownHello = b],
                [session[d] EXCEPT !.established = b]} :
        x.epoch = session[d].epoch /\ x.sendCounter = session[d].sendCounter
          /\ x.highestSeen = session[d].highestSeen
  BY <1>1 DEF Sessions
<1>3. /\ session'[d] \in {session[d], [session[d] EXCEPT !.begun = b], [session[d] EXCEPT !.ownHello = b],
                          [session[d] EXCEPT !.established = b]}
      /\ \A o \in Ends \ {d} : session'[o] = session[o]
  BY <1>1
<1> QED
  BY <1>2, <1>3

LEMMA BudgetStep == FewWords /\ Shape /\ Shape' /\ Counted /\ Carried /\ OneWay /\ Budget /\ [Next]_vars => Budget'
<1> SUFFICES ASSUME FewWords, Shape, Shape', Counted, Carried, OneWay, Budget, [Next]_vars PROVE Budget'
  OBVIOUS
<1>1. /\ session \in [Ends -> Sessions] /\ \A o \in Ends : session[o] \in Sessions
      /\ jobs \in [Ends -> SUBSET Jobs]
      /\ opened \in [Ends -> BOOLEAN] /\ outbox \in [Ends -> Seq(Messages)] /\ said \in [Ends -> SUBSET Messages]
      /\ \A o \in Ends : Len(outbox[o]) \in Nat
  BY DEF Shape
<1>2. meeting.rekey \in Nat
  BY MeetingShape
<1>3. \A o \in Ends : session[o].sendCounter \in Nat /\ session[o].epoch \in Nat
  BY <1>1, <1>2 DEF Sessions
<1>4. \A o \in Ends : said[o] \subseteq Chatter[o] /\ Cardinality(said[o]) \in Nat
  BY WordsCounted DEF Budget
\* Most steps count nothing.
<1>5. ASSUME UNCHANGED <<opened, outbox, said>>,
             \A o \in Ends : /\ session'[o].epoch = session[o].epoch
                             /\ session'[o].sendCounter = session[o].sendCounter
                             /\ session'[o].highestSeen = session[o].highestSeen
      PROVE  Budget'
  BY <1>5, OtherEnd DEF Budget
<1>6. CASE UNCHANGED vars
  BY <1>5, <1>6 DEF vars
<1>7. SUFFICES ASSUME NEW d \in Ends,
                      \/ Open(d) \/ Close(d) \/ Fail(d) \/ Isolate(d)
                      \/ Receive(d) \/ Resume(d) \/ \E m \in Chatter[d] : Say(d, m)
               PROVE  Budget'
  BY <1>6 DEF Next
<1>8. Other(d) \in Ends /\ Other(d) # d /\ Other(Other(d)) = d
  BY OtherEnd
\* Nor does a session of which no more than its standing changes.
<1>9. ASSUME UNCHANGED <<opened, outbox, said>>, NEW b \in BOOLEAN,
             \/ session' = session \/ session' = [session EXCEPT ![d].begun = b]
             \/ session' = [session EXCEPT ![d].ownHello = b]
             \/ session' = [session EXCEPT ![d].established = b]
      PROVE  Budget'
  BY <1>5, <1>9, MarkedOnly
<1>10. CASE Open(d) \/ Close(d) \/ Fail(d) \/ Isolate(d)
  <2>1. UNCHANGED <<opened, outbox, said>>
    BY <1>10 DEF Open, Close, Fail, Isolate
  <2>2. CASE d = "initiator"
    <3>1. session' = session \/ session' = [session EXCEPT ![d].begun = TRUE]
      BY <1>10, <2>2 DEF Open, Close, Fail, Isolate
    <3> QED
      BY <1>9, <2>1, <3>1
  <2>3. CASE d # "initiator"
    <3>1. session' = session \/ session' = [session EXCEPT ![d].begun = FALSE]
      BY <1>10, <2>3 DEF Open, Close, Fail, Isolate
    <3> QED
      BY <1>9, <2>1, <3>1
  <2> QED
    BY <2>2, <2>3
<1>11. CASE Receive(d) \/ AcceptHello(d) \/ Confirmation(d)
  <2>1. UNCHANGED <<opened, outbox, said>>
    BY <1>11 DEF Receive, ReceiveHello, ReceiveConfirm, ReceiveSealed, AcceptHello, Confirmation
  <2>2. \/ session' = session \/ session' = [session EXCEPT ![d].begun = TRUE]
        \/ session' = [session EXCEPT ![d].established = TRUE]
    BY <1>11 DEF Receive, ReceiveHello, ReceiveConfirm, ReceiveSealed, AcceptHello, Confirmation
  <2> QED
    BY <1>9, <2>1, <2>2
<1>12. ASSUME NEW j \in jobs[d], CreateHello(d, j) \/ CheckConfirmation(d, j) \/ Encrypt(d, j)
       PROVE  Budget'
  <2>1. UNCHANGED <<opened, outbox, said>>
    BY <1>12 DEF CreateHello, CheckConfirmation, Encrypt
  <2>2. \/ session' = session \/ session' = [session EXCEPT ![d].ownHello = TRUE]
    BY <1>12 DEF CreateHello, CheckConfirmation, Encrypt
  <2> QED
    BY <1>9, <2>1, <2>2
<1>13. ASSUME NEW j \in jobs[d], Ratchet(d, j) PROVE Budget'
  <2>1. UNCHANGED <<opened, outbox, said>> /\ session' = [session EXCEPT ![d] = Ratcheted(session[d], j)]
    BY <1>13 DEF Ratchet
  <2>2. Ratcheted(session[d], j).epoch = session[d].epoch + 1 /\ Ratcheted(session[d], j).highestSeen = -1
    BY <1>1 DEF Ratcheted, Sessions
  <2>3. session'[d].epoch # 0 /\ session'[d].highestSeen = -1 /\ \A o \in Ends \ {d} : session'[o] = session[o]
    BY <1>1, <1>3, <2>1, <2>2
  <2> QED
    BY <1>4, <2>1, <2>3, BudgetKept
<1>14. ASSUME NEW j \in jobs[d], Decrypt(d, j) PROVE Budget'
  <2> DEFINE f == j.frame
  <2>1. UNCHANGED <<opened, outbox, said>> /\ session' = [session EXCEPT ![d] = Recorded(session[d], f)]
        /\ j.job = "decrypt"
    BY <1>14 DEF Decrypt
  <2>2. f \in Envelopes
    BY <1>1, <2>1, KindsOfJobs DEF Decrypts
  <2>3. /\ Recorded(session[d], f).epoch = session[d].epoch
        /\ Recorded(session[d], f).sendCounter = session[d].sendCounter
    BY <1>1, <2>2, RecordedShape
  <2>4. Recorded(session[d], f).highestSeen \in {session[d].highestSeen, f.c}
    BY <1>1 DEF Recorded, Sessions
  <2>5. Number(f) \in Spent(Other(d))
    <3>1. Number(f) \in Taken(d)
      BY <2>1 DEF Taken
    <3> QED
      BY <3>1 DEF Carried
  <2>6. session[Other(d)].epoch = 0 => f.c < session[Other(d)].sendCounter
    <3>1. PICK n \in nonces : n[1] = Other(d) /\ n[3] = f.e /\ n[4] = f.c
      BY <2>5 DEF Spent, Number
    <3>2. f.e \in Nat /\ f.e <= session[Other(d)].epoch
      BY <2>2, <3>1 DEF Counted, Envelopes
    <3>3. f.e = session[Other(d)].epoch => f.c < session[Other(d)].sendCounter
      BY <3>1 DEF Counted
    <3> QED
      BY <1>3, <1>8, <3>2, <3>3
  <2> HIDE DEF f
  <2>7. /\ session'[d] = Recorded(session[d], f)
        /\ \A o \in Ends \ {d} : session'[o] = session[o]
    BY <1>1, <2>1
  <2>8. \/ session'[d].highestSeen \in {-1, session[d].highestSeen}
        \/ session[Other(d)].epoch = 0 => session'[d].highestSeen < session[Other(d)].sendCounter
    BY <2>4, <2>6, <2>7
  <2>9. /\ session'[d].sendCounter >= session[d].sendCounter
        /\ session'[d].epoch = session[d].epoch
        /\ session[d].sendCounter + Len(outbox[d]) <= Due(d) =>
             session'[d].sendCounter + Len(outbox'[d]) <= Due(d)'
    BY <1>3, <2>1, <2>3, <2>7 DEF Due
  <2> QED
    BY <1>4, <2>1, <2>7, <2>8, <2>9, BudgetKept
<1>15. CASE Secure(d)
  <2> DEFINE greeting == IF link[d] = "dropped" THEN <<>> ELSE <<"hello">>
             all == IF isolated[d] = "now" THEN <<>> ELSE greeting \o outbox[d] \o <<"roster">>
             outcome == SealAll(session[d], all)
  <2>1. said' = said /\ Job("safetyWord") \in jobs[d]
    BY <1>15 DEF Secure
  <2>2. CASE meeting.doubt[d] = "barred"
    <3>1. UNCHANGED <<session, opened, outbox>>
      BY <1>15, <2>2 DEF Secure
    <3> QED
      BY <1>5, <2>1, <3>1
  <2>3. CASE meeting.doubt[d] # "barred"
    <3>1. /\ session' = [session EXCEPT ![d] = outcome.session]
          /\ opened' = [opened EXCEPT ![d] = TRUE] /\ outbox' = [outbox EXCEPT ![d] = <<>>]
      BY <1>15, <2>3 DEF Secure
    <3>2. ~opened[d]
      <4>1. Stage(d, 9)
        BY <2>1 DEF Stage, Pending, Job
      <4>2. ~Stage(d, 10)
        BY <4>1 DEF OneWay, Stages
      <4> QED
        BY <4>2 DEF Stage
    <3>3. all \in Seq(Messages) /\ Len(all) \in Nat /\ Len(all) <= Len(outbox[d]) + 2
      <4>1. all \in Seq(Messages)
        BY FlushShape
      <4>2. Len(greeting) \in Nat /\ Len(greeting) <= 1 /\ greeting \in Seq({"hello"})
        <5>1. Len(<<>>) = 0 /\ <<>> \in Seq({"hello"}) /\ Len(<<"hello">>) = 1 /\ <<"hello">> \in Seq({"hello"})
          OBVIOUS
        <5>2. greeting = <<>> \/ greeting = <<"hello">>
          OBVIOUS
        <5> HIDE DEF greeting
        <5>3. CASE greeting = <<>>
          BY <5>1, <5>3
        <5>4. CASE greeting = <<"hello">>
          BY <5>1, <5>4
        <5> QED
          BY <5>2, <5>3, <5>4
      <4>3. outbox[d] \in Seq(Messages)
        BY <1>1
      <4> HIDE DEF greeting
      <4>4. Len(greeting \o outbox[d] \o <<"roster">>) = Len(greeting) + Len(outbox[d]) + 1
        BY <4>2, <4>3
      <4>5. Len(<<>>) = 0
        OBVIOUS
      <4>6. all = <<>> \/ all = greeting \o outbox[d] \o <<"roster">>
        OBVIOUS
      <4> HIDE DEF all
      <4>7. Len(all) = 0 \/ Len(all) = Len(greeting) + Len(outbox[d]) + 1
        BY <4>4, <4>5, <4>6
      <4>8. Len(outbox[d]) \in Nat
        BY <1>1
      <4>9. Len(all) \in Nat /\ Len(all) <= Len(outbox[d]) + 2
        <5>1. CASE Len(all) = 0
          BY <4>8, <5>1
        <5>2. CASE Len(all) = Len(greeting) + Len(outbox[d]) + 1
          BY <4>2, <4>8, <5>2
        <5> QED
          BY <4>7, <5>1, <5>2
      <4> QED
        BY <4>1, <4>9
    <3>4. outcome.session = After(session[d], Len(all))
      BY DEF SealAll
    <3> HIDE DEF all
    <3>5. /\ outcome.session.epoch = session[d].epoch
          /\ outcome.session.sendCounter >= session[d].sendCounter
          /\ outcome.session.sendCounter <= session[d].sendCounter + Len(all)
          /\ outcome.session.sendCounter \in Nat
      <4> DEFINE a == After(session[d], Len(all))
      <4>1. /\ a.epoch = session[d].epoch /\ a.sendCounter \in Nat
            /\ session[d].sendCounter + Len(all) <= meeting.rekey => a.sendCounter = session[d].sendCounter + Len(all)
            /\ session[d].sendCounter + Len(all) > meeting.rekey => a.sendCounter = meeting.rekey
            /\ session[d].sendCounter <= meeting.rekey
        BY <1>1, <3>3, AfterCounts
      <4>2. outcome.session = a
        BY <3>4
      <4> HIDE DEF a, outcome
      <4> QED
        BY <1>2, <1>3, <3>3, <4>1, <4>2
    <3>6. outcome.session.highestSeen = session[d].highestSeen
      BY <1>1, <3>4 DEF After, Sessions
    <3> HIDE DEF outcome
    <3>7. /\ session'[d] = outcome.session /\ opened'[d] = TRUE /\ outbox'[d] = <<>>
          /\ \A o \in Ends \ {d} : session'[o] = session[o] /\ outbox'[o] = outbox[o] /\ opened'[o] = opened[o]
      BY <1>1, <3>1
    <3>8. session[d].sendCounter + Len(outbox[d]) <= Due(d) =>
            session'[d].sendCounter + Len(outbox'[d]) <= Due(d)'
      <4>1. Due(d) = Cardinality(said[d]) /\ Due(d)' = Cardinality(said[d]) + 2 /\ Len(outbox'[d]) = 0
        BY <1>4, <2>1, <3>2, <3>7 DEF Due
      <4> QED
        BY <1>1, <1>3, <1>4, <3>3, <3>5, <3>7, <4>1
    <3> QED
      BY <1>4, <2>1, <3>5, <3>6, <3>7, <3>8, BudgetKept
  <2> QED
    BY <2>2, <2>3
<1>16. ASSUME NEW m \in Chatter[d], Say(d, m) PROVE Budget'
  <2> DEFINE outcome == StartSeal(session[d], m)
  <2>1. opened' = opened /\ said' = [said EXCEPT ![d] = @ \cup {m}] /\ m \notin said[d]
    BY <1>16 DEF Say
  <2>2. /\ said'[d] = said[d] \cup {m}
        /\ \A o \in Ends \ {d} : said'[o] = said[o]
        /\ \A o \in Ends : said'[o] \subseteq Chatter[o]
    BY <1>1, <1>4, <2>1
  <2>3. Due(d)' = Due(d) + 1 /\ Due(d) \in Nat
    <3>1. Cardinality(said'[d]) = Cardinality(said[d]) + 1
      BY <2>1, <2>2, WordsCounted
    <3> QED
      BY <1>4, <2>1, <3>1 DEF Due
  <2>4. m \in Messages
    BY DEF Messages
  <2>5. \/ session' = session /\ outbox' = outbox
        \/ session' = session /\ outbox' = [outbox EXCEPT ![d] = Append(@, m)]
        \/ session' = [session EXCEPT ![d] = outcome.session] /\ outbox' = outbox
    BY <1>16 DEF Say
  <2>6. /\ outcome.session.epoch = session[d].epoch
        /\ outcome.session.sendCounter \in {session[d].sendCounter, session[d].sendCounter + 1}
        /\ outcome.session.highestSeen = session[d].highestSeen
    BY <1>1 DEF StartSeal, Sessions
  <2> HIDE DEF outcome
  <2>7. \A o \in Ends \ {d} : session'[o] = session[o] /\ outbox'[o] = outbox[o]
    BY <1>1, <2>5
  <2>8. /\ session'[d].epoch = session[d].epoch
        /\ session'[d].highestSeen = session[d].highestSeen
        /\ session'[d].sendCounter >= session[d].sendCounter
        /\ session'[d].sendCounter + Len(outbox'[d]) <= session[d].sendCounter + Len(outbox[d]) + 1
    <3>1. CASE session' = session /\ outbox' = outbox
      BY <1>1, <1>3, <3>1
    <3>2. CASE session' = session /\ outbox' = [outbox EXCEPT ![d] = Append(@, m)]
      <4>1. outbox'[d] = Append(outbox[d], m) /\ outbox[d] \in Seq(Messages)
        BY <1>1, <3>2
      <4>2. Len(outbox'[d]) = Len(outbox[d]) + 1
        BY <2>4, <4>1
      <4> QED
        BY <1>1, <1>3, <3>2, <4>2
    <3>3. CASE session' = [session EXCEPT ![d] = outcome.session] /\ outbox' = outbox
      <4>1. session'[d] = outcome.session
        BY <1>1, <3>3
      <4> QED
        BY <1>1, <1>3, <2>6, <3>3, <4>1
    <3> QED
      BY <2>5, <3>1, <3>2, <3>3
  <2>9. session[d].sendCounter + Len(outbox[d]) <= Due(d) =>
          session'[d].sendCounter + Len(outbox'[d]) <= Due(d)'
    <3>1. session'[d].sendCounter \in Nat /\ Len(outbox'[d]) \in Nat
      <4>1. session'[d] \in Sessions' /\ outbox'[d] \in Seq(Messages) /\ meeting' = meeting
        BY <1>16 DEF Shape, Say
      <4> QED
        BY <1>2, <4>1 DEF Sessions
    <3> QED
      BY <1>1, <1>3, <2>3, <2>8, <3>1
  <2> QED
    BY <2>1, <2>2, <2>7, <2>8, <2>9, BudgetKept
<1> QED
  BY <1>7, <1>10, <1>11, <1>12, <1>13, <1>14, <1>15, <1>16 DEF Resume

-----------------------------------------------------------------------------
\* A calm is never made: it was calm before.
LEMMA CalmBefore ==
  ASSUME Shape, [Next]_vars, Calm'
  PROVE  Calm
<1>1. /\ link \in [Ends -> {"connecting", "open", "dropped"}] /\ isolated \in [Ends -> {"never", "now", "was"}]
      /\ session \in [Ends -> Sessions] /\ \A o \in Ends : session[o] \in Sessions /\ session[o].epoch \in Nat
      /\ jobs \in [Ends -> SUBSET Jobs]
  BY DEF Shape, Sessions
<1>2. \A o \in Ends : link'[o] # "dropped" /\ isolated'[o] = "never" /\ session'[o].epoch = 0
  BY DEF Calm
<1>3. CASE UNCHANGED vars
  BY <1>2, <1>3 DEF vars, Calm
<1>4. SUFFICES ASSUME NEW d \in Ends,
                      \/ Open(d) \/ Close(d) \/ Fail(d) \/ Isolate(d)
                      \/ Receive(d) \/ Resume(d) \/ \E m \in Chatter[d] : Say(d, m)
               PROVE  Calm
  BY <1>3 DEF Next
<1>5. ASSUME \A o \in Ends : session'[o].epoch \in {session[o].epoch, session[o].epoch + 1},
             \/ link' = link \/ link' = [link EXCEPT ![d] = "dropped"]
             \/ link[d] = "connecting" /\ link' = [link EXCEPT ![d] = "open"],
             isolated' = isolated
      PROVE  Calm
  <2>1. \A o \in Ends : session[o].epoch = 0
    BY <1>1, <1>2, <1>5
  <2>2. \A o \in Ends : link[o] # "dropped"
    BY <1>1, <1>2, <1>5
  <2> QED
    BY <1>2, <1>5, <2>1, <2>2 DEF Calm
<1>6. ASSUME NEW b \in BOOLEAN,
             \/ session' = session \/ session' = [session EXCEPT ![d].begun = b]
             \/ session' = [session EXCEPT ![d].ownHello = b]
             \/ session' = [session EXCEPT ![d].established = b]
      PROVE  \A o \in Ends : session'[o].epoch \in {session[o].epoch, session[o].epoch + 1}
  <2>1. \A o \in Ends : session'[o].epoch = session[o].epoch
    BY <1>6, MarkedOnly
  <2> QED
    BY <2>1
<1>7. CASE Close(d) \/ Fail(d)
  BY <1>1, <1>5, <1>7 DEF Close, Fail, Dropped
<1>8. CASE Isolate(d)
  <2>1. isolated'[d] \in {"now", "was"}
    BY <1>1, <1>8 DEF Isolate
  <2> QED
    BY <1>2, <2>1
<1>9. CASE Open(d)
  <2>1. isolated' = isolated /\ link[d] = "connecting"
    BY <1>9 DEF Open
  <2>2. link' = [link EXCEPT ![d] = "dropped"] \/ link' = [link EXCEPT ![d] = "open"]
    BY <1>9 DEF Open, Dropped
  <2>3. CASE d = "initiator"
    <3>1. session' = session \/ session' = [session EXCEPT ![d].begun = TRUE]
      BY <1>9, <2>3 DEF Open
    <3>2. \A o \in Ends : session'[o].epoch \in {session[o].epoch, session[o].epoch + 1}
      BY <1>6, <3>1
    <3> QED
      BY <1>5, <2>1, <2>2, <3>2
  <2>4. CASE d # "initiator"
    <3>1. session' = session \/ session' = [session EXCEPT ![d].begun = FALSE]
      BY <1>9, <2>4 DEF Open
    <3>2. \A o \in Ends : session'[o].epoch \in {session[o].epoch, session[o].epoch + 1}
      BY <1>6, <3>1
    <3> QED
      BY <1>5, <2>1, <2>2, <3>2
  <2> QED
    BY <2>3, <2>4
<1>10. CASE Receive(d)
  <2>1. isolated' = isolated /\ (link' = link \/ link' = [link EXCEPT ![d] = "dropped"])
    BY <1>10 DEF Receive, ReceiveHello, ReceiveConfirm, ReceiveSealed, Dropped
  <2>2. session' = session \/ session' = [session EXCEPT ![d].begun = TRUE]
    BY <1>10 DEF Receive, ReceiveHello, ReceiveConfirm, ReceiveSealed
  <2>3. \A o \in Ends : session'[o].epoch \in {session[o].epoch, session[o].epoch + 1}
    BY <1>6, <2>2
  <2> QED
    BY <1>5, <2>1, <2>3
<1>11. CASE AcceptHello(d) \/ Confirmation(d)
  <2>1. isolated' = isolated /\ (link' = link \/ link' = [link EXCEPT ![d] = "dropped"])
    BY <1>11 DEF AcceptHello, Confirmation, Dropped
  <2>2. session' = session \/ session' = [session EXCEPT ![d].established = TRUE]
    BY <1>11 DEF AcceptHello, Confirmation
  <2>3. \A o \in Ends : session'[o].epoch \in {session[o].epoch, session[o].epoch + 1}
    BY <1>6, <2>2
  <2> QED
    BY <1>5, <2>1, <2>3
<1>12. CASE Secure(d)
  <2> DEFINE all == IF isolated[d] = "now" THEN <<>>
                    ELSE (IF link[d] = "dropped" THEN <<>> ELSE <<"hello">>) \o outbox[d] \o <<"roster">>
             outcome == SealAll(session[d], all)
  <2>1. isolated' = isolated /\ (link' = link \/ link' = [link EXCEPT ![d] = "dropped"])
        /\ (session' = session \/ session' = [session EXCEPT ![d] = outcome.session])
    BY <1>12 DEF Secure, Dropped
  <2>2. outcome.session.epoch = session[d].epoch
    <3>1. all \in Seq(Messages)
      BY FlushShape
    <3> HIDE DEF all
    <3> QED
      BY <1>1, <3>1, SealedInTurn
  <2> HIDE DEF outcome
  <2>3. \A o \in Ends : session'[o].epoch \in {session[o].epoch, session[o].epoch + 1}
    BY <1>1, <2>1, <2>2
  <2> QED
    BY <1>5, <2>1, <2>3
<1>13. ASSUME NEW j \in jobs[d], CreateHello(d, j) \/ CheckConfirmation(d, j) \/ Encrypt(d, j)
       PROVE  Calm
  <2>1. isolated' = isolated /\ (link' = link \/ link' = [link EXCEPT ![d] = "dropped"])
    BY <1>13 DEF CreateHello, CheckConfirmation, Encrypt, Dropped
  <2>2. session' = session \/ session' = [session EXCEPT ![d].ownHello = TRUE]
    BY <1>13 DEF CreateHello, CheckConfirmation, Encrypt
  <2>3. \A o \in Ends : session'[o].epoch \in {session[o].epoch, session[o].epoch + 1}
    BY <1>6, <2>2
  <2> QED
    BY <1>5, <2>1, <2>3
<1>14. ASSUME NEW j \in jobs[d], Ratchet(d, j) PROVE Calm
  <2>1. UNCHANGED <<isolated, link>> /\ session' = [session EXCEPT ![d] = Ratcheted(session[d], j)]
    BY <1>14 DEF Ratchet
  <2>2. Ratcheted(session[d], j).epoch = session[d].epoch + 1
    BY <1>1 DEF Ratcheted, Sessions
  <2>3. \A o \in Ends : session'[o].epoch \in {session[o].epoch, session[o].epoch + 1}
    BY <1>1, <2>1, <2>2
  <2> QED
    BY <1>5, <2>1, <2>3
<1>15. ASSUME NEW j \in jobs[d], Decrypt(d, j) PROVE Calm
  <2>1. UNCHANGED <<isolated, link>> /\ session' = [session EXCEPT ![d] = Recorded(session[d], j.frame)]
        /\ j.frame \in Envelopes
    BY <1>1, <1>15, KindsOfJobs DEF Decrypt, Decrypts
  <2>2. Recorded(session[d], j.frame).epoch = session[d].epoch
    BY <1>1, <2>1, RecordedShape
  <2>3. \A o \in Ends : session'[o].epoch \in {session[o].epoch, session[o].epoch + 1}
    BY <1>1, <2>1, <2>2
  <2> QED
    BY <1>5, <2>1, <2>3
<1>16. ASSUME NEW m \in Chatter[d], Say(d, m) PROVE Calm
  <2>1. UNCHANGED <<isolated, link>>
        /\ (session' = session \/ session' = [session EXCEPT ![d] = StartSeal(session[d], m).session])
    BY <1>16 DEF Say
  <2>2. StartSeal(session[d], m).session.epoch = session[d].epoch
    BY <1>1 DEF StartSeal, Sessions
  <2>3. \A o \in Ends : session'[o].epoch \in {session[o].epoch, session[o].epoch + 1}
    BY <1>1, <2>1, <2>2
  <2> QED
    BY <1>5, <2>1, <2>3
<1> QED
  BY <1>4, <1>7, <1>8, <1>9, <1>10, <1>11, <1>12, <1>13, <1>14, <1>15, <1>16 DEF Resume

\* What is on the wire stays there until it is taken.
LEMMA StaysOnWire ==
  ASSUME Shape, NEW d \in Ends
  PROVE  /\ \A f \in Frames : wire' = Raw(d, f) =>
              /\ \A o \in Ends : OnWire(o) \subseteq OnWire(o)'
              /\ link[d] = "open" => f \in OnWire(Other(d))'
         /\ wire[d] # <<>> /\ TakeFrame(d) =>
              \A o \in Ends : \A g \in OnWire(o) : g \in OnWire(o)' \/ (o = d /\ g = Head(wire[d]))
<1>1. /\ wire \in [Ends -> Seq(Frames)] /\ Other(d) \in Ends
      /\ \A o \in Ends : wire[o] \in Seq(Frames) /\ Len(wire[o]) \in Nat
  BY OtherEnd DEF Shape
<1>2. ASSUME NEW f \in Frames, wire' = Raw(d, f)
      PROVE  /\ \A o \in Ends : OnWire(o) \subseteq OnWire(o)'
             /\ link[d] = "open" => f \in OnWire(Other(d))'
  <2>1. CASE link[d] = "open"
    <3>1. wire'[Other(d)] = Append(wire[Other(d)], f) /\ \A o \in Ends \ {Other(d)} : wire'[o] = wire[o]
      BY <1>1, <1>2, <2>1 DEF Raw
    <3>2. /\ DOMAIN wire'[Other(d)] = 1 .. (Len(wire[Other(d)]) + 1)
          /\ DOMAIN wire[Other(d)] = 1 .. Len(wire[Other(d)])
          /\ wire'[Other(d)][Len(wire[Other(d)]) + 1] = f
          /\ \A i \in DOMAIN wire[Other(d)] : wire'[Other(d)][i] = wire[Other(d)][i]
      BY <1>1, <3>1
    <3>3. \A i \in DOMAIN wire[Other(d)] : i \in DOMAIN wire'[Other(d)]
      BY <1>1, <3>2
    <3>4. Len(wire[Other(d)]) + 1 \in DOMAIN wire'[Other(d)]
      BY <1>1, <3>2
    <3>5. OnWire(Other(d)) \subseteq OnWire(Other(d))'
      BY <3>2, <3>3 DEF OnWire
    <3>6. f \in OnWire(Other(d))'
      BY <3>2, <3>4 DEF OnWire
    <3> QED
      BY <3>1, <3>5, <3>6 DEF OnWire
  <2>2. CASE link[d] # "open"
    BY <1>2, <2>2 DEF Raw, OnWire
  <2> QED
    BY <2>1, <2>2
<1>3. ASSUME wire[d] # <<>>, TakeFrame(d), NEW o \in Ends, NEW g \in OnWire(o)
      PROVE  g \in OnWire(o)' \/ (o = d /\ g = Head(wire[d]))
  <2>1. CASE o # d
    BY <1>1, <1>3, <2>1 DEF TakeFrame, OnWire
  <2>2. CASE o = d
    <3>1. PICK i \in DOMAIN wire[d] : g = wire[d][i]
      BY <1>3, <2>2 DEF OnWire
    <3>2. wire'[d] = Tail(wire[d])
      BY <1>1, <1>3 DEF TakeFrame
    <3>3. CASE i = 1
      BY <1>1, <1>3, <2>2, <3>1, <3>3
    <3>4. CASE i # 1
      <4>1. i - 1 \in DOMAIN Tail(wire[d]) /\ Tail(wire[d])[i - 1] = wire[d][i]
        BY <1>1, <1>3, <3>1, <3>4
      <4> QED
        BY <2>2, <3>1, <3>2, <4>1 DEF OnWire
    <3> QED
      BY <3>3, <3>4
  <2> QED
    BY <2>1, <2>2
<1> QED
  BY <1>2, <1>3

\* A step that disturbs no hello on its way.
LEMMA TravelsOn ==
  ASSUME NEW d \in Ends,
         \A o \in Ends : \A j \in jobs[o] : j.job \in {"encrypt", "ratchet", "decrypt"} => j \in jobs'[o],
         \A o \in Ends : \A f \in OnWire(o) : f.kind = "sealed" => f \in OnWire(o)',
         \A o \in Ends : heard[o] \subseteq heard'[o],
         Travels(d)
  PROVE  Travels(d)'
  BY OtherEnd DEF Travels

LEMMA OnItsWayStep ==
  FewWords /\ Shape /\ Counted /\ Carried /\ Flushed /\ Waits /\ Budget /\ OnItsWay /\ [Next]_vars => OnItsWay'
<1> SUFFICES ASSUME FewWords, Shape, Counted, Carried, Flushed, Waits, Budget, OnItsWay, [Next]_vars,
                    Calm', \A o \in Ends : opened'[o]
             PROVE  \E o \in Ends : Travels(o)'
  BY DEF OnItsWay
<1>1. /\ jobs \in [Ends -> SUBSET Jobs] /\ wire \in [Ends -> Seq(Frames)] /\ heard \in [Ends -> SUBSET Messages]
      /\ session \in [Ends -> Sessions] /\ \A o \in Ends : session[o] \in Sessions /\ jobs[o] \subseteq Jobs
      /\ link \in [Ends -> {"connecting", "open", "dropped"}] /\ opened \in [Ends -> BOOLEAN]
  BY DEF Shape
<1>2. Calm
  BY CalmBefore
<1>3. \A o \in Ends : /\ session[o].epoch = 0 /\ session[o].keys = <<>>
                      /\ isolated[o] = "never" /\ link[o] # "dropped"
  BY <1>2 DEF Calm, Counted
<1>4. \A o \in Ends : opened[o] => secured[o] /\ link[o] = "open"
  BY <1>1, <1>3 DEF Flushed, Waits
\* The hello that was on its way goes on, unless this step takes it further.
<1>5. ASSUME opened' = opened,
             \A o \in Ends : \A j \in jobs[o] : j.job \in {"encrypt", "ratchet", "decrypt"} => j \in jobs'[o],
             \A o \in Ends : \A f \in OnWire(o) : f.kind = "sealed" => f \in OnWire(o)',
             \A o \in Ends : heard[o] \subseteq heard'[o]
      PROVE  \E o \in Ends : Travels(o)'
  <2>1. PICK o \in Ends : Travels(o)
    BY <1>2, <1>5 DEF OnItsWay
  <2>2. Travels(o)'
    BY <1>5, <2>1, TravelsOn
  <2> QED
    BY <2>2
<1>6. CASE UNCHANGED vars
  BY <1>5, <1>6 DEF vars, OnWire
<1>7. SUFFICES ASSUME NEW d \in Ends,
                      \/ Open(d) \/ Close(d) \/ Fail(d) \/ Isolate(d)
                      \/ Receive(d) \/ Resume(d) \/ \E m \in Chatter[d] : Say(d, m)
               PROVE  \E o \in Ends : Travels(o)'
  BY <1>6 DEF Next
<1>8. Other(d) \in Ends /\ Other(d) # d /\ Other(Other(d)) = d /\ \A o \in Ends : o = d \/ o = Other(d)
  BY OtherEnd
<1>9. CASE Open(d) \/ Close(d) \/ Fail(d) \/ Isolate(d)
  <2>1. UNCHANGED <<opened, wire, heard>>
    BY <1>9 DEF Open, Close, Fail, Isolate
  <2>2. \A o \in Ends : jobs[o] \subseteq jobs'[o]
    <3>1. CASE Open(d)
      <4>1. jobs' = jobs \/ jobs' = [jobs EXCEPT ![d] = IF d = "initiator" THEN @ \cup {Job("createHello")} ELSE @]
        BY <3>1 DEF Open
      <4> QED
        BY <1>1, <4>1
    <3>2. CASE Close(d) \/ Fail(d) \/ Isolate(d)
      BY <3>2 DEF Close, Fail, Isolate
    <3> QED
      BY <1>9, <3>1, <3>2
  <2> QED
    BY <1>5, <2>1, <2>2 DEF OnWire
<1>10. CASE ReceiveHello(d) \/ ReceiveConfirm(d)
  <2>1. UNCHANGED <<opened, heard>> /\ TakeFrame(d) /\ wire[d] # <<>> /\ Head(wire[d]).kind # "sealed"
    BY <1>10 DEF ReceiveHello, ReceiveConfirm
  <2>2. \A o \in Ends : jobs[o] \subseteq jobs'[o]
    BY <1>1, <1>10 DEF ReceiveHello, ReceiveConfirm
  <2>3. \A o \in Ends : \A f \in OnWire(o) : f.kind = "sealed" => f \in OnWire(o)'
    BY <2>1, StaysOnWire
  <2> QED
    BY <1>5, <2>1, <2>2, <2>3
<1>11. CASE ReceiveSealed(d)
  <2> DEFINE f == Head(wire[d])
  <2>1. UNCHANGED <<opened, heard>> /\ TakeFrame(d) /\ wire[d] # <<>> /\ f.kind = "sealed"
    BY <1>11 DEF ReceiveSealed
  <2>2. \A o \in Ends : jobs[o] \subseteq jobs'[o]
    <3>1. jobs' = jobs \/ jobs' = [jobs EXCEPT ![d] = @ \cup {Handed("decrypt", f)}]
      BY <1>11 DEF ReceiveSealed
    <3> HIDE DEF f
    <3> QED
      BY <1>1, <3>1
  <2>3. \A o \in Ends : \A g \in OnWire(o) : g \in OnWire(o)' \/ (o = d /\ g = f)
    BY <2>1, StaysOnWire
  <2>4. CASE f.msg = "hello" /\ f.outer = <<>>
    <3>1. Read(d)
      BY <1>1, <2>1 DEF Read, TakeFrame
    <3>2. secured[d] /\ isolated[d] # "now" /\ session[d].keys = <<>>
      BY <1>3, <1>4, <2>1
    <3>3. f.c >= session[d].highestSeen - Window
      <4>1. session[d].highestSeen <= Window
        BY <1>3, <1>8, InsideWindow
      <4>2. session[d].highestSeen \in Int
        BY <1>1 DEF Sessions
      <4>3. f \in Frames
        BY <1>1, <2>1
      <4>4. f.c \in Nat
        BY <2>1, <4>3, KindsOfFrames DEF Envelopes
      <4> HIDE DEF f
      <4> QED
        BY <4>1, <4>2, <4>4, SessionAssumption
    <3>4. Opens(d)
      BY <2>1, <2>4, <3>1, <3>2, <3>3, TakingStep DEF Taking
    <3>5. Handed("decrypt", f) \in jobs'[d] /\ Handed("decrypt", f).job = "decrypt"
          /\ Handed("decrypt", f).frame = f
      BY <3>4 DEF Opens, Handed
    <3> HIDE DEF f
    <3>6. Travels(Other(d))'
      BY <1>8, <2>4, <3>5 DEF Travels
    <3> QED
      BY <1>8, <3>6
  <2>5. CASE ~(f.msg = "hello" /\ f.outer = <<>>)
    <3>1. PICK o \in Ends : Travels(o)
      BY <1>2, <2>1 DEF OnItsWay
    <3> HIDE DEF f
    <3>2. Travels(o)'
      <4>1. Other(o) \in Ends
        BY OtherEnd
      <4> QED
        BY <2>1, <2>2, <2>3, <2>5, <3>1, <4>1 DEF Travels
    <3> QED
      BY <3>2
  <2> QED
    BY <2>4, <2>5
\* A job that carries no message.
<1>12. ASSUME NEW j, j.job \notin {"encrypt", "ratchet", "decrypt"}, UNCHANGED <<opened, heard>>,
              \A o \in Ends : jobs[o] \ {j} \subseteq jobs'[o],
              wire' = wire \/ \E f \in Frames : wire' = Raw(d, f)
       PROVE  \E o \in Ends : Travels(o)'
  <2>1. \A o \in Ends : OnWire(o) \subseteq OnWire(o)'
    <3>1. CASE wire' = wire
      BY <3>1 DEF OnWire
    <3>2. ASSUME NEW f \in Frames, wire' = Raw(d, f) PROVE \A o \in Ends : OnWire(o) \subseteq OnWire(o)'
      BY <3>2, StaysOnWire
    <3> QED
      BY <1>12, <3>1, <3>2
  <2>2. \A o \in Ends : \A i \in jobs[o] : i.job \in {"encrypt", "ratchet", "decrypt"} => i \in jobs'[o]
    BY <1>12
  <2> QED
    BY <1>5, <1>12, <2>1, <2>2
<1>13. CASE AcceptHello(d)
  <2> DEFINE j == Job("acceptHello")
  <2>1. j.job = "acceptHello" /\ UNCHANGED <<opened, heard, wire>>
    BY <1>13 DEF AcceptHello, Job
  <2>2. \A o \in Ends : jobs[o] \ {j} \subseteq jobs'[o]
    BY <1>1, <1>13 DEF AcceptHello
  <2> HIDE DEF j
  <2> QED
    BY <1>12, <2>1, <2>2
<1>14. CASE Confirmation(d)
  <2> DEFINE j == Job("confirmation")
             f == [kind |-> "confirm", mac |-> meeting.secret[d]]
  <2>1. j.job = "confirmation" /\ UNCHANGED <<opened, heard>> /\ wire' = Raw(d, f)
    BY <1>14 DEF Confirmation, Job
  <2>2. f \in Frames
    BY MeetingShape DEF Frames
  <2>3. \A o \in Ends : jobs[o] \ {j} \subseteq jobs'[o]
    BY <1>1, <1>14 DEF Confirmation
  <2> HIDE DEF j, f
  <2> QED
    BY <1>12, <2>1, <2>2, <2>3
<1>15. ASSUME NEW j \in jobs[d], CreateHello(d, j) \/ CheckConfirmation(d, j)
       PROVE  \E o \in Ends : Travels(o)'
  <2>1. UNCHANGED <<opened, heard>> /\ j.job \in {"createHello", "answerHello", "checkConfirmation"}
    BY <1>15 DEF CreateHello, CheckConfirmation
  <2>2. \A o \in Ends : jobs[o] \ {j} \subseteq jobs'[o]
    BY <1>1, <1>15 DEF CreateHello, CheckConfirmation
  <2>3. wire' = wire \/ wire' = Raw(d, Hello)
    BY <1>15 DEF CreateHello, CheckConfirmation
  <2>4. Hello \in Frames
    BY DEF Hello, Frames
  <2> QED
    BY <1>12, <2>1, <2>2, <2>3, <2>4
\* The end that is introduced last says hello to one that is ready to hear it.
<1>16. CASE Secure(d)
  <2> DEFINE all == <<"hello">> \o outbox[d] \o <<"roster">>
             outcome == SealAll(session[d], all)
             first == StartSeal(session[d], "hello")
  <2>1. CASE meeting.doubt[d] = "barred"
    <3>1. Dropped(d)
      BY <1>16, <2>1 DEF Secure
    <3>2. link'[d] = "dropped"
      BY <1>1, <3>1 DEF Dropped
    <3> QED
      BY <3>2 DEF Calm
  <2>2. CASE meeting.doubt[d] # "barred"
    <3>1. jobs' = [jobs EXCEPT ![d] = (@ \ {Job("safetyWord")}) \cup outcome.jobs]
      BY <1>3, <1>16, <2>2 DEF Secure
    <3>2. outbox[d] \in Seq(Messages) /\ "hello" \in Messages /\ "roster" \in Messages
      BY DEF Shape, Messages
    <3>3. all \in Seq(Messages) /\ 1 \in DOMAIN all /\ all[1] = "hello"
      BY <3>2
    <3>4. After(session[d], 0) = session[d]
      <4>1. session[d].sendCounter \in Nat /\ session[d].sendCounter <= meeting.rekey /\ meeting.rekey \in Nat
        BY <1>1, MeetingShape DEF Sessions
      <4>2. (IF session[d].sendCounter + 0 <= meeting.rekey THEN session[d].sendCounter + 0 ELSE meeting.rekey)
              = session[d].sendCounter
        BY <4>1
      <4> QED
        BY <1>1, <4>2 DEF After, Sessions
    <3>5. first.job \in outcome.jobs
      <4>1. StartSeal(After(session[d], 1 - 1), all[1]).job \in outcome.jobs
        BY <3>3 DEF SealAll
      <4>2. After(session[d], 1 - 1) = session[d]
        BY <3>4
      <4> QED
        BY <3>3, <4>1, <4>2
    <3>6. first.job.job \in {"encrypt", "ratchet"} /\ first.job.msg = "hello"
      BY DEF StartSeal
    <3> HIDE DEF all, outcome, first
    <3>7. first.job \in jobs'[d]
      BY <1>1, <3>1, <3>5
    <3>8. Travels(d)'
      BY <3>6, <3>7 DEF Travels
    <3> QED
      BY <3>8
  <2> QED
    BY <2>1, <2>2
<1>17. ASSUME NEW j \in jobs[d], Ratchet(d, j) PROVE \E o \in Ends : Travels(o)'
  <2>1. session'[d].epoch = session[d].epoch + 1
    BY <1>1, <1>17 DEF Ratchet, Ratcheted, Sessions
  <2> QED
    BY <1>3, <2>1 DEF Calm
<1>18. ASSUME NEW j \in jobs[d], Encrypt(d, j) PROVE \E o \in Ends : Travels(o)'
  <2> DEFINE f == [kind |-> "sealed", msg |-> j.msg, e |-> j.e, c |-> j.c,
                   inner |-> j.inner, outer |-> session[d].keys]
  <2>1. UNCHANGED <<opened, heard>> /\ wire' = Raw(d, f) /\ j \in Encrypts
    BY <1>1, <1>18, KindsOfJobs DEF Encrypt
  <2>2. \A o \in Ends : jobs[o] \ {j} \subseteq jobs'[o] /\ (o # d => jobs'[o] = jobs[o])
    BY <1>1, <1>18 DEF Encrypt
  <2>3. f \in Frames
    BY <1>1, <2>1 DEF Frames, Encrypts, Sessions
  <2>4. f.kind = "sealed" /\ f.msg = j.msg /\ f.outer = <<>> /\ j.job = "encrypt"
    BY <1>3, <2>1 DEF Encrypts
  <2> HIDE DEF f
  <2>5. \A o \in Ends : OnWire(o) \subseteq OnWire(o)'
    BY <2>1, <2>3, StaysOnWire
  <2>6. f \in OnWire(Other(d))'
    BY <1>4, <2>1, <2>3, StaysOnWire
  <2>7. CASE j.msg = "hello"
    <3>1. Travels(d)'
      BY <2>4, <2>6, <2>7 DEF Travels
    <3> QED
      BY <3>1
  <2>8. CASE j.msg # "hello"
    <3>1. PICK o \in Ends : Travels(o)
      BY <1>2, <2>1 DEF OnItsWay
    <3>2. Travels(o)'
      <4>1. Other(o) \in Ends
        BY OtherEnd
      <4> QED
        BY <2>1, <2>2, <2>4, <2>5, <2>8, <3>1, <4>1 DEF Travels
    <3> QED
      BY <3>2
  <2> QED
    BY <2>7, <2>8
<1>19. ASSUME NEW j \in jobs[d], Decrypt(d, j) PROVE \E o \in Ends : Travels(o)'
  <2>1. UNCHANGED <<opened, wire>> /\ heard' = [heard EXCEPT ![d] = @ \cup {j.frame.msg}] /\ j.job = "decrypt"
    BY <1>19 DEF Decrypt
  <2>2. \A o \in Ends : jobs[o] \ {j} \subseteq jobs'[o]
    BY <1>1, <1>19 DEF Decrypt
  <2>3. j.frame.msg \in heard'[d] /\ \A o \in Ends : heard[o] \subseteq heard'[o]
    BY <1>1, <2>1
  <2>4. \A o \in Ends : OnWire(o)' = OnWire(o)
    BY <2>1 DEF OnWire
  <2>5. CASE j.frame.msg = "hello"
    <3>1. Travels(Other(d))'
      BY <1>8, <2>3, <2>5 DEF Travels
    <3> QED
      BY <1>8, <3>1
  <2>6. CASE j.frame.msg # "hello"
    <3>1. PICK o \in Ends : Travels(o)
      BY <1>2, <2>1 DEF OnItsWay
    <3>2. Travels(o)'
      <4>1. Other(o) \in Ends
        BY OtherEnd
      <4> QED
        BY <2>1, <2>2, <2>3, <2>4, <2>6, <3>1, <4>1 DEF Travels
    <3> QED
      BY <3>2
  <2> QED
    BY <2>5, <2>6
<1>20. ASSUME NEW m \in Chatter[d], Say(d, m) PROVE \E o \in Ends : Travels(o)'
  <2>1. UNCHANGED <<opened, wire, heard>>
    BY <1>20 DEF Say
  <2>2. \A o \in Ends : jobs[o] \subseteq jobs'[o]
    BY <1>1, <1>20 DEF Say
  <2> QED
    BY <1>5, <2>1, <2>2 DEF OnWire
<1> QED
  BY <1>7, <1>9, <1>10, <1>11, <1>13, <1>14, <1>15, <1>16, <1>17, <1>18, <1>19, <1>20 DEF Receive, Resume

(* A link that comes up is of use, if neither end has so much to say that   *)
(* an envelope could fall out of the other's window before it is sent:     *)
(* nothing is left in the queue, and of the two first hellos one is heard. *)
(* An end can miss the other's, but the end that is introduced last says   *)
(* its own to one that is ready, and from there the hello is sealed, sent, *)
(* taken and opened (#secure, #onFrame, open).                             *)
THEOREM SyncStarts == ASSUME FewWords PROVE Spec => []SyncBegins
<1>1. Init => Shape /\ Counted /\ Carried /\ Flushed /\ Waits /\ OneWay /\ Budget /\ OnItsWay
  <2> SUFFICES ASSUME Init PROVE Counted /\ Carried /\ Flushed /\ Waits /\ OneWay /\ Budget /\ OnItsWay
    BY InitShape
  <2>1. Counted
    BY DEF Init, NewSession, Counted, NoncesOf
  <2>2. Carried
    BY OtherEnd DEF Init, NewSession, Carried, Sent, Taken, Waiting, Spent, Numbers, Distinct, OnWire
  <2>3. Flushed /\ Waits
    BY DEF Init, Flushed, Waits, NewSession
  <2>4. OneWay
    <3>1. \A o \in Ends, n \in Stages : ~Stage(o, n)
      BY OtherEnd DEF Init, Stage, Pending, Coming, OnWire
    <3> QED
      BY <3>1 DEF Init, OneWay, Once
  <2>5. Budget
    <3>1. Cardinality({}) = 0 /\ Len(<<>>) = 0
      BY FS_EmptySet
    <3> QED
      BY <3>1, OtherEnd DEF Init, Budget, NewSession
  <2>6. OnItsWay
    BY DEF Init, OnItsWay, Ends
  <2> QED
    BY <2>1, <2>2, <2>3, <2>4, <2>5, <2>6
<1>2. /\ Shape /\ Counted /\ Carried /\ Flushed /\ Waits /\ OneWay /\ Budget /\ OnItsWay /\ [Next]_vars
      => (Shape /\ Counted /\ Carried /\ Flushed /\ Waits /\ OneWay /\ Budget /\ OnItsWay)'
  BY ShapeStep, SealsStep, FlushedStep, WaitsStep, OneWayStep, BudgetStep, OnItsWayStep
<1>3. Flushed /\ OnItsWay => SyncBegins
  <2>1. Flushed => NothingStrands
    BY DEF Flushed, NothingStrands
  <2>2. ASSUME OnItsWay, Quiet, Untouched PROVE \E o \in Ends : "hello" \in heard[o]
    <3>1. PICK d \in Ends : Travels(d)
      BY <2>2 DEF OnItsWay, Calm, Untouched
    <3>2. Other(d) \in Ends
      BY OtherEnd
    <3>3. jobs[d] = {} /\ jobs[Other(d)] = {} /\ OnWire(Other(d)) = {}
      BY <2>2, <3>2 DEF Quiet, OnWire
    <3> QED
      BY <3>1, <3>2, <3>3 DEF Travels
  <2> QED
    BY <2>1, <2>2 DEF SyncBegins, SomebodyIsHeard
<1> QED
  BY <1>1, <1>2, <1>3, PTL DEF Spec

-----------------------------------------------------------------------------
(* The authenticator: its arrays are wide enough.  A limb is at most Short   *)
(* when a block begins and Tall once the block has been added; a product     *)
(* then adds at most Step to the upper bits of a sum, five of them are       *)
(* summed before the carry is taken out, and the carry of a row stays below  *)
(* Most, which brings the limbs back to Short.  In the digest a carry can    *)
(* run through all limbs only if h[1] was above 13 bits, and then what is    *)
(* left of it is too small to carry again.                                   *)

Short == 8800
Tall == 19039
Step == 95200
Most == 960000

Typed ==
  /\ phase \in {"idle", "next", "rows", "ripple", "reduce", "done"}
  /\ r \in [Limbs -> Nat] /\ \A l \in Limbs : r[l] < Radix
  /\ input \in Seq(Byte) /\ pos \in 0 .. Len(input)
  /\ h \in [Limbs -> Nat]
  /\ prod \in [Limbs -> Nat] /\ \A l \in Limbs : prod[l] < Radix
  /\ acc \in [hi : Nat, lo : Nat] /\ acc.lo < Radix
  /\ carry \in Nat /\ row \in 0 .. 10 /\ col \in 0 .. 9

BetweenBlocks == phase = "next" => \A l \in Limbs : h[l] <= IF l = 1 THEN Short ELSE 8191

InARow ==
  phase = "rows" =>
    /\ \A l \in Limbs : h[l] <= Tall
    /\ col = 0 => carry <= Most
    /\ row = 10 => col = 0
    /\ row < 10 /\ col <= 4 => acc.hi <= 118 + col * Step
    /\ row < 10 /\ col >= 5 => carry <= 118 + 5 * Step /\ acc.hi <= (col - 5) * Step

Rippling ==
  phase = "ripple" =>
    /\ row >= 2 /\ carry <= 1
    /\ \A l \in Limbs : h[l] <= 8191
    /\ carry = 1 => h[1] <= 700

Reducing == phase = "reduce" => \A l \in Limbs : h[l] <= 8191

IInv == Typed /\ BetweenBlocks /\ InARow /\ Rippling /\ Reducing

-----------------------------------------------------------------------------
(* Arithmetic *)

\* A product of two bounded factors is bounded.
LEMMA ProductBounded ==
  ASSUME NEW a \in Nat, NEW b \in Nat, a <= Tall, b <= 40955
  PROVE  a * b \in Nat /\ a * b <= 779742245
<1>1. a * b \in Nat
  BY SMT
<1>2. a * b <= Tall * b
  BY SMT DEF Tall
<1>3. Tall * b <= 779742245
  BY SMT DEF Tall
<1> QED
  BY <1>1, <1>2, <1>3, SMT DEF Tall

\* Adding such a product to a sum whose lower part fits its bits adds at most
\* Step to the upper part.
LEMMA UpperSumBounded ==
  ASSUME NEW hi \in Nat, NEW lo \in Nat, lo < Radix, NEW p \in Nat, p <= 779742245
  PROVE  /\ hi + p \div Radix + (lo + (p % Radix)) \div Radix \in Nat
         /\ hi + p \div Radix + (lo + (p % Radix)) \div Radix <= hi + Step
BY SMT DEF Radix, Step

\* The carry of a row is a small number to begin the next one with.
LEMMA SplitBounded ==
  ASSUME NEW n \in Nat, n <= Most
  PROVE  n \div Radix \in Nat /\ n \div Radix <= 118 /\ n % Radix \in Nat /\ n % Radix < Radix
BY SMT DEF Radix, Most

\* A limb taken from eight halfwords has thirteen bits.
LEMMA LimbBounded ==
  ASSUME NEW t \in [HalfLimbs -> Nat], NEW l \in Limbs
  PROVE  Limb(t, l) \in Nat /\ Limb(t, l) < Radix
<1> DEFINE k == (13 * l) \div 16
           shift == (13 * l) % 16
           above == IF k < 7 THEN (t[k + 1] % Radix) * Power[17 - shift] ELSE 0
<1>1. k \in 0 .. 7 /\ shift \in 0 .. 15
  BY SMT DEF Limbs
<1>2. \A n \in 1 .. 17 : Power[n] \in Nat \ {0}
  BY SMT DEF Power
<1>3. \A n \in 0 .. 7 : t[n] \in Nat
  BY SMT DEF HalfLimbs
<1>4. Limb(t, l) = (t[k] \div Power[shift + 1] + above) % Radix
  BY DEF Limb
<1> HIDE DEF k, shift
<1>5. above \in Nat
  <2>1. CASE k < 7
    <3>1. k + 1 \in 0 .. 7 /\ 17 - shift \in 1 .. 17
      BY <1>1, <2>1, SMT
    <3>2. t[k + 1] \in Nat /\ Power[17 - shift] \in Nat
      BY <1>2, <1>3, <3>1
    <3>3. t[k + 1] % Radix \in Nat
      BY <3>2, SMT DEF Radix
    <3> QED
      BY <2>1, <3>2, <3>3, SMT
  <2>2. CASE ~(k < 7)
    BY <2>2
  <2> QED
    BY <2>1, <2>2
<1> HIDE DEF above
<1>6. t[k] \div Power[shift + 1] \in Nat
  <2>1. t[k] \in Nat
    BY <1>1, <1>3, SMT
  <2>2. shift + 1 \in 1 .. 17
    BY <1>1, SMT
  <2>3. Power[shift + 1] \in Nat \ {0}
    BY <1>2, <2>2
  <2> QED
    BY <2>1, <2>3, SMT
<1> QED
  BY <1>4, <1>5, <1>6, SMT DEF Radix

\* Clearing bits leaves no more of them.
LEMMA MaskedBounded ==
  ASSUME NEW l \in Limbs, NEW x \in Nat, x < Radix
  PROVE  Masked(l, x) \in Nat /\ Masked(l, x) < Radix
BY SMT DEF Masked, Radix, Limbs

\* Sixteen bytes make eight halfwords.
LEMMA HalfwordsTyped ==
  ASSUME NEW b, NEW at \in Nat, \A n \in at + 1 .. at + 16 : b[n] \in Nat
  PROVE  Halfwords(b, at) \in [HalfLimbs -> Nat]
<1> SUFFICES ASSUME NEW k \in HalfLimbs
             PROVE  b[at + 2 * k + 1] + 256 * b[at + 2 * k + 2] \in Nat
  BY DEF Halfwords
<1>1. at + 2 * k + 1 \in at + 1 .. at + 16 /\ at + 2 * k + 2 \in at + 1 .. at + 16
  BY SMT DEF HalfLimbs
<1>2. b[at + 2 * k + 1] \in Nat /\ b[at + 2 * k + 2] \in Nat
  BY <1>1
<1> QED
  BY <1>2, SMT

-----------------------------------------------------------------------------
(* One lemma for each kind of step *)

\* A key leaves ten limbs that fit.
LEMMA Beginning ==
  ASSUME IInv, NEW key \in Keys, NEW message \in Texts, Begin(key, message)
  PROVE  IInv'
<1>1. \A n \in 1 .. 32 : key[n] \in Nat
  <2>1. key \in [1 .. 32 -> Byte]
    BY InputsAssumption
  <2>2. Byte \subseteq Nat
    BY SMT DEF Byte
  <2> QED
    BY <2>1, <2>2
<1>2. Halfwords(key, 0) \in [HalfLimbs -> Nat]
  BY <1>1, HalfwordsTyped, SMT
<1>3. \A l \in Limbs : /\ Masked(l, Limb(Halfwords(key, 0), l)) \in Nat
                       /\ Masked(l, Limb(Halfwords(key, 0), l)) < Radix
  BY <1>2, LimbBounded, MaskedBounded
<1>4. r' \in [Limbs -> Nat] /\ \A l \in Limbs : r'[l] < Radix
  BY <1>3 DEF Begin
<1>5. input' \in Seq(Byte) /\ pos' \in 0 .. Len(input')
  <2>1. input' \in Seq(Byte) /\ pos' = 0
    BY InputsAssumption DEF Begin
  <2> QED
    BY <2>1, SMT
<1>6. phase' = "next" /\ h' = Zero /\ UNCHANGED <<prod, acc, carry, row, col>>
  BY DEF Begin
<1>7. h' \in [Limbs -> Nat] /\ \A l \in Limbs : h'[l] = 0
  BY <1>6, SMT DEF Zero
<1> QED
  BY <1>4, <1>5, <1>6, <1>7, SMT
  DEF IInv, Typed, BetweenBlocks, InARow, Rippling, Reducing, Short

\* What is added to a limb leaves it below Tall, and nothing is cut off.
LEMMA Absorbing ==
  ASSUME IInv, phase = "next", NEW t \in [HalfLimbs -> Nat], NEW hibit \in 0 .. 2048,
         Absorb(t, hibit), pos' \in 0 .. Len(input)
  PROVE  IInv'
<1>1. ASSUME NEW l \in Limbs
      PROVE  h'[l] \in Nat /\ h'[l] <= Tall
  <2>1. h[l] \in Nat /\ h[l] <= IF l = 1 THEN Short ELSE 8191
    BY DEF IInv, Typed, BetweenBlocks
  <2>2. Limb(t, l) \in Nat /\ Limb(t, l) < Radix
    BY LimbBounded
  <2> DEFINE above == IF l = 9 THEN hibit ELSE 0
             sum == h[l] + Limb(t, l) + above
  <2>3. h'[l] = sum % Half
    BY DEF Absorb
  <2>4. above \in Nat /\ above <= 2048
    BY SMT
  <2> HIDE DEF above
  <2>5. sum \in Nat /\ sum <= Tall
    BY <2>1, <2>2, <2>4, SMT DEF Short, Tall, Radix
  <2> HIDE DEF sum
  <2> QED
    BY <2>3, <2>5, SMT DEF Tall, Half
<1>2. h' \in [Limbs -> Nat]
  BY <1>1 DEF Absorb
<1> QED
  BY <1>1, <1>2, SMT
  DEF Absorb, IInv, Typed, BetweenBlocks, InARow, Rippling, Reducing, Radix, Step, Most

\* The product a row has come to is bounded, and so is the sum it is added to.
LEMMA RowBounded ==
  ASSUME IInv, phase = "rows", row < 10
  PROVE  /\ LimbProduct \in Nat
         /\ UpperSum(acc, LimbProduct) \in Nat
         /\ UpperSum(acc, LimbProduct) <= acc.hi + Step
         /\ UpperSum(acc, LimbProduct) < Upper
<1>1. row \in 0 .. 9 /\ col \in 0 .. 9
  BY SMT DEF IInv, Typed
<1>2. Factor \in Nat /\ Factor <= 40955
  <2>1. \A l \in 0 .. 9 : r[l] \in Nat /\ r[l] <= 8191
    <3>1. \A l \in Limbs : r[l] \in Nat /\ r[l] < Radix
      BY DEF IInv, Typed
    <3> QED
      BY <3>1, SMT DEF Limbs, Radix
  <2>2. CASE col <= row
    <3>1. row - col \in 0 .. 9
      BY <1>1, <2>2, SMT
    <3> QED
      BY <2>1, <2>2, <3>1, SMT DEF Factor
  <2>3. CASE ~(col <= row)
    <3>1. row + 10 - col \in 0 .. 9
      BY <1>1, <2>3, SMT
    <3> QED
      BY <2>1, <2>3, <3>1, SMT DEF Factor
  <2> QED
    BY <2>2, <2>3
<1>3. h[col] \in Nat /\ h[col] <= Tall
  <2>1. \A l \in Limbs : h[l] \in Nat /\ h[l] <= Tall
    BY DEF IInv, Typed, InARow
  <2> QED
    BY <1>1, <2>1 DEF Limbs
<1>4. LimbProduct \in Nat /\ LimbProduct <= 779742245
  BY <1>2, <1>3, ProductBounded DEF LimbProduct
<1>5. acc.hi \in Nat /\ acc.lo \in Nat /\ acc.lo < Radix
  BY DEF IInv, Typed
<1>6. UpperSum(acc, LimbProduct) \in Nat /\ UpperSum(acc, LimbProduct) <= acc.hi + Step
  BY <1>4, <1>5, UpperSumBounded DEF UpperSum
<1>7. acc.hi <= 118 + 4 * Step
  <2>1. col <= 4 => acc.hi <= 118 + col * Step
    BY DEF IInv, InARow
  <2>2. col >= 5 => acc.hi <= (col - 5) * Step
    BY DEF IInv, InARow
  <2> QED
    BY <1>1, <1>5, <2>1, <2>2, SMT DEF Step
<1> QED
  BY <1>4, <1>5, <1>6, <1>7, SMT DEF Step, Upper

\* One more product: the sum keeps its bound, the carry of a row too.
LEMMA Multiplying ==
  ASSUME IInv, Multiply
  PROVE  IInv'
<1> DEFINE sum == Plus(acc, LimbProduct)
<1>0. row < 10 /\ row \in 0 .. 10 /\ col \in 0 .. 9 /\ carry \in Nat /\ acc.hi \in Nat
  BY DEF Multiply, IInv, Typed
<1>1. /\ phase = "rows"
      /\ UNCHANGED <<phase, r, pad, input, pos, h, tag>>
  BY DEF Multiply, IInv, Typed
<1>2. /\ acc.hi \in Nat /\ acc.lo \in Nat
      /\ UpperSum(acc, LimbProduct) \in Nat
      /\ UpperSum(acc, LimbProduct) <= acc.hi + Step
      /\ UpperSum(acc, LimbProduct) < Upper
      /\ LimbProduct \in Nat
  BY <1>0, <1>1, RowBounded DEF IInv, Typed
<1>3. sum.hi \in Nat /\ sum.hi <= acc.hi + Step /\ sum.lo \in Nat /\ sum.lo < Radix
  <2>1. sum.hi = UpperSum(acc, LimbProduct) % Upper /\ sum.lo = (acc.lo + (LimbProduct % Radix)) % Radix
    BY DEF Plus
  <2> QED
    BY <1>2, <2>1, SMT DEF Upper, Radix
<1>4. sum = [hi |-> sum.hi, lo |-> sum.lo]
  BY DEF Plus
<1>5. /\ col <= 4 => acc.hi <= 118 + col * Step
      /\ col >= 5 => carry <= 118 + 5 * Step /\ acc.hi <= (col - 5) * Step
  BY <1>0, <1>1 DEF IInv, InARow
<1> HIDE DEF sum
<1>6. \/ /\ col \notin {4, 9}
         /\ acc' = sum /\ col' = col + 1 /\ UNCHANGED <<carry, prod, row>>
      \/ /\ col = 4
         /\ carry' = sum.hi /\ acc' = [sum EXCEPT !.hi = 0] /\ col' = col + 1 /\ UNCHANGED <<prod, row>>
      \/ /\ col = 9
         /\ carry' = carry + sum.hi /\ prod' = [prod EXCEPT ![row] = sum.lo]
         /\ acc' = Split(carry') /\ row' = row + 1 /\ col' = 0
  BY DEF Multiply, sum
<1>7. /\ row' \in 0 .. 10 /\ col' \in 0 .. 9 /\ carry' \in Nat
      /\ acc' \in [hi : Nat, lo : Nat] /\ acc'.lo < Radix
      /\ col' = 0 => carry' <= Most
      /\ row' = 10 => col' = 0
      /\ col' <= 4 => acc'.hi <= 118 + col' * Step
      /\ col' >= 5 => carry' <= 118 + 5 * Step /\ acc'.hi <= (col' - 5) * Step
  <2>1. CASE col \notin {4, 9} /\ acc' = sum /\ col' = col + 1 /\ UNCHANGED <<carry, prod, row>>
    <3>1. acc' \in [hi : Nat, lo : Nat] /\ acc'.lo < Radix /\ acc'.hi = sum.hi
      BY <1>3, <1>4, <2>1
    <3>2. row' = row /\ carry' = carry /\ col' = col + 1 /\ col # 4 /\ col # 9
      BY <2>1
    <3> QED
      BY <1>0, <1>3, <1>5, <3>1, <3>2, SMT DEF Step
  <2>2. CASE /\ col = 4
             /\ carry' = sum.hi /\ acc' = [sum EXCEPT !.hi = 0] /\ col' = col + 1 /\ UNCHANGED <<prod, row>>
    <3>1. acc' = [hi |-> 0, lo |-> sum.lo]
      BY <1>4, <2>2
    <3>2. acc' \in [hi : Nat, lo : Nat] /\ acc'.lo < Radix /\ acc'.hi = 0
      BY <1>3, <3>1
    <3>3. row' = row /\ carry' = sum.hi /\ col' = col + 1 /\ col = 4
      BY <2>2
    <3> QED
      BY <1>0, <1>3, <1>5, <3>2, <3>3, SMT DEF Step
  <2>3. CASE /\ col = 9
             /\ carry' = carry + sum.hi /\ prod' = [prod EXCEPT ![row] = sum.lo]
             /\ acc' = Split(carry') /\ row' = row + 1 /\ col' = 0
    <3>0. carry' = carry + sum.hi /\ row' = row + 1 /\ col' = 0 /\ col = 9
      BY <2>3
    <3>1. carry' \in Nat /\ carry' <= Most
      BY <1>0, <1>3, <1>5, <3>0, SMT DEF Step, Most
    <3>2. acc' = [hi |-> carry' \div Radix, lo |-> carry' % Radix]
      BY <2>3 DEF Split
    <3>3. carry' \div Radix \in Nat /\ carry' \div Radix <= 118 /\ carry' % Radix \in Nat /\ carry' % Radix < Radix
      BY <3>1, SplitBounded
    <3>4. acc' \in [hi : Nat, lo : Nat] /\ acc'.lo < Radix /\ acc'.hi <= 118
      BY <3>2, <3>3
    <3> QED
      BY <1>0, <3>0, <3>1, <3>4, SMT DEF Step
  <2> QED
    BY <1>6, <2>1, <2>2, <2>3
<1>8. prod' \in [Limbs -> Nat] /\ \A l \in Limbs : prod'[l] < Radix
  <2>1. prod \in [Limbs -> Nat] /\ \A l \in Limbs : prod[l] < Radix
    BY DEF IInv, Typed
  <2>2. prod' = prod \/ prod' = [prod EXCEPT ![row] = sum.lo]
    BY <1>6
  <2> QED
    BY <1>3, <2>1, <2>2
<1>9. \A l \in Limbs : h'[l] <= Tall
  BY <1>1 DEF IInv, InARow
<1> QED
  BY <1>0, <1>1, <1>7, <1>8, <1>9 DEF IInv, Typed, BetweenBlocks, InARow, Rippling, Reducing

\* The carry that comes in below brings every limb back.
LEMMA EndingABlock ==
  ASSUME IInv, EndBlock
  PROVE  IInv'
<1> DEFINE low == 5 * carry + prod[0]
<1>1. /\ phase' = "next"
      /\ UNCHANGED <<r, pad, input, pos, prod, acc, carry, row, col, tag>>
      /\ h' = [l \in Limbs |-> CASE l = 0 -> low % Radix
                                  [] l = 1 -> (prod[1] + low \div Radix) % Half
                                  [] OTHER -> prod[l]]
  BY DEF EndBlock
<1>2. carry \in Nat /\ carry <= Most
  BY DEF EndBlock, IInv, Typed, InARow
<1>3. \A l \in Limbs : prod[l] \in Nat /\ prod[l] < Radix
  BY DEF IInv, Typed
<1>4. prod[0] \in Nat /\ prod[0] < Radix /\ prod[1] \in Nat /\ prod[1] < Radix
  BY <1>3, SMT DEF Limbs
<1>5. low % Radix \in Nat /\ low % Radix <= 8191
  BY <1>2, <1>4, SMT DEF Radix
<1>6. (prod[1] + low \div Radix) % Half \in Nat /\ (prod[1] + low \div Radix) % Half <= Short
  BY <1>2, <1>4, SMT DEF Radix, Half, Short, Most
<1> HIDE DEF low
<1>7. ASSUME NEW l \in Limbs
      PROVE  h'[l] \in Nat /\ h'[l] <= IF l = 1 THEN Short ELSE 8191
  <2>1. prod[l] \in Nat /\ prod[l] <= 8191
    BY <1>3, SMT DEF Radix
  <2>2. CASE l = 0
    BY <1>1, <1>5, <2>2
  <2>3. CASE l = 1
    BY <1>1, <1>6, <2>3
  <2>4. CASE l # 0 /\ l # 1
    BY <1>1, <2>1, <2>4
  <2> QED
    BY <2>2, <2>3, <2>4
<1>8. h' \in [Limbs -> Nat]
  BY <1>1, <1>7
<1> QED
  BY <1>1, <1>7, <1>8 DEF IInv, Typed, BetweenBlocks, InARow, Rippling, Reducing

\* The first carry of the digest: if there is one, little is left of h[1].
LEMMA StartingTheDigest ==
  ASSUME IInv, StartDigest
  PROVE  IInv'
<1>1. /\ phase = "next" /\ phase' = "ripple" /\ row' = 2 /\ carry' = h[1] \div Radix
      /\ h' = [h EXCEPT ![1] = @ % Radix]
      /\ UNCHANGED <<r, pad, input, pos, prod, acc, col, tag>>
  BY DEF StartDigest
<1>2. \A l \in Limbs : h[l] \in Nat /\ h[l] <= IF l = 1 THEN Short ELSE 8191
  BY <1>1 DEF IInv, Typed, BetweenBlocks
<1>3. 1 \in Limbs
  BY SMT DEF Limbs
<1>4. h[1] \in Nat /\ h[1] <= Short
  BY <1>2, <1>3
<1>5. /\ carry' \in Nat /\ carry' <= 1
      /\ h[1] % Radix \in Nat /\ h[1] % Radix <= 8191
      /\ carry' = 1 => h[1] % Radix <= 700
  BY <1>1, <1>4, SMT DEF Short, Radix
<1>6. h \in [Limbs -> Nat]
  BY DEF IInv, Typed
<1>7. h' \in [Limbs -> Nat] /\ h'[1] = h[1] % Radix
  BY <1>1, <1>3, <1>5, <1>6
<1>8. ASSUME NEW l \in Limbs
      PROVE  h'[l] <= 8191
  <2>1. CASE l = 1
    BY <1>5, <1>7, <2>1
  <2>2. CASE l # 1
    <3>1. h'[l] = h[l]
      BY <1>1, <1>6, <2>2
    <3> QED
      BY <1>2, <2>2, <3>1
  <2> QED
    BY <2>1, <2>2
<1>9. row' \in 0 .. 10 /\ row' >= 2
  BY <1>1, SMT
<1> QED
  BY <1>1, <1>5, <1>7, <1>8, <1>9 DEF IInv, Typed, BetweenBlocks, InARow, Rippling, Reducing

\* A carry runs on only if one came in.
LEMMA RipplingOn ==
  ASSUME IInv, Ripple
  PROVE  IInv'
<1>1. /\ phase = "ripple" /\ row < 10
      /\ carry' = (h[row] + carry) \div Radix /\ h' = [h EXCEPT ![row] = (h[row] + carry) % Radix]
      /\ row' = row + 1
      /\ UNCHANGED <<phase, r, pad, input, pos, prod, acc, col, tag>>
  BY DEF Ripple
<1>2. row \in 0 .. 10 /\ row >= 2 /\ carry \in Nat /\ carry <= 1 /\ (carry = 1 => h[1] <= 700)
  BY <1>1 DEF IInv, Typed, Rippling
<1>3. h \in [Limbs -> Nat] /\ \A l \in Limbs : h[l] <= 8191
  BY <1>1 DEF IInv, Typed, Rippling
<1>4. row \in Limbs /\ row # 1 /\ 1 \in Limbs /\ row' \in 0 .. 10 /\ row' >= 2
  BY <1>1, <1>2, SMT DEF Limbs
<1>5. h[row] \in Nat /\ h[row] <= 8191
  BY <1>3, <1>4
<1>6. /\ carry' \in Nat /\ carry' <= 1 /\ (carry' = 1 => carry = 1)
      /\ (h[row] + carry) % Radix \in Nat /\ (h[row] + carry) % Radix <= 8191
  BY <1>1, <1>2, <1>5, SMT DEF Radix
<1>7. h' \in [Limbs -> Nat] /\ h'[1] = h[1]
  BY <1>1, <1>3, <1>4, <1>6
<1>8. \A l \in Limbs : h'[l] <= 8191
  BY <1>1, <1>3, <1>4, <1>6
<1> QED
  BY <1>1, <1>2, <1>4, <1>6, <1>7, <1>8 DEF IInv, Typed, BetweenBlocks, InARow, Rippling, Reducing

\* The last carries leave thirteen bits in every limb, h[2] with them.
LEMMA EndingTheRipple ==
  ASSUME IInv, EndRipple
  PROVE  IInv'
<1> DEFINE zero == h[0] + 5 * carry
           one == h[1] + zero \div Radix
<1>1. /\ phase = "ripple" /\ phase' = "reduce"
      /\ h' = [h EXCEPT ![0] = zero % Radix, ![1] = one % Radix, ![2] = h[2] + one \div Radix]
      /\ UNCHANGED <<r, pad, input, pos, prod, acc, carry, row, col, tag>>
  BY DEF EndRipple
<1>2. carry \in Nat /\ carry <= 1 /\ (carry = 1 => h[1] <= 700)
  BY <1>1 DEF IInv, Typed, Rippling
<1>3. h \in [Limbs -> Nat] /\ \A l \in Limbs : h[l] <= 8191
  BY <1>1 DEF IInv, Typed, Rippling
<1>4. 0 \in Limbs /\ 1 \in Limbs /\ 2 \in Limbs
  BY SMT DEF Limbs
<1>5. /\ h[0] \in Nat /\ h[0] <= 8191 /\ h[1] \in Nat /\ h[1] <= 8191
      /\ h[2] \in Nat /\ h[2] <= 8191
  BY <1>3, <1>4
<1>6. /\ zero % Radix \in Nat /\ zero % Radix <= 8191
      /\ zero \div Radix \in Nat /\ zero \div Radix <= carry
  BY <1>2, <1>5, SMT DEF Radix
<1>7. /\ one % Radix \in Nat /\ one % Radix <= 8191
      /\ one \div Radix = 0
  <2> DEFINE over == zero \div Radix
  <2>1. over \in Nat /\ over <= carry
    BY <1>6
  <2> HIDE DEF zero, over
  <2>2. one = h[1] + over
    BY DEF over
  <2> QED
    BY <1>2, <1>5, <2>1, <2>2, SMT DEF Radix
<1> HIDE DEF zero, one
<1>8. h[2] + one \div Radix \in Nat /\ h[2] + one \div Radix <= 8191
  BY <1>5, <1>7, SMT
<1>9. h' \in [Limbs -> Nat] /\ \A l \in Limbs : h'[l] <= 8191
  <2>1. h' \in [Limbs -> Nat]
    BY <1>1, <1>3, <1>4, <1>6, <1>7, <1>8
  <2>2. ASSUME NEW l \in Limbs
        PROVE  h'[l] <= 8191
    <3>1. CASE l = 0
      BY <1>1, <1>3, <1>6, <3>1
    <3>2. CASE l = 1
      BY <1>1, <1>3, <1>7, <3>2
    <3>3. CASE l = 2
      BY <1>1, <1>3, <1>8, <3>3
    <3>4. CASE l \notin {0, 1, 2}
      BY <1>1, <1>3, <3>4
    <3> QED
      BY <3>1, <3>2, <3>3, <3>4
  <2> QED
    BY <2>1, <2>2
<1>10. /\ h' \in [Limbs -> Nat]
       /\ \A l \in Limbs : h'[l] <= 8191
       /\ phase' = "reduce"
       /\ r' = r /\ input' = input /\ pos' = pos /\ prod' = prod /\ acc' = acc /\ carry' = carry /\ row' = row /\ col' = col
  BY <1>1, <1>9
<1>11. Typed'
  BY <1>10 DEF IInv, Typed
<1>12. BetweenBlocks' /\ InARow' /\ Rippling' /\ Reducing'
  BY <1>10 DEF BetweenBlocks, InARow, Rippling, Reducing
<1> QED
  BY <1>11, <1>12 DEF IInv

-----------------------------------------------------------------------------
(* The machine *)

LEMMA Initially == MacInit => IInv
<1> SUFFICES ASSUME MacInit PROVE IInv
  OBVIOUS
<1>1. << >> \in Seq(Byte) /\ 0 \in 0 .. Len(<< >>)
  BY SMT
<1>2. \A l \in Limbs : Zero[l] = 0
  BY DEF Zero
<1>3. Zero \in [Limbs -> Nat] /\ \A l \in Limbs : Zero[l] < Radix
  BY SMT DEF Zero, Radix
<1>4. 0 < Radix /\ 0 \in 0 .. 10 /\ 0 \in 0 .. 9
  BY SMT DEF Radix
<1>5. [hi |-> 0, lo |-> 0] \in [hi : Nat, lo : Nat]
  BY SMT
<1> QED
  BY <1>1, <1>3, <1>4, <1>5, SMT
  DEF MacInit, IInv, Typed, BetweenBlocks, InARow, Rippling, Reducing

LEMMA Inductive == IInv /\ [MacNext]_macVars => IInv'
<1> SUFFICES ASSUME IInv, [MacNext]_macVars PROVE IInv'
  OBVIOUS
<1>0. input \in Seq(Byte) /\ Len(input) \in Nat /\ pos \in Nat /\ pos <= Len(input)
  BY SMT DEF IInv, Typed
<1>1. CASE NextBlock
  <2>1. \A n \in pos + 1 .. pos + 16 : input[n] \in Byte
    BY <1>0, <1>1, SMT DEF NextBlock
  <2>2. \A n \in pos + 1 .. pos + 16 : input[n] \in Nat
    BY <2>1, SMT DEF Byte
  <2>3. Halfwords(input, pos) \in [HalfLimbs -> Nat]
    BY <1>0, <2>2, HalfwordsTyped
  <2>4. pos' \in 0 .. Len(input) /\ 2048 \in 0 .. 2048
    BY <1>0, <1>1, SMT DEF NextBlock
  <2> QED
    BY <1>1, <2>3, <2>4, Absorbing DEF NextBlock
<1>2. CASE LastBlock
  <2>1. ASSUME NEW n \in 1 .. 16
        PROVE  Buffer[n] \in Nat
    <3>1. CASE pos + n <= Len(input)
      <4>1. pos + n \in 1 .. Len(input)
        BY <1>0, <3>1, SMT
      <4>2. input[pos + n] \in Byte
        BY <1>0, <4>1, SMT
      <4>3. input[pos + n] \in Nat
        BY <4>2, SMT DEF Byte
      <4> QED
        BY <3>1, <4>3 DEF Buffer
    <3>2. CASE ~(pos + n <= Len(input))
      BY <3>2, SMT DEF Buffer
    <3> QED
      BY <3>1, <3>2
  <2>2. Halfwords(Buffer, 0) \in [HalfLimbs -> Nat]
    BY <2>1, HalfwordsTyped, SMT
  <2>3. pos' \in 0 .. Len(input) /\ 0 \in 0 .. 2048
    BY <1>0, <1>2, SMT DEF LastBlock
  <2> QED
    BY <1>2, <2>2, <2>3, Absorbing DEF LastBlock
<1>3. CASE Multiply
  BY <1>3, Multiplying
<1>4. CASE EndBlock
  BY <1>4, EndingABlock
<1>5. CASE StartDigest
  BY <1>5, StartingTheDigest
<1>6. CASE Ripple
  BY <1>6, RipplingOn
<1>7. CASE EndRipple
  BY <1>7, EndingTheRipple
<1>8. CASE Digest
  BY <1>8 DEF Digest, IInv, Typed, BetweenBlocks, InARow, Rippling, Reducing
<1>9. CASE \E key \in Keys, message \in Texts : Begin(key, message)
  BY <1>9, Beginning
<1>10. CASE UNCHANGED macVars
  BY <1>10 DEF macVars, IInv, Typed, BetweenBlocks, InARow, Rippling, Reducing
<1> QED
  BY <1>1, <1>2, <1>3, <1>4, <1>5, <1>6, <1>7, <1>8, <1>9, <1>10 DEF MacNext, MacStep

LEMMA Sufficient == IInv => WidthsFit
<1> SUFFICES ASSUME IInv PROVE WidthsFit
  OBVIOUS
<1>1. phase = "rows" /\ row < 10 => UpperSum(acc, LimbProduct) < Upper
  BY RowBounded
<1>2. ASSUME phase = "next", NEW l \in Limbs
      PROVE  h[l] + Radix + 2048 <= Half
  <2>1. h[l] \in Nat /\ h[l] <= IF l = 1 THEN Short ELSE 8191
    BY <1>2 DEF IInv, Typed, BetweenBlocks
  <2> QED
    BY <2>1, SMT DEF Short, Radix, Half
<1>3. ASSUME phase = "reduce", NEW l \in Limbs
      PROVE  h[l] < Radix
  <2>1. h[l] \in Nat /\ h[l] <= 8191
    BY <1>3 DEF IInv, Typed, Reducing
  <2> QED
    BY <2>1, SMT DEF Radix
<1> QED
  BY <1>1, <1>2, <1>3 DEF WidthsFit

\* No array of class Poly1305 overflows, whatever the key and the message: not a
\* sum of prod, not a limb of h, not the last carry into h[2].
THEOREM NothingOverflows == MacSpec => []WidthsFit
<1>1. MacSpec => []IInv
  BY Initially, Inductive, PTL DEF MacSpec
<1> QED
  BY <1>1, Sufficient, PTL
=============================================================================
