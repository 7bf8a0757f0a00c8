---- MODULE MCSession ----
(* Bounds for Session. The initiator has one thing to say. All is well     *)
(* and an end rekeys after one message or two, or all is well and the      *)
(* responder freezes the link, or one thing is wrong.                      *)
EXTENDS Session

Talk == [d \in Ends |-> IF d = "initiator" THEN {"vote"} ELSE {}]

AllWell == [rekey |-> 2, secret |-> [d \in Ends |-> "room"],
            doubt |-> [d \in Ends |-> "none"], frozen |-> {}]

Encounters ==
  {AllWell, [AllWell EXCEPT !.rekey = 1], [AllWell EXCEPT !.frozen = {"responder"}],
   [AllWell EXCEPT !.secret["responder"] = "another"]}
  \cup {[AllWell EXCEPT !.doubt[d] = x] : d \in Ends, x \in Doubts \ {"none"}}
====
