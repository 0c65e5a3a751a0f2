---------------------------- MODULE OneCall ----------------------------
(***************************************************************************)
(* What a caller of the helper relies on (Service.qml, _spawn): a call that *)
(* was made is answered, and answered once.                                 *)
(***************************************************************************)
EXTENDS Naturals

VARIABLES asked, answers

Init == asked = FALSE /\ answers = 0
Ask  == ~asked /\ asked' = TRUE /\ UNCHANGED answers
Answer == asked /\ answers = 0 /\ answers' = 1 /\ UNCHANGED asked

Next == Ask \/ Answer
Spec == Init /\ [][Next]_<<asked, answers>> /\ WF_<<asked, answers>>(Answer)
=======================================================================
