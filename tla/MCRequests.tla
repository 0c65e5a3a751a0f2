-------------------------- MODULE MCRequests --------------------------
(* Values of the constants of Requests that a .cfg cannot write. *)
EXTENDS Requests

CONSTANTS r1, r2, w1, w2, w3, w4

MCChange == [a \in Askers |-> CASE a = w1 -> "save-and-arm" [] a \in {w2, w3} -> "reconcile"
                                [] a = w4 -> "disarm" [] OTHER -> "read"]

(* Two reads and a change among refreshes and changes by runners; four changes, the queue full;
   three changes of which a helper call may fail. *)
MCReads == {r1, r2, w2}
MCCrowds == {MCReads, {w1, w2, w3, w4}, {w1, w2, w4}}
MCBudget ==
  [crowd \in MCCrowds |->
     [b \in Bounds |-> IF crowd = MCReads \/ (b = "failures" /\ Cardinality(crowd) = 3) THEN 1 ELSE 0]]
=======================================================================
