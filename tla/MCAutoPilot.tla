-------------------------- MODULE MCAutoPilot --------------------------
(* Values of the constants of AutoPilot that a .cfg cannot write. *)
EXTENDS AutoPilot, TLC

CONSTANTS j1, j2, c1, c2, s1, s2, t0, t1
CONSTANTS Ops, Faults, Toggles

Spending(ops, faults, toggles) ==
  [b \in Bounds |-> CASE b = "ops" -> ops [] b = "faults" -> faults [] OTHER -> toggles]
MCBudgets == {Spending(Ops, Faults, Toggles)}

(* Either verbs alone, or one less of them with the faults and the flips. *)
MCVerbsOrFaults == {Spending(Ops, 0, 0), Spending(Ops - 1, Faults, Toggles)}

(* No retries: every run ends its job. *)
MCNoCap == [c \in Counters |-> 0]

(* One retry of a limited run; every other kind ends the job at once. *)
MCCap == [c \in Counters |-> IF c = "limitRetries" THEN 1 ELSE 0]

MCFresh == [j \in JobIds |-> IF j = j1 THEN s1 ELSE s2]

(* c1 starts a new session, c2 resumes s2. *)
MCSessionOf == [c \in Cmds |-> IF c = c1 THEN NoSession ELSE s2]
=======================================================================
