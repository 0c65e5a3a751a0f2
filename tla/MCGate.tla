---- MODULE MCGate ----
(* A job of every agent, level and choice of paid usage.  Those whose price is read, a named Zen
   model and the default model, may not spend; Plan hides the tools a free one would need. *)
EXTENDS Gate

MCJobs ==
  {j \in JobKinds :
     /\ j.agent \in Offered(j.level)
     /\ j.agent # "opencode" <=> j.model = "none"
     /\ j.model = "zen" => j.level \in {"plan", "full"} /\ ~j.allowPaid
     /\ j.model = "default" => j.level = "full" /\ ~j.allowPaid}
====
