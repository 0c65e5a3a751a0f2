---- MODULE MCAttempts ----
(* One job of every way limits are read and waited for. *)
EXTENDS Attempts

Job(agent, level, allowPaid, billing, onReset, policy) ==
  [agent |-> agent, level |-> level, allowPaid |-> allowPaid, billing |-> billing,
   onReset |-> onReset, policy |-> policy]
Chosen ==
  {Job("claude", "full", FALSE, None, TRUE, "defer"), Job("claude", "auto", TRUE, None, TRUE, "skip"),
   Job("codex", "full", FALSE, None, TRUE, "defer"), Job("pi", "full", FALSE, None, FALSE, "defer"),
   Job("opencode", "full", FALSE, "zen_free", TRUE, "defer"), Job("opencode", "plan", FALSE, "go", FALSE, "defer"),
   Job("opencode", "auto", TRUE, "zen", FALSE, "defer"),
   Job("cursor", "plan", FALSE, None, FALSE, "defer"), Job("gemini", "auto", TRUE, None, TRUE, "defer")}
MCKinds == Chosen \cup {Unbound(k) : k \in Chosen}
====
