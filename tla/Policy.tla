---------------------------- MODULE Policy ----------------------------
(***************************************************************************)
(* The status vocabulary of consts.py and the decisions of trigger.py: what *)
(* a job becomes before a run (prefire, paid defer) and after it (postrun). *)
(* Fire times are abstracted to three classes; every backoff the code can   *)
(* compute lands in the future, so a retry is always "early".               *)
(***************************************************************************)
EXTENDS Naturals

CONSTANT Cap                  \* the retry cap of each counter

Counters == {"defers", "limitRetries", "transientRetries", "busyDefers", "unknownRetries"}

ASSUME CapAssumption == Cap \in [Counters -> Nat]

Statuses == {"draft", "armed", "running", "done", "failed", "limit", "busy", "skipped",
             "missed", "interrupted", "paused", "needs_confirm", "disarmed", "gave_up"}
Closed     == {"done", "failed", "limit", "skipped", "gave_up"}
Attention  == {"missed", "busy", "interrupted", "paused", "needs_confirm"}
Armable    == {"draft", "disarmed"} \cup Attention
Disarmable == {"armed", "running", "paused", "needs_confirm"}

(* The fire time seen from now: ahead, past but within the catch-up grace, or past it. *)
Dues == {"early", "due", "late"}

NoCounter == "none"

(* What a decision makes of a job: "fire" starts it, "armed" retries it and counts. *)
Final(status)  == [status |-> status, counter |-> NoCounter]
(* Mutant: a status outside the vocabulary. *)
RearmsUnknown(counter) == [status |-> "rearm", counter |-> counter]
Rearm(counter) == [status |-> "armed", counter |-> counter]
Fire           == Final("fire")
Actions        == {Final(s) : s \in Statuses} \cup {Rearm(c) : c \in Counters}

(* Mutant: the cap compared off by one. *)
BelowOrAt(retries, counter) == retries[counter] <= Cap[counter]
Below(retries, counter) == retries[counter] < Cap[counter]

(* One retry of this kind, or the status the job ends with once the cap is reached. *)
RetryOr(retries, counter, exhausted) ==
  IF Below(retries, counter) THEN Rearm(counter) ELSE Final(exhausted)

(* Waiting for a later window also gives up when that window lies past the horizon. *)
DeferActions(retries) ==
  {RetryOr(retries, "defers", "gave_up"), Final("gave_up")}

PrefireActions(retries, due) ==
  IF due = "late" THEN {Final("missed")}
  ELSE {Fire, Final("skipped")} \cup DeferActions(retries)

BusyAction(retries) == RetryOr(retries, "busyDefers", "busy")

Outcomes == {"done", "interrupted", "failed", "limit", "transient", "busy", "unclassified"}

(* A limit is final when it says so (overage, monthly quota, stale sign-in); a retry of
   it still ends the job when the weekly window or the horizon is in the way. *)
PostrunActions(retries, outcome) ==
  CASE outcome = "limit" ->
         IF Below(retries, "limitRetries")
         THEN {Rearm("limitRetries"), Final("limit"), Final("skipped"), Final("gave_up")}
         ELSE {Final("limit")}
    [] outcome = "transient"    -> {RetryOr(retries, "transientRetries", "gave_up")}
    [] outcome = "busy"         -> {BusyAction(retries)}
    [] outcome = "unclassified" -> {RetryOr(retries, "unknownRetries", "failed")}
    [] outcome = "done"         -> {Final("done")}
    [] outcome = "interrupted"  -> {Final("interrupted")}
    [] OTHER                    -> {Final("failed")}
=======================================================================
