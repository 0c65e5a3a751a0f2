---------------------------- MODULE Attempts ----------------------------
(***************************************************************************)
(* One armed job over its attempts: the timer goes off, the claim decides,  *)
(* the agent runs and ends in one of the ways Outcome finds, and the runner  *)
(* makes of it what Firing says.  The order of the processes around it, and *)
(* the other ends of a claim, are those of Runner.                          *)
(***************************************************************************)
EXTENDS Outcome, Firing

CONSTANTS
  Kinds,        \* the jobs: [agent, level, allowPaid, billing, onReset, policy]
  Ahead,        \* bound: how far ahead the resets are that a record or a limit names
  Conditions,   \* bound: what a record that is there can be, of "stale" and "fresh"
  SameReset,    \* RESET_SAME_S
  MaxTime       \* bound

(* _set_at: the trigger becomes a fixed time. *)
Unbound(k) == [k EXCEPT !.onReset = FALSE]

ASSUME AttemptsAssumption ==
  /\ Ahead \subseteq Nat \ {0} /\ Ahead # {} /\ IsFiniteSet(Ahead)
  /\ MaxTime \in Nat /\ SameReset \in Nat /\ Conditions \subseteq {"stale", "fresh"}
  /\ \A k \in Kinds : /\ k.agent \in {"claude", "codex", "gemini", "opencode", "cursor", "pi"}
                      /\ k.policy \in {"defer", "skip"} /\ k.onReset \in BOOLEAN
                      /\ k.billing # None => k.agent = "opencode"
                      /\ Unbound(k) \in Kinds

VARIABLES
  job,          \* one of Kinds
  state,        \* state in the store: status, wait, fireAt, the reset of basis, and the counters
  now,
  seen,         \* resets of the free Zen models in limits-history.json
  asked,        \* the user chose the time of the coming attempt
  awaited,      \* the latest reset the last decision found the job has to wait for
  over          \* a run finished its turn, or a guard stopped it
vars == <<job, state, now, seen, asked, awaited, over>>

Armable == {"draft", "missed", "interrupted", "busy"}
Counters == {"defers", "limitRetries", "transientRetries", "busyDefers", "unknownRetries"}
NewState ==
  [status |-> "draft", wait |-> "none", fireAt |-> NoTime, basis |-> NoTime, defers |-> 0,
   limitRetries |-> 0, transientRetries |-> 0, busyDefers |-> 0, unknownRetries |-> 0]
(* A new generation: every counter starts again. *)
Armed(wait, at, basis) ==
  [NewState EXCEPT !.status = "armed", !.wait = wait, !.fireAt = at, !.basis = basis]

-----------------------------------------------------------------------------
(* The world: what a read of the records can show, and the next daily reset. *)
Coming(t) == {t + a : a \in Ahead}
Farthest(t) == {t + Max(Ahead)}
Never == {NoTime}
Windows(kind, resets) == {[kind |-> kind, full |-> f, reset |-> r] : f \in BOOLEAN, r \in resets}
Used(kind, resets) == {[kind |-> kind, full |-> TRUE, reset |-> r] : r \in resets}
OneOf(windows) == {{}} \cup {{w} : w \in windows}
Shown(k, t) ==
  CASE k.agent = "claude" ->
         {s \cup w \cup m \cup o : s \in OneOf(Windows("session", Coming(t))), w \in OneOf(Used("weekly", Coming(t))),
                                   m \in OneOf(Windows("model_weekly", Coming(t))),
                                   o \in OneOf(Used("other_model_weekly", Farthest(t)))}
    [] k.agent \in {"codex", "pi"} \/ k.billing = "go" ->
         {s \cup w : s \in OneOf(Windows("session", Coming(t))), w \in OneOf(Windows("weekly", Coming(t)))}
    [] k.agent = "cursor" ->
         {s \cup w : s \in OneOf(Used("billing_total", Coming(t))), w \in OneOf(Used("billing_pool", Never))}
    [] OTHER -> {{}}
Readings(k, t) ==
  {NoReading} \cup {u \in [read : Conditions, quiet : BOOLEAN, windows : Shown(k, t)] :
                     u.quiet => \A w \in u.windows : ~w.full}
Day == 4
Dawn(t) == (t \div Day + 1) * Day
Skews == {0, Extra}

(* The latest reset a reading says the job has to wait for, of those a decision looks at. *)
Closed(windows) == Latest(After(Resets(windows), now))
Later(s, t) == Max({s, t})

-----------------------------------------------------------------------------
Init ==
  /\ job \in Kinds
  /\ state = NewState /\ now = 1 /\ seen = {} /\ asked = FALSE /\ awaited = NoTime /\ over = FALSE

Tick == now < MaxTime /\ now' = now + 1 /\ UNCHANGED <<job, state, seen, asked, awaited, over>>

(* set_status, and _set_armed with the counter of the decision. *)
Settled(act, basis) ==
  LET counted == IF act.counter = "none" THEN state ELSE [state EXCEPT ![act.counter] = @ + 1]
  IN [counted EXCEPT !.status = act.status, !.wait = act.wait, !.basis = basis,
                     !.fireAt = IF act.status = "armed" THEN act.at ELSE @]

(* cmd_arm *)
Arm ==
  /\ state.status \in Armable
  /\ \E usage \in IF job.onReset THEN Readings(job, now) ELSE {NoReading}, extra \in Skews :
       LET plan == FireAt(job, usage, now, Dawn(now), extra) IN
       /\ plan # Refused
       /\ state' = Armed(IF job.onReset THEN "reset" ELSE "none", plan.at, plan.basis)
       /\ awaited' = Later(plan.basis, IF job.agent = "claude" THEN Closed(Blockers(usage)) ELSE NoTime)
  /\ asked' = FALSE
  /\ UNCHANGED <<job, now, seen, over>>

(* cmd_run_now: the user asks for a run whatever the job waits for. *)
RunNow ==
  /\ state.status \in Armable \cup {"armed"}
  /\ state' = Armed("none", now, NoTime)
  /\ asked' = TRUE /\ awaited' = NoTime
  /\ UNCHANGED <<job, now, seen, over>>

(* cmd_reschedule, cmd_swap, cmd_shift of an armed job: the user gives it another time, and what it
   waited for is forgotten.  The counters stay. *)
Reschedule ==
  /\ state.status = "armed"
  /\ \E at \in Coming(now) : state' = [state EXCEPT !.wait = "none", !.fireAt = at, !.basis = NoTime]
  /\ job' = Unbound(job)
  /\ asked' = TRUE /\ awaited' = NoTime
  /\ UNCHANGED <<now, seen, over>>

(* _apply_verdict: every answer of the claim but fire. *)
Applied(verdict) ==
  IF verdict.action = "rearm"
  THEN Settled(Retry(verdict.at, "deferred", "defers"), verdict.reset)
  ELSE Settled(Become(CASE verdict.action = "missed" -> "missed"
                        [] verdict.action = "skip" -> "skipped"
                        [] verdict.action = "gave_up" -> "gave_up"), state.basis)

Due == state.status = "armed" /\ state.fireAt <= now
Zen(t) == LET pending == After(seen, t) IN IF pending = {} THEN NoTime ELSE Min(pending)

(* The first section of the claim, on the records read for it. *)
PrefireEnds ==
  /\ Due
  /\ \E usage \in Readings(job, now), extra \in Skews :
       LET verdict == Prefire(job, state, usage, now, extra) IN
       /\ verdict # Fire
       /\ state' = Applied(verdict)
       /\ awaited' = Later(awaited, verdict.reset)
  /\ asked' = FALSE
  /\ UNCHANGED <<job, now, seen, over>>

(* The same records, then the gate's defer. *)
GateDefers ==
  /\ Due
  /\ \E usage \in Readings(job, now), extra \in Skews :
       LET verdict == DeferVerdict(state, PaidDefer(job, usage, now, Zen(now)), now, extra) IN
       /\ Prefire(job, state, usage, now, extra) = Fire
       /\ PaidDefer(job, usage, now, Zen(now)) # Fire
       /\ state' = Applied(verdict)
       /\ awaited' = Later(awaited, Closed(Exhausted(job, usage, now)))
  /\ asked' = FALSE
  /\ UNCHANGED <<job, now, seen, over>>

Passing ==
  {usage \in Readings(job, now) : /\ Prefire(job, state, usage, now, 0) = Fire
                                  /\ PaidDefer(job, usage, now, Zen(now)) = Fire}

(* _defer_busy: the session, or its lock, is in use. *)
SessionBusy ==
  /\ Due
  /\ Passing # {}
  /\ state' = Settled(PostBusy(state, now), state.basis)
  /\ asked' = FALSE
  /\ UNCHANGED <<job, now, seen, awaited, over>>

Start ==
  /\ Due
  /\ Passing # {}
  /\ state' = [state EXCEPT !.status = "running", !.wait = "none"]
  /\ UNCHANGED <<job, now, seen, asked, awaited, over>>

-----------------------------------------------------------------------------
(* limits_history._append: near-duplicates are one reset; the write is best effort. *)
Kept(reset) ==
  IF \E r \in seen : r - reset \in -SameReset..SameReset THEN seen ELSE seen \cup {reset}
(* _observed, for the source the pre-fire defer asks about. *)
Observed(result, epoch) ==
  {seen} \cup (IF result.detail = "zen_free_limit" /\ epoch # NoTime THEN {Kept(epoch)} ELSE {})

(* How a run ends does not depend on the trigger. *)
EndsOf == [k \in {Unbound(k) : k \in Kinds} |-> Ends(k)]

(* A reset the agent names may have passed; the free Zen models name the next midnight. *)
Epochs(result) ==
  IF ~result.limit.reset THEN {NoTime}
  ELSE IF job.billing = "zen_free" THEN {Dawn(now)}
  ELSE {now + a : a \in Ahead \cup {0, Horizon + 1}}

(* The records postrun looks at: those of a limit it may still wait for. *)
Consulted(result) ==
  IF /\ result.outcome = "limit" /\ result.limit.rearm
     /\ job.agent = "claude" \/ result.reason = "limit_suspected"
     /\ state.limitRetries < MaxLimitRetries
  THEN Readings(job, now) ELSE {NoReading}

(* _act: a limit is decided on the records as they are now. *)
AgentEnds ==
  /\ state.status = "running"
  /\ \E end \in EndsOf[Unbound(job)] :
       LET result == end.result IN
       /\ \E usage \in Consulted(result) :
          \E epoch \in Epochs(result) :
            LET act == Postrun(job, state, result, epoch, usage, now, Dawn(now)) IN
            /\ state' = Settled(act, IF act.wait = "limit" THEN epoch ELSE state.basis)
            /\ awaited' = IF act.wait # "limit" THEN awaited
                          ELSE Later(Later(awaited, epoch),
                                     IF job.agent = "claude" THEN Closed(Blockers(usage)) ELSE NoTime)
            /\ seen' \in Observed(result, epoch)
       /\ over' = (over \/ end.clean \/ end.stopped)
  /\ asked' = FALSE
  /\ UNCHANGED <<job, now>>

Next ==
  \/ Tick \/ Arm \/ RunNow \/ Reschedule
  \/ PrefireEnds \/ GateDefers \/ SessionBusy \/ Start \/ AgentEnds
Spec == Init /\ [][Next]_vars

-----------------------------------------------------------------------------
Launches == state.status # "running" /\ state'.status = "running"

(* A run that finished its turn, or that a guard stopped, is never sent again, whatever the agent
   wrote on the way that reads like a limit or an error (classify, postrun, README "Paid usage"). *)
NeverSentAgain == [][Launches => ~over]_vars

(* A job that waits starts only after every reset the decisions that armed it knew it had to wait
   for, over all of its deferrals and retries, unless the user runs it now or gives it another time
   (README "When a job cannot run right away"). *)
WaitsForReset == [][Launches /\ ~asked => now >= awaited]_vars
=======================================================================
