---------------------------- MODULE Firing ----------------------------
(***************************************************************************)
(* trigger.py and paid.paid_defer: when a job fires, whether it still should *)
(* when its timer goes off, and what it becomes after a run.  A reading is   *)
(* what usage.py makes of the record of the job's agent: how fresh it is,    *)
(* its windows, and whether none of them is used to speak of.  A sliding     *)
(* window, which no rule waits for, is left out, as is a slack of less than  *)
(* a minute.                                                                 *)
(***************************************************************************)
EXTENDS Integers, FiniteSets, FiniteSetsExt

CONSTANTS
  Margin,               \* the reset buffer of the job, or that of Codex or the free Zen models
  Lead,                 \* _MIN_RETRY_LEAD_S
  FiveHours,            \* the length of a session window
  GraceTime, GraceReset, \* GRACE_TIME_S, GRACE_RESET_S
  Horizon,              \* HORIZON_S
  Extra,                \* SKEW_EXTRA_S, added while the clock is not synchronised
  Backoff,              \* the first wait of every kind of retry
  MaxDefers, MaxLimitRetries, MaxTransient, MaxBusyDefers

ASSUME FiringAssumption ==
  /\ {Margin, Lead, FiveHours, Horizon, Extra, Backoff} \subseteq Nat \ {0}
  /\ {GraceTime, GraceReset, MaxDefers, MaxLimitRetries, MaxTransient, MaxBusyDefers} \subseteq Nat

NoTime == 0                   \* no reset is known
NoReading == [read |-> "no", quiet |-> FALSE, windows |-> {}]

Fresh(usage) == usage.read = "fresh"
Full(usage, kinds) == {w \in usage.windows : w.kind \in kinds /\ w.full}
Resets(windows) == {w.reset : w \in windows}
After(times, now) == {t \in times : t > now}
Latest(times) == IF times = {} THEN NoTime ELSE Max(times)

(* reset_window: the latest used up window that ends within the horizon, else the soonest. *)
ResetWindow(usage, now) ==
  LET open == {w \in usage.windows : w.reset > now /\ w.reset <= now + Horizon}
      full == {w \in open : w.full}
  IN IF full # {} THEN Max(Resets(full)) ELSE IF open # {} THEN Min(Resets(open)) ELSE NoTime

(* _apply_blockers: past the used up weekly windows of the account and of the job's model. *)
Blockers(usage) == Full(usage, {"weekly", "model_weekly"})
Past(t, usage) ==
  LET Push(at, kind) ==
        LET later == After(Resets(Full(usage, {kind})), at)
        IN IF later = {} THEN at ELSE Max(later) + Margin
  IN Push(Push(t, "weekly"), "model_weekly")
(* weekly_exhausted, for the policy that does not wait. *)
Skips(job, t, usage) == job.policy = "skip" /\ After(Resets(Blockers(usage)), t) # {}

-----------------------------------------------------------------------------
(* compute_fire_at, when the user arms the job.  Dawn is the next daily reset. *)
Refused == [at |-> NoTime, basis |-> NoTime]
FireAt(job, usage, now, dawn, extra) ==
  LET reset == CASE job.agent = "claude" -> Latest(After(Resets({w \in usage.windows : w.kind = "session"}), now))
                 [] job.billing = "zen_free" -> dawn
                 [] job.agent = "gemini" -> dawn
                 [] OTHER -> ResetWindow(usage, now)
      t == IF job.agent = "claude" THEN Past(reset + Margin, usage) ELSE reset + Margin
  IN IF ~job.onReset THEN [at |-> now + extra, basis |-> NoTime]
     ELSE IF \/ reset = NoTime
             \/ job.agent = "claude" /\ Skips(job, reset + Margin, usage)
             \/ t + extra - now > Horizon
          THEN Refused ELSE [at |-> t + extra, basis |-> reset]

(* catchup_grace_s *)
Grace(job, state) ==
  IF job.onReset \/ state.wait \in {"limit", "deferred"} THEN GraceReset ELSE GraceTime

Verdict(action, at, reset) == [action |-> action, at |-> at, reset |-> reset]
Fire == Verdict("fire", NoTime, NoTime)
Skip == Verdict("skip", NoTime, NoTime)
(* _rearm_or_give_up; the job was created at time 1. *)
RearmOrGiveUp(state, t, reset, extra) ==
  IF state.defers >= MaxDefers \/ t - 1 > Horizon THEN Verdict("gave_up", NoTime, NoTime)
  ELSE Verdict("rearm", t + extra, reset)

(* prefire: only a Claude Code job bound to the Claude reset is looked at again. *)
Prefire(job, state, usage, now, extra) ==
  LET session == {w \in usage.windows : w.kind = "session" /\ w.reset > now}
      later == {w \in session : w.reset - FiveHours < state.basis \/ w.full}
      t == Past(now, usage)
  IN CASE now - state.fireAt > Grace(job, state) -> Verdict("missed", NoTime, NoTime)
       [] \/ ~job.onReset \/ job.agent # "claude" \/ ~Fresh(usage)
          \/ state.basis = NoTime \/ state.fireAt < state.basis
          \/ state.wait \in {"transient", "busy"} -> Fire
       [] OTHER ->
            IF later # {}
            THEN LET reset == Max(Resets(later)) IN RearmOrGiveUp(state, reset + Margin, reset, extra)
            ELSE IF Skips(job, now, usage) THEN Skip
            ELSE IF t > now THEN RearmOrGiveUp(state, t, t - Margin, extra)
            ELSE Fire

(* paid_defer and defer_verdict: with paid usage off, a limit that a fresh record shows used up is
   waited for.  zen: the soonest reset of the free Zen models that a run has reported. *)
Exhausted(job, usage, now) ==
  CASE job.agent = "claude" -> {w \in Full(usage, {"session", "weekly"}) : w.reset > now}
    [] job.agent = "codex" \/ job.agent = "pi" -> {w \in Full(usage, {"session", "weekly"}) : w.reset > now}
    [] job.agent = "cursor" -> Full(usage, {"billing_total", "billing_pool"})
    [] job.billing = "go" -> Full(usage, {"session", "weekly"})
    [] OTHER -> {}
(* Mutant: the first window to open again is enough. *)
PaidDeferSoonest(job, usage, now, zen) ==
  LET hits == Resets(Exhausted(job, usage, now)) IN
  IF job.allowPaid THEN Fire
  ELSE IF job.billing = "zen_free" THEN IF zen = NoTime THEN Fire ELSE Verdict("rearm", zen + Margin, zen)
  ELSE IF ~Fresh(usage) \/ hits = {} THEN Fire
  ELSE IF NoTime \in hits THEN Skip
  ELSE Verdict("rearm", Max({Min(hits), now}) + Margin, Min(hits))
PaidDefer(job, usage, now, zen) ==
  LET hits == Resets(Exhausted(job, usage, now)) IN
  IF job.allowPaid THEN Fire
  ELSE IF job.billing = "zen_free" THEN IF zen = NoTime THEN Fire ELSE Verdict("rearm", zen + Margin, zen)
  ELSE IF ~Fresh(usage) \/ hits = {} THEN Fire
  ELSE IF NoTime \in hits THEN Skip
  ELSE Verdict("rearm", Max({Max(hits), now}) + Margin, Max(hits))
DeferVerdict(state, defer, now, extra) ==
  IF defer.action # "rearm" THEN defer
  ELSE IF defer.at - now > Horizon THEN Skip
  ELSE RearmOrGiveUp(state, Max({defer.at, now + Lead}), defer.reset, extra)

-----------------------------------------------------------------------------
(* postrun.  counter: the one of the job's counters that goes up. *)
Become(status) == [status |-> status, wait |-> "none", at |-> NoTime, counter |-> "none"]
Retry(at, wait, counter) == [status |-> "armed", wait |-> wait, at |-> at, counter |-> counter]

(* _model_window_reset: the soonest end of a window of the model, or of one used up. *)
ModelReset(usage, now) ==
  LET resets == After(Resets({w \in usage.windows : w.kind = "model_weekly"} \cup Full(usage, {"other_model_weekly"})), now)
  IN IF resets = {} THEN NoTime ELSE Min(resets)

(* LIMIT_BACKOFF_S *)
LimitBackoff(state) == Backoff * (state.limitRetries + 1)
(* _limit_retry_at.  epoch: the reset the run reported, or NoTime. *)
LimitRetryAt(job, state, result, epoch, usage, now, dawn) ==
  LET limit == result.limit IN
  IF epoch # NoTime THEN epoch + Margin
  ELSE CASE result.reason = "limit_suspected" ->
              IF job.billing = "go" /\ ResetWindow(usage, now) # NoTime
              THEN ResetWindow(usage, now) + Margin ELSE now + Backoff
         [] job.agent = "gemini" /\ limit.kind = "daily" -> dawn + Margin
         [] limit.kind = "model_weekly" /\ ModelReset(usage, now) # NoTime -> ModelReset(usage, now) + Margin
         [] OTHER -> now + LimitBackoff(state)

(* _stale_auth: every window is unused, so the sign-in is what is refused. *)
StaleAuth(result, usage) ==
  /\ result.detail = "rate_limit_reached"
  /\ Fresh(usage) /\ usage.quiet /\ usage.windows # {}

PostLimit(job, state, result, epoch, usage, now, dawn) ==
  LET claude == job.agent = "claude"
      t0 == LimitRetryAt(job, state, result, epoch, usage, now, dawn)
      t == Max({IF claude THEN Past(t0, usage) ELSE t0, now + Lead})
  IN CASE ~result.limit.rearm -> Become("limit")
       [] result.limit.overage /\ result.reason # "overage_blocked" -> Become("limit")
       [] state.limitRetries >= MaxLimitRetries -> Become("limit")
       [] epoch = NoTime /\ claude /\ StaleAuth(result, usage) -> Become("limit")
       [] claude /\ Skips(job, t0, usage) -> Become("skipped")
       [] t - now > Horizon -> Become("gave_up")
       [] OTHER -> Retry(t, "limit", "limitRetries")

PostBusy(state, now) ==
  IF state.busyDefers >= MaxBusyDefers THEN Become("busy") ELSE Retry(now + Backoff, "busy", "busyDefers")
Postrun(job, state, result, epoch, usage, now, dawn) ==
  CASE result.outcome = "done" -> Become("done")
    [] result.outcome = "interrupted" \/ result.detail = "sigterm" -> Become("interrupted")
    [] result.outcome = "limit" -> PostLimit(job, state, result, epoch, usage, now, dawn)
    [] result.outcome = "transient" ->
         IF state.transientRetries >= MaxTransient THEN Become("gave_up")
         ELSE Retry(now + Backoff, "transient", "transientRetries")
    [] result.outcome = "busy" -> PostBusy(state, now)
    [] /\ result.outcome = "failed" /\ result.reason = "none"
       /\ result.detail = "unclassified" /\ state.unknownRetries = 0 ->
         Retry(now + Backoff, "transient", "unknownRetries")
    [] OTHER -> Become("failed")
=======================================================================
