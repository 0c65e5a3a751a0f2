---------------------------- MODULE Runner ----------------------------
(***************************************************************************)
(* runner.py: the process of a unit.  It claims its generation in two       *)
(* sections under the jobs lock (the sign-in and paid probes run between    *)
(* them, unlocked), runs the agent, and applies the outcome in a third.     *)
(***************************************************************************)
EXTENDS Units

Current(r) == jobs[r.job].status = "armed" /\ jobs[r.job].gen = r.gen
RunsNow(r) == jobs[r.job].status = "running" /\ jobs[r.job].gen = r.gen

(* Mutant: the prompt of a closed job is left to the next prune. *)
SettleKeepsPrompt(j, job, act) ==
  /\ jobs' = [jobs EXCEPT ![j] = Decided(job, act)]
  /\ UNCHANGED prompts
  /\ IF act.status = "armed"
     THEN timers' = timers \cup {<<j, jobs[j].gen + 1>>} /\ UNCHANGED budget
     ELSE UNCHANGED <<timers, budget>>

(* Save the decision, then create the next timer when it is a retry.  A failed
   systemd-run leaves the job armed without a unit. *)
Settle(j, job, act) ==
  /\ jobs' = [jobs EXCEPT ![j] = Decided(job, act)]
  /\ prompts' = IF act.status \in Closed THEN [prompts EXCEPT ![j] = NoPrompt] ELSE prompts
  /\ IF act.status = "armed"
     THEN \/ timers' = timers \cup {<<j, jobs[j].gen + 1>>} /\ UNCHANGED budget
          \/ Spend("faults") /\ UNCHANGED timers
     ELSE UNCHANGED <<timers, budget>>

(* The prompt file goes before the save that closes the job: the process died, or the
   save failed, between the two. *)
ClosesPromptOnly(j, act) ==
  /\ act.status \in Closed
  /\ Spend("faults")
  /\ prompts' = [prompts EXCEPT ![j] = NoPrompt]
  /\ UNCHANGED <<jobs, timers>>

Ends(r, act) ==
  /\ \/ Settle(r.job, jobs[r.job], act) /\ Leaves(r)
     \/ ClosesPromptOnly(r.job, act) /\ Exits(r)
  /\ UNCHANGED <<records, blocked, stopping, historyVars>>

-----------------------------------------------------------------------------
ClaimStale(r) ==
  /\ r \in runners /\ r.phase \in {"start", "gate"}
  /\ ~Current(r)
  /\ Exits(r)
  /\ UNCHANGED <<timers, stopping, storeVars, blocked, budget, historyVars>>

(* The jobs lock, or the store, could not be had: nothing changes. *)
StoreUnavailable(r) ==
  /\ r \in runners /\ r.phase \in {"start", "gate", "post"}
  /\ Spend("faults")
  /\ Exits(r)
  /\ UNCHANGED <<timers, stopping, storeVars, blocked, historyVars>>

(* First section: plugin identity, digest, lateness and quota window, CLI and folder. *)
ClaimChecks(r) ==
  /\ r \in runners /\ r.phase = "start" /\ Current(r)
  /\ ~blocked
  /\ Fire \in PrefireActions(jobs[r.job].retries, jobs[r.job].due)
  /\ Enters(r, "gate")
  /\ UNCHANGED <<timers, stopping, storeVars, blocked, budget, historyVars>>

ClaimPaused(r) ==
  /\ r \in runners /\ r.phase = "start" /\ Current(r)
  /\ blocked
  /\ Ends(r, Final("paused"))

(* The stored digest is not that of the job: the file was edited by something else. *)
ClaimEdited(r) ==
  /\ r \in runners /\ r.phase = "start" /\ Current(r) /\ ~blocked
  /\ Spend("faults")
  /\ jobs' = [jobs EXCEPT ![r.job] = Decided(@, Final("needs_confirm"))]
  /\ Leaves(r)
  /\ UNCHANGED <<timers, stopping, prompts, records, blocked, historyVars>>

(* Missed, skipped, deferred to a later window, or an untrusted CLI or folder. *)
ClaimRefused(r) ==
  /\ r \in runners /\ r.phase = "start" /\ Current(r) /\ ~blocked
  /\ \E act \in PrefireActions(jobs[r.job].retries, jobs[r.job].due) \cup {Final("failed")} :
       /\ act # Fire
       /\ act = Final("failed") => jobs[r.job].due # "late"
       /\ Ends(r, act)

-----------------------------------------------------------------------------
(* harness.write_session and _session_lock: an flock on the file of the session. *)
LockedByOther(r) ==
  LET session == jobs[r.job].session IN
  session # NoSession /\ \E s \in runners \ {r} : s.session = session

(* Second section, after the probes: the gate's refusal or defer, a session in use, an
   unusable prompt. *)
GateRefused(r) ==
  /\ r \in runners /\ r.phase = "gate" /\ Current(r)
  /\ \E act \in {Final("failed"), Final("skipped")} \cup DeferActions(jobs[r.job].retries) :
       Ends(r, act)

(* Held by another runner, or used by a session outside this plugin. *)
SessionBusy(r) ==
  /\ r \in runners /\ r.phase = "gate" /\ Current(r)
  /\ jobs[r.job].session # NoSession
  /\ Ends(r, BusyAction(jobs[r.job].retries))

PromptUnusable(r) ==
  /\ r \in runners /\ r.phase = "gate" /\ Current(r)
  /\ ~LockedByOther(r)
  /\ prompts[r.job] # jobs[r.job].cmd
  /\ Ends(r, Final(IF prompts[r.job] = NoPrompt THEN "failed" ELSE "needs_confirm"))

ClaimStarts(r) ==
  LET job == jobs[r.job] IN
  /\ r \in runners /\ r.phase = "gate" /\ Current(r)
  /\ ~LockedByOther(r)
  /\ prompts[r.job] = job.cmd
  /\ jobs' = [jobs EXCEPT ![r.job] = SetStatus(@, "running")]
  /\ Became(r, [r EXCEPT !.phase = "agent", !.session = job.session])
  /\ launches' = [launches EXCEPT ![r.job] = @ + 1]
  /\ UNCHANGED <<timers, stopping, prompts, records, blocked, budget, confirmed>>

-----------------------------------------------------------------------------
(* supervise.run_agent returns: the agent's process group is gone. *)
AgentEnds(r) ==
  /\ r \in runners /\ r.phase = "agent"
  /\ Enters(r, "post")
  /\ UNCHANGED <<timers, stopping, storeVars, blocked, budget, historyVars>>

WriteRecord(r, status, counter) ==
  records' = (records \ RecordsOf(r.job, r.gen))
             \cup {[job |-> r.job, gen |-> r.gen, status |-> status, counter |-> counter]}

(* Mutant: a run that comes too late still leaves the job the session it created. *)
TouchedWithSession(j) == [jobs[j] EXCEPT !.age = "new", !.session = FreshSession[j]]

Touched(j) == [jobs[j] EXCEPT !.age = "new"]

(* The job was disarmed, updated or deleted meanwhile: the record is kept, nothing else. *)
ActLate(r) ==
  /\ r \in runners /\ r.phase = "post" /\ ~RunsNow(r)
  /\ WriteRecord(r, "none", NoCounter)
  /\ jobs' = IF Present(r.job) THEN [jobs EXCEPT ![r.job] = Touched(r.job)] ELSE jobs
  /\ Leaves(r)
  /\ UNCHANGED <<timers, stopping, prompts, blocked, budget, historyVars>>

(* A run without a session may have created one; its retries resume that. *)
SessionsAfter(j) ==
  IF jobs[j].session = NoSession THEN {NoSession, FreshSession[j]} ELSE {jobs[j].session}

(* The record is written first, then the job is saved, then the next timer is created. *)
Act(r) ==
  /\ r \in runners /\ r.phase = "post" /\ RunsNow(r)
  /\ \E outcome \in Outcomes : \E act \in PostrunActions(jobs[r.job].retries, outcome) :
       /\ WriteRecord(r, act.status, act.counter)
       /\ \E session \in SessionsAfter(r.job) :
            Settle(r.job, [jobs[r.job] EXCEPT !.session = session], act)
       /\ Leaves(r)
  /\ UNCHANGED <<blocked, stopping, historyVars>>

(* It died, or the save failed, after the record: the prompt of a job about to close may
   be gone by then. *)
ActCut(r) ==
  /\ r \in runners /\ r.phase = "post" /\ RunsNow(r)
  /\ Spend("faults")
  /\ \E outcome \in Outcomes : \E act \in PostrunActions(jobs[r.job].retries, outcome) :
       /\ WriteRecord(r, act.status, act.counter)
       /\ \/ prompts' = prompts
          \/ act.status \in Closed /\ prompts' = [prompts EXCEPT ![r.job] = NoPrompt]
  /\ Exits(r)
  /\ UNCHANGED <<timers, stopping, jobs, blocked, historyVars>>

(* An unexpected exception after the claim. *)
MarkFailed(r) ==
  /\ r \in runners /\ r.phase \in {"agent", "post"} /\ RunsNow(r)
  /\ Ends(r, Final("failed"))

RunnerStep(r) ==
  \/ ClaimStale(r) \/ StoreUnavailable(r)
  \/ ClaimChecks(r) \/ ClaimPaused(r) \/ ClaimEdited(r) \/ ClaimRefused(r)
  \/ GateRefused(r) \/ SessionBusy(r) \/ PromptUnusable(r) \/ ClaimStarts(r)
  \/ AgentEnds(r) \/ ActLate(r) \/ Act(r) \/ ActCut(r) \/ MarkFailed(r)
=======================================================================
