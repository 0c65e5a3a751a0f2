----------------------------- MODULE Verbs -----------------------------
(***************************************************************************)
(* cli_core.py: the verbs the panel and the command line call.  A verb is   *)
(* one section under the jobs lock, except arm and run-now, whose gate      *)
(* probes run unlocked between two sections, and the update of an armed     *)
(* job, which stops the old unit between two.  Units are stopped after the  *)
(* lock is released.                                                        *)
(***************************************************************************)
EXTENDS Units

CONSTANTS Clients,            \* helper processes with a verb between two sections
          Repertoire          \* bound: the verbs the user calls
VARIABLE clients

Idle == [verb |-> "none"]

(* What a verb carries from its first section to its second. *)
Pending ==
  {Idle}
  \cup [verb : {"arm", "run-now"}, job : JobIds, digest : [cmd : Cmds, at : Times]]
  \cup [verb : {"update"}, job : JobIds, gen : Nat, cmd : Cmds, keep : BOOLEAN,
        sent : BOOLEAN]
  \cup [verb : {"cancel-all"}, fallback : SUBSET Unit]

VerbsInit   == clients = [p \in Clients |-> Idle]
VerbsTypeOK == clients \in [Clients -> Pending]

Becomes(p, pending) == clients' = [clients EXCEPT ![p] = pending]

-----------------------------------------------------------------------------
(* The prompt file is written before the job that owns it is saved.  A free id is at
   generation 0. *)
Create(j, c) ==
  /\ jobs[j].status = "free"
  /\ prompts' = [prompts EXCEPT ![j] = c]
  /\ \/ jobs' = [jobs EXCEPT ![j] = Draft(@.gen, c)] /\ UNCHANGED budget
     \/ jobs' = [jobs EXCEPT ![j].status = "deleted"] /\ Spend("faults")
  /\ UNCHANGED <<records, unitVars, clients, blocked, historyVars>>

(* Mutant: an update keeps the status of the job it replaces. *)
CommitUpdateInPlace(j, c, keep) ==
  /\ prompts' = [prompts EXCEPT ![j] = IF keep THEN @ ELSE c]
  /\ jobs' = [jobs EXCEPT ![j].cmd = IF keep THEN @ ELSE c]

(* A draft without a prompt keeps the stored one. *)
UpdatedCmd(j, c, keep) == IF keep THEN prompts[j] ELSE c
CanUpdate(j, keep) == keep => jobs[j].promptAvailable /\ prompts[j] # NoPrompt

CommitUpdate(j, c, keep) ==
  LET cmd == UpdatedCmd(j, c, keep) IN
  /\ CanUpdate(j, keep)
  /\ prompts' = [prompts EXCEPT ![j] = cmd]
  /\ jobs' = [jobs EXCEPT ![j] = Draft(@.gen, cmd)]

(* The new prompt is in place, but the job is not saved. *)
StoresPromptOnly(j, c, keep) ==
  /\ ~keep
  /\ prompts' = [prompts EXCEPT ![j] = c]
  /\ UNCHANGED jobs

Update(j, c, keep) ==
  /\ Present(j) /\ jobs[j].status \notin {"running", "armed"}
  /\ \/ CommitUpdate(j, c, keep) /\ Spend("ops")
     \/ StoresPromptOnly(j, c, keep) /\ SpendBoth("ops", "faults")
  /\ UNCHANGED <<records, unitVars, clients, blocked, historyVars>>

(* Mutant: the generation is left alone. *)
DisarmedOnly(job) == SetStatus(job, "disarmed")

(* disarmed, gen+1: what its units do from here on is stale. *)
Disarmed(job) == [SetStatus(job, "disarmed") EXCEPT !.gen = @ + 1]

UpdateArmed(p, j, c, keep) ==
  /\ clients[p] = Idle
  /\ jobs[j].status = "armed" /\ CanUpdate(j, keep)
  /\ Spend("ops")
  /\ jobs' = [jobs EXCEPT ![j] = Disarmed(@)]
  /\ Becomes(p, [verb |-> "update", job |-> j, gen |-> jobs[j].gen, cmd |-> c,
                 keep |-> keep, sent |-> FALSE])
  /\ UNCHANGED <<prompts, records, unitVars, blocked, historyVars>>

UpdateStops(p) ==
  LET u == <<clients[p].job, clients[p].gen>> IN
  /\ clients[p].verb = "update" /\ ~clients[p].sent
  /\ StopsUnit(u)
  /\ Becomes(p, [clients[p] EXCEPT !.sent = TRUE])
  /\ UNCHANGED <<stopping, storeVars, blocked, budget, historyVars>>

UpdateCommits(p) ==
  LET pending == clients[p]  j == pending.job IN
  /\ pending.verb = "update" /\ pending.sent
  /\ ~UnitLive(<<j, pending.gen>>)
  /\ jobs[j].status = "disarmed" /\ jobs[j].gen = pending.gen + 1
  /\ \/ CommitUpdate(j, pending.cmd, pending.keep) /\ UNCHANGED budget
     \/ StoresPromptOnly(j, pending.cmd, pending.keep) /\ Spend("faults")
  /\ Becomes(p, Idle)
  /\ UNCHANGED <<records, unitVars, blocked, historyVars>>

(* files go after the save that drops the job *)
Delete(j) ==
  /\ Present(j) /\ jobs[j].status \notin {"armed", "running"}
  /\ jobs' = [jobs EXCEPT ![j].status = "deleted"]
  /\ \/ /\ prompts' = [prompts EXCEPT ![j] = NoPrompt]
        /\ records' = {r \in records : r.job # j}
        /\ Spend("ops")
     \/ UNCHANGED <<prompts, records>> /\ SpendBoth("ops", "faults")
  /\ UNCHANGED <<unitVars, clients, blocked, historyVars>>

-----------------------------------------------------------------------------
(* Mutant: whatever does not run can be armed. *)
CanArmIdle(j, verb) == Present(j) /\ jobs[j].status # "running"

CanArm(j, verb) == jobs[j].status \in Armable \cup (IF verb = "run-now" THEN {"armed"} ELSE {})

(* First section: status, prompt, kill switch, plugin, digest. *)
ArmBegins(p, j, verb) ==
  /\ clients[p] = Idle
  /\ CanArm(j, verb)
  /\ jobs[j].promptAvailable /\ prompts[j] # NoPrompt
  /\ ~blocked
  /\ Spend("ops")
  /\ Becomes(p, [verb |-> verb, job |-> j, digest |-> Digest(j)])
  /\ UNCHANGED <<storeVars, unitVars, blocked, historyVars>>

(* armed by the user: a new generation, the counters of the last arming forgotten *)
ArmedByUser(job, how) ==
  [NextGeneration(job) EXCEPT !.retries = NoRetries,
                              !.due = IF how = "now" THEN "due" ELSE "early"]

(* How the unit is created: a run now, or a trigger already due, is a service at once. *)
Ways(verb) == IF verb = "run-now" THEN {"now"} ELSE {"now", "timer"}

(* Mutant: the generation read after the bump. *)
StopsNew(j) == StopsLater(IF jobs[j].status = "armed" THEN {<<j, jobs[j].gen + 1>>} ELSE {})

StopsOld(j) == StopsLater(IF jobs[j].status = "armed" THEN {<<j, jobs[j].gen>>} ELSE {})

(* Second section. *)
ArmCommits(p) ==
  LET pending == clients[p]  j == pending.job  new == <<j, jobs[j].gen + 1>> IN
  /\ pending.verb \in {"arm", "run-now"}
  /\ CanArm(j, pending.verb) /\ Digest(j) = pending.digest
  /\ \E how \in Ways(pending.verb) :
       /\ jobs' = [jobs EXCEPT ![j] = ArmedByUser(@, how)]
       /\ \/ Created(new, how) /\ StopsOld(j) /\ UNCHANGED budget
          \/ UNCHANGED unitVars /\ Spend("faults")    \* it died before systemd-run
  /\ launches' = [launches EXCEPT ![j] = 0]
  /\ confirmed' = [confirmed EXCEPT ![j] = pending.digest.cmd]
  /\ Becomes(p, Idle)
  /\ UNCHANGED <<prompts, records, blocked>>

(* systemd-run failed, or timed out with the unit created after all: the state before
   the arming comes back, under the new generation. *)
ArmFails(p) ==
  LET pending == clients[p]  j == pending.job  new == <<j, jobs[j].gen + 1>> IN
  /\ pending.verb \in {"arm", "run-now"}
  /\ CanArm(j, pending.verb) /\ Digest(j) = pending.digest
  /\ Spend("faults")
  /\ jobs' = [jobs EXCEPT ![j].gen = @ + 1, ![j].age = "new"]
  /\ \/ UNCHANGED <<timers, runners>>
     \/ \E how \in Ways(pending.verb) : Created(new, how)
  /\ StopsOld(j)
  /\ Becomes(p, Idle)
  /\ UNCHANGED <<prompts, records, blocked, historyVars>>

(* The gate refused, the second section found another job than the first, the stop of an
   update could not be verified, or the helper was killed. *)
Abandons(p) ==
  /\ clients[p] # Idle
  /\ Becomes(p, Idle)
  /\ UNCHANGED <<storeVars, unitVars, blocked, budget, historyVars>>

-----------------------------------------------------------------------------
Disarm(j) ==
  /\ jobs[j].status \in Disarmable
  /\ Spend("ops")
  /\ jobs' = [jobs EXCEPT ![j] = Disarmed(@)]
  /\ StopsLater({<<j, jobs[j].gen>>})
  /\ UNCHANGED <<prompts, records, timers, runners, clients, blocked, historyVars>>

(* Units are stopped even when the lock, the store or its save could not be had: this is how
   the plugin is removed. *)
CancelAll(p) ==
  LET hit == {j \in JobIds : jobs[j].status \in Disarmable}
      known == {<<j, jobs[j].gen>> : j \in hit} IN
  /\ clients[p] = Idle
  /\ \/ /\ Spend("ops")
        /\ jobs' = [j \in JobIds |-> IF j \in hit THEN Disarmed(jobs[j]) ELSE jobs[j]]
        /\ Becomes(p, [verb |-> "cancel-all", fallback |-> known])
     \/ /\ SpendBoth("ops", "faults")
        /\ UNCHANGED jobs
        /\ \E fallback \in {{}, known} :
             Becomes(p, [verb |-> "cancel-all", fallback |-> fallback])
  /\ UNCHANGED <<prompts, records, unitVars, blocked, historyVars>>

(* Every unit systemd lists by then, orphans included; those of the disarmed jobs when it
   does not answer. *)
CancelStops(p) ==
  /\ clients[p].verb = "cancel-all"
  /\ \/ StopsLater(timers \cup {UnitOf(r) : r \in runners}) /\ UNCHANGED budget
     \/ StopsLater(clients[p].fallback) /\ Spend("faults")
  /\ Becomes(p, Idle)
  /\ UNCHANGED <<timers, runners, storeVars, blocked, historyVars>>

(* reschedule of a draft: only its trigger *)
RescheduleDraft(j, t) ==
  /\ jobs[j].status = "draft"
  /\ Spend("ops")
  /\ jobs' = [jobs EXCEPT ![j].at = t]
  /\ UNCHANGED <<prompts, records, unitVars, clients, blocked, historyVars>>

(* reschedule, and each job of swap and shift: a fixed time, a new generation, the old
   unit stopped afterwards.  When systemd-run fails the job stays armed without a unit. *)
Reschedule(j, t) ==
  /\ jobs[j].status = "armed"
  /\ jobs' = [jobs EXCEPT ![j] = [NextGeneration(@) EXCEPT !.at = t, !.due = "early"]]
  /\ StopsLater({<<j, jobs[j].gen>>})
  /\ \/ timers' = timers \cup {<<j, jobs[j].gen + 1>>} /\ Spend("ops")
     \/ UNCHANGED timers /\ SpendBoth("ops", "faults")
  /\ UNCHANGED <<prompts, records, runners, clients, blocked, historyVars>>

Uses(verb) == verb \in Repertoire

VerbStep ==
  \/ \E j \in JobIds, c \in Cmds : Create(j, c)
  \/ Uses("update") /\ \E j \in JobIds, c \in Cmds, keep \in BOOLEAN :
        Update(j, c, keep) \/ \E p \in Clients : UpdateArmed(p, j, c, keep)
  \/ \E p \in Clients : UpdateStops(p) \/ UpdateCommits(p)
  \/ \E p \in Clients, j \in JobIds, verb \in {"arm", "run-now"} :
        Uses(verb) /\ ArmBegins(p, j, verb)
  \/ \E p \in Clients : ArmCommits(p) \/ ArmFails(p) \/ Abandons(p)
  \/ Uses("cancel-all") /\ \E p \in Clients : CancelAll(p) \/ CancelStops(p)
  \/ Uses("delete") /\ \E j \in JobIds : Delete(j)
  \/ Uses("disarm") /\ \E j \in JobIds : Disarm(j)
  \/ Uses("reschedule") /\ \E j \in JobIds, t \in Times \ {OwnTime} :
        RescheduleDraft(j, t) \/ Reschedule(j, t)
=======================================================================
