--------------------------- MODULE AutoPilot ---------------------------
(***************************************************************************)
(* The whole scheduler: verbs, runners and reconcile passes over one job    *)
(* store, the systemd user manager, time, the kill switch and crashes.      *)
(***************************************************************************)
EXTENDS Runner, Verbs, Reconciler

vars == <<storeVars, unitVars, clients, blocked, budget, historyVars>>

Init == StoreInit /\ UnitsInit /\ VerbsInit

(* A logout or a reboot: transient units, runners and helpers are gone. *)
Reboot ==
  /\ Spend("faults")
  /\ timers' = {} /\ runners' = {} /\ stopping' = {}
  /\ clients' = [p \in Clients |-> Idle]
  /\ UNCHANGED <<storeVars, blocked, historyVars>>

Elapse  == \E u \in timers : TimerElapses(u)
Process == \E r \in runners : \/ RunnerStep(r) \/ RunnerExits(r) \/ RunnerDies(r)
                              \/ RunnerKilled(r) \/ RuntimeExceeded(r)
Stop    == \E u \in stopping : StopSent(u) \/ StopLost(u)
Time    == \E j \in JobIds : FireTimeNears(j) \/ GracePasses(j) \/ GrowsOld(j)

Next ==
  \/ VerbStep
  \/ Process /\ UNCHANGED clients
  \/ ReconcileStep /\ UNCHANGED clients
  \/ Elapse /\ UNCHANGED clients
  \/ Stop /\ UNCHANGED clients
  \/ Time /\ UNCHANGED <<unitVars, clients>>
  \/ KillSwitchFlips /\ UNCHANGED <<unitVars, clients>>
  \/ Reboot

Spec == Init /\ [][Next]_vars

-----------------------------------------------------------------------------
(* What the code's scheduling justifies: the user manager fires timers and runs the
   processes it started, supervise.py ends every agent at its deadline, the panel repeats
   its pass, and the clock advances.  No verb is fair. *)
Fairness ==
  /\ WF_vars(Elapse /\ UNCHANGED clients)
  /\ WF_vars((\E r \in runners : RunnerStep(r) \/ RunnerExits(r)) /\ UNCHANGED clients)
  /\ \A j \in JobIds : /\ WF_vars(Reconcile(j) /\ UNCHANGED clients)
                       /\ WF_vars(FireTimeNears(j) /\ UNCHANGED <<unitVars, clients>>)

FairSpec == Spec /\ Fairness

-----------------------------------------------------------------------------
(* Every variable holds a value of its kind. *)
TypeOK == StoreTypeOK /\ UnitsTypeOK /\ VerbsTypeOK

(* Units are of generations the job has already passed or reached, and a unit has one
   process: no name is ever ahead of jobs.json (_set_armed, _disarm_in_place and
   reconcile.arm all save before they touch systemd). *)
UnitsBehindStore ==
  /\ \A u \in timers : u[2] <= jobs[u[1]].gen
  /\ \A r \in runners : r.gen <= jobs[r.job].gen
  /\ \A r, s \in runners : UnitOf(r) = UnitOf(s) => r = s
  /\ \A r \in runners : UnitOf(r) \notin timers

(* A runner that has claimed its generation, and whose generation is still that of the job,
   finds the job running: no verb, pass or other runner moves a job away from under a live
   agent without bumping the generation first (the check _act relies on). *)
ClaimIsCurrent ==
  \A r \in runners :
    r.phase \in {"agent", "post"} /\ r.gen = jobs[r.job].gen => jobs[r.job].status = "running"

(* The run at work for its job holds the lock of the very session the job's next run resumes
   (harness.write_session), and no other process does, whatever was disarmed, outlived its stop
   and was armed again: the late end of an older run neither moves the job to another session
   nor frees or takes the one in use. *)
SessionKept ==
  \A r \in runners :
    r.phase \in {"agent", "post"} /\ RunsNow(r) =>
      /\ r.session = jobs[r.job].session
      /\ r.session # NoSession => \A s \in runners \ {r} : s.session # r.session

(* No retry counter passes its cap, also when a runner dies between its run record and its
   save and a later pass applies the record (apply_record). *)
RetriesWithinCap == \A j \in JobIds, c \in Counters : jobs[j].retries[c] <= Cap[c]

RetriesOf(job) == job.retries["limitRetries"] + job.retries["transientRetries"]
                  + job.retries["busyDefers"] + job.retries["unknownRetries"]

(* Every agent started since the user armed the job, but the one now running, is paid for
   by a retry counter: no crash or pass starts a run that the caps do not see. *)
LaunchesCounted ==
  \A j \in JobIds :
    LET job == jobs[j] IN
    /\ job.status \in {"armed", "paused"} => launches[j] <= RetriesOf(job)
    /\ job.status = "running" => launches[j] <= RetriesOf(job) + 1

(* An armed job has no run record of its generation, so a pass never takes the record of an
   earlier run for that of a run still to come. *)
ArmedHasNoRecord ==
  \A j \in JobIds : jobs[j].status = "armed" => RecordsOf(j, jobs[j].gen) = {}

(* The units waiting to be stopped are none a job still relies on: the stop happens after
   the lock is released, when the job may have been armed again. *)
StopsOnlyStale ==
  \A u \in stopping : u[2] = jobs[u[1]].gen => jobs[u[1]].status \notin {"armed", "running"}

(* What waits, runs or resumes is the command whose digest the user armed last, whatever
   updates and deletes happened between the sections of a verb. *)
ConfirmedCommand ==
  \A j \in JobIds :
    jobs[j].status \in {"armed", "running", "paused"} => jobs[j].cmd = confirmed[j]

(* A unit is created under a generation no unit of the job ever had, so a stop or a claim
   by name cannot reach another run than the one it means. *)
FreshGeneration ==
  [][\A u \in (timers' \cup {UnitOf(r) : r \in runners'})
               \ (timers \cup {UnitOf(r) : r \in runners}) :
       u[2] > jobs[u[1]].gen]_vars

(* A job that closes has lost its prompt file by then, wherever the process that closes it
   dies (_set_final and apply_record unlink before they save). *)
ClosingErasesPrompt ==
  [][\A j \in JobIds :
       jobs[j].status \notin Closed /\ jobs'[j].status \in Closed => prompts'[j] = NoPrompt]_vars

(* A closed job runs again only as a new draft: no late result, record or pass reopens it. *)
ClosedStaysClosed ==
  [][\A j \in JobIds :
       jobs[j].status \in Closed =>
         jobs'[j].status \in {jobs[j].status, "draft", "deleted"}]_vars

(* reconcile.py calls itself idempotent: a second pass right after one whose systemd calls
   succeeded finds nothing to do for the units and the status of the job.  (Retention may
   need two: a job left waiting for a month loses its prompt first and goes after that.) *)
PassSettles ==
  [][\A j \in JobIds :
       Reconcile(j) /\ UNCHANGED budget => Visits(j)' = {Kept(jobs'[j])}]_vars

(* An armed job fires, or leaves that state some other way; a lost timer, a failed arming
   and a runner that could not take the lock are all repaired by a later pass. *)
ArmedResolves == \A j \in JobIds : jobs[j].status = "armed" ~> jobs[j].status # "armed"

(* A running job ends, also when its runner dies without a trace. *)
RunResolves == \A j \in JobIds : jobs[j].status = "running" ~> jobs[j].status # "running"

(* A job paused by the kill switch resumes or is marked missed once the switch is gone,
   as long as its prompt was not pruned. *)
PausedResolves ==
  \A j \in JobIds :
    jobs[j].status = "paused" ~>
      jobs[j].status # "paused" \/ blocked \/ ~jobs[j].promptAvailable

(* A prompt file that no open job claims, left by a verb or a runner that died between its
   two writes, is removed. *)
OrphanPromptsGo ==
  \A j \in JobIds :
    LET orphan == jobs[j].status \in Closed \cup Absent /\ prompts[j] # NoPrompt
    IN orphan ~> ~orphan

-----------------------------------------------------------------------------
(* The next three are what the repository says of the program and the program does not keep. *)

(* cli_core.py, _arm_verb: the digest check of the second section "proves the job did not
   change", so an armed job still has the prompt the first section found. *)
ArmedHasPrompt ==
  \A j \in JobIds : jobs[j].status = "armed" => jobs[j].promptAvailable /\ prompts[j] # NoPrompt

(* README: while the kill switch exists no job fires. *)
NoLaunchWhileBlocked ==
  [][blocked => \A j \in JobIds : launches'[j] <= launches[j]]_vars

(* reconcile.py, apply_record: the counter the dead runner would have saved is applied, so
   the retry cap still holds. *)
RetryCapHolds ==
  \A j \in JobIds :
    launches[j] <= 1 + Cap["limitRetries"] + Cap["transientRetries"]
                     + Cap["busyDefers"] + Cap["unknownRetries"]
=======================================================================
