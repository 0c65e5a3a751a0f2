-------------------------- MODULE Reconciler --------------------------
(***************************************************************************)
(* reconcile.py: bring the units back in line with jobs.json.  The pass     *)
(* visits every job under one hold of the jobs lock; no visit reads another *)
(* job, so a visit is a step of its own here.  The panel runs a pass when   *)
(* it opens and every five minutes, and a runner runs one on its way out.   *)
(***************************************************************************)
EXTENDS Units

(* What a visit makes of a job, and how it creates a unit for it, if it does. *)
Kept(job)       == [job |-> job, unit |-> "none"]
(* Mutants: a dead runner's job is left for the user; a paused one is never given up. *)
TurnedButDead(job, st)   == Kept(IF st = "interrupted" THEN job ELSE Finish(job, st))
TurnedButPaused(job, st) == Kept(IF job.status = "paused" THEN job ELSE Finish(job, st))
Turned(job, st) == Kept(Finish(job, st))
(* Mutants: the unit is created under the old generation; it is not created. *)
ArmedInPlace(job, how) == [job |-> SetStatus(job, "armed"), unit |-> how]
ArmedWithoutUnit(job, how) == [job |-> NextGeneration(job), unit |-> "none"]
ArmedAgain(job, how) ==
  [job |-> [NextGeneration(job) EXCEPT !.due = IF how = "timer" THEN "early" ELSE @],
   unit |-> how]

(* Mutant: a job that is due waits for the grace to pass. *)
OnlyMisses(job) == IF job.due = "late" THEN Turned(job, "missed") ELSE Kept(job)

(* Lateness and the kill switch decide between firing, pausing and missing. *)
FireOrMiss(job) ==
  IF job.due = "late" THEN Turned(job, "missed")
  ELSE IF blocked THEN Turned(job, "paused")
  ELSE ArmedAgain(job, IF job.due = "early" THEN "timer" ELSE "now")

(* Mutant: the counter of the record is not applied. *)
FromRecordUncounted(job, record) ==
  IF record.status = "armed"
  THEN {FireOrMiss([job EXCEPT !.due = d]) : d \in Dues}
  ELSE {Turned(job, IF record.status = "none" THEN "interrupted" ELSE record.status)}

(* A record of the current generation: finish what its runner started.  A retry time is
   read against the clock of this pass, so any lateness is possible. *)
FromRecord(job, record) ==
  IF record.status = "armed"
  THEN IF blocked THEN {Turned(job, "paused")}
       ELSE LET counted == IF job.status = "running"
                           THEN [job EXCEPT !.retries = CountRetry(@, record.counter)]
                           ELSE job
            IN {FireOrMiss([counted EXCEPT !.due = d]) : d \in Dues}
  ELSE {Turned(job, IF record.status = "none" THEN "interrupted" ELSE record.status)}

(* job_step *)
Visits(j) ==
  LET job == jobs[j]
      unit == <<j, job.gen>>
      written == RecordsOf(j, job.gen)
      recorded == UNION {FromRecord(job, r) : r \in written} IN
  CASE job.status = "armed" /\ ~UnitLive(unit) ->
         IF written # {} THEN recorded ELSE {FireOrMiss(job)}
    [] job.status = "running" /\ ~ServiceLive(unit) ->
         IF written # {} THEN recorded ELSE {Turned(job, "interrupted")}
    [] job.status = "paused" /\ ~blocked /\ job.promptAvailable ->
         {IF job.due = "late" THEN Turned(job, "missed") ELSE ArmedAgain(job, "timer")}
    [] OTHER -> {Kept(job)}

(* stale_units: every unit of the job but the one it waits for, except the service of a
   runner that has recorded its outcome or, while the change is recent, has just stopped. *)
Stale(j, job, recent) ==
  LET keep == IF job.status \in {"armed", "running"} THEN {<<j, job.gen>>} ELSE {}
      leaving == {UnitOf(r) : r \in {s \in runners :
                    \/ RecordsOf(s.job, s.gen) # {}
                    \/ recent /\ Present(j) /\ s.gen <= job.gen}}
      mine == {u \in timers : u[1] = j}
              \cup ({UnitOf(r) : r \in {s \in runners : s.job = j}} \ leaving)
  IN mine \ keep

(* arm saves the job before systemd-run; when that fails the job stays armed without a unit. *)
Reconcile(j) ==
  \E visit \in Visits(j), recent \in BOOLEAN :
    /\ PruneInto(j, visit.job)
    /\ \/ Created(<<j, visit.job.gen>>, visit.unit) /\ UNCHANGED budget
       \/ visit.unit # "none" /\ Spend("faults") /\ UNCHANGED <<timers, runners>>
    /\ StopsLater(Stale(j, visit.job, recent))
    /\ UNCHANGED <<blocked, historyVars>>

(* systemctl did not answer the listing: the pass only prunes. *)
OnlyPrunes(j) ==
  /\ Spend("faults")
  /\ PruneInto(j, jobs[j])
  /\ UNCHANGED <<unitVars, blocked, historyVars>>

(* It died before the save, with the files of closed and pruned jobs already removed. *)
ReconcileCut(j) ==
  /\ Spend("faults")
  /\ \E visit \in Visits(j) :
       LET kept == Pruned(visit.job) IN
       /\ kept.status \in Absent \/ ~kept.promptAvailable
       /\ prompts' = [prompts EXCEPT ![j] = NoPrompt]
       /\ records' = IF kept.status \in Absent THEN {r \in records : r.job # j} ELSE records
  /\ UNCHANGED <<jobs, unitVars, blocked, historyVars>>

ReconcileStep == \E j \in JobIds : Reconcile(j) \/ OnlyPrunes(j) \/ ReconcileCut(j)
=======================================================================
