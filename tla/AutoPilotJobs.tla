------------------------- MODULE AutoPilotJobs -------------------------
(***************************************************************************)
(* What happens to a job of AutoPilot, for every value of the constants:    *)
(* its counters and launches, its run records, the command the user armed,  *)
(* and the units still to be stopped.  Moves, RecordsMove and StopsMove say *)
(* once what any step of any actor does; each property follows from them.   *)
(***************************************************************************)
EXTENDS AutoPilotSafety

(* The counters a run can end by using, and the other ways it can end. *)
RunCounters == {"limitRetries", "transientRetries", "busyDefers", "unknownRetries"}
Endings == {"done", "failed", "limit", "busy", "skipped", "interrupted", "gave_up"}

(* A job the user armed and that has not ended. *)
Open == {"armed", "running", "paused"}

-----------------------------------------------------------------------------
(* What a step may do to job j: one operator for each kind of change. *)
SameCommand(j) == jobs'[j].cmd = jobs[j].cmd
SameGen(j)     == jobs'[j].gen = jobs[j].gen
NextGen(j)     == jobs'[j].gen = jobs[j].gen + 1
SameSession(j) == jobs'[j].session = jobs[j].session
SameRetries(j) == jobs'[j].retries = jobs[j].retries
SameHistory(j) == launches'[j] = launches[j] /\ confirmed'[j] = confirmed[j]
Becoming(j, from, to) == jobs[j].status \in from /\ jobs'[j].status \in to

CountsOne(j, c) ==
  /\ Below(jobs[j].retries, c)
  /\ jobs'[j].retries = [jobs[j].retries EXCEPT ![c] = @ + 1]

(* Nothing the properties see. *)
Rests(j) == /\ jobs'[j].status = jobs[j].status
            /\ SameGen(j) /\ SameCommand(j) /\ SameSession(j) /\ SameRetries(j) /\ SameHistory(j)

(* systemd-run failed: the job as it was, its generation spent. *)
ArmingFails(j) == /\ jobs'[j].status = jobs[j].status /\ jobs[j].status # "running"
                  /\ NextGen(j) /\ SameCommand(j) /\ SameRetries(j) /\ SameHistory(j)

Drafted(j) == /\ jobs[j].status \notin {"armed", "running"} /\ jobs'[j].status = "draft"
              /\ SameGen(j) /\ SameHistory(j)

Dropped(j) == jobs'[j].status = "deleted" /\ SameGen(j) /\ SameHistory(j)

TakenBack(j) == Becoming(j, Disarmable, {"disarmed"}) /\ NextGen(j) /\ SameHistory(j)

ArmedByHand(j) ==
  /\ Becoming(j, Armable \cup {"armed"}, {"armed"}) /\ NextGen(j)
  /\ launches'[j] = 0 /\ confirmed'[j] = jobs'[j].cmd

(* Rescheduled, or armed again by a pass. *)
ArmedAnew(j) ==
  /\ Becoming(j, {"armed", "paused"}, {"armed"}) /\ NextGen(j)
  /\ SameCommand(j) /\ SameRetries(j) /\ SameHistory(j)

(* A retry, by the runner or by a pass that finds its record. *)
Retried(j) ==
  /\ Becoming(j, {"armed", "running"}, {"armed"}) /\ NextGen(j)
  /\ SameCommand(j) /\ SameHistory(j)
  /\ \E c \in Counters : /\ CountsOne(j, c)
                         /\ jobs[j].status = "running" => c \in RunCounters

Closes(j) == jobs'[j].status \in Closed => prompts'[j] = NoPrompt

Ended(j) ==
  /\ Becoming(j, Open, Statuses \ {"draft", "armed", "running"})
  /\ SameGen(j) /\ SameCommand(j) /\ SameHistory(j) /\ Closes(j)
  /\ jobs'[j].status = "paused" =>
       SameRetries(j) /\ (jobs[j].status \in {"armed", "paused"} \/ blocked)

Started(j) ==
  /\ Becoming(j, {"armed"}, {"running"})
  /\ SameGen(j) /\ SameCommand(j) /\ SameRetries(j)
  /\ launches'[j] = launches[j] + 1 /\ confirmed'[j] = confirmed[j]

Moved(j) ==
  \/ Rests(j) \/ ArmingFails(j) \/ Drafted(j) \/ Dropped(j) \/ TakenBack(j)
  \/ ArmedByHand(j) \/ ArmedAnew(j) \/ Retried(j) \/ Ended(j) \/ Started(j)

RetriesMove(j) ==
  \/ SameRetries(j) \/ jobs'[j].retries = NoRetries
  \/ \E c \in Counters : CountsOne(j, c)

Moves == \A j \in JobIds : Moved(j) /\ RetriesMove(j)

-----------------------------------------------------------------------------
(* The run records. *)
Sound(r) == /\ r.status \in Endings \cup {"armed", "none"}
            /\ r.status = "armed" => r.counter \in RunCounters

(* A record of the current generation is that of the run under way, and the retry it may
   hold is still to be counted. *)
Timely(r) ==
  LET job == jobs[r.job] IN
  /\ r.gen <= job.gen
  /\ r.gen = job.gen => /\ job.status # "armed"
                        /\ job.status = "running" /\ r.status = "armed" =>
                             Below(job.retries, r.counter)

RecordsHold == \A r \in records : Sound(r) /\ Timely(r)

(* A runner writes the record of a generation the job has left, or of its own. *)
Written(r) ==
  LET job == jobs[r.job] IN
  /\ Sound(r)
  /\ \/ r.gen < job.gen
     \/ /\ r.gen = job.gen /\ job.status = "running"
        /\ r.status = "armed" => Below(job.retries, r.counter)

RecordsMove == \A r \in records' : r \in records \/ Written(r)

-----------------------------------------------------------------------------
(* The units waiting to be stopped. *)
StopsBehind == \A u \in stopping : u[2] <= jobs[u[1]].gen

(* What a step adds was in use before it, and is not what the job waits for after it. *)
StopsMove ==
  \A u \in stopping' \ stopping :
    /\ u[2] <= jobs[u[1]].gen
    /\ u[2] = jobs'[u[1]].gen => jobs'[u[1]].status \notin {"armed", "running"}

-----------------------------------------------------------------------------
(* The invariants follow from the moves. *)
LEMMA GensMove ==
  ASSUME TypeOK, Moves, NEW j \in JobIds
  PROVE  /\ jobs[j].gen \in Nat
         /\ jobs'[j].gen = jobs[j].gen \/ jobs'[j].gen = jobs[j].gen + 1
<1>1. jobs[j].gen \in Nat
  BY DEF TypeOK, StoreTypeOK, Job
<1>2. Moved(j)
  BY DEF Moves
<1> QED BY <1>1, <1>2 DEF Moved, Rests, ArmingFails, Drafted, Dropped, TakenBack, ArmedByHand,
                         ArmedAnew, Retried, Ended, Started, SameGen, NextGen

(* A job that keeps its generation waits or runs only as it did, or starts the run it waited for. *)
LEMMA GenKept ==
  ASSUME TypeOK, Moves, NEW j \in JobIds, jobs'[j].gen = jobs[j].gen
  PROVE  /\ jobs'[j].status = "armed" => jobs[j].status = "armed"
         /\ jobs'[j].status = "running" => /\ jobs[j].status \in {"armed", "running"}
                                           /\ SameRetries(j)
         /\ jobs[j].status = "running" /\ jobs'[j].status = "running" => SameSession(j)
<1>1. jobs[j].gen \in Nat /\ jobs[j].gen # jobs[j].gen + 1
  BY DEF TypeOK, StoreTypeOK, Job
<1>2. Moved(j)
  BY DEF Moves
<1> QED BY <1>1, <1>2 DEF Moved, Rests, ArmingFails, Drafted, Dropped, TakenBack, ArmedByHand,
                         ArmedAnew, Retried, Ended, Started, NextGen, Becoming

LEMMA RecordsFollow ==
  ASSUME TypeOK, TypeOK', RecordsHold, Moves, RecordsMove
  PROVE  RecordsHold'
<1> SUFFICES ASSUME NEW r \in records' PROVE Sound(r) /\ Timely(r)'
  BY DEF RecordsHold, Sound
<1> DEFINE j == r.job
<1>1. r \in Record /\ j \in JobIds /\ r.gen \in Nat
  BY DEF TypeOK, StoreTypeOK, Record
<1>2. /\ jobs[j].gen \in Nat
      /\ jobs'[j].gen = jobs[j].gen \/ jobs'[j].gen = jobs[j].gen + 1
  BY <1>1, GensMove
<1>3. (r \in records /\ Sound(r) /\ Timely(r)) \/ Written(r)
  BY DEF RecordsMove, RecordsHold
<1>4. r.gen <= jobs[j].gen
  BY <1>1, <1>2, <1>3 DEF Timely, Written
<1>5. r.gen <= jobs'[j].gen
  BY <1>1, <1>2, <1>4
<1>6. ASSUME r.gen = jobs'[j].gen
      PROVE  /\ jobs'[j].status # "armed"
             /\ jobs'[j].status = "running" /\ r.status = "armed" => Below(jobs'[j].retries, r.counter)
  <2>1. r.gen = jobs[j].gen /\ jobs'[j].gen = jobs[j].gen
    BY <1>1, <1>2, <1>4, <1>6
  <2>2. /\ jobs[j].status # "armed"
        /\ jobs[j].status = "running" /\ r.status = "armed" => Below(jobs[j].retries, r.counter)
    BY <1>1, <1>2, <1>3, <2>1 DEF Timely, Written
  <2> QED BY <1>1, <2>1, <2>2, GenKept DEF SameRetries
<1> QED BY <1>3, <1>5, <1>6 DEF Timely, Written

LEMMA StopsFollow ==
  ASSUME TypeOK, TypeOK', StopsBehind, StopsOnlyStale, Moves, StopsMove
  PROVE  StopsBehind' /\ StopsOnlyStale'
<1> SUFFICES ASSUME NEW u \in stopping'
             PROVE  /\ u[2] <= jobs'[u[1]].gen
                    /\ u[2] = jobs'[u[1]].gen => jobs'[u[1]].status \notin {"armed", "running"}
  BY DEF StopsBehind, StopsOnlyStale
<1>1. u[1] \in JobIds /\ u[2] \in Nat
  BY DEF TypeOK, UnitsTypeOK, Unit
<1>2. /\ jobs[u[1]].gen \in Nat
      /\ jobs'[u[1]].gen = jobs[u[1]].gen \/ jobs'[u[1]].gen = jobs[u[1]].gen + 1
  BY <1>1, GensMove
<1>3. u[2] <= jobs[u[1]].gen
  BY DEF StopsBehind, StopsMove
<1>4. u[2] <= jobs'[u[1]].gen
  BY <1>1, <1>2, <1>3
<1>5. ASSUME u[2] = jobs'[u[1]].gen, u \in stopping
      PROVE  jobs'[u[1]].status \notin {"armed", "running"}
  <2>1. u[2] = jobs[u[1]].gen /\ jobs'[u[1]].gen = jobs[u[1]].gen
    BY <1>1, <1>2, <1>3, <1>5
  <2> QED BY <1>1, <1>5, <2>1, GenKept DEF StopsOnlyStale
<1> QED BY <1>4, <1>5 DEF StopsMove

LEMMA RetriesFollow ==
  ASSUME TypeOK, RetriesWithinCap, Moves
  PROVE  RetriesWithinCap'
<1> SUFFICES ASSUME NEW j \in JobIds, NEW c \in Counters PROVE jobs'[j].retries[c] <= Cap[c]
  BY DEF RetriesWithinCap
<1>1. jobs[j].retries \in [Counters -> Nat] /\ Cap[c] \in Nat
  BY CapAssumption DEF TypeOK, StoreTypeOK, Job
<1>2. jobs[j].retries[c] <= Cap[c]
  BY DEF RetriesWithinCap
<1>3. CASE SameRetries(j)
  BY <1>2, <1>3 DEF SameRetries
<1>4. CASE jobs'[j].retries = NoRetries
  BY <1>1, <1>4 DEF NoRetries
<1>5. ASSUME NEW d \in Counters, CountsOne(j, d) PROVE jobs'[j].retries[c] <= Cap[c]
  <2>1. jobs'[j].retries[c] = IF c = d THEN jobs[j].retries[d] + 1 ELSE jobs[j].retries[c]
    BY <1>1, <1>5 DEF CountsOne
  <2>2. c = d => jobs[j].retries[d] < Cap[d] /\ jobs[j].retries[d] \in Nat /\ Cap[d] \in Nat
    BY <1>1, <1>5 DEF CountsOne, Below
  <2> QED BY <1>2, <2>1, <2>2
<1> QED BY <1>3, <1>4, <1>5 DEF Moves, RetriesMove

LEMMA CommandsFollow ==
  ASSUME ConfirmedCommand, Moves
  PROVE  ConfirmedCommand'
<1> SUFFICES ASSUME NEW j \in JobIds, jobs'[j].status \in Open PROVE jobs'[j].cmd = confirmed'[j]
  BY DEF ConfirmedCommand, Open
<1>1. Moved(j)
  BY DEF Moves
<1>2. jobs[j].status \in Open => jobs[j].cmd = confirmed[j]
  BY DEF ConfirmedCommand, Open
<1> QED BY <1>1, <1>2 DEF Moved, Rests, ArmingFails, Drafted, Dropped, TakenBack, ArmedByHand,
                         ArmedAnew, Retried, Ended, Started, SameCommand, SameHistory, Becoming, Open

LEMMA SumOfRetries ==
  ASSUME NEW job \in Job
  PROVE  RetriesOf(job) \in Nat
BY DEF RetriesOf, Job, Counters

LEMMA CountedIsPaid ==
  ASSUME TypeOK, NEW j \in JobIds, NEW c \in Counters, CountsOne(j, c)
  PROVE  /\ RetriesOf(jobs[j]) <= RetriesOf(jobs'[j])
         /\ c \in RunCounters => RetriesOf(jobs'[j]) = RetriesOf(jobs[j]) + 1
<1> DEFINE old == jobs[j].retries  new == jobs'[j].retries
<1>1. old \in [Counters -> Nat]
  BY DEF TypeOK, StoreTypeOK, Job
<1>2. new = [old EXCEPT ![c] = old[c] + 1]
  BY DEF CountsOne
<1>3. /\ old["limitRetries"] \in Nat /\ old["transientRetries"] \in Nat
      /\ old["busyDefers"] \in Nat /\ old["unknownRetries"] \in Nat
  BY <1>1 DEF Counters
<1>4. \A d \in Counters : new[d] = IF d = c THEN old[d] + 1 ELSE old[d]
  BY <1>1, <1>2
<1>5. /\ new["limitRetries"] = IF c = "limitRetries" THEN old["limitRetries"] + 1 ELSE old["limitRetries"]
      /\ new["transientRetries"] =
           IF c = "transientRetries" THEN old["transientRetries"] + 1 ELSE old["transientRetries"]
      /\ new["busyDefers"] = IF c = "busyDefers" THEN old["busyDefers"] + 1 ELSE old["busyDefers"]
      /\ new["unknownRetries"] =
           IF c = "unknownRetries" THEN old["unknownRetries"] + 1 ELSE old["unknownRetries"]
  BY <1>4 DEF Counters
<1>6. /\ RetriesOf(jobs[j]) = old["limitRetries"] + old["transientRetries"] + old["busyDefers"]
                              + old["unknownRetries"]
      /\ RetriesOf(jobs'[j]) = new["limitRetries"] + new["transientRetries"] + new["busyDefers"]
                              + new["unknownRetries"]
  BY DEF RetriesOf
<1> HIDE DEF old, new
<1>7. CASE c \in RunCounters
  BY <1>3, <1>5, <1>6, <1>7 DEF RunCounters
<1>8. CASE c \notin RunCounters
  BY <1>3, <1>5, <1>6, <1>8 DEF RunCounters
<1> QED BY <1>7, <1>8

LEMMA LaunchesFollow ==
  ASSUME TypeOK, TypeOK', LaunchesCounted, ~blocked, Moves
  PROVE  LaunchesCounted'
<1> SUFFICES ASSUME NEW j \in JobIds
             PROVE  /\ jobs'[j].status \in {"armed", "paused"} => launches'[j] <= RetriesOf(jobs'[j])
                    /\ jobs'[j].status = "running" => launches'[j] <= RetriesOf(jobs'[j]) + 1
  BY DEF LaunchesCounted, RetriesOf
<1>1. /\ RetriesOf(jobs[j]) \in Nat /\ RetriesOf(jobs'[j]) \in Nat
      /\ launches[j] \in Nat /\ launches'[j] \in Nat
  BY SumOfRetries DEF TypeOK, StoreTypeOK
<1>2. /\ jobs[j].status \in {"armed", "paused"} => launches[j] <= RetriesOf(jobs[j])
      /\ jobs[j].status = "running" => launches[j] <= RetriesOf(jobs[j]) + 1
  BY DEF LaunchesCounted, RetriesOf
<1>3. SameRetries(j) => RetriesOf(jobs'[j]) = RetriesOf(jobs[j])
  BY DEF SameRetries, RetriesOf
<1>4. CASE Rests(j) \/ ArmingFails(j)
  BY <1>2, <1>3, <1>4 DEF Rests, ArmingFails, SameHistory
<1>5. CASE Drafted(j) \/ Dropped(j) \/ TakenBack(j)
  BY <1>5 DEF Drafted, Dropped, TakenBack, Becoming
<1>6. CASE ArmedByHand(j)
  BY <1>1, <1>6 DEF ArmedByHand, Becoming
<1>7. CASE ArmedAnew(j)
  BY <1>2, <1>3, <1>7 DEF ArmedAnew, SameHistory, Becoming
<1>8. CASE Retried(j)
  <2>1. PICK c \in Counters : CountsOne(j, c) /\ (jobs[j].status = "running" => c \in RunCounters)
    BY <1>8 DEF Retried
  <2>2. /\ RetriesOf(jobs[j]) <= RetriesOf(jobs'[j])
        /\ jobs[j].status = "running" => RetriesOf(jobs'[j]) = RetriesOf(jobs[j]) + 1
    BY <2>1, CountedIsPaid
  <2>3. jobs'[j].status = "armed" /\ jobs[j].status \in {"armed", "running"} /\ launches'[j] = launches[j]
    BY <1>8 DEF Retried, Becoming, SameHistory
  <2> QED BY <1>1, <1>2, <2>2, <2>3
<1>9. CASE Ended(j)
  BY <1>2, <1>3, <1>9 DEF Ended, Becoming, SameHistory
<1>10. CASE Started(j)
  <2>1. jobs[j].status = "armed" /\ jobs'[j].status = "running" /\ launches'[j] = launches[j] + 1
        /\ RetriesOf(jobs'[j]) = RetriesOf(jobs[j])
    BY <1>3, <1>10 DEF Started, Becoming
  <2> QED BY <1>1, <1>2, <2>1
<1> QED BY <1>4, <1>5, <1>6, <1>7, <1>8, <1>9, <1>10 DEF Moves, Moved

LEMMA ClosedFollows ==
  ASSUME Moves, NEW j \in JobIds, jobs[j].status \in Closed
  PROVE  jobs'[j].status \in {jobs[j].status, "draft", "deleted"}
<1>1. Moved(j)
  BY DEF Moves
<1>2. jobs[j].status \notin Disarmable \cup Armable \cup Open
  BY DEF Closed, Disarmable, Armable, Attention, Open
<1> QED BY <1>1, <1>2 DEF Moved, Rests, ArmingFails, Drafted, Dropped, TakenBack, ArmedByHand,
                         ArmedAnew, Retried, Ended, Started, Becoming, Open

LEMMA ErasureFollows ==
  ASSUME Moves, NEW j \in JobIds, jobs[j].status \notin Closed, jobs'[j].status \in Closed
  PROVE  prompts'[j] = NoPrompt
<1>1. Moved(j)
  BY DEF Moves
<1> QED BY <1>1 DEF Moved, Rests, ArmingFails, Drafted, Dropped, TakenBack, ArmedByHand,
                   ArmedAnew, Retried, Ended, Started, Becoming, Closed, Closes

-----------------------------------------------------------------------------
(* What the transitions of JobStore keep of a job. *)
LEMMA SetStatusKeeps ==
  ASSUME NEW job \in Job, NEW st \in Statuses
  PROVE  /\ SetStatus(job, st) \in Job
         /\ SetStatus(job, st).status = st /\ SetStatus(job, st).gen = job.gen
         /\ SetStatus(job, st).cmd = job.cmd /\ SetStatus(job, st).retries = job.retries
BY SetStatusTyped DEF SetStatus, Job

LEMMA FinishKeeps ==
  ASSUME NEW job \in Job, NEW st \in Statuses
  PROVE  /\ Finish(job, st) \in Job
         /\ Finish(job, st).status = st /\ Finish(job, st).gen = job.gen
         /\ Finish(job, st).cmd = job.cmd /\ Finish(job, st).retries = job.retries
<1> DEFINE base == SetStatus(job, st)
<1>1. base \in Job /\ base.status = st /\ base.gen = job.gen /\ base.cmd = job.cmd
      /\ base.retries = job.retries
  BY SetStatusKeeps
<1> HIDE DEF base
<1>2. Finish(job, st) = [base EXCEPT !.promptAvailable = @ /\ st \notin Closed]
  BY DEF Finish, base
<1> QED BY <1>1, <1>2, FinishTyped DEF Job

LEMMA NextGenerationKeeps ==
  ASSUME NEW job \in Job
  PROVE  /\ NextGeneration(job) \in Job
         /\ NextGeneration(job).status = "armed" /\ NextGeneration(job).gen = job.gen + 1
         /\ NextGeneration(job).cmd = job.cmd /\ NextGeneration(job).retries = job.retries
<1> DEFINE base == SetStatus(job, "armed")
<1>1. base \in Job /\ base.cmd = job.cmd /\ base.retries = job.retries
  BY SetStatusKeeps DEF Statuses
<1> HIDE DEF base
<1>2. NextGeneration(job) = [base EXCEPT !.gen = @ + 1]
  BY DEF NextGeneration, base
<1> QED BY <1>1, <1>2, NextGenerationTyped DEF Job

LEMMA DisarmedKeeps ==
  ASSUME NEW job \in Job
  PROVE  Disarmed(job).cmd = job.cmd /\ Disarmed(job).retries = job.retries
<1> DEFINE base == SetStatus(job, "disarmed")
<1>1. base \in Job /\ base.cmd = job.cmd /\ base.retries = job.retries
  BY SetStatusKeeps DEF Statuses
<1> HIDE DEF base
<1>2. Disarmed(job) = [base EXCEPT !.gen = @ + 1]
  BY DEF Disarmed, base
<1> QED BY <1>1, <1>2 DEF Job

LEMMA DecidedKeeps ==
  ASSUME NEW job \in Job, NEW act \in Actions
  PROVE  /\ Decided(job, act).status = act.status
         /\ Decided(job, act).cmd = job.cmd
         /\ Decided(job, act).gen = IF act.status = "armed" THEN job.gen + 1 ELSE job.gen
         /\ Decided(job, act).retries =
              IF act.status = "armed" THEN CountRetry(job.retries, act.counter) ELSE job.retries
<1>1. CASE act.status = "armed"
  <2> DEFINE next == NextGeneration(job)
  <2>1. next \in Job /\ next.retries = job.retries
    BY NextGenerationKeeps
  <2> HIDE DEF next
  <2>2. Decided(job, act) =
          [[next EXCEPT !.retries = CountRetry(@, act.counter)] EXCEPT !.due = "early"]
    BY <1>1 DEF Decided, next
  <2>3. Decided(job, act).retries = CountRetry(next.retries, act.counter)
    BY <2>1, <2>2 DEF Job
  <2> QED BY <1>1, <2>1, <2>3, DecidedFields
<1>2. CASE act.status # "armed"
  BY <1>2, ActionFields, FinishKeeps DEF Decided
<1> QED BY <1>1, <1>2

LEMMA ArmedByUserKeeps ==
  ASSUME NEW job \in Job, NEW how
  PROVE  /\ ArmedByUser(job, how).status = "armed" /\ ArmedByUser(job, how).gen = job.gen + 1
         /\ ArmedByUser(job, how).cmd = job.cmd /\ ArmedByUser(job, how).retries = NoRetries
<1> DEFINE next == NextGeneration(job)
<1>1. next \in Job /\ next.status = "armed" /\ next.gen = job.gen + 1 /\ next.cmd = job.cmd
  BY NextGenerationKeeps
<1> HIDE DEF next
<1>2. ArmedByUser(job, how) = [[next EXCEPT !.retries = NoRetries]
                                 EXCEPT !.due = IF how = "now" THEN "due" ELSE "early"]
  BY DEF ArmedByUser, next
<1> QED BY <1>1, <1>2 DEF Job

LEMMA PrunedKeeps ==
  ASSUME NEW job \in Job
  PROVE  /\ Pruned(job) \in Job
         /\ Pruned(job).gen = job.gen /\ Pruned(job).cmd = job.cmd
         /\ Pruned(job).retries = job.retries /\ Pruned(job).session = job.session
         /\ Pruned(job).status \in {job.status, "deleted"}
         /\ job.status \in Open => Pruned(job).status = job.status
         /\ Pruned(job).promptAvailable => job.promptAvailable
         /\ Pruned(job).status \in Closed => ~Pruned(job).promptAvailable
BY PrunedTyped DEF Pruned, InQueue, Absent, Closed, Job, Open

(* A claim of the current generation holds the session of its job. *)
HoldsSession ==
  \A r \in runners : r.phase \in Claimed /\ RunsNow(r) => r.session = jobs[r.job].session

LEMMA HoldingFollows ==
  ASSUME TypeOK, TypeOK', UnitsBehindStore, ClaimIsCurrent, HoldsSession, Effects, Moves
  PROVE  HoldsSession'
<1> SUFFICES ASSUME NEW s \in runners', s.phase \in Claimed,
                    jobs'[s.job].status = "running", jobs'[s.job].gen = s.gen,
                    s.session # jobs'[s.job].session
             PROVE  FALSE
  BY DEF HoldsSession, RunsNow
<1>1. s.job \in JobIds /\ s.gen \in Nat /\ UnitOf(s) = <<s.job, s.gen>>
  BY RunnerFields DEF TypeOK, UnitsTypeOK, UnitOf
<1>2. PICK r \in runners : UnitOf(r) = UnitOf(s) /\ r.phase \in Claimed /\ r.session = s.session
  BY DEF Effects, ClaimsMove
<1>3. r.job = s.job /\ r.gen = s.gen
  BY <1>1, <1>2 DEF UnitOf
<1>4. /\ jobs[s.job].gen \in Nat /\ jobs[s.job].gen <= jobs'[s.job].gen
      /\ s.gen <= jobs[s.job].gen
  BY <1>1, <1>2, <1>3 DEF TypeOK, StoreTypeOK, Job, Effects, GensGrow, UnitsBehindStore
<1>5. s.gen = jobs[s.job].gen /\ jobs'[s.job].gen = jobs[s.job].gen
  BY <1>1, <1>4
<1>6. jobs[s.job].status = "running"
  BY <1>2, <1>3, <1>5 DEF ClaimIsCurrent, Claimed
<1>7. s.session = jobs[s.job].session
  BY <1>2, <1>3, <1>5, <1>6 DEF HoldsSession, RunsNow
<1> QED BY <1>1, <1>5, <1>6, <1>7, GenKept DEF SameSession

-----------------------------------------------------------------------------
(* One job changes, or none does. *)
LEMMA RestingMoves ==
  ASSUME UNCHANGED <<jobs, historyVars>>
  PROVE  Moves
BY DEF Moves, Moved, Rests, RetriesMove, SameGen, SameCommand, SameSession, SameRetries,
       SameHistory, historyVars

LEMMA OneMoves ==
  ASSUME TypeOK, NEW j \in JobIds, NEW new, jobs' = [jobs EXCEPT ![j] = new],
         \A i \in JobIds \ {j} : SameHistory(i),
         jobs'[j] = new => Moved(j) /\ RetriesMove(j)
  PROVE  Moves
<1>1. jobs'[j] = new /\ \A i \in JobIds \ {j} : jobs'[i] = jobs[i]
  BY DEF TypeOK, StoreTypeOK
<1>2. \A i \in JobIds \ {j} : Moved(i) /\ RetriesMove(i)
  BY <1>1 DEF Moved, Rests, RetriesMove, SameGen, SameCommand, SameSession, SameRetries
<1> QED BY <1>1, <1>2 DEF Moves

LEMMA HistoryKept ==
  ASSUME UNCHANGED historyVars
  PROVE  \A i \in JobIds : SameHistory(i)
BY DEF historyVars, SameHistory

-----------------------------------------------------------------------------
(* The decisions of Policy: a retry has a counter below its cap. *)
Affordable(act, retries, counters) ==
  /\ act \in Actions /\ act.status \notin {"draft", "running"}
  /\ act.status = "armed" => act.counter \in counters /\ Below(retries, act.counter)

LEMMA RetryOrAffordable ==
  ASSUME NEW retries, NEW counters \in SUBSET Counters, NEW counter \in counters,
         NEW st \in Endings
  PROVE  Affordable(RetryOr(retries, counter, st), retries, counters)
<1>1. st \in Statuses /\ st \notin {"draft", "running", "armed"}
  BY DEF Endings, Statuses
<1>2. RetryOr(retries, counter, st) \in Actions
  BY <1>1, RetryOrIsAction
<1> QED BY <1>1, <1>2 DEF Affordable, RetryOr, Rearm, Final

LEMMA FinalAffordable ==
  ASSUME NEW retries, NEW counters, NEW st \in Statuses \ {"draft", "running", "armed"}
  PROVE  Affordable(Final(st), retries, counters) /\ Final(st).status = st
BY DEF Affordable, Final, Actions

LEMMA PrefireAffordable ==
  ASSUME NEW retries, NEW due, NEW act \in PrefireActions(retries, due), act # Fire
  PROVE  Affordable(act, retries, Counters)
<1>1. "defers" \in Counters /\ "gave_up" \in Endings
  BY DEF Counters, Endings
<1>2. {"missed", "skipped", "gave_up"} \subseteq Statuses \ {"draft", "running", "armed"}
  BY DEF Statuses
<1>3. \A a \in DeferActions(retries) : Affordable(a, retries, Counters)
  BY <1>1, <1>2, RetryOrAffordable, FinalAffordable DEF DeferActions
<1> QED BY <1>2, <1>3, FinalAffordable DEF PrefireActions

LEMMA DeferAffordable ==
  ASSUME NEW retries, NEW act \in DeferActions(retries)
  PROVE  Affordable(act, retries, Counters)
<1>1. "defers" \in Counters /\ "gave_up" \in Endings
  BY DEF Counters, Endings
<1>2. "gave_up" \in Statuses \ {"draft", "running", "armed"}
  BY DEF Statuses
<1> QED BY <1>1, <1>2, RetryOrAffordable, FinalAffordable DEF DeferActions

LEMMA BusyAffordable ==
  ASSUME NEW retries
  PROVE  Affordable(BusyAction(retries), retries, Counters)
BY RetryOrAffordable DEF BusyAction, Counters, Endings

(* After a run there is no pause, and every retry is counted by one of the four. *)
LEMMA PostrunAffordable ==
  ASSUME NEW retries, NEW outcome, NEW act \in PostrunActions(retries, outcome)
  PROVE  Affordable(act, retries, RunCounters) /\ act.status \in Endings \cup {"armed"}
<1>1. RunCounters \subseteq Counters
  BY DEF RunCounters, Counters
<1>2. \A c \in RunCounters, st \in Endings :
        /\ Affordable(RetryOr(retries, c, st), retries, RunCounters)
        /\ RetryOr(retries, c, st).status \in Endings \cup {"armed"}
  BY <1>1, RetryOrAffordable DEF RetryOr, Rearm, Final
<1>3. \A st \in Endings : /\ Affordable(Final(st), retries, RunCounters)
                          /\ Final(st).status \in Endings
  BY FinalAffordable DEF Endings, Statuses
<1>4. CASE outcome = "limit"
  <2>1. CASE act = Rearm("limitRetries") /\ Below(retries, "limitRetries")
    <3>1. RetryOr(retries, "limitRetries", "limit") = act
      BY <2>1 DEF RetryOr
    <3> QED BY <1>2, <3>1 DEF RunCounters, Endings
  <2>2. CASE act \in {Final("limit"), Final("skipped"), Final("gave_up")}
    BY <1>3, <2>2 DEF Endings
  <2> QED BY <1>4, <2>1, <2>2 DEF PostrunActions
<1>5. CASE outcome = "transient"
  BY <1>2, <1>5 DEF PostrunActions, RunCounters, Endings
<1>6. CASE outcome = "busy"
  BY <1>2, <1>6 DEF PostrunActions, BusyAction, RunCounters, Endings
<1>7. CASE outcome = "unclassified"
  BY <1>2, <1>7 DEF PostrunActions, RunCounters, Endings
<1>8. CASE outcome \notin {"limit", "transient", "busy", "unclassified"}
  BY <1>3, <1>8 DEF PostrunActions, Endings
<1> QED BY <1>4, <1>5, <1>6, <1>7, <1>8

-----------------------------------------------------------------------------
(* The runner. *)
LEMMA DecidedMoves ==
  ASSUME TypeOK, NEW j \in JobIds, NEW job \in Job,
         job.gen = jobs[j].gen, job.cmd = jobs[j].cmd, job.retries = jobs[j].retries,
         jobs[j].status \in {"armed", "running"},
         NEW counters \in SUBSET Counters, NEW act, Affordable(act, job.retries, counters),
         jobs[j].status = "running" => counters = RunCounters /\ act.status # "paused",
         jobs' = [jobs EXCEPT ![j] = Decided(job, act)],
         act.status \in Closed => prompts'[j] = NoPrompt,
         UNCHANGED historyVars
  PROVE  Moves
<1> DEFINE new == Decided(job, act)
<1>0. act \in Actions /\ act.status \in Statuses \ {"draft", "running"}
  BY ActionFields DEF Affordable
<1>1. /\ new.status = act.status /\ new.cmd = job.cmd
      /\ new.gen = IF act.status = "armed" THEN job.gen + 1 ELSE job.gen
      /\ new.retries = IF act.status = "armed" THEN CountRetry(job.retries, act.counter)
                       ELSE job.retries
  BY <1>0, DecidedKeeps
<1> HIDE DEF new
<1>2. ASSUME jobs'[j] = new, act.status = "armed" PROVE Retried(j) /\ RetriesMove(j)
  <2>1. act.counter \in counters /\ act.counter \in Counters /\ Below(jobs[j].retries, act.counter)
    BY <1>2 DEF Affordable
  <2>2. act.counter # NoCounter
    BY <2>1 DEF Counters, NoCounter
  <2>3. CountsOne(j, act.counter)
    BY <1>1, <1>2, <2>1, <2>2 DEF CountsOne, CountRetry
  <2>4. jobs[j].status = "running" => act.counter \in RunCounters
    BY <2>1
  <2>5. Becoming(j, {"armed", "running"}, {"armed"}) /\ NextGen(j) /\ SameCommand(j) /\ SameHistory(j)
    BY <1>1, <1>2, HistoryKept DEF Becoming, NextGen, SameCommand
  <2> QED BY <2>1, <2>3, <2>4, <2>5 DEF Retried, RetriesMove
<1>3. ASSUME jobs'[j] = new, act.status # "armed" PROVE Ended(j) /\ RetriesMove(j)
  <2>1. Becoming(j, Open, Statuses \ {"draft", "armed", "running"})
    BY <1>0, <1>1, <1>3 DEF Becoming, Open
  <2>2. SameGen(j) /\ SameCommand(j) /\ SameRetries(j) /\ SameHistory(j) /\ Closes(j)
    BY <1>1, <1>3, HistoryKept DEF SameGen, SameCommand, SameRetries, Closes
  <2>3. jobs'[j].status = "paused" => jobs[j].status = "armed"
    BY <1>1, <1>3
  <2> QED BY <2>1, <2>2, <2>3 DEF Ended, RetriesMove
<1>4. jobs'[j] = new => Moved(j) /\ RetriesMove(j)
  BY <1>2, <1>3 DEF Moved
<1>5. jobs' = [jobs EXCEPT ![j] = new]
  BY DEF new
<1> QED BY <1>4, <1>5, OneMoves, HistoryKept

LEMMA SettleMoves ==
  ASSUME TypeOK, NEW j \in JobIds, NEW job \in Job,
         job.gen = jobs[j].gen, job.cmd = jobs[j].cmd, job.retries = jobs[j].retries,
         jobs[j].status \in {"armed", "running"},
         NEW counters \in SUBSET Counters, NEW act, Affordable(act, job.retries, counters),
         jobs[j].status = "running" => counters = RunCounters /\ act.status # "paused",
         Settle(j, job, act), UNCHANGED historyVars
  PROVE  Moves
<1>1. jobs' = [jobs EXCEPT ![j] = Decided(job, act)]
  BY DEF Settle
<1>2. act.status \in Closed => prompts'[j] = NoPrompt
  BY DEF Settle, TypeOK, StoreTypeOK
<1> QED BY <1>1, <1>2, DecidedMoves

LEMMA EndsMoves ==
  ASSUME TypeOK, NEW r \in runners, NEW counters \in SUBSET Counters, NEW act,
         Affordable(act, jobs[r.job].retries, counters),
         Current(r) \/ (RunsNow(r) /\ counters = RunCounters /\ act.status # "paused"),
         Ends(r, act)
  PROVE  Moves
<1>1. r.job \in JobIds /\ jobs[r.job] \in Job
  BY RunnerFields DEF TypeOK, StoreTypeOK, UnitsTypeOK
<1>2. jobs[r.job].status \in {"armed", "running"}
      /\ (jobs[r.job].status = "running" => counters = RunCounters /\ act.status # "paused")
  BY DEF Current, RunsNow
<1>3. UNCHANGED historyVars
  BY DEF Ends
<1>4. CASE Settle(r.job, jobs[r.job], act)
  BY <1>1, <1>2, <1>3, <1>4, SettleMoves
<1>5. CASE ClosesPromptOnly(r.job, act)
  BY <1>3, <1>5, RestingMoves DEF ClosesPromptOnly
<1> QED BY <1>4, <1>5 DEF Ends

LEMMA ClaimMoves ==
  ASSUME TypeOK, NEW r \in runners,
         \/ ClaimPaused(r) \/ ClaimEdited(r) \/ ClaimRefused(r)
         \/ GateRefused(r) \/ SessionBusy(r) \/ PromptUnusable(r) \/ MarkFailed(r)
  PROVE  Moves
<1> DEFINE retries == jobs[r.job].retries
<1>1. r.job \in JobIds /\ jobs[r.job] \in Job
  BY RunnerFields DEF TypeOK, StoreTypeOK, UnitsTypeOK
<1>2. RunCounters \subseteq Counters
  BY DEF RunCounters, Counters
<1>3. \A st \in {"paused", "needs_confirm", "failed", "skipped"}, counters \in SUBSET Counters :
        Affordable(Final(st), retries, counters) /\ Final(st).status = st
  BY FinalAffordable DEF Statuses
<1>4. CASE ClaimPaused(r)
  BY <1>3, <1>4, EndsMoves DEF ClaimPaused
<1>5. CASE ClaimEdited(r)
  <2>1. /\ jobs' = [jobs EXCEPT ![r.job] = Decided(jobs[r.job], Final("needs_confirm"))]
        /\ jobs[r.job].status = "armed" /\ UNCHANGED historyVars
    BY <1>5 DEF ClaimEdited, Current
  <2>2. Final("needs_confirm").status \notin Closed
    BY <1>3 DEF Closed
  <2> QED BY <1>1, <1>3, <2>1, <2>2, DecidedMoves
<1>6. CASE ClaimRefused(r)
  <2>1. PICK act \in PrefireActions(retries, jobs[r.job].due) \cup {Final("failed")} :
          act # Fire /\ Ends(r, act)
    BY <1>6 DEF ClaimRefused
  <2>2. Affordable(act, retries, Counters)
    BY <1>3, <2>1, PrefireAffordable
  <2> QED BY <1>6, <2>1, <2>2, EndsMoves DEF ClaimRefused
<1>7. CASE GateRefused(r)
  <2>1. PICK act \in {Final("failed"), Final("skipped")} \cup DeferActions(retries) : Ends(r, act)
    BY <1>7 DEF GateRefused
  <2>2. Affordable(act, retries, Counters)
    BY <1>3, <2>1, DeferAffordable
  <2> QED BY <1>7, <2>1, <2>2, EndsMoves DEF GateRefused
<1>8. CASE SessionBusy(r)
  BY <1>8, BusyAffordable, EndsMoves DEF SessionBusy
<1>9. CASE PromptUnusable(r)
  BY <1>3, <1>9, EndsMoves DEF PromptUnusable
<1>10. CASE MarkFailed(r)
  <2>1. Affordable(Final("failed"), retries, RunCounters) /\ Final("failed").status # "paused"
    BY <1>2, <1>3
  <2> QED BY <1>2, <1>10, <2>1, EndsMoves DEF MarkFailed
<1> QED BY <1>4, <1>5, <1>6, <1>7, <1>8, <1>9, <1>10

LEMMA StartMoves ==
  ASSUME TypeOK, NEW r \in runners, ClaimStarts(r)
  PROVE  Moves
<1> DEFINE j == r.job  new == SetStatus(jobs[j], "running")
<1>1. j \in JobIds /\ jobs[j] \in Job /\ jobs[j].status = "armed"
  BY RunnerFields DEF TypeOK, StoreTypeOK, UnitsTypeOK, ClaimStarts, Current
<1>2. new.status = "running" /\ new.gen = jobs[j].gen /\ new.cmd = jobs[j].cmd
      /\ new.retries = jobs[j].retries
  BY <1>1, SetStatusKeeps DEF Statuses
<1>3. jobs' = [jobs EXCEPT ![j] = new]
  BY DEF ClaimStarts
<1> HIDE DEF new
<1>4. /\ launches'[j] = launches[j] + 1 /\ confirmed'[j] = confirmed[j]
      /\ \A i \in JobIds \ {j} : SameHistory(i)
  BY <1>1 DEF ClaimStarts, TypeOK, StoreTypeOK, SameHistory
<1>5. jobs'[j] = new => Started(j) /\ RetriesMove(j)
  BY <1>1, <1>2, <1>4 DEF Started, Becoming, SameGen, SameCommand, SameRetries, RetriesMove
<1>6. jobs'[j] = new => Moved(j) /\ RetriesMove(j)
  BY <1>5 DEF Moved
<1> QED BY <1>1, <1>3, <1>4, <1>6, OneMoves

(* A job that only ages. *)
LEMMA AgingMoves ==
  ASSUME TypeOK, NEW j \in JobIds, NEW new, jobs' = [jobs EXCEPT ![j] = new],
         new.status = jobs[j].status, new.gen = jobs[j].gen, new.cmd = jobs[j].cmd,
         new.retries = jobs[j].retries, new.session = jobs[j].session,
         UNCHANGED historyVars
  PROVE  Moves
<1>1. jobs'[j] = new => Moved(j) /\ RetriesMove(j)
  BY HistoryKept DEF Moved, Rests, SameGen, SameCommand, SameSession, SameRetries, RetriesMove
<1> QED BY <1>1, OneMoves, HistoryKept

LEMMA LateMoves ==
  ASSUME TypeOK, NEW r \in runners, ActLate(r)
  PROVE  Moves
<1>1. r.job \in JobIds /\ jobs[r.job] \in Job
  BY RunnerFields DEF TypeOK, StoreTypeOK, UnitsTypeOK
<1>2. CASE UNCHANGED jobs
  BY <1>2, RestingMoves DEF ActLate
<1>3. CASE jobs' = [jobs EXCEPT ![r.job] = Touched(r.job)]
  <2> DEFINE new == Touched(r.job)
  <2>1. new.status = jobs[r.job].status /\ new.gen = jobs[r.job].gen /\ new.cmd = jobs[r.job].cmd
        /\ new.retries = jobs[r.job].retries /\ new.session = jobs[r.job].session
    BY <1>1 DEF Touched, Job
  <2>2. jobs' = [jobs EXCEPT ![r.job] = new]
    BY <1>3
  <2> HIDE DEF new
  <2> QED BY <1>1, <2>1, <2>2, AgingMoves DEF ActLate
<1> QED BY <1>2, <1>3 DEF ActLate

LEMMA ActMoves ==
  ASSUME TypeOK, NEW r \in runners, Act(r)
  PROVE  Moves
<1> DEFINE old == jobs[r.job]
<1>1. r.job \in JobIds /\ old \in Job /\ old.status = "running"
  BY RunnerFields DEF TypeOK, StoreTypeOK, UnitsTypeOK, Act, RunsNow
<1>2. PICK outcome \in Outcomes : \E act \in PostrunActions(old.retries, outcome) :
        \E session \in SessionsAfter(r.job) :
          Settle(r.job, [old EXCEPT !.session = session], act)
  BY DEF Act
<1>3. PICK act \in PostrunActions(old.retries, outcome) : \E session \in SessionsAfter(r.job) :
        Settle(r.job, [old EXCEPT !.session = session], act)
  BY <1>2
<1>4. PICK session \in SessionsAfter(r.job) : Settle(r.job, [old EXCEPT !.session = session], act)
  BY <1>3
<1> DEFINE job == [old EXCEPT !.session = session]
<1>5. session \in Sessions \cup {NoSession}
  BY <1>1, StoreAssumption DEF SessionsAfter, Job
<1>6. job \in Job /\ job.gen = old.gen /\ job.cmd = old.cmd /\ job.retries = old.retries
  BY <1>1, <1>5 DEF Job
<1>7. Affordable(act, job.retries, RunCounters) /\ act.status # "paused"
  BY <1>6, PostrunAffordable DEF Endings
<1>8. RunCounters \subseteq Counters /\ UNCHANGED historyVars
  BY DEF RunCounters, Counters, Act
<1> HIDE DEF job
<1>9. Settle(r.job, job, act)
  BY <1>4 DEF job
<1> QED BY <1>1, <1>6, <1>7, <1>8, <1>9, SettleMoves

LEMMA RunnerStepMoves ==
  ASSUME TypeOK, NEW r \in runners, RunnerStep(r)
  PROVE  Moves
<1>1. CASE ClaimStale(r) \/ StoreUnavailable(r) \/ ClaimChecks(r) \/ AgentEnds(r) \/ ActCut(r)
  BY <1>1, RestingMoves DEF ClaimStale, StoreUnavailable, ClaimChecks, AgentEnds, ActCut, storeVars
<1> QED BY <1>1, ClaimMoves, StartMoves, LateMoves, ActMoves DEF RunnerStep

-----------------------------------------------------------------------------
(* The verbs. *)
LEMMA DraftMoves ==
  ASSUME TypeOK, NEW j \in JobIds, NEW cmd, jobs[j].status \notin {"armed", "running"},
         jobs' = [jobs EXCEPT ![j] = Draft(@.gen, cmd)], UNCHANGED historyVars
  PROVE  Moves
<1> DEFINE new == Draft(jobs[j].gen, cmd)
<1>1. new.status = "draft" /\ new.gen = jobs[j].gen /\ new.retries = NoRetries
  BY DEF Draft
<1>2. jobs' = [jobs EXCEPT ![j] = new]
  OBVIOUS
<1> HIDE DEF new
<1>3. jobs'[j] = new => Drafted(j) /\ RetriesMove(j)
  BY <1>1, HistoryKept DEF Drafted, SameGen, RetriesMove
<1> QED BY <1>2, <1>3, OneMoves, HistoryKept DEF Moved

LEMMA DropMoves ==
  ASSUME TypeOK, NEW j \in JobIds, jobs' = [jobs EXCEPT ![j].status = "deleted"],
         UNCHANGED historyVars
  PROVE  Moves
<1> DEFINE new == [jobs[j] EXCEPT !.status = "deleted"]
<1>1. new.status = "deleted" /\ new.gen = jobs[j].gen /\ new.retries = jobs[j].retries
  BY DEF TypeOK, StoreTypeOK, Job
<1>2. jobs' = [jobs EXCEPT ![j] = new]
  OBVIOUS
<1> HIDE DEF new
<1>3. jobs'[j] = new => Dropped(j) /\ RetriesMove(j)
  BY <1>1, HistoryKept DEF Dropped, SameGen, SameRetries, RetriesMove
<1> QED BY <1>2, <1>3, OneMoves, HistoryKept DEF Moved

LEMMA TakingBack ==
  ASSUME TypeOK, NEW j \in JobIds, jobs[j].status \in Disarmable, jobs'[j] = Disarmed(jobs[j]),
         SameHistory(j)
  PROVE  Moved(j) /\ RetriesMove(j)
<1>1. jobs[j] \in Job
  BY DEF TypeOK, StoreTypeOK
<1>2. /\ jobs'[j].status = "disarmed" /\ jobs'[j].gen = jobs[j].gen + 1
      /\ jobs'[j].retries = jobs[j].retries
  BY <1>1, DisarmedTyped, DisarmedKeeps
<1>3. TakenBack(j) /\ RetriesMove(j)
  BY <1>2 DEF TakenBack, Becoming, NextGen, SameRetries, RetriesMove
<1> QED BY <1>3 DEF Moved

LEMMA DisarmingMoves ==
  ASSUME TypeOK, NEW j \in JobIds, jobs[j].status \in Disarmable,
         jobs' = [jobs EXCEPT ![j] = Disarmed(@)], UNCHANGED historyVars
  PROVE  Moves
<1>1. jobs' = [jobs EXCEPT ![j] = Disarmed(jobs[j])]
  OBVIOUS
<1>2. jobs'[j] = Disarmed(jobs[j]) => Moved(j) /\ RetriesMove(j)
  BY TakingBack, HistoryKept
<1> QED BY <1>1, <1>2, OneMoves, HistoryKept

LEMMA CancelAllMoves ==
  ASSUME TypeOK, NEW p \in Clients, CancelAll(p)
  PROVE  Moves
<1> DEFINE hit == {j \in JobIds : jobs[j].status \in Disarmable}
<1>1. UNCHANGED historyVars
  BY DEF CancelAll
<1>2. CASE UNCHANGED jobs
  BY <1>1, <1>2, RestingMoves
<1>3. CASE jobs' = [j \in JobIds |-> IF j \in hit THEN Disarmed(jobs[j]) ELSE jobs[j]]
  <2> SUFFICES ASSUME NEW j \in JobIds PROVE Moved(j) /\ RetriesMove(j)
    BY DEF Moves
  <2>1. CASE j \in hit
    BY <1>1, <1>3, <2>1, TakingBack, HistoryKept
  <2>2. CASE j \notin hit
    <3>1. jobs'[j] = jobs[j] /\ SameHistory(j)
      BY <1>1, <1>3, <2>2, HistoryKept
    <3> QED BY <3>1 DEF Moved, Rests, RetriesMove, SameGen, SameCommand, SameSession, SameRetries
  <2> QED BY <2>1, <2>2
<1> QED BY <1>2, <1>3 DEF CancelAll

LEMMA UpdateMoves ==
  ASSUME TypeOK, NEW j \in JobIds, jobs[j].status \notin {"armed", "running"},
         NEW c, NEW keep, CommitUpdate(j, c, keep) \/ StoresPromptOnly(j, c, keep),
         UNCHANGED historyVars
  PROVE  Moves
BY DraftMoves, RestingMoves DEF CommitUpdate, StoresPromptOnly

LEMMA ArmCommitsMoves ==
  ASSUME TypeOK, NEW p \in Clients, ArmCommits(p)
  PROVE  Moves
<1> DEFINE j == clients[p].job
<1>0. clients[p] \in Pending /\ clients[p].verb \in {"arm", "run-now"}
  BY DEF TypeOK, VerbsTypeOK, ArmCommits
<1>1. j \in JobIds
  BY <1>0, PendingFields
<1>2. jobs[j] \in Job /\ jobs[j].status \in Armable \cup {"armed"}
  BY <1>0, <1>1 DEF TypeOK, StoreTypeOK, ArmCommits, CanArm
<1>3. PICK how \in Ways(clients[p].verb) : jobs' = [jobs EXCEPT ![j] = ArmedByUser(@, how)]
  BY DEF ArmCommits
<1> DEFINE new == ArmedByUser(jobs[j], how)
<1>4. new.status = "armed" /\ new.gen = jobs[j].gen + 1 /\ new.cmd = jobs[j].cmd
      /\ new.retries = NoRetries
  BY <1>2, ArmedByUserKeeps
<1>5. clients[p].digest.cmd = jobs[j].cmd
  BY DEF ArmCommits, Digest
<1>6. /\ launches'[j] = 0 /\ confirmed'[j] = jobs[j].cmd
      /\ \A i \in JobIds \ {j} : SameHistory(i)
  BY <1>1, <1>5 DEF ArmCommits, TypeOK, StoreTypeOK, SameHistory
<1>7. jobs' = [jobs EXCEPT ![j] = new]
  BY <1>3
<1> HIDE DEF new
<1>8. jobs'[j] = new => ArmedByHand(j) /\ RetriesMove(j)
  BY <1>2, <1>4, <1>6 DEF ArmedByHand, Becoming, NextGen, RetriesMove
<1>9. jobs'[j] = new => Moved(j) /\ RetriesMove(j)
  BY <1>8 DEF Moved
<1> QED BY <1>1, <1>6, <1>7, <1>9, OneMoves

LEMMA ArmFailsMoves ==
  ASSUME TypeOK, NEW p \in Clients, ArmFails(p)
  PROVE  Moves
<1> DEFINE j == clients[p].job
<1>0. clients[p] \in Pending /\ clients[p].verb \in {"arm", "run-now"}
  BY DEF TypeOK, VerbsTypeOK, ArmFails
<1>1. j \in JobIds
  BY <1>0, PendingFields
<1>2. jobs[j] \in Job /\ jobs[j].status # "running"
  BY <1>0, <1>1 DEF TypeOK, StoreTypeOK, ArmFails, CanArm, Armable, Attention
<1> DEFINE base == [jobs[j] EXCEPT !.gen = @ + 1]
           new == [base EXCEPT !.age = "new"]
<1>3. base \in Job /\ base.gen = jobs[j].gen + 1 /\ base.status = jobs[j].status
      /\ base.cmd = jobs[j].cmd /\ base.retries = jobs[j].retries
  BY <1>2 DEF Job
<1> HIDE DEF base
<1>4. new.gen = jobs[j].gen + 1 /\ new.status = jobs[j].status /\ new.cmd = jobs[j].cmd
      /\ new.retries = jobs[j].retries
  BY <1>3 DEF Job
<1>5. jobs' = [jobs EXCEPT ![j] = new] /\ UNCHANGED historyVars
  BY <1>1 DEF ArmFails, TypeOK, StoreTypeOK, base
<1> HIDE DEF new
<1>6. jobs'[j] = new => ArmingFails(j) /\ RetriesMove(j)
  BY <1>1, <1>2, <1>4, <1>5, HistoryKept
     DEF ArmingFails, NextGen, SameCommand, SameRetries, RetriesMove
<1>7. jobs'[j] = new => Moved(j) /\ RetriesMove(j)
  BY <1>6 DEF Moved
<1> QED BY <1>1, <1>5, <1>7, OneMoves, HistoryKept

LEMMA ReschedulingMoves ==
  ASSUME TypeOK, NEW j \in JobIds, NEW t, RescheduleDraft(j, t) \/ Reschedule(j, t)
  PROVE  Moves
<1>1. jobs[j] \in Job /\ UNCHANGED historyVars
  BY DEF TypeOK, StoreTypeOK, RescheduleDraft, Reschedule
<1>2. CASE RescheduleDraft(j, t)
  <2> DEFINE new == [jobs[j] EXCEPT !.at = t]
  <2>1. new.status = jobs[j].status /\ new.gen = jobs[j].gen /\ new.cmd = jobs[j].cmd
        /\ new.retries = jobs[j].retries /\ new.session = jobs[j].session
    BY <1>1 DEF Job
  <2>2. jobs' = [jobs EXCEPT ![j] = new]
    BY <1>2 DEF RescheduleDraft
  <2> HIDE DEF new
  <2> QED BY <1>1, <2>1, <2>2, AgingMoves
<1>3. CASE Reschedule(j, t)
  <2> DEFINE next == NextGeneration(jobs[j])
             timed == [next EXCEPT !.at = t]
             new == [timed EXCEPT !.due = "early"]
  <2>1. next \in Job /\ next.status = "armed" /\ next.gen = jobs[j].gen + 1
        /\ next.cmd = jobs[j].cmd /\ next.retries = jobs[j].retries
    BY <1>1, NextGenerationKeeps
  <2>2. jobs' = [jobs EXCEPT ![j] = new] /\ jobs[j].status = "armed"
    BY <1>3 DEF Reschedule
  <2> HIDE DEF next
  <2>3. new.status = "armed" /\ new.gen = jobs[j].gen + 1 /\ new.cmd = jobs[j].cmd
        /\ new.retries = jobs[j].retries
    BY <2>1 DEF Job
  <2> HIDE DEF new
  <2>4. jobs'[j] = new => ArmedAnew(j) /\ RetriesMove(j)
    BY <1>1, <2>2, <2>3, HistoryKept
       DEF ArmedAnew, Becoming, NextGen, SameCommand, SameRetries, RetriesMove
  <2>5. jobs'[j] = new => Moved(j) /\ RetriesMove(j)
    BY <2>4 DEF Moved
  <2> QED BY <1>1, <2>2, <2>5, OneMoves, HistoryKept
<1> QED BY <1>2, <1>3

LEMMA VerbStepMoves ==
  ASSUME TypeOK, VerbStep
  PROVE  Moves
<1>1. ASSUME NEW j \in JobIds, NEW c \in Cmds, Create(j, c) PROVE Moves
  <2>1. UNCHANGED historyVars /\ jobs[j].status \notin {"armed", "running"}
    BY <1>1 DEF Create
  <2>2. \/ jobs' = [jobs EXCEPT ![j] = Draft(@.gen, c)]
        \/ jobs' = [jobs EXCEPT ![j].status = "deleted"]
    BY <1>1 DEF Create
  <2> QED BY <2>1, <2>2, DraftMoves, DropMoves
<1>2. ASSUME NEW j \in JobIds, NEW c \in Cmds, NEW keep \in BOOLEAN, Update(j, c, keep) PROVE Moves
  BY <1>2, UpdateMoves DEF Update
<1>3. ASSUME NEW j \in JobIds, NEW c \in Cmds, NEW keep \in BOOLEAN, NEW p \in Clients,
             UpdateArmed(p, j, c, keep)
      PROVE  Moves
  BY <1>3, DisarmingMoves DEF UpdateArmed, Disarmable
<1>4. ASSUME NEW p \in Clients, UpdateCommits(p) PROVE Moves
  <2>1. clients[p] \in Pending /\ clients[p].verb = "update"
    BY <1>4 DEF UpdateCommits, TypeOK, VerbsTypeOK
  <2>2. clients[p].job \in JobIds
    BY <2>1, PendingFields
  <2> QED BY <1>4, <2>2, UpdateMoves DEF UpdateCommits
<1>5. ASSUME NEW p \in Clients,
             \/ UpdateStops(p) \/ Abandons(p) \/ CancelStops(p)
             \/ \E j \in JobIds, verb \in {"arm", "run-now"} : ArmBegins(p, j, verb)
      PROVE  Moves
  BY <1>5, RestingMoves DEF UpdateStops, Abandons, CancelStops, ArmBegins, storeVars
<1>6. ASSUME NEW j \in JobIds, Delete(j) PROVE Moves
  BY <1>6, DropMoves DEF Delete
<1>7. ASSUME NEW j \in JobIds, Disarm(j) PROVE Moves
  BY <1>7, DisarmingMoves DEF Disarm
<1>8. ASSUME NEW j \in JobIds, NEW t \in Times, RescheduleDraft(j, t) \/ Reschedule(j, t) PROVE Moves
  BY <1>8, ReschedulingMoves
<1> QED BY <1>1, <1>2, <1>3, <1>4, <1>5, <1>6, <1>7, <1>8, ArmCommitsMoves, ArmFailsMoves,
           CancelAllMoves DEF VerbStep

-----------------------------------------------------------------------------
(* The reconcile pass. *)

(* What a visit makes of a job: it leaves it, ends it, or arms it again. *)
NeedsNothing(j) ==
  LET job == jobs[j] IN
  /\ job.status = "armed" => UnitLive(<<j, job.gen>>)
  /\ job.status = "running" => ServiceLive(<<j, job.gen>>)
  /\ job.status = "paused" => blocked \/ ~job.promptAvailable

Counted(job, new) ==
  \E c \in RunCounters : Below(job.retries, c) /\ new.retries = [job.retries EXCEPT ![c] = @ + 1]

EndsIt(job, visit) ==
  /\ job.status \in Open
  /\ visit.unit = "none" /\ visit.job \in Job
  /\ visit.job.status \in Statuses \ {"draft", "armed", "running"}
  /\ visit.job.gen = job.gen /\ visit.job.cmd = job.cmd
  /\ visit.job.retries = job.retries \/ Counted(job, visit.job)
  /\ visit.job.status = "paused" => visit.job.retries = job.retries /\ blocked

ArmsIt(job, visit) ==
  /\ job.status \in Open
  /\ visit.unit \in {"timer", "now"} /\ visit.job \in Job
  /\ visit.job.status = "armed"
  /\ visit.job.gen = job.gen + 1 /\ visit.job.cmd = job.cmd
  /\ IF job.status = "running" THEN Counted(job, visit.job) ELSE visit.job.retries = job.retries

LEMMA TurnedEnds ==
  ASSUME NEW job \in Job, job.status \in Open,
         NEW st \in Statuses \ {"draft", "armed", "running"}, st = "paused" => blocked
  PROVE  EndsIt(job, Turned(job, st))
BY FinishKeeps DEF EndsIt, Turned, Kept

LEMMA ArmedAgainKeeps ==
  ASSUME NEW job \in Job, NEW how \in {"timer", "now"}
  PROVE  LET visit == ArmedAgain(job, how) IN
         /\ visit.unit = how /\ visit.job \in Job /\ visit.job.status = "armed"
         /\ visit.job.gen = job.gen + 1 /\ visit.job.cmd = job.cmd
         /\ visit.job.retries = job.retries
<1> DEFINE next == NextGeneration(job)
<1>1. next \in Job /\ next.status = "armed" /\ next.gen = job.gen + 1 /\ next.cmd = job.cmd
      /\ next.retries = job.retries
  BY NextGenerationKeeps
<1> HIDE DEF next
<1>2. ArmedAgain(job, how).job = [next EXCEPT !.due = IF how = "timer" THEN "early" ELSE @]
      /\ ArmedAgain(job, how).unit = how
  BY DEF ArmedAgain, next
<1> QED BY <1>1, <1>2 DEF Job, Dues

(* A job waiting for its unit fires, pauses or is missed. *)
LEMMA FireOrMissMoves ==
  ASSUME NEW job \in Job, job.status \in {"armed", "paused"}
  PROVE  LET visit == FireOrMiss(job) IN EndsIt(job, visit) \/ ArmsIt(job, visit)
<1>1. job.status \in Open /\ job.status # "running"
  BY DEF Open
<1>2. \A how \in {"timer", "now"} : ArmsIt(job, ArmedAgain(job, how))
  BY <1>1, ArmedAgainKeeps DEF ArmsIt
<1>3. EndsIt(job, Turned(job, "missed"))
  BY <1>1, TurnedEnds DEF Statuses
<1>4. blocked => EndsIt(job, Turned(job, "paused"))
  BY <1>1, TurnedEnds DEF Statuses
<1> QED BY <1>2, <1>3, <1>4 DEF FireOrMiss

(* What the dead runner of a running job recorded: its retry is counted, whatever becomes of it. *)
LEMMA RecordMoves ==
  ASSUME NEW job \in Job, job.status \in {"armed", "running"}, NEW record \in Record, Sound(record),
         job.status = "running" /\ record.status = "armed" => Below(job.retries, record.counter),
         NEW visit \in FromRecord(job, record)
  PROVE  EndsIt(job, visit) \/ ArmsIt(job, visit)
<1>1. job.status \in Open
  BY DEF Open
<1>2. CASE record.status # "armed"
  <2>1. PICK st \in Endings : visit = Turned(job, st)
    BY <1>2 DEF FromRecord, Sound, Endings
  <2>2. st \in Statuses \ {"draft", "armed", "running"} /\ st # "paused"
    BY DEF Endings, Statuses
  <2> QED BY <1>1, <2>1, <2>2, TurnedEnds
<1>3. CASE record.status = "armed" /\ blocked
  BY <1>1, <1>3, TurnedEnds DEF FromRecord, Statuses
<1>4. CASE record.status = "armed" /\ ~blocked /\ job.status = "armed"
  <2>1. PICK d \in Dues : visit = FireOrMiss([job EXCEPT !.due = d])
    BY <1>4 DEF FromRecord
  <2> DEFINE timed == [job EXCEPT !.due = d]
  <2>2. timed \in Job /\ timed.status = job.status /\ timed.gen = job.gen /\ timed.cmd = job.cmd
        /\ timed.retries = job.retries
    BY DEF Job
  <2> HIDE DEF timed
  <2>3. visit = FireOrMiss(timed)
    BY <2>1 DEF timed
  <2>4. EndsIt(timed, visit) \/ ArmsIt(timed, visit)
    BY <1>4, <2>2, <2>3, FireOrMissMoves
  <2> QED BY <1>4, <2>2, <2>4 DEF EndsIt, ArmsIt, Counted
<1>5. CASE record.status = "armed" /\ ~blocked /\ job.status = "running"
  <2> DEFINE c == record.counter
             retries == [job.retries EXCEPT ![c] = @ + 1]
             counted == [job EXCEPT !.retries = retries]
  <2>1. c \in RunCounters /\ c \in Counters /\ c # NoCounter /\ Below(job.retries, c)
    BY <1>5 DEF Sound, RunCounters, Counters, NoCounter
  <2>2. retries \in [Counters -> Nat]
    BY <2>1 DEF Job
  <2>3. retries = CountRetry(job.retries, c)
    BY <2>1 DEF CountRetry
  <2> HIDE DEF retries
  <2>4. PICK d \in Dues : visit = FireOrMiss([counted EXCEPT !.due = d])
    BY <1>5, <2>3 DEF FromRecord
  <2>5. counted \in Job /\ counted.status = "running" /\ counted.gen = job.gen
        /\ counted.cmd = job.cmd /\ counted.retries = retries
    BY <1>5, <2>2 DEF Job
  <2> HIDE DEF counted
  <2> DEFINE timed == [counted EXCEPT !.due = d]
  <2>6. timed \in Job /\ timed.status = "running" /\ timed.gen = job.gen /\ timed.cmd = job.cmd
        /\ timed.retries = retries
    BY <2>5 DEF Job
  <2> HIDE DEF timed
  <2>7. visit = FireOrMiss(timed)
    BY <2>4 DEF timed
  <2>8. \/ visit = Turned(timed, "missed")
        \/ \E how \in {"timer", "now"} : visit = ArmedAgain(timed, how)
    BY <1>5, <2>7 DEF FireOrMiss
  <2>9. \A new : new.retries = retries => Counted(job, new)
    BY <2>1 DEF Counted, retries
  <2>10. CASE visit = Turned(timed, "missed")
    <3>1. EndsIt(timed, visit)
      BY <2>6, <2>10, TurnedEnds DEF Statuses, Open
    <3>2. visit.job.retries = retries /\ visit.job.status = "missed"
      BY <2>6, <2>10, FinishKeeps DEF Turned, Kept, Statuses
    <3> QED BY <1>1, <2>6, <2>9, <3>1, <3>2 DEF EndsIt
  <2>11. ASSUME NEW how \in {"timer", "now"}, visit = ArmedAgain(timed, how)
         PROVE  ArmsIt(job, visit)
    BY <1>1, <1>5, <2>6, <2>9, <2>11, ArmedAgainKeeps DEF ArmsIt
  <2> QED BY <2>8, <2>10, <2>11
<1> QED BY <1>2, <1>3, <1>4, <1>5

LEMMA VisitsOutcome ==
  ASSUME TypeOK, RecordsHold, NEW j \in JobIds, NEW visit \in Visits(j)
  PROVE  \/ NeedsNothing(j) /\ visit = Kept(jobs[j])
         \/ EndsIt(jobs[j], visit)
         \/ ArmsIt(jobs[j], visit)
<1> DEFINE job == jobs[j]
           unit == <<j, job.gen>>
           written == RecordsOf(j, job.gen)
           recorded == UNION {FromRecord(job, r) : r \in written}
           outcome == EndsIt(job, visit) \/ ArmsIt(job, visit)
<1>1. job \in Job /\ job.promptAvailable \in BOOLEAN
  BY DEF TypeOK, StoreTypeOK, Job
<1>2. ASSUME NEW r \in written, job.status \in {"armed", "running"}, visit \in FromRecord(job, r)
      PROVE  outcome
  <2>1. r \in Record /\ Sound(r) /\ Timely(r) /\ r.job = j /\ r.gen = job.gen
    BY DEF RecordsOf, TypeOK, StoreTypeOK, RecordsHold
  <2>2. job.status = "running" /\ r.status = "armed" => Below(job.retries, r.counter)
    BY <2>1 DEF Timely
  <2> QED BY <1>1, <1>2, <2>1, <2>2, RecordMoves
<1>3. CASE job.status = "armed" /\ ~UnitLive(unit)
  <2>1. visit \in recorded \/ visit = FireOrMiss(job)
    BY <1>3 DEF Visits
  <2>2. visit = FireOrMiss(job) => outcome
    BY <1>1, <1>3, FireOrMissMoves
  <2> QED BY <1>2, <1>3, <2>1, <2>2
<1>4. CASE job.status = "running" /\ ~ServiceLive(unit)
  <2>1. visit \in recorded \/ visit = Turned(job, "interrupted")
    BY <1>4 DEF Visits
  <2>2. EndsIt(job, Turned(job, "interrupted"))
    BY <1>1, <1>4, TurnedEnds DEF Open, Statuses
  <2> QED BY <1>2, <1>4, <2>1, <2>2
<1>5. CASE job.status = "paused" /\ ~blocked /\ job.promptAvailable
  <2>1. visit = Turned(job, "missed") \/ visit = ArmedAgain(job, "timer")
    BY <1>5 DEF Visits
  <2>2. EndsIt(job, Turned(job, "missed"))
    BY <1>1, <1>5, TurnedEnds DEF Open, Statuses
  <2>3. ArmsIt(job, ArmedAgain(job, "timer"))
    BY <1>1, <1>5, ArmedAgainKeeps DEF ArmsIt, Open
  <2> QED BY <2>1, <2>2, <2>3
<1>6. CASE NeedsNothing(j)
  <2>1. visit = Kept(job)
    BY <1>6 DEF Visits, NeedsNothing
  <2> QED BY <1>6, <2>1
<1> QED BY <1>3, <1>4, <1>5, <1>6 DEF NeedsNothing

LEMMA ReconcileMoves ==
  ASSUME TypeOK, RecordsHold, NEW j \in JobIds, Reconcile(j)
  PROVE  Moves
<1>1. PICK visit \in Visits(j) : PruneInto(j, visit.job) /\ UNCHANGED historyVars
  BY DEF Reconcile
<1> DEFINE new == Pruned(visit.job)
<1>2. visit.job \in Job
  BY VisitsOfTyped DEF Visit
<1>3. /\ new.gen = visit.job.gen /\ new.cmd = visit.job.cmd
      /\ new.retries = visit.job.retries /\ new.session = visit.job.session
      /\ new.status \in {visit.job.status, "deleted"}
      /\ visit.job.status \in Open => new.status = visit.job.status
      /\ new.status \in Closed => ~new.promptAvailable
  BY <1>2, PrunedKeeps
<1>4. jobs' = [jobs EXCEPT ![j] = new]
  BY <1>1 DEF PruneInto
<1>5. ~new.promptAvailable => prompts'[j] = NoPrompt
  BY <1>1 DEF PruneInto, TypeOK, StoreTypeOK
<1> HIDE DEF new
<1>6. \A c \in RunCounters : c \in Counters
  BY DEF RunCounters, Counters
<1>7. ASSUME jobs'[j] = new PROVE Moved(j) /\ RetriesMove(j)
  <2>1. SameHistory(j)
    BY <1>1, HistoryKept
  <2>2. CASE visit = Kept(jobs[j])
    <3>1. visit.job = jobs[j]
      BY <2>2 DEF Kept
    <3>2. (Rests(j) \/ Dropped(j)) /\ RetriesMove(j)
      BY <1>3, <1>7, <2>1, <3>1 DEF Rests, Dropped, RetriesMove, SameGen, SameCommand,
                                          SameSession, SameRetries
    <3> QED BY <3>2 DEF Moved
  <2>3. CASE EndsIt(jobs[j], visit)
    <3>1. RetriesMove(j)
      BY <1>3, <1>6, <1>7, <2>3 DEF EndsIt, Counted, RetriesMove, SameRetries, CountsOne
    <3>2. SameGen(j) /\ SameCommand(j) /\ Closes(j)
      BY <1>3, <1>5, <1>7, <2>3 DEF EndsIt, SameGen, SameCommand, Closes
    <3>3. CASE new.status = "deleted"
      BY <1>7, <2>1, <3>1, <3>2, <3>3 DEF Dropped, Moved
    <3>4. CASE new.status = visit.job.status
      <4>1. Becoming(j, Open, Statuses \ {"draft", "armed", "running"})
        BY <1>7, <2>3, <3>4 DEF EndsIt, Becoming
      <4>2. jobs'[j].status = "paused" => SameRetries(j) /\ blocked
        BY <1>3, <1>7, <2>3, <3>4 DEF EndsIt, SameRetries
      <4>3. Ended(j)
        BY <2>1, <3>2, <4>1, <4>2 DEF Ended
      <4> QED BY <3>1, <4>3 DEF Moved
    <3> QED BY <1>3, <3>3, <3>4
  <2>4. CASE ArmsIt(jobs[j], visit)
    <3>1. new.status = "armed" /\ new.gen = jobs[j].gen + 1 /\ new.cmd = jobs[j].cmd
      BY <1>3, <2>4 DEF ArmsIt, Open
    <3>2. NextGen(j) /\ SameCommand(j)
      BY <1>7, <3>1 DEF NextGen, SameCommand
    <3>3. CASE jobs[j].status = "running"
      <4>1. PICK c \in RunCounters : CountsOne(j, c)
        BY <1>3, <1>7, <2>4, <3>3 DEF ArmsIt, Counted, CountsOne
      <4>2. Retried(j) /\ RetriesMove(j)
        BY <1>6, <1>7, <2>1, <3>1, <3>2, <3>3, <4>1 DEF Retried, Becoming, RetriesMove
      <4> QED BY <4>2 DEF Moved
    <3>4. CASE jobs[j].status # "running"
      <4>1. jobs[j].status \in {"armed", "paused"} /\ SameRetries(j)
        BY <1>3, <1>7, <2>4, <3>4 DEF ArmsIt, Open, SameRetries
      <4>2. ArmedAnew(j) /\ RetriesMove(j)
        BY <1>7, <2>1, <3>1, <3>2, <4>1 DEF ArmedAnew, Becoming, RetriesMove
      <4> QED BY <4>2 DEF Moved
    <3> QED BY <3>3, <3>4
  <2> QED BY <2>2, <2>3, <2>4, VisitsOutcome
<1> QED BY <1>1, <1>4, <1>7, OneMoves, HistoryKept

LEMMA ReconcileStepMoves ==
  ASSUME TypeOK, RecordsHold, ReconcileStep
  PROVE  Moves
<1>1. PICK j \in JobIds : Reconcile(j) \/ OnlyPrunes(j) \/ ReconcileCut(j)
  BY DEF ReconcileStep
<1>2. CASE OnlyPrunes(j)
  <2> DEFINE new == Pruned(jobs[j])
  <2>1. new.gen = jobs[j].gen /\ new.cmd = jobs[j].cmd /\ new.retries = jobs[j].retries
        /\ new.session = jobs[j].session /\ new.status \in {jobs[j].status, "deleted"}
    BY PrunedKeeps DEF TypeOK, StoreTypeOK
  <2>2. jobs' = [jobs EXCEPT ![j] = new] /\ UNCHANGED historyVars
    BY <1>2 DEF OnlyPrunes, PruneInto
  <2> HIDE DEF new
  <2>3. jobs'[j] = new => (Rests(j) \/ Dropped(j)) /\ RetriesMove(j)
    BY <2>1, <2>2, HistoryKept
       DEF Rests, Dropped, RetriesMove, SameGen, SameCommand, SameSession, SameRetries
  <2>4. jobs'[j] = new => Moved(j) /\ RetriesMove(j)
    BY <2>3 DEF Moved
  <2> QED BY <2>2, <2>4, OneMoves, HistoryKept
<1>3. CASE ReconcileCut(j)
  BY <1>3, RestingMoves DEF ReconcileCut
<1> QED BY <1>1, <1>2, <1>3, ReconcileMoves

-----------------------------------------------------------------------------
(* Every step moves the jobs so. *)
LEMMA TimeMoves ==
  ASSUME TypeOK, Time
  PROVE  Moves
<1>1. PICK j \in JobIds : FireTimeNears(j) \/ GracePasses(j) \/ GrowsOld(j)
  BY DEF Time
<1>2. jobs[j] \in Job
  BY DEF TypeOK, StoreTypeOK
<1>3. UNCHANGED historyVars
  BY <1>1 DEF FireTimeNears, GracePasses, GrowsOld
<1>4. CASE \E d : jobs' = [jobs EXCEPT ![j].due = d]
  <2>1. PICK d : jobs' = [jobs EXCEPT ![j].due = d]
    BY <1>4
  <2> DEFINE new == [jobs[j] EXCEPT !.due = d]
  <2>2. new.status = jobs[j].status /\ new.gen = jobs[j].gen /\ new.cmd = jobs[j].cmd
        /\ new.retries = jobs[j].retries /\ new.session = jobs[j].session
    BY <1>2 DEF Job
  <2>3. jobs' = [jobs EXCEPT ![j] = new]
    BY <2>1
  <2> HIDE DEF new
  <2> QED BY <1>3, <2>2, <2>3, AgingMoves
<1>5. CASE \E a : jobs' = [jobs EXCEPT ![j].age = a]
  <2>1. PICK a : jobs' = [jobs EXCEPT ![j].age = a]
    BY <1>5
  <2> DEFINE new == [jobs[j] EXCEPT !.age = a]
  <2>2. new.status = jobs[j].status /\ new.gen = jobs[j].gen /\ new.cmd = jobs[j].cmd
        /\ new.retries = jobs[j].retries /\ new.session = jobs[j].session
    BY <1>2 DEF Job
  <2>3. jobs' = [jobs EXCEPT ![j] = new]
    BY <2>1
  <2> HIDE DEF new
  <2> QED BY <1>3, <2>2, <2>3, AgingMoves
<1>6. CASE GrowsOld(j)
  <2>1. jobs' = [jobs EXCEPT ![j].age = IF jobs[j].age = "new" THEN "day" ELSE "month"]
    BY <1>6 DEF GrowsOld, TypeOK, StoreTypeOK
  <2> QED BY <1>5, <2>1
<1> QED BY <1>1, <1>4, <1>6 DEF FireTimeNears, GracePasses

LEMMA NextMoves ==
  ASSUME TypeOK, RecordsHold, [Next]_vars
  PROVE  Moves
<1>1. CASE VerbStep
  BY <1>1, VerbStepMoves
<1>2. CASE Process
  <2>1. PICK r \in runners : \/ RunnerStep(r) \/ RunnerExits(r) \/ RunnerDies(r)
                            \/ RunnerKilled(r) \/ RuntimeExceeded(r)
    BY <1>2 DEF Process
  <2>2. CASE ~RunnerStep(r)
    BY <2>1, <2>2, RestingMoves DEF RunnerExits, RunnerDies, RunnerKilled, RuntimeExceeded, storeVars
  <2> QED BY <2>2, RunnerStepMoves
<1>3. CASE ReconcileStep
  BY <1>3, ReconcileStepMoves
<1>4. CASE Elapse \/ Stop \/ KillSwitchFlips \/ Reboot \/ UNCHANGED vars
  BY <1>4, RestingMoves DEF Elapse, TimerElapses, Stop, StopSent, StopLost, KillSwitchFlips, Reboot,
                            vars, storeVars
<1>5. CASE Time
  BY <1>5, TimeMoves
<1> QED BY <1>1, <1>2, <1>3, <1>4, <1>5 DEF Next

-----------------------------------------------------------------------------
(* Every step moves the records so. *)
LEMMA RecordWritten ==
  ASSUME TypeOK, NEW r \in runners, NEW st, NEW counter, WriteRecord(r, st, counter),
         st \in Endings \cup {"armed", "none"}, st = "armed" => counter \in RunCounters,
         \/ r.gen < jobs[r.job].gen
         \/ RunsNow(r) /\ (st = "armed" => Below(jobs[r.job].retries, counter))
  PROVE  RecordsMove
<1> DEFINE new == [job |-> r.job, gen |-> r.gen, status |-> st, counter |-> counter]
<1>1. new.job = r.job /\ new.gen = r.gen /\ new.status = st /\ new.counter = counter
  OBVIOUS
<1>2. \A q \in records' : q \in records \/ q = new
  BY DEF WriteRecord
<1> HIDE DEF new
<1>3. Written(new)
  BY <1>1 DEF Written, Sound, RunsNow
<1> QED BY <1>2, <1>3 DEF RecordsMove

LEMMA RunnerStepRecords ==
  ASSUME TypeOK, UnitsBehindStore, ClaimIsCurrent, NEW r \in runners, RunnerStep(r)
  PROVE  RecordsMove
<1>1. r.job \in JobIds /\ r.gen \in Nat /\ jobs[r.job].gen \in Nat
  BY RunnerFields DEF TypeOK, StoreTypeOK, UnitsTypeOK, Job
<1>2. CASE UNCHANGED records
  BY <1>2 DEF RecordsMove
<1>3. CASE ActLate(r)
  <2>1. r.gen # jobs[r.job].gen
    BY <1>3 DEF ActLate, RunsNow, ClaimIsCurrent
  <2>2. r.gen < jobs[r.job].gen
    BY <1>1, <2>1 DEF UnitsBehindStore
  <2> QED BY <1>3, <2>2, RecordWritten DEF ActLate
<1>4. CASE Act(r) \/ ActCut(r)
  <2>1. RunsNow(r)
    BY <1>4 DEF Act, ActCut
  <2>2. PICK outcome \in Outcomes : \E act \in PostrunActions(jobs[r.job].retries, outcome) :
          WriteRecord(r, act.status, act.counter)
    BY <1>4 DEF Act, ActCut
  <2>3. PICK act \in PostrunActions(jobs[r.job].retries, outcome) :
          WriteRecord(r, act.status, act.counter)
    BY <2>2
  <2>4. /\ act.status \in Endings \cup {"armed"}
        /\ act.status = "armed" => /\ act.counter \in RunCounters
                                   /\ Below(jobs[r.job].retries, act.counter)
    BY PostrunAffordable DEF Affordable
  <2> QED BY <2>1, <2>3, <2>4, RecordWritten
<1> QED BY <1>2, <1>3, <1>4
        DEF RunnerStep, ClaimStale, StoreUnavailable, ClaimChecks, ClaimPaused, ClaimEdited,
            ClaimRefused, GateRefused, SessionBusy, PromptUnusable, ClaimStarts, AgentEnds,
            MarkFailed, Ends, storeVars

LEMMA NextRecords ==
  ASSUME TypeOK, UnitsBehindStore, ClaimIsCurrent, [Next]_vars
  PROVE  RecordsMove
<1>1. CASE records' \subseteq records
  BY <1>1 DEF RecordsMove
<1>2. CASE VerbStep
  <2>1. records' \subseteq records
    BY <1>2 DEF VerbStep, Create, Update, UpdateArmed, UpdateStops, UpdateCommits, ArmBegins,
                ArmCommits, ArmFails, Abandons, CancelAll, CancelStops, Delete, Disarm,
                RescheduleDraft, Reschedule, storeVars
  <2> QED BY <1>1, <2>1
<1>3. CASE Process
  <2>1. PICK r \in runners : \/ RunnerStep(r) \/ RunnerExits(r) \/ RunnerDies(r)
                            \/ RunnerKilled(r) \/ RuntimeExceeded(r)
    BY <1>3 DEF Process
  <2>2. CASE ~RunnerStep(r)
    BY <1>1, <2>1, <2>2 DEF RunnerExits, RunnerDies, RunnerKilled, RuntimeExceeded, storeVars
  <2> QED BY <2>2, RunnerStepRecords
<1>4. CASE ReconcileStep
  <2>1. records' \subseteq records
    BY <1>4 DEF ReconcileStep, Reconcile, OnlyPrunes, ReconcileCut, PruneInto
  <2> QED BY <1>1, <2>1
<1>5. CASE Elapse \/ Stop \/ Time \/ KillSwitchFlips \/ Reboot \/ UNCHANGED vars
  BY <1>1, <1>5 DEF Elapse, TimerElapses, Stop, StopSent, StopLost, Time, FireTimeNears, GracePasses,
                    GrowsOld, KillSwitchFlips, Reboot, vars, storeVars
<1> QED BY <1>2, <1>3, <1>4, <1>5 DEF Next

-----------------------------------------------------------------------------
(* Every step but the stops of cancel-all moves the units to be stopped so. *)
LEMMA FewerStops ==
  ASSUME stopping' \subseteq stopping
  PROVE  StopsMove
BY DEF StopsMove

(* The unit of the generation a job leaves in the same step. *)
LEMMA StopOfPast ==
  ASSUME TypeOK, NEW j \in JobIds, stopping' \subseteq stopping \cup {<<j, jobs[j].gen>>},
         jobs'[j].gen = jobs[j].gen + 1
  PROVE  StopsMove
<1>1. jobs[j].gen \in Nat
  BY DEF TypeOK, StoreTypeOK, Job
<1> QED BY <1>1 DEF StopsMove

LEMMA VerbStepStops ==
  ASSUME TypeOK, VerbStep, \A p \in Clients : ~CancelStops(p)
  PROVE  StopsMove
<1>1. ASSUME NEW p \in Clients, ArmCommits(p) \/ ArmFails(p) PROVE StopsMove
  <2> DEFINE j == clients[p].job
  <2>0. clients[p] \in Pending /\ clients[p].verb \in {"arm", "run-now"}
    BY <1>1 DEF TypeOK, VerbsTypeOK, ArmCommits, ArmFails
  <2>1. j \in JobIds /\ jobs[j] \in Job
    BY <2>0, PendingFields DEF TypeOK, StoreTypeOK
  <2>2. stopping' \subseteq stopping \cup {<<j, jobs[j].gen>>}
    BY <1>1 DEF ArmCommits, ArmFails, StopsOld, StopsLater, unitVars
  <2>3. CASE ArmCommits(p)
    <3>1. PICK how \in Ways(clients[p].verb) : jobs' = [jobs EXCEPT ![j] = ArmedByUser(@, how)]
      BY <2>3 DEF ArmCommits
    <3>2. jobs'[j] = ArmedByUser(jobs[j], how)
      BY <2>1, <3>1 DEF TypeOK, StoreTypeOK
    <3>3. jobs'[j].gen = jobs[j].gen + 1
      BY <2>1, <3>2, ArmedByUserKeeps
    <3> QED BY <2>1, <2>2, <3>3, StopOfPast
  <2>4. CASE ArmFails(p)
    <3> DEFINE base == [jobs[j] EXCEPT !.gen = @ + 1]
    <3>1. base \in Job /\ base.gen = jobs[j].gen + 1
      BY <2>1 DEF Job
    <3>2. jobs'[j] = [base EXCEPT !.age = "new"]
      BY <2>1, <2>4 DEF ArmFails, TypeOK, StoreTypeOK
    <3> HIDE DEF base
    <3>3. jobs'[j].gen = jobs[j].gen + 1
      BY <3>1, <3>2 DEF Job
    <3> QED BY <2>1, <2>2, <3>3, StopOfPast
  <2> QED BY <1>1, <2>3, <2>4
<1>2. ASSUME NEW j \in JobIds, Disarm(j) PROVE StopsMove
  <2>1. jobs'[j] = Disarmed(jobs[j]) /\ jobs[j] \in Job
    BY <1>2 DEF Disarm, TypeOK, StoreTypeOK
  <2>2. jobs'[j].gen = jobs[j].gen + 1
    BY <2>1, DisarmedTyped
  <2> QED BY <1>2, <2>2, StopOfPast DEF Disarm, StopsLater
<1>3. ASSUME NEW j \in JobIds, NEW t \in Times, Reschedule(j, t) PROVE StopsMove
  <2> DEFINE next == NextGeneration(jobs[j])
             timed == [next EXCEPT !.at = t]
  <2>1. next \in Job /\ next.gen = jobs[j].gen + 1
    BY NextGenerationKeeps DEF TypeOK, StoreTypeOK
  <2>2. jobs'[j] = [timed EXCEPT !.due = "early"]
    BY <1>3 DEF Reschedule, TypeOK, StoreTypeOK
  <2> HIDE DEF next
  <2>3. jobs'[j].gen = jobs[j].gen + 1
    BY <2>1, <2>2 DEF Job
  <2> QED BY <1>3, <2>3, StopOfPast DEF Reschedule, StopsLater
<1>4. CASE stopping' \subseteq stopping
  BY <1>4, FewerStops
<1>5. ASSUME NEW p \in Clients,
             UpdateStops(p) \/ UpdateCommits(p) \/ Abandons(p) \/ CancelAll(p)
      PROVE  stopping' \subseteq stopping
  BY <1>5 DEF UpdateStops, UpdateCommits, Abandons, CancelAll, unitVars
<1>6. ASSUME NEW j \in JobIds, NEW c \in Cmds, NEW keep \in BOOLEAN,
             Update(j, c, keep) \/ \E p \in Clients : UpdateArmed(p, j, c, keep)
      PROVE  stopping' \subseteq stopping
  BY <1>6 DEF Update, UpdateArmed, unitVars
<1>7. ASSUME NEW j \in JobIds,
             \/ Delete(j)
             \/ \E t \in Times : RescheduleDraft(j, t)
             \/ \E p \in Clients, verb \in {"arm", "run-now"} : ArmBegins(p, j, verb)
      PROVE  stopping' \subseteq stopping
  BY <1>7 DEF Delete, RescheduleDraft, ArmBegins, unitVars
<1>8. ASSUME NEW j \in JobIds, NEW c \in Cmds, Create(j, c) PROVE stopping' \subseteq stopping
  BY <1>8 DEF Create, unitVars
<1> QED
  <2>1. CASE \E j \in JobIds, c \in Cmds : Create(j, c)
    BY <1>4, <1>8, <2>1
  <2>2. CASE \E j \in JobIds, c \in Cmds, keep \in BOOLEAN :
               Update(j, c, keep) \/ \E p \in Clients : UpdateArmed(p, j, c, keep)
    BY <1>4, <1>6, <2>2
  <2>3. CASE \E p \in Clients :
               UpdateStops(p) \/ UpdateCommits(p) \/ Abandons(p) \/ CancelAll(p)
    BY <1>4, <1>5, <2>3
  <2>4. CASE \E j \in JobIds :
               \/ Delete(j)
               \/ \E t \in Times : RescheduleDraft(j, t)
               \/ \E p \in Clients, verb \in {"arm", "run-now"} : ArmBegins(p, j, verb)
    BY <1>4, <1>7, <2>4
  <2>5. CASE \E j \in JobIds : Disarm(j)
    BY <1>2, <2>5
  <2>6. CASE \E j \in JobIds, t \in Times : Reschedule(j, t)
    BY <1>3, <2>6
  <2>7. CASE \E p \in Clients : ArmCommits(p) \/ ArmFails(p)
    BY <1>1, <2>7
  <2> QED BY <2>1, <2>2, <2>3, <2>4, <2>5, <2>6, <2>7 DEF VerbStep

(* A pass stops what is not the unit of the job as it leaves it. *)
LEMMA ReconcileStops ==
  ASSUME TypeOK, UnitsBehindStore, RecordsHold, NEW j \in JobIds, Reconcile(j)
  PROVE  StopsMove
<1>1. PICK visit \in Visits(j), recent \in BOOLEAN :
        PruneInto(j, visit.job) /\ StopsLater(Stale(j, visit.job, recent))
  BY DEF Reconcile
<1> DEFINE new == Pruned(visit.job)
<1>2. visit.job \in Job
  BY VisitsOfTyped DEF Visit
<1>3. /\ new.gen = visit.job.gen /\ new.status \in {visit.job.status, "deleted"}
  BY <1>2, PrunedKeeps
<1>4. jobs'[j] = new
  BY <1>1 DEF PruneInto, TypeOK, StoreTypeOK
<1> HIDE DEF new
<1> SUFFICES ASSUME NEW u \in Stale(j, visit.job, recent)
             PROVE  /\ u[2] <= jobs[u[1]].gen
                    /\ u[2] = jobs'[u[1]].gen => jobs'[u[1]].status \notin {"armed", "running"}
  BY <1>1 DEF StopsLater, StopsMove
<1>5. (u \in timers /\ u[1] = j) \/ \E s \in runners : s.job = j /\ u = UnitOf(s)
  BY DEF Stale
<1>6. u[1] = j /\ u = <<j, u[2]>> /\ u[2] <= jobs[j].gen
  <2>1. CASE u \in timers /\ u[1] = j
    BY <2>1 DEF TypeOK, UnitsTypeOK, Unit, UnitsBehindStore
  <2>2. ASSUME NEW s \in runners, s.job = j, u = UnitOf(s)
        PROVE  u[1] = j /\ u = <<j, u[2]>> /\ u[2] <= jobs[j].gen
    BY <2>2 DEF UnitOf, UnitsBehindStore
  <2> QED BY <1>5, <2>1, <2>2
<1>7. ASSUME u[2] = visit.job.gen PROVE visit.job.status \notin {"armed", "running"}
  <2>1. u = <<j, visit.job.gen>>
    BY <1>6, <1>7
  <2> QED BY <2>1 DEF Stale
<1> QED BY <1>3, <1>4, <1>6, <1>7

LEMMA NextStops ==
  ASSUME TypeOK, UnitsBehindStore, RecordsHold, [Next]_vars, \A p \in Clients : ~CancelStops(p)
  PROVE  StopsMove
<1>1. CASE VerbStep
  BY <1>1, VerbStepStops
<1>2. CASE Process
  <2>1. stopping' \subseteq stopping
    BY <1>2 DEF Process, RunnerExits, RunnerDies, RunnerKilled, RuntimeExceeded, RunnerStep, ClaimStale,
                StoreUnavailable, ClaimChecks, ClaimPaused, ClaimEdited, ClaimRefused, GateRefused,
                SessionBusy, PromptUnusable, ClaimStarts, AgentEnds, ActLate, Act, ActCut, MarkFailed,
                Ends
  <2> QED BY <2>1, FewerStops
<1>3. CASE ReconcileStep
  <2>1. PICK j \in JobIds : Reconcile(j) \/ OnlyPrunes(j) \/ ReconcileCut(j)
    BY <1>3 DEF ReconcileStep
  <2>2. CASE OnlyPrunes(j) \/ ReconcileCut(j)
    BY <2>2, FewerStops DEF OnlyPrunes, ReconcileCut, unitVars
  <2> QED BY <2>1, <2>2, ReconcileStops
<1>4. ASSUME \/ Elapse
             \/ Stop
             \/ Reboot
             \/ UNCHANGED unitVars
      PROVE  StopsMove
  <2>1. stopping' \subseteq stopping
    BY <1>4 DEF Elapse, TimerElapses, Stop, StopSent, StopLost, Reboot, unitVars
  <2> QED BY <2>1, FewerStops
<1>5. CASE UNCHANGED vars
  BY <1>4, <1>5 DEF vars, unitVars
<1> QED BY <1>1, <1>2, <1>3, <1>4, <1>5 DEF Next

-----------------------------------------------------------------------------
(* A pass that reaches systemd leaves a job that needs nothing. *)
LEMMA VisitSettles ==
  ASSUME TypeOK, RecordsHold, NEW j \in JobIds, Reconcile(j), UNCHANGED budget
  PROVE  NeedsNothing(j)'
<1>1. PICK visit \in Visits(j) :
        /\ PruneInto(j, visit.job)
        /\ \/ Created(<<j, visit.job.gen>>, visit.unit)
           \/ visit.unit # "none" /\ Spend("faults")
        /\ UNCHANGED blocked
  BY DEF Reconcile
<1>2. ~Spend("faults")
  <2>1. budget["faults"] \in Nat /\ budget["faults"] - 1 # budget["faults"]
    BY BoundNames DEF TypeOK, StoreTypeOK
  <2> QED BY <2>1, BoundNames DEF Spend, TypeOK, StoreTypeOK
<1>3. Created(<<j, visit.job.gen>>, visit.unit)
  BY <1>1, <1>2
<1> DEFINE new == Pruned(visit.job)
<1>4. visit.job \in Job /\ jobs[j] \in Job
  BY VisitsOfTyped DEF Visit, TypeOK, StoreTypeOK
<1>5. /\ new.gen = visit.job.gen
      /\ new.status \in {visit.job.status, "deleted"}
      /\ visit.job.status \in Open => new.status = visit.job.status
      /\ new.promptAvailable => visit.job.promptAvailable
      /\ new.promptAvailable \in BOOLEAN
  BY <1>4, PrunedKeeps DEF Job
<1>6. jobs'[j] = new
  BY <1>1 DEF PruneInto, TypeOK, StoreTypeOK
<1> HIDE DEF new
<1>7. CASE NeedsNothing(j) /\ visit = Kept(jobs[j])
  <2>1. visit.job = jobs[j] /\ UNCHANGED <<timers, runners>>
    BY <1>3, <1>7 DEF Kept, Created
  <2>2. new.status = "armed" => UnitLive(<<j, new.gen>>)
    BY <1>5, <1>7, <2>1 DEF NeedsNothing
  <2>3. new.status = "running" => ServiceLive(<<j, new.gen>>)
    BY <1>5, <1>7, <2>1 DEF NeedsNothing
  <2>4. new.status = "paused" => blocked \/ ~new.promptAvailable
    BY <1>5, <1>7, <2>1 DEF NeedsNothing
  <2> QED BY <1>1, <1>6, <2>1, <2>2, <2>3, <2>4 DEF NeedsNothing, UnitLive, ServiceLive
<1>8. CASE EndsIt(jobs[j], visit)
  <2>1. new.status \notin {"armed", "running"} /\ (new.status = "paused" => blocked)
    BY <1>5, <1>8 DEF EndsIt
  <2> QED BY <1>1, <1>6, <2>1 DEF NeedsNothing
<1>9. CASE ArmsIt(jobs[j], visit)
  <2>1. new.status = "armed" /\ visit.unit \in {"timer", "now"} /\ visit.job.gen = new.gen
        /\ visit.job.gen \in Nat
    BY <1>4, <1>5, <1>9 DEF ArmsIt, Open, Job
  <2>2. <<j, new.gen>> \in timers' \/ NewRunner(<<j, new.gen>>) \in runners'
    BY <1>3, <2>1 DEF Created
  <2>3. UnitOf(NewRunner(<<j, new.gen>>)) = <<j, new.gen>>
    BY <2>1, NewRunnerTyped DEF Unit
  <2>4. UnitLive(<<j, new.gen>>)'
    BY <1>6, <2>2, <2>3 DEF UnitLive, ServiceLive
  <2> QED BY <1>6, <2>1, <2>4 DEF NeedsNothing
<1> QED BY <1>7, <1>8, <1>9, VisitsOutcome

-----------------------------------------------------------------------------
(* The inductive invariant, on top of that of AutoPilotSafety. *)
Orderly == Safe /\ RecordsHold /\ RetriesWithinCap /\ ConfirmedCommand /\ HoldsSession

LEMMA InitOrderly == Init => Orderly
<1> SUFFICES ASSUME Init PROVE Orderly
  OBVIOUS
<1>1. Safe
  BY InitSafe
<1>2. PICK c \in Cmds :
        /\ jobs = [j \in JobIds |-> [Draft(0, c) EXCEPT !.status = "free", !.promptAvailable = FALSE]]
        /\ confirmed = [j \in JobIds |-> c]
  BY DEF Init, StoreInit
<1> DEFINE base == [Draft(0, c) EXCEPT !.status = "free"]
           free == [base EXCEPT !.promptAvailable = FALSE]
<1>3. Draft(0, c) \in Job /\ Draft(0, c).retries = NoRetries
  BY DraftTyped DEF Draft
<1>4. base \in Job /\ base.status = "free" /\ base.retries = NoRetries
  BY <1>3 DEF Job, Absent
<1>5. jobs = [j \in JobIds |-> free]
  BY <1>2
<1> HIDE DEF base
<1>6. free.status = "free" /\ free.retries = NoRetries
  BY <1>4 DEF Job
<1> HIDE DEF free
<1>7. \A j \in JobIds : jobs[j].status = "free" /\ jobs[j].retries = NoRetries
  BY <1>5, <1>6
<1>8. RetriesWithinCap
  BY <1>7, CapAssumption DEF RetriesWithinCap, NoRetries
<1>9. ConfirmedCommand
  BY <1>7 DEF ConfirmedCommand
<1>10. RecordsHold
  BY DEF Init, StoreInit, RecordsHold
<1>11. HoldsSession
  BY DEF Init, UnitsInit, HoldsSession
<1> QED BY <1>1, <1>8, <1>9, <1>10, <1>11 DEF Orderly

LEMMA NextOrderly ==
  ASSUME Orderly, [Next]_vars
  PROVE  Orderly' /\ TypeOK /\ TypeOK' /\ Moves /\ RecordsMove
<1>1. Safe' /\ TypeOK /\ TypeOK' /\ UnitsBehindStore /\ ClaimIsCurrent /\ Effects
  BY NextSafe, NextEffects DEF Orderly, Safe
<1>2. Moves /\ RecordsMove
  BY <1>1, NextMoves, NextRecords DEF Orderly
<1>3. HoldsSession'
  BY <1>1, <1>2, HoldingFollows DEF Orderly
<1> QED BY <1>1, <1>2, <1>3, RecordsFollow, RetriesFollow, CommandsFollow DEF Orderly

LEMMA AlwaysOrderly == Spec => []Orderly
<1>1. Orderly /\ [Next]_vars => Orderly'
  BY NextOrderly
<1> QED BY <1>1, InitOrderly, PTL DEF Spec

(* No job is retried more often than its caps allow, whether its runner counted the retry or
   died and a pass applied its record: a retry not yet applied is one the cap still allows. *)
THEOREM CapsHold == Spec => []RetriesWithinCap
<1>1. Orderly => RetriesWithinCap
  BY DEF Orderly
<1> QED BY <1>1, AlwaysOrderly, PTL

(* A pass never takes the record of an earlier run for that of a run still to come: every
   record is of a generation the job has left by the time it is armed again. *)
THEOREM ArmedIsUnrecorded == Spec => []ArmedHasNoRecord
<1>1. Orderly => ArmedHasNoRecord
  <2> SUFFICES ASSUME Orderly, NEW j \in JobIds, jobs[j].status = "armed", NEW r \in records,
                      r.job = j, r.gen = jobs[j].gen
               PROVE  FALSE
    BY DEF ArmedHasNoRecord, RecordsOf
  <2> QED BY DEF Orderly, RecordsHold, Timely
<1> QED BY <1>1, AlwaysOrderly, PTL

(* What waits, runs or resumes is the command whose digest the user armed last: only a draft
   gets another command, and only the user's arming leaves the draft. *)
THEOREM RunsWhatWasConfirmed == Spec => []ConfirmedCommand
<1>1. Orderly => ConfirmedCommand
  BY DEF Orderly
<1> QED BY <1>1, AlwaysOrderly, PTL

(* The run at work holds the session the job goes on in, and no other process does: a claim
   takes the job's session under its lock, no step moves a running job to another one, and the
   late end of an older run, or a new arming under it, changes neither. *)
THEOREM SessionStaysKept == Spec => []SessionKept
<1>1. Orderly => SessionKept
  BY DEF Orderly, Safe, HoldsSession, SessionExclusive, SessionKept, Claimed
<1> QED BY <1>1, AlwaysOrderly, PTL

(* No late result, record or pass reopens a closed job. *)
THEOREM NothingReopens == Spec => ClosedStaysClosed
<1>1. Orderly /\ [Next]_vars =>
        [\A j \in JobIds :
           jobs[j].status \in Closed =>
             jobs'[j].status \in {jobs[j].status, "draft", "deleted"}]_vars
  BY NextOrderly, ClosedFollows
<1> QED BY <1>1, AlwaysOrderly, PTL DEF Spec, ClosedStaysClosed

(* The prompt file is gone by the save that closes its job, whoever closes it. *)
THEOREM PromptsAreErased == Spec => ClosingErasesPrompt
<1>1. Orderly /\ [Next]_vars =>
        [\A j \in JobIds :
           jobs[j].status \notin Closed /\ jobs'[j].status \in Closed => prompts'[j] = NoPrompt]_vars
  BY NextOrderly, ErasureFollows
<1> QED BY <1>1, AlwaysOrderly, PTL DEF Spec, ClosingErasesPrompt

(* The pass is idempotent: after one whose systemd calls succeeded, a second finds the units and
   the status of the job as it would leave them. *)
THEOREM PassIsIdempotent == Spec => PassSettles
<1>1. Orderly /\ [Next]_vars =>
        [\A j \in JobIds : Reconcile(j) /\ UNCHANGED budget => Visits(j)' = {Kept(jobs'[j])}]_vars
  <2> SUFFICES ASSUME Orderly, NEW j \in JobIds, Reconcile(j), UNCHANGED budget
               PROVE  Visits(j)' = {Kept(jobs'[j])}
    OBVIOUS
  <2>1. NeedsNothing(j)'
    BY VisitSettles DEF Orderly, Safe
  <2>2. NeedsNothing(j)' => Visits(j)' = {Kept(jobs'[j])}
    BY DEF NeedsNothing, Visits, Kept
  <2> QED BY <2>1, <2>2
<1> QED BY <1>1, AlwaysOrderly, PTL DEF Spec, PassSettles

(* As long as the kill switch stays off, every agent started since the user armed the job, but
   the one now running, is paid for by a retry counter: also the retry whose runner died between
   its record and its save.  (Under the switch the pass that finds that record pauses the job and
   does not count it: RetryCapHolds.) *)
THEOREM LaunchesArePaid == Spec /\ []~blocked => []LaunchesCounted
<1>1. Init => LaunchesCounted
  <2> SUFFICES ASSUME Init, NEW j \in JobIds PROVE jobs[j].status \notin {"armed", "paused", "running"}
    BY DEF LaunchesCounted
  <2>1. PICK c \in Cmds :
          jobs = [i \in JobIds |-> [Draft(0, c) EXCEPT !.status = "free", !.promptAvailable = FALSE]]
    BY DEF Init, StoreInit
  <2> QED BY <2>1 DEF Draft
<1>2. Orderly /\ LaunchesCounted /\ ~blocked /\ [Next]_vars => LaunchesCounted'
  BY NextOrderly, LaunchesFollow
<1> QED BY <1>1, <1>2, AlwaysOrderly, PTL DEF Spec

(* A stop left for after the lock never reaches a unit a job relies on by then, unless the user
   cancels everything: cancel-all alone stops what systemd lists, whatever was armed meanwhile. *)
THEOREM StopsAreStale == Spec /\ [][\A p \in Clients : ~CancelStops(p)]_vars => []StopsOnlyStale
<1> DEFINE Spares == \A p \in Clients : ~CancelStops(p)
           Behind == StopsBehind /\ StopsOnlyStale
<1>1. Init => Behind
  BY DEF Init, UnitsInit, StopsBehind, StopsOnlyStale
<1>2. Orderly /\ Behind /\ [Next]_vars /\ [Spares]_vars => Behind'
  <2> SUFFICES ASSUME Orderly, Behind, [Next]_vars, [Spares]_vars PROVE Behind'
    OBVIOUS
  <2>1. TypeOK /\ TypeOK' /\ Moves /\ UnitsBehindStore /\ RecordsHold
    BY NextOrderly DEF Orderly, Safe
  <2>2. CASE UNCHANGED vars
    BY <2>2 DEF vars, unitVars, storeVars, StopsBehind, StopsOnlyStale
  <2>3. CASE Spares
    BY <2>1, <2>3, NextStops, StopsFollow
  <2> QED BY <2>2, <2>3
<1>3. Behind => StopsOnlyStale
  OBVIOUS
<1> HIDE DEF Spares, Behind
<1> QED BY <1>1, <1>2, <1>3, AlwaysOrderly, PTL DEF Spec, Spares
=============================================================================
