--------------------------- MODULE JobStore ---------------------------
(***************************************************************************)
(* The persistent state of jobs.py: the job list (jobs.json), the stored    *)
(* prompts (prompts/<id>.txt) and the run records (runs/<id>-g<gen>.json).  *)
(*                                                                          *)
(* Every change of the store is one section under the jobs lock.  The lock  *)
(* excludes other sections, and a process that dies inside one releases it, *)
(* so a section is one action here, with a further action (a "cut") for     *)
(* each prefix of its durable writes that differs from doing nothing.       *)
(***************************************************************************)
EXTENDS Policy

CONSTANTS JobIds,             \* the ids new_job_id can draw
          Cmds,               \* what a draft runs: prompt, agent, folder, level
          Times,              \* trigger settings, the one a draft brings among them
          OwnTime,            \* that one
          Sessions,           \* agent sessions a run can write into
          SessionOf,          \* the session a command resumes, or NoSession
          FreshSession,       \* the session the agent creates for a job that resumes none
          Budgets             \* bounds, of each behaviour: user verbs, environment faults, kill switch flips

VARIABLES jobs,               \* jobs.json
          prompts,            \* the stored prompt of each id
          records,            \* the run records
          blocked,            \* the kill switch exists or the plugin is disabled
          budget,             \* what is left of its budget
          launches,           \* history: agents started since the user last armed the job
          confirmed           \* history: the command whose digest the user last armed

NoPrompt  == "no prompt"
NoSession == "no session"
Bounds   == {"ops", "faults", "toggles"}

ASSUME StoreAssumption ==
  /\ OwnTime \in Times
  /\ NoPrompt \notin Cmds
  /\ NoSession \notin Sessions
  /\ SessionOf \in [Cmds -> Sessions \cup {NoSession}]
  /\ FreshSession \in [JobIds -> Sessions]
  /\ Budgets \subseteq [Bounds -> Nat]

storeVars   == <<jobs, prompts, records>>
historyVars == <<launches, confirmed>>

(* An id that no job has, before its first use ("free") and after ("deleted"). *)
Absent == {"free", "deleted"}

(* How long a job has been left alone: less than the day its prompt is kept while it waits
   for the user, longer, or longer than the 30 days it is kept itself. *)
Ages == {"new", "day", "month"}

Job == [status : Statuses \cup Absent,
        gen : Nat,                          \* the generation; unit names carry it
        cmd : Cmds, at : Times,             \* what the digest binds
        session : Sessions \cup {NoSession},  \* effective_session: the next run writes it
        promptAvailable : BOOLEAN,
        retries : [Counters -> Nat],
        due : Dues,                         \* fireAt against now
        age : Ages]                         \* updatedAt against now

Record == [job : JobIds, gen : Nat, status : Statuses \cup {"none"},
           counter : Counters \cup {NoCounter}]

Present(j) == jobs[j].status \notin Absent
Digest(j)  == [cmd |-> jobs[j].cmd, at |-> jobs[j].at]

RecordsOf(j, g) == {r \in records : r.job = j /\ r.gen = g}

Spend(bound) == budget[bound] > 0 /\ budget' = [budget EXCEPT ![bound] = @ - 1]
SpendBoth(a, b) ==
  budget[a] > 0 /\ budget[b] > 0 /\ budget' = [budget EXCEPT ![a] = @ - 1, ![b] = @ - 1]

-----------------------------------------------------------------------------
NoRetries == [c \in Counters |-> 0]

(* Every status change also touches updatedAt. *)
SetStatus(job, status) == [job EXCEPT !.status = status, !.age = "new"]

(* A closed job loses its prompt in the same step. *)
Finish(job, status) ==
  [SetStatus(job, status) EXCEPT !.promptAvailable = @ /\ status \notin Closed]

CountRetry(retries, counter) ==
  IF counter = NoCounter THEN retries ELSE [retries EXCEPT ![counter] = @ + 1]

(* Mutant: the saved generation is still the old one. *)
SameGeneration(job) == SetStatus(job, "armed")

(* armed again under a new generation *)
NextGeneration(job) == [SetStatus(job, "armed") EXCEPT !.gen = @ + 1]

(* What the job becomes when a runner applies one of the decisions of Policy. *)
Decided(job, act) ==
  IF act.status = "armed"
  THEN [NextGeneration(job) EXCEPT !.retries = CountRetry(@, act.counter), !.due = "early"]
  ELSE Finish(job, act.status)

(* A new or replaced job: a draft of cmd, its generation kept. *)
Draft(gen, cmd) ==
  [status |-> "draft", gen |-> gen, cmd |-> cmd, at |-> OwnTime,
   session |-> SessionOf[cmd], promptAvailable |-> TRUE,
   retries |-> NoRetries, due |-> "early", age |-> "new"]

-----------------------------------------------------------------------------
(* The job belongs in the queue view; the others are pruned once they are old. *)
InQueue(job) ==
  \/ job.status \in {"draft", "armed", "running", "paused", "needs_confirm"}
  \/ job.status \in {"missed", "busy", "interrupted"} /\ job.promptAvailable

(* Retention: a job out of the queue goes after 30 days, the prompt of a closed job at
   once, and that of a job left waiting for the user after a day. *)
Pruned(job) ==
  IF job.status \notin Absent /\ ~InQueue(job) /\ job.age = "month"
  THEN [job EXCEPT !.status = "deleted", !.promptAvailable = FALSE]
  ELSE IF job.status \in Closed
          \/ (job.status \in Attention \cup {"disarmed"} /\ job.age # "new")
       THEN [job EXCEPT !.promptAvailable = FALSE]
       ELSE job

(* Mutant: prompt files are left to the next change of their job. *)
PrunesJobsOnly(j, job) ==
  /\ jobs' = [jobs EXCEPT ![j] = Pruned(job)]
  /\ UNCHANGED <<prompts, records>>

(* prune over the whole store once job j has become job: prompt files no job claims and
   records of absent jobs go too. *)
PruneInto(j, job) ==
  LET kept == Pruned(job) IN
  /\ jobs' = [jobs EXCEPT ![j] = kept]
  /\ prompts' = [prompts EXCEPT ![j] =
                   IF kept.status \notin Absent /\ kept.promptAvailable THEN @ ELSE NoPrompt]
  /\ records' = IF kept.status \in Absent THEN {r \in records : r.job # j} ELSE records

-----------------------------------------------------------------------------
StoreInit ==
  /\ \E c \in Cmds : /\ jobs = [j \in JobIds |->
                                 [Draft(0, c) EXCEPT !.status = "free",
                                                     !.promptAvailable = FALSE]]
                     /\ confirmed = [j \in JobIds |-> c]
  /\ prompts = [j \in JobIds |-> NoPrompt]
  /\ records = {}
  /\ blocked = FALSE
  /\ budget \in Budgets
  /\ launches = [j \in JobIds |-> 0]

StoreTypeOK ==
  /\ jobs \in [JobIds -> Job]
  /\ prompts \in [JobIds -> Cmds \cup {NoPrompt}]
  /\ records \subseteq Record
  /\ blocked \in BOOLEAN
  /\ budget \in [Bounds -> Nat]
  /\ launches \in [JobIds -> Nat]
  /\ confirmed \in [JobIds -> Cmds]

(* Time passes. A fire time matters while the job waits for it or runs, an age
   while the job may be pruned. *)
FireTimeNears(j) ==
  /\ jobs[j].status \in {"armed", "running", "paused"}
  /\ jobs[j].due = "early"
  /\ jobs' = [jobs EXCEPT ![j].due = "due"]
  /\ UNCHANGED <<prompts, records, blocked, budget, historyVars>>

GracePasses(j) ==
  /\ jobs[j].status \in {"armed", "running", "paused"}
  /\ jobs[j].due = "due"
  /\ jobs' = [jobs EXCEPT ![j].due = "late"]
  /\ UNCHANGED <<prompts, records, blocked, budget, historyVars>>

GrowsOld(j) ==
  /\ jobs[j].status \in Closed \cup Attention \cup {"disarmed"}
  /\ jobs[j].age # "month"
  /\ jobs' = [jobs EXCEPT ![j].age = IF @ = "new" THEN "day" ELSE "month"]
  /\ UNCHANGED <<prompts, records, blocked, budget, historyVars>>

KillSwitchFlips ==
  /\ Spend("toggles")
  /\ blocked' = ~blocked
  /\ UNCHANGED <<storeVars, historyVars>>
=======================================================================
