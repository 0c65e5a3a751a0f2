------------------------ MODULE AutoPilotSafety ------------------------
(***************************************************************************)
(* The types and the safety of AutoPilot, for every value of the constants. *)
(* Type correctness: what the decisions of Policy and the job transitions   *)
(* of JobStore return, then one step per action.  Safety: what a step of    *)
(* any actor does to generations, units and runners is gathered once, in    *)
(* Effects; each invariant then follows from Effects alone.                 *)
(***************************************************************************)
EXTENDS AutoPilot, TLAPS

(* Decisions. *)
LEMMA RetryOrIsAction ==
  ASSUME NEW retries, NEW counter \in Counters, NEW st \in Statuses
  PROVE  RetryOr(retries, counter, st) \in Actions
BY DEF RetryOr, Actions, Final, Rearm

LEMMA PrefireIsAction ==
  ASSUME NEW retries, NEW due
  PROVE  PrefireActions(retries, due) \subseteq Actions \cup {Fire}
<1>1. "gave_up" \in Statuses /\ "missed" \in Statuses /\ "skipped" \in Statuses
      /\ "defers" \in Counters
  BY DEF Statuses, Counters
<1>2. DeferActions(retries) \subseteq Actions
  BY <1>1, RetryOrIsAction DEF DeferActions, Actions
<1> QED BY <1>1, <1>2 DEF PrefireActions, Actions

LEMMA PostrunIsAction ==
  ASSUME NEW retries, NEW outcome
  PROVE  PostrunActions(retries, outcome) \subseteq Actions
<1>1. {"gave_up", "limit", "skipped", "busy", "failed", "done", "interrupted"} \subseteq Statuses
  BY DEF Statuses
<1>2. {"limitRetries", "transientRetries", "busyDefers", "unknownRetries"} \subseteq Counters
  BY DEF Counters
<1>3. /\ RetryOr(retries, "transientRetries", "gave_up") \in Actions
      /\ BusyAction(retries) \in Actions
      /\ RetryOr(retries, "unknownRetries", "failed") \in Actions
  BY <1>1, <1>2, RetryOrIsAction DEF BusyAction
<1>4. \A st \in Statuses : Final(st) \in Actions
  BY DEF Actions
<1>5. Rearm("limitRetries") \in Actions
  BY <1>2 DEF Actions
<1> QED BY <1>1, <1>3, <1>4, <1>5 DEF PostrunActions

LEMMA ActionFields ==
  ASSUME NEW act \in Actions
  PROVE  /\ act.status \in Statuses
         /\ act.counter \in Counters \cup {NoCounter}
BY DEF Actions, Final, Rearm, Statuses

-----------------------------------------------------------------------------
(* Job transitions. *)
LEMMA JobFields ==
  ASSUME NEW job \in Job
  PROVE  /\ job.status \in Statuses \cup Absent /\ job.gen \in Nat /\ job.cmd \in Cmds
         /\ job.at \in Times /\ job.session \in Sessions \cup {NoSession}
         /\ job.promptAvailable \in BOOLEAN /\ job.retries \in [Counters -> Nat]
         /\ job.due \in Dues /\ job.age \in Ages
BY DEF Job

LEMMA SetStatusTyped ==
  ASSUME NEW job \in Job, NEW st \in Statuses
  PROVE  SetStatus(job, st) \in Job
BY DEF SetStatus, Job, Ages

LEMMA FinishTyped ==
  ASSUME NEW job \in Job, NEW st \in Statuses
  PROVE  Finish(job, st) \in Job
<1>1. SetStatus(job, st) \in Job
  BY SetStatusTyped
<1> QED BY <1>1 DEF Finish, Job

LEMMA NextGenerationTyped ==
  ASSUME NEW job \in Job
  PROVE  /\ NextGeneration(job) \in Job
         /\ NextGeneration(job).gen = job.gen + 1
         /\ NextGeneration(job).status = "armed"
<1> DEFINE base == SetStatus(job, "armed")
<1>1. base \in Job
  BY SetStatusTyped DEF Statuses
<1>2. base.status = "armed" /\ base.gen = job.gen
  BY DEF SetStatus, Job
<1> HIDE DEF base
<1>3. [base EXCEPT !.gen = @ + 1] \in Job
  BY <1>1 DEF Job
<1>4. [base EXCEPT !.gen = @ + 1].gen = job.gen + 1 /\ [base EXCEPT !.gen = @ + 1].status = "armed"
  BY <1>1, <1>2 DEF Job
<1> QED BY <1>3, <1>4 DEF NextGeneration, base

LEMMA DisarmedTyped ==
  ASSUME NEW job \in Job
  PROVE  /\ Disarmed(job) \in Job
         /\ Disarmed(job).gen = job.gen + 1
         /\ Disarmed(job).status = "disarmed"
<1> DEFINE base == SetStatus(job, "disarmed")
<1>1. base \in Job
  BY SetStatusTyped DEF Statuses
<1>2. base.status = "disarmed" /\ base.gen = job.gen
  BY DEF SetStatus, Job
<1> HIDE DEF base
<1>3. [base EXCEPT !.gen = @ + 1] \in Job
  BY <1>1 DEF Job
<1>4. [base EXCEPT !.gen = @ + 1].gen = job.gen + 1
      /\ [base EXCEPT !.gen = @ + 1].status = "disarmed"
  BY <1>1, <1>2 DEF Job
<1> QED BY <1>3, <1>4 DEF Disarmed, base

LEMMA CountRetryTyped ==
  ASSUME NEW retries \in [Counters -> Nat], NEW counter \in Counters \cup {NoCounter}
  PROVE  CountRetry(retries, counter) \in [Counters -> Nat]
BY DEF CountRetry

LEMMA DecidedTyped ==
  ASSUME NEW job \in Job, NEW act \in Actions
  PROVE  Decided(job, act) \in Job
<1>1. act.status \in Statuses /\ act.counter \in Counters \cup {NoCounter}
  BY ActionFields
<1>2. CASE act.status = "armed"
  <2> DEFINE next == NextGeneration(job)
  <2>1. next \in Job
    BY NextGenerationTyped
  <2>2. CountRetry(next.retries, act.counter) \in [Counters -> Nat]
    BY <1>1, <2>1, CountRetryTyped DEF Job
  <2>3. [next EXCEPT !.retries = CountRetry(@, act.counter), !.due = "early"] \in Job
    BY <2>1, <2>2 DEF Job, Dues
  <2> QED BY <1>2, <2>3 DEF Decided
<1>3. CASE act.status # "armed"
  BY <1>1, <1>3, FinishTyped DEF Decided
<1> QED BY <1>2, <1>3

LEMMA NoRetriesTyped == NoRetries \in [Counters -> Nat]
BY DEF NoRetries

LEMMA DraftTyped ==
  ASSUME NEW gen \in Nat, NEW cmd \in Cmds
  PROVE  Draft(gen, cmd) \in Job
BY StoreAssumption, NoRetriesTyped DEF Draft, Job, Statuses, Dues, Ages

LEMMA PrunedTyped ==
  ASSUME NEW job \in Job
  PROVE  Pruned(job) \in Job /\ Pruned(job).gen = job.gen
BY DEF Pruned, Job, Absent

LEMMA ArmedByUserTyped ==
  ASSUME NEW job \in Job, NEW how
  PROVE  ArmedByUser(job, how) \in Job
<1>1. NextGeneration(job) \in Job
  BY NextGenerationTyped
<1> QED BY <1>1, NoRetriesTyped DEF ArmedByUser, Job, Dues

-----------------------------------------------------------------------------
(* Updates of the variables. *)
LEMMA SpendTyped ==
  ASSUME budget \in [Bounds -> Nat], NEW b \in Bounds, Spend(b)
  PROVE  budget' \in [Bounds -> Nat]
BY DEF Spend

LEMMA SpendBothTyped ==
  ASSUME budget \in [Bounds -> Nat], NEW a \in Bounds, NEW b \in Bounds, a # b, SpendBoth(a, b)
  PROVE  budget' \in [Bounds -> Nat]
BY DEF SpendBoth

LEMMA BoundNames == "ops" \in Bounds /\ "faults" \in Bounds /\ "toggles" \in Bounds
BY DEF Bounds

LEMMA NewRunnerTyped ==
  ASSUME NEW u \in Unit
  PROVE  NewRunner(u) \in Runner /\ UnitOf(NewRunner(u)) = u
<1>1. u[1] \in JobIds /\ u[2] \in Nat /\ u = <<u[1], u[2]>>
  BY DEF Unit
<1> QED BY <1>1 DEF NewRunner, Runner, UnitOf, Phases

LEMMA RunnerFields ==
  ASSUME NEW r \in Runner
  PROVE  /\ r.job \in JobIds /\ r.gen \in Nat /\ r.phase \in Phases
         /\ r.session \in Sessions \cup {NoSession} /\ r.term \in BOOLEAN
         /\ UnitOf(r) \in Unit
         /\ UnitOf(r)[1] = r.job /\ UnitOf(r)[2] = r.gen
BY DEF Runner, UnitOf, Unit

LEMMA RunnerUpdates ==
  ASSUME NEW r \in Runner
  PROVE  /\ \A phase \in Phases : [r EXCEPT !.phase = phase] \in Runner
         /\ [r EXCEPT !.phase = "leave", !.term = FALSE] \in Runner
         /\ [r EXCEPT !.term = TRUE] \in Runner
         /\ \A session \in Sessions \cup {NoSession} :
               [r EXCEPT !.phase = "agent", !.session = session] \in Runner
BY DEF Runner, Phases

LEMMA StopsUnitTyped ==
  ASSUME UnitsTypeOK, NEW u, StopsUnit(u)
  PROVE  timers' \subseteq Unit /\ runners' \subseteq Runner
<1>1. ASSUME NEW r \in runners
      PROVE  (IF UnitOf(r) = u /\ r.phase # "leave" THEN [r EXCEPT !.term = TRUE] ELSE r)
               \in Runner
  BY RunnerUpdates DEF UnitsTypeOK
<1> QED BY <1>1 DEF UnitsTypeOK, StopsUnit

LEMMA CreatedTyped ==
  ASSUME UnitsTypeOK, NEW u \in Unit, NEW how, Created(u, how)
  PROVE  timers' \subseteq Unit /\ runners' \subseteq Runner
BY NewRunnerTyped DEF UnitsTypeOK, Created

-----------------------------------------------------------------------------
(* Time, the kill switch and the user manager. *)
LEMMA TimeTyped ==
  ASSUME TypeOK, Time, UNCHANGED <<unitVars, clients>>
  PROVE  TypeOK'
<1>1. PICK j \in JobIds : FireTimeNears(j) \/ GracePasses(j) \/ GrowsOld(j)
  BY DEF Time
<1>2. jobs[j] \in Job
  BY DEF TypeOK, StoreTypeOK
<1>3. /\ \A due \in Dues : [jobs[j] EXCEPT !.due = due] \in Job
      /\ \A age \in Ages : [jobs[j] EXCEPT !.age = age] \in Job
  BY <1>2 DEF Job
<1>4. jobs' \in [JobIds -> Job]
  BY <1>1, <1>3 DEF FireTimeNears, GracePasses, GrowsOld, TypeOK, StoreTypeOK, Dues, Ages
<1>5. UNCHANGED <<prompts, records, blocked, budget, historyVars>>
  BY <1>1 DEF FireTimeNears, GracePasses, GrowsOld
<1> QED BY <1>4, <1>5 DEF TypeOK, StoreTypeOK, UnitsTypeOK, VerbsTypeOK, historyVars, unitVars

LEMMA KillSwitchTyped ==
  ASSUME TypeOK, KillSwitchFlips, UNCHANGED <<unitVars, clients>>
  PROVE  TypeOK'
<1>1. budget' \in [Bounds -> Nat]
  BY SpendTyped, BoundNames DEF KillSwitchFlips, TypeOK, StoreTypeOK
<1> QED BY <1>1 DEF KillSwitchFlips, TypeOK, StoreTypeOK, UnitsTypeOK, VerbsTypeOK, storeVars,
                    historyVars, unitVars

LEMMA ElapseTyped ==
  ASSUME TypeOK, Elapse, UNCHANGED clients
  PROVE  TypeOK'
<1>1. PICK u \in timers : TimerElapses(u)
  BY DEF Elapse
<1>2. u \in Unit
  BY DEF TypeOK, UnitsTypeOK
<1>3. timers' \subseteq Unit /\ runners' \subseteq Runner
  BY <1>1, <1>2, NewRunnerTyped DEF TimerElapses, TypeOK, UnitsTypeOK
<1> QED BY <1>1, <1>3 DEF TimerElapses, TypeOK, StoreTypeOK, UnitsTypeOK, VerbsTypeOK, storeVars,
                          historyVars

LEMMA StopTyped ==
  ASSUME TypeOK, Stop, UNCHANGED clients
  PROVE  TypeOK'
<1>1. PICK u \in stopping : StopSent(u) \/ StopLost(u)
  BY DEF Stop
<1>2. CASE StopSent(u)
  <2>1. timers' \subseteq Unit /\ runners' \subseteq Runner
    BY <1>2, StopsUnitTyped DEF StopSent, TypeOK
  <2> QED BY <1>2, <2>1 DEF StopSent, TypeOK, StoreTypeOK, UnitsTypeOK, VerbsTypeOK, storeVars,
                            historyVars
<1>3. CASE StopLost(u)
  <2>1. budget' \in [Bounds -> Nat]
    BY <1>3, SpendTyped, BoundNames DEF StopLost, TypeOK, StoreTypeOK
  <2> QED BY <1>3, <2>1 DEF StopLost, TypeOK, StoreTypeOK, UnitsTypeOK, VerbsTypeOK, storeVars,
                            historyVars
<1> QED BY <1>1, <1>2, <1>3

-----------------------------------------------------------------------------
(* The runner. *)
LEMMA SettleTyped ==
  ASSUME TypeOK, NEW j \in JobIds, NEW job \in Job, NEW act \in Actions, Settle(j, job, act)
  PROVE  /\ jobs' \in [JobIds -> Job]
         /\ prompts' \in [JobIds -> Cmds \cup {NoPrompt}]
         /\ timers' \subseteq Unit
         /\ budget' \in [Bounds -> Nat]
<1>1. jobs' \in [JobIds -> Job]
  BY DecidedTyped DEF Settle, TypeOK, StoreTypeOK
<1>2. prompts' \in [JobIds -> Cmds \cup {NoPrompt}]
  BY DEF Settle, TypeOK, StoreTypeOK
<1>3. <<j, jobs[j].gen + 1>> \in Unit
  BY DEF TypeOK, StoreTypeOK, Job, Unit
<1>4. timers' \subseteq Unit
  BY <1>3 DEF Settle, TypeOK, UnitsTypeOK
<1>5. budget' \in [Bounds -> Nat]
  BY SpendTyped, BoundNames DEF Settle, TypeOK, StoreTypeOK
<1> QED BY <1>1, <1>2, <1>4, <1>5

LEMMA ClosesPromptOnlyTyped ==
  ASSUME TypeOK, NEW j \in JobIds, NEW act, ClosesPromptOnly(j, act)
  PROVE  /\ jobs' \in [JobIds -> Job]
         /\ prompts' \in [JobIds -> Cmds \cup {NoPrompt}]
         /\ timers' \subseteq Unit
         /\ budget' \in [Bounds -> Nat]
<1>1. budget' \in [Bounds -> Nat]
  BY SpendTyped, BoundNames DEF ClosesPromptOnly, TypeOK, StoreTypeOK
<1> QED BY <1>1 DEF ClosesPromptOnly, TypeOK, StoreTypeOK, UnitsTypeOK

LEMMA BecameTyped ==
  ASSUME UnitsTypeOK, NEW r \in runners, NEW s \in Runner, Became(r, s)
  PROVE  runners' \subseteq Runner
BY DEF Became, UnitsTypeOK

LEMMA LeavesTyped ==
  ASSUME UnitsTypeOK, NEW r \in runners, Leaves(r)
  PROVE  runners' \subseteq Runner
<1>1. [r EXCEPT !.phase = "leave", !.term = FALSE] \in Runner
  BY RunnerUpdates DEF UnitsTypeOK
<1> QED BY <1>1, BecameTyped DEF Leaves

LEMMA EndsTyped ==
  ASSUME TypeOK, NEW r \in runners, NEW act \in Actions, Ends(r, act), UNCHANGED clients
  PROVE  TypeOK'
<1>1. r \in Runner /\ r.job \in JobIds /\ jobs[r.job] \in Job
  BY RunnerFields DEF TypeOK, UnitsTypeOK, StoreTypeOK
<1>2. /\ jobs' \in [JobIds -> Job]
      /\ prompts' \in [JobIds -> Cmds \cup {NoPrompt}]
      /\ timers' \subseteq Unit
      /\ budget' \in [Bounds -> Nat]
  BY <1>1, SettleTyped, ClosesPromptOnlyTyped DEF Ends
<1>3. runners' \subseteq Runner
  BY LeavesTyped DEF Ends, Exits, TypeOK, UnitsTypeOK
<1> QED BY <1>2, <1>3 DEF Ends, TypeOK, StoreTypeOK, UnitsTypeOK, VerbsTypeOK, historyVars

LEMMA ExitsTyped ==
  ASSUME TypeOK, NEW r, Exits(r), budget' \in [Bounds -> Nat],
         UNCHANGED <<timers, stopping, storeVars, blocked, historyVars, clients>>
  PROVE  TypeOK'
BY DEF Exits, TypeOK, StoreTypeOK, UnitsTypeOK, VerbsTypeOK, storeVars, historyVars

LEMMA EntersTyped ==
  ASSUME TypeOK, NEW r \in runners, NEW phase \in Phases, Enters(r, phase),
         UNCHANGED <<timers, stopping, storeVars, blocked, budget, historyVars, clients>>
  PROVE  TypeOK'
<1>1. [r EXCEPT !.phase = phase] \in Runner
  BY RunnerUpdates DEF TypeOK, UnitsTypeOK
<1>2. runners' \subseteq Runner
  BY <1>1, BecameTyped DEF Enters, TypeOK
<1> QED BY <1>2 DEF TypeOK, StoreTypeOK, UnitsTypeOK, VerbsTypeOK, storeVars, historyVars

LEMMA WriteRecordTyped ==
  ASSUME TypeOK, NEW r \in Runner, NEW st \in Statuses \cup {"none"},
         NEW counter \in Counters \cup {NoCounter}, WriteRecord(r, st, counter)
  PROVE  records' \subseteq Record
<1>1. [job |-> r.job, gen |-> r.gen, status |-> st, counter |-> counter] \in Record
  BY RunnerFields DEF Record
<1> QED BY <1>1 DEF WriteRecord, TypeOK, StoreTypeOK

LEMMA RunnerStepTyped ==
  ASSUME TypeOK, NEW r \in runners, RunnerStep(r), UNCHANGED clients
  PROVE  TypeOK'
<1>1. r \in Runner /\ r.job \in JobIds /\ jobs[r.job] \in Job
  BY RunnerFields DEF TypeOK, UnitsTypeOK, StoreTypeOK
<1>2. \A st \in Statuses : Final(st) \in Actions
  BY DEF Actions
<1>3. {"failed", "skipped", "needs_confirm", "paused"} \subseteq Statuses
  BY DEF Statuses
<1>4. CASE ClaimStale(r)
  BY <1>4, ExitsTyped DEF ClaimStale, TypeOK, StoreTypeOK
<1>5. CASE StoreUnavailable(r)
  <2>1. budget' \in [Bounds -> Nat]
    BY <1>5, SpendTyped, BoundNames DEF StoreUnavailable, TypeOK, StoreTypeOK
  <2> QED BY <1>5, <2>1, ExitsTyped DEF StoreUnavailable
<1>6. CASE ClaimChecks(r)
  BY <1>6, EntersTyped DEF ClaimChecks, Phases
<1>7. CASE ClaimPaused(r)
  BY <1>7, <1>2, <1>3, EndsTyped DEF ClaimPaused
<1>8. CASE ClaimEdited(r)
  <2>1. jobs' \in [JobIds -> Job]
    BY <1>1, <1>2, <1>3, <1>8, DecidedTyped DEF ClaimEdited, TypeOK, StoreTypeOK
  <2>2. budget' \in [Bounds -> Nat]
    BY <1>8, SpendTyped, BoundNames DEF ClaimEdited, TypeOK, StoreTypeOK
  <2>3. runners' \subseteq Runner
    BY <1>8, LeavesTyped DEF ClaimEdited, TypeOK
  <2> QED BY <1>8, <2>1, <2>2, <2>3 DEF ClaimEdited, TypeOK, StoreTypeOK, UnitsTypeOK, VerbsTypeOK,
                                        historyVars
<1>9. CASE ClaimRefused(r)
  <2>1. PICK act \in PrefireActions(jobs[r.job].retries, jobs[r.job].due) \cup {Final("failed")} :
          act # Fire /\ Ends(r, act)
    BY <1>9 DEF ClaimRefused
  <2>2. act \in Actions
    BY <1>2, <1>3, <2>1, PrefireIsAction
  <2> QED BY <2>1, <2>2, EndsTyped
<1>10. CASE GateRefused(r)
  <2>1. PICK act \in {Final("failed"), Final("skipped")} \cup DeferActions(jobs[r.job].retries) :
          Ends(r, act)
    BY <1>10 DEF GateRefused
  <2>2. act \in Actions
    BY <1>2, <1>3, <2>1, RetryOrIsAction DEF DeferActions, Counters, Statuses
  <2> QED BY <2>1, <2>2, EndsTyped
<1>11. CASE SessionBusy(r)
  <2>1. BusyAction(jobs[r.job].retries) \in Actions
    BY RetryOrIsAction DEF BusyAction, Counters, Statuses
  <2> QED BY <1>11, <2>1, EndsTyped DEF SessionBusy
<1>12. CASE PromptUnusable(r)
  BY <1>12, <1>2, <1>3, EndsTyped DEF PromptUnusable
<1>13. CASE ClaimStarts(r)
  <2>1. SetStatus(jobs[r.job], "running") \in Job
    BY <1>1, SetStatusTyped DEF Statuses
  <2>2. jobs' \in [JobIds -> Job]
    BY <1>13, <2>1 DEF ClaimStarts, TypeOK, StoreTypeOK
  <2>3. [r EXCEPT !.phase = "agent", !.session = jobs[r.job].session] \in Runner
    BY <1>1, RunnerUpdates DEF Job
  <2>4. runners' \subseteq Runner
    BY <1>13, <2>3, BecameTyped DEF ClaimStarts, TypeOK
  <2>a. launches' = [launches EXCEPT ![r.job] = @ + 1] /\ launches \in [JobIds -> Nat]
    BY <1>13 DEF ClaimStarts, TypeOK, StoreTypeOK
  <2>5. launches' \in [JobIds -> Nat]
    BY <1>1, <2>a
  <2> QED BY <1>13, <2>2, <2>4, <2>5 DEF ClaimStarts, TypeOK, StoreTypeOK, UnitsTypeOK, VerbsTypeOK
<1>14. CASE AgentEnds(r)
  BY <1>14, EntersTyped DEF AgentEnds, Phases
<1>15. CASE ActLate(r)
  <2>1. records' \subseteq Record
    BY <1>1, <1>15, WriteRecordTyped DEF ActLate
  <2>2. Touched(r.job) \in Job
    BY <1>1 DEF Touched, Job, Ages
  <2>3. jobs' \in [JobIds -> Job]
    BY <1>15, <2>2 DEF ActLate, TypeOK, StoreTypeOK
  <2>4. runners' \subseteq Runner
    BY <1>15, LeavesTyped DEF ActLate, TypeOK
  <2> QED BY <1>15, <2>1, <2>3, <2>4 DEF ActLate, TypeOK, StoreTypeOK, UnitsTypeOK, VerbsTypeOK,
                                         historyVars
<1>16. CASE Act(r)
  <2>0. PICK outcome \in Outcomes :
          \E act \in PostrunActions(jobs[r.job].retries, outcome) :
            /\ WriteRecord(r, act.status, act.counter)
            /\ \E session \in SessionsAfter(r.job) :
                 Settle(r.job, [jobs[r.job] EXCEPT !.session = session], act)
            /\ Leaves(r)
    BY <1>16 DEF Act
  <2>a. PICK act \in PostrunActions(jobs[r.job].retries, outcome) :
          /\ WriteRecord(r, act.status, act.counter)
          /\ \E session \in SessionsAfter(r.job) :
               Settle(r.job, [jobs[r.job] EXCEPT !.session = session], act)
          /\ Leaves(r)
    BY <2>0
  <2>1. PICK session \in SessionsAfter(r.job) :
          /\ WriteRecord(r, act.status, act.counter)
          /\ Settle(r.job, [jobs[r.job] EXCEPT !.session = session], act)
          /\ Leaves(r)
    BY <2>a
  <2>2. act \in Actions
    BY <2>1, PostrunIsAction
  <2>3. session \in Sessions \cup {NoSession}
    BY <1>1, <2>1, StoreAssumption DEF SessionsAfter, Job
  <2>4. [jobs[r.job] EXCEPT !.session = session] \in Job
    BY <1>1, <2>3 DEF Job
  <2>5. /\ jobs' \in [JobIds -> Job]
        /\ prompts' \in [JobIds -> Cmds \cup {NoPrompt}]
        /\ timers' \subseteq Unit
        /\ budget' \in [Bounds -> Nat]
    BY <1>1, <2>1, <2>2, <2>4, SettleTyped
  <2>6. records' \subseteq Record
    BY <1>1, <2>1, <2>2, ActionFields, WriteRecordTyped
  <2>7. runners' \subseteq Runner
    BY <2>1, LeavesTyped DEF TypeOK
  <2> QED BY <1>16, <2>5, <2>6, <2>7 DEF Act, TypeOK, StoreTypeOK, UnitsTypeOK, VerbsTypeOK,
                                         historyVars
<1>17. CASE ActCut(r)
  <2>0. PICK outcome \in Outcomes :
          \E act \in PostrunActions(jobs[r.job].retries, outcome) :
            /\ WriteRecord(r, act.status, act.counter)
            /\ prompts' = prompts \/ prompts' = [prompts EXCEPT ![r.job] = NoPrompt]
    BY <1>17 DEF ActCut
  <2>1. PICK act \in PostrunActions(jobs[r.job].retries, outcome) :
          /\ WriteRecord(r, act.status, act.counter)
          /\ prompts' = prompts \/ prompts' = [prompts EXCEPT ![r.job] = NoPrompt]
    BY <2>0
  <2>2. act \in Actions
    BY <2>1, PostrunIsAction
  <2>3. records' \subseteq Record
    BY <1>1, <2>1, <2>2, ActionFields, WriteRecordTyped
  <2>4. prompts' \in [JobIds -> Cmds \cup {NoPrompt}]
    BY <2>1 DEF TypeOK, StoreTypeOK
  <2>5. budget' \in [Bounds -> Nat]
    BY <1>17, SpendTyped, BoundNames DEF ActCut, TypeOK, StoreTypeOK
  <2> QED BY <1>17, <2>3, <2>4, <2>5 DEF ActCut, Exits, TypeOK, StoreTypeOK, UnitsTypeOK,
                                         VerbsTypeOK, historyVars
<1>18. CASE MarkFailed(r)
  BY <1>18, <1>2, <1>3, EndsTyped DEF MarkFailed
<1> QED BY <1>4, <1>5, <1>6, <1>7, <1>8, <1>9, <1>10, <1>11, <1>12, <1>13, <1>14, <1>15, <1>16,
           <1>17, <1>18 DEF RunnerStep

LEMMA ProcessTyped ==
  ASSUME TypeOK, Process, UNCHANGED clients
  PROVE  TypeOK'
<1>1. PICK r \in runners : \/ RunnerStep(r) \/ RunnerExits(r) \/ RunnerDies(r)
                          \/ RunnerKilled(r) \/ RuntimeExceeded(r)
  BY DEF Process
<1>2. CASE RunnerExits(r) \/ RunnerKilled(r)
  BY <1>2, ExitsTyped DEF RunnerExits, RunnerKilled, TypeOK, StoreTypeOK
<1>3. CASE RunnerDies(r)
  <2>1. budget' \in [Bounds -> Nat]
    BY <1>3, SpendTyped, BoundNames DEF RunnerDies, TypeOK, StoreTypeOK
  <2> QED BY <1>3, <2>1, ExitsTyped DEF RunnerDies
<1>4. CASE RuntimeExceeded(r)
  <2>1. [r EXCEPT !.term = TRUE] \in Runner
    BY RunnerUpdates DEF TypeOK, UnitsTypeOK
  <2>2. runners' \subseteq Runner
    BY <1>4, <2>1, BecameTyped DEF RuntimeExceeded, TypeOK
  <2> QED BY <1>4, <2>2 DEF RuntimeExceeded, TypeOK, StoreTypeOK, UnitsTypeOK, VerbsTypeOK,
                            storeVars, historyVars
<1> QED BY <1>1, <1>2, <1>3, <1>4, RunnerStepTyped

-----------------------------------------------------------------------------
(* The verbs. *)
LEMMA BecomesTyped ==
  ASSUME VerbsTypeOK, NEW p \in Clients, NEW pending \in Pending, Becomes(p, pending)
  PROVE  VerbsTypeOK'
BY DEF Becomes, VerbsTypeOK

LEMMA IdleTyped == Idle \in Pending
BY DEF Pending

LEMMA StopsLaterTyped ==
  ASSUME UnitsTypeOK, NEW units, units \subseteq Unit, StopsLater(units)
  PROVE  stopping' \subseteq Unit
BY DEF StopsLater, UnitsTypeOK

LEMMA UnitOfJob ==
  ASSUME TypeOK, NEW j \in JobIds
  PROVE  <<j, jobs[j].gen>> \in Unit /\ <<j, jobs[j].gen + 1>> \in Unit
BY DEF TypeOK, StoreTypeOK, Job, Unit

LEMMA StopsOldTyped ==
  ASSUME TypeOK, NEW j \in JobIds, StopsOld(j)
  PROVE  stopping' \subseteq Unit
BY UnitOfJob, StopsLaterTyped DEF StopsOld, TypeOK

LEMMA CommitUpdateTyped ==
  ASSUME TypeOK, NEW j \in JobIds, NEW c \in Cmds, NEW keep \in BOOLEAN, CommitUpdate(j, c, keep)
  PROVE  jobs' \in [JobIds -> Job] /\ prompts' \in [JobIds -> Cmds \cup {NoPrompt}]
<1>1. UpdatedCmd(j, c, keep) \in Cmds
  BY DEF CommitUpdate, CanUpdate, UpdatedCmd, TypeOK, StoreTypeOK
<1>2. jobs[j].gen \in Nat
  BY DEF TypeOK, StoreTypeOK, Job
<1>3. Draft(jobs[j].gen, UpdatedCmd(j, c, keep)) \in Job
  BY <1>1, <1>2, DraftTyped
<1> QED BY <1>1, <1>3 DEF CommitUpdate, TypeOK, StoreTypeOK

LEMMA StoresPromptOnlyTyped ==
  ASSUME TypeOK, NEW j \in JobIds, NEW c \in Cmds, NEW keep \in BOOLEAN,
         StoresPromptOnly(j, c, keep)
  PROVE  jobs' \in [JobIds -> Job] /\ prompts' \in [JobIds -> Cmds \cup {NoPrompt}]
BY DEF StoresPromptOnly, TypeOK, StoreTypeOK

LEMMA CreateTyped ==
  ASSUME TypeOK, NEW j \in JobIds, NEW c \in Cmds, Create(j, c)
  PROVE  TypeOK'
<1>1. Draft(jobs[j].gen, c) \in Job
  BY DraftTyped DEF TypeOK, StoreTypeOK, Job
<1>2. jobs[j] \in Job /\ [jobs[j] EXCEPT !.status = "deleted"] \in Job
  BY DEF TypeOK, StoreTypeOK, Job, Absent
<1>3. jobs' \in [JobIds -> Job]
  BY <1>1, <1>2 DEF Create, TypeOK, StoreTypeOK
<1>4. budget' \in [Bounds -> Nat]
  BY SpendTyped, BoundNames DEF Create, TypeOK, StoreTypeOK
<1> QED BY <1>3, <1>4 DEF Create, TypeOK, StoreTypeOK, UnitsTypeOK, VerbsTypeOK, unitVars, historyVars

LEMMA UpdateTyped ==
  ASSUME TypeOK, NEW j \in JobIds, NEW c \in Cmds, NEW keep \in BOOLEAN, Update(j, c, keep)
  PROVE  TypeOK'
<1>1. jobs' \in [JobIds -> Job] /\ prompts' \in [JobIds -> Cmds \cup {NoPrompt}]
  BY CommitUpdateTyped, StoresPromptOnlyTyped DEF Update
<1>2. budget' \in [Bounds -> Nat]
  BY SpendTyped, SpendBothTyped, BoundNames DEF Update, TypeOK, StoreTypeOK
<1> QED BY <1>1, <1>2 DEF Update, TypeOK, StoreTypeOK, UnitsTypeOK, VerbsTypeOK, unitVars, historyVars

LEMMA DisarmsTyped ==
  ASSUME TypeOK, NEW j \in JobIds, jobs' = [jobs EXCEPT ![j] = Disarmed(@)]
  PROVE  jobs' \in [JobIds -> Job]
<1>1. Disarmed(jobs[j]) \in Job
  BY DisarmedTyped DEF TypeOK, StoreTypeOK
<1> QED BY <1>1 DEF TypeOK, StoreTypeOK

LEMMA UpdateArmedTyped ==
  ASSUME TypeOK, NEW p \in Clients, NEW j \in JobIds, NEW c \in Cmds, NEW keep \in BOOLEAN,
         UpdateArmed(p, j, c, keep)
  PROVE  TypeOK'
<1>1. jobs' \in [JobIds -> Job]
  BY DisarmsTyped DEF UpdateArmed
<1>2. budget' \in [Bounds -> Nat]
  BY SpendTyped, BoundNames DEF UpdateArmed, TypeOK, StoreTypeOK
<1>3. [verb |-> "update", job |-> j, gen |-> jobs[j].gen, cmd |-> c, keep |-> keep, sent |-> FALSE]
        \in Pending
  BY DEF Pending, TypeOK, StoreTypeOK, Job
<1>4. VerbsTypeOK'
  BY <1>3, BecomesTyped DEF UpdateArmed, TypeOK
<1> QED BY <1>1, <1>2, <1>4 DEF UpdateArmed, TypeOK, StoreTypeOK, UnitsTypeOK, unitVars, historyVars

(* What a client carries, by its verb. *)
LEMMA PendingFields ==
  ASSUME NEW pending \in Pending
  PROVE  /\ pending.verb = "update" =>
              /\ pending.job \in JobIds /\ pending.gen \in Nat /\ pending.cmd \in Cmds
              /\ pending.keep \in BOOLEAN
              /\ [pending EXCEPT !.sent = TRUE] \in Pending
         /\ pending.verb \in {"arm", "run-now"} =>
              pending.job \in JobIds /\ pending.digest.cmd \in Cmds
         /\ pending.verb = "cancel-all" => pending.fallback \subseteq Unit
<1> DEFINE Arming == [verb : {"arm", "run-now"}, job : JobIds, digest : [cmd : Cmds, at : Times]]
           Updating == [verb : {"update"}, job : JobIds, gen : Nat, cmd : Cmds, keep : BOOLEAN,
                        sent : BOOLEAN]
           Cancelling == [verb : {"cancel-all"}, fallback : SUBSET Unit]
<1>1. CASE pending = Idle
  BY <1>1 DEF Idle
<1>2. CASE pending \in Arming
  BY <1>2
<1>3. CASE pending \in Updating
  <2>1. [pending EXCEPT !.sent = TRUE] \in Updating
    BY <1>3
  <2>2. [pending EXCEPT !.sent = TRUE] \in Pending
    BY <2>1 DEF Pending
  <2> QED BY <1>3, <2>2
<1>4. CASE pending \in Cancelling
  BY <1>4
<1> QED BY <1>1, <1>2, <1>3, <1>4 DEF Pending

LEMMA UpdateStopsTyped ==
  ASSUME TypeOK, NEW p \in Clients, UpdateStops(p)
  PROVE  TypeOK'
<1>1. clients[p] \in Pending
  BY DEF TypeOK, VerbsTypeOK
<1>2. [clients[p] EXCEPT !.sent = TRUE] \in Pending
  BY <1>1, PendingFields DEF UpdateStops
<1>3. VerbsTypeOK'
  BY <1>2, BecomesTyped DEF UpdateStops, TypeOK
<1>4. timers' \subseteq Unit /\ runners' \subseteq Runner
  BY StopsUnitTyped DEF UpdateStops, TypeOK
<1> QED BY <1>3, <1>4 DEF UpdateStops, TypeOK, StoreTypeOK, UnitsTypeOK, storeVars, historyVars

LEMMA UpdateCommitsTyped ==
  ASSUME TypeOK, NEW p \in Clients, UpdateCommits(p)
  PROVE  TypeOK'
<1> DEFINE pending == clients[p]
<1>1. pending \in Pending /\ pending.verb = "update"
  BY DEF TypeOK, VerbsTypeOK, UpdateCommits
<1>2. pending.job \in JobIds /\ pending.cmd \in Cmds /\ pending.keep \in BOOLEAN
  BY <1>1, PendingFields
<1>3. jobs' \in [JobIds -> Job] /\ prompts' \in [JobIds -> Cmds \cup {NoPrompt}]
  BY <1>2, CommitUpdateTyped, StoresPromptOnlyTyped DEF UpdateCommits
<1>4. budget' \in [Bounds -> Nat]
  BY SpendTyped, BoundNames DEF UpdateCommits, TypeOK, StoreTypeOK
<1>5. VerbsTypeOK'
  BY BecomesTyped, IdleTyped DEF UpdateCommits, TypeOK
<1> QED BY <1>3, <1>4, <1>5 DEF UpdateCommits, TypeOK, StoreTypeOK, UnitsTypeOK, unitVars, historyVars

LEMMA DeleteTyped ==
  ASSUME TypeOK, NEW j \in JobIds, Delete(j)
  PROVE  TypeOK'
<1>1. [jobs[j] EXCEPT !.status = "deleted"] \in Job
  <2>1. jobs[j] \in Job
    BY DEF TypeOK, StoreTypeOK
  <2> QED BY <2>1 DEF Job, Absent
<1>2. jobs' \in [JobIds -> Job]
  BY <1>1 DEF Delete, TypeOK, StoreTypeOK
<1>3. budget' \in [Bounds -> Nat]
  <2>1. Spend("ops") \/ SpendBoth("ops", "faults")
    BY DEF Delete
  <2>2. budget \in [Bounds -> Nat]
    BY DEF TypeOK, StoreTypeOK
  <2> QED BY <2>1, <2>2, SpendTyped, SpendBothTyped, BoundNames
<1>4. prompts' \in [JobIds -> Cmds \cup {NoPrompt}] /\ records' \subseteq Record
  BY DEF Delete, TypeOK, StoreTypeOK
<1> QED BY <1>2, <1>3, <1>4 DEF Delete, TypeOK, StoreTypeOK, UnitsTypeOK, VerbsTypeOK, unitVars,
                                historyVars

LEMMA ArmBeginsTyped ==
  ASSUME TypeOK, NEW p \in Clients, NEW j \in JobIds, NEW verb \in {"arm", "run-now"},
         ArmBegins(p, j, verb)
  PROVE  TypeOK'
<1>1. [verb |-> verb, job |-> j, digest |-> Digest(j)] \in Pending
  BY DEF Pending, Digest, TypeOK, StoreTypeOK, Job
<1>2. VerbsTypeOK'
  BY <1>1, BecomesTyped DEF ArmBegins, TypeOK
<1>3. budget' \in [Bounds -> Nat]
  BY SpendTyped, BoundNames DEF ArmBegins, TypeOK, StoreTypeOK
<1> QED BY <1>2, <1>3 DEF ArmBegins, TypeOK, StoreTypeOK, UnitsTypeOK, storeVars, unitVars, historyVars

LEMMA ArmCommitsTyped ==
  ASSUME TypeOK, NEW p \in Clients, ArmCommits(p)
  PROVE  TypeOK'
<1> DEFINE pending == clients[p]  j == pending.job  new == <<j, jobs[j].gen + 1>>
<1>1. pending \in Pending /\ pending.verb \in {"arm", "run-now"}
  BY DEF TypeOK, VerbsTypeOK, ArmCommits
<1>2. j \in JobIds /\ pending.digest.cmd \in Cmds
  BY <1>1, PendingFields
<1>3. PICK how \in Ways(pending.verb) :
        /\ jobs' = [jobs EXCEPT ![j] = ArmedByUser(@, how)]
        /\ \/ Created(new, how) /\ StopsOld(j) /\ UNCHANGED budget
           \/ UNCHANGED unitVars /\ Spend("faults")
  BY DEF ArmCommits
<1>4. jobs' \in [JobIds -> Job]
  BY <1>2, <1>3, ArmedByUserTyped DEF TypeOK, StoreTypeOK
<1>5. new \in Unit
  BY <1>2, UnitOfJob
<1>6. UnitsTypeOK'
  BY <1>2, <1>3, <1>5, CreatedTyped, StopsOldTyped DEF TypeOK, UnitsTypeOK, unitVars
<1>7. budget' \in [Bounds -> Nat]
  BY <1>3, SpendTyped, BoundNames DEF TypeOK, StoreTypeOK
<1>8. launches' \in [JobIds -> Nat] /\ confirmed' \in [JobIds -> Cmds]
  BY <1>2 DEF ArmCommits, TypeOK, StoreTypeOK
<1>9. VerbsTypeOK'
  BY BecomesTyped, IdleTyped DEF ArmCommits, TypeOK
<1> QED BY <1>4, <1>6, <1>7, <1>8, <1>9 DEF ArmCommits, TypeOK, StoreTypeOK

LEMMA ArmFailsTyped ==
  ASSUME TypeOK, NEW p \in Clients, ArmFails(p)
  PROVE  TypeOK'
<1> DEFINE pending == clients[p]  j == pending.job  new == <<j, jobs[j].gen + 1>>
<1>1. pending \in Pending /\ pending.verb \in {"arm", "run-now"}
  BY DEF TypeOK, VerbsTypeOK, ArmFails
<1>2. j \in JobIds
  BY <1>1, PendingFields
<1>3. [[jobs[j] EXCEPT !.gen = @ + 1] EXCEPT !.age = "new"] \in Job
  <2>0. jobs[j] \in Job
    BY <1>2 DEF TypeOK, StoreTypeOK
  <2>1. [jobs[j] EXCEPT !.gen = @ + 1] \in Job
    BY <2>0 DEF Job
  <2> QED BY <2>1 DEF Job, Ages
<1>4. jobs' = [jobs EXCEPT ![j] = [[jobs[j] EXCEPT !.gen = @ + 1] EXCEPT !.age = "new"]]
  BY <1>2 DEF ArmFails, TypeOK, StoreTypeOK
<1>5. jobs' \in [JobIds -> Job]
  BY <1>2, <1>3, <1>4 DEF TypeOK, StoreTypeOK
<1>6. new \in Unit
  BY <1>2, UnitOfJob
<1>7. timers' \subseteq Unit /\ runners' \subseteq Runner
  BY <1>6, CreatedTyped DEF ArmFails, TypeOK, UnitsTypeOK
<1>8. stopping' \subseteq Unit
  BY <1>2, StopsOldTyped DEF ArmFails
<1>9. budget' \in [Bounds -> Nat]
  BY SpendTyped, BoundNames DEF ArmFails, TypeOK, StoreTypeOK
<1>10. VerbsTypeOK'
  BY BecomesTyped, IdleTyped DEF ArmFails, TypeOK
<1> QED BY <1>5, <1>7, <1>8, <1>9, <1>10 DEF ArmFails, TypeOK, StoreTypeOK, UnitsTypeOK, historyVars

LEMMA DisarmTyped ==
  ASSUME TypeOK, NEW j \in JobIds, Disarm(j)
  PROVE  TypeOK'
<1>1. jobs' \in [JobIds -> Job]
  BY DisarmsTyped DEF Disarm
<1>2. stopping' \subseteq Unit
  BY UnitOfJob, StopsLaterTyped DEF Disarm, TypeOK
<1>3. budget' \in [Bounds -> Nat]
  BY SpendTyped, BoundNames DEF Disarm, TypeOK, StoreTypeOK
<1> QED BY <1>1, <1>2, <1>3 DEF Disarm, TypeOK, StoreTypeOK, UnitsTypeOK, VerbsTypeOK, historyVars

LEMMA CancelAllTyped ==
  ASSUME TypeOK, NEW p \in Clients, CancelAll(p)
  PROVE  TypeOK'
<1> DEFINE hit == {j \in JobIds : jobs[j].status \in Disarmable}
           known == {<<j, jobs[j].gen>> : j \in hit}
<1>1. \A j \in JobIds : Disarmed(jobs[j]) \in Job /\ jobs[j] \in Job
  BY DisarmedTyped DEF TypeOK, StoreTypeOK
<1>2. jobs' \in [JobIds -> Job]
  BY <1>1 DEF CancelAll, TypeOK, StoreTypeOK
<1>3. budget' \in [Bounds -> Nat]
  BY SpendTyped, SpendBothTyped, BoundNames DEF CancelAll, TypeOK, StoreTypeOK
<1>4. known \subseteq Unit
  BY UnitOfJob
<1>5. PICK fallback \in {{}, known} : Becomes(p, [verb |-> "cancel-all", fallback |-> fallback])
  BY DEF CancelAll
<1> HIDE DEF known
<1>6. fallback \in SUBSET Unit
  BY <1>4, <1>5
<1>7. [verb |-> "cancel-all", fallback |-> fallback] \in Pending
  BY <1>6 DEF Pending
<1>8. VerbsTypeOK'
  BY <1>5, <1>7, BecomesTyped DEF TypeOK
<1> QED BY <1>2, <1>3, <1>8 DEF CancelAll, TypeOK, StoreTypeOK, UnitsTypeOK, unitVars, historyVars

LEMMA CancelStopsTyped ==
  ASSUME TypeOK, NEW p \in Clients, CancelStops(p)
  PROVE  TypeOK'
<1>1. timers \cup {UnitOf(r) : r \in runners} \subseteq Unit
  BY RunnerFields DEF TypeOK, UnitsTypeOK
<1>2. clients[p] \in Pending /\ clients[p].verb = "cancel-all"
  BY DEF CancelStops, TypeOK, VerbsTypeOK
<1>3. clients[p].fallback \subseteq Unit
  BY <1>2, PendingFields
<1>4. stopping' \subseteq Unit
  BY <1>1, <1>3, StopsLaterTyped DEF CancelStops, TypeOK
<1>5. VerbsTypeOK'
  BY BecomesTyped, IdleTyped DEF CancelStops, TypeOK
<1>6. budget' \in [Bounds -> Nat]
  BY SpendTyped, BoundNames DEF CancelStops, TypeOK, StoreTypeOK
<1> QED BY <1>4, <1>5, <1>6 DEF CancelStops, TypeOK, StoreTypeOK, UnitsTypeOK, storeVars, historyVars

LEMMA AbandonsTyped ==
  ASSUME TypeOK, NEW p \in Clients, Abandons(p)
  PROVE  TypeOK'
<1>1. VerbsTypeOK'
  BY BecomesTyped, IdleTyped DEF Abandons, TypeOK
<1> QED BY <1>1 DEF Abandons, TypeOK, StoreTypeOK, UnitsTypeOK, storeVars, unitVars, historyVars

LEMMA RescheduleDraftTyped ==
  ASSUME TypeOK, NEW j \in JobIds, NEW t \in Times, RescheduleDraft(j, t)
  PROVE  TypeOK'
<1>1. jobs[j] \in Job
  BY DEF TypeOK, StoreTypeOK
<1>2. [jobs[j] EXCEPT !.at = t] \in Job
  BY <1>1 DEF Job
<1>3. jobs' \in [JobIds -> Job]
  BY <1>2 DEF RescheduleDraft, TypeOK, StoreTypeOK
<1>4. budget' \in [Bounds -> Nat]
  BY SpendTyped, BoundNames DEF RescheduleDraft, TypeOK, StoreTypeOK
<1> QED BY <1>3, <1>4 DEF RescheduleDraft, TypeOK, StoreTypeOK, UnitsTypeOK, VerbsTypeOK, unitVars,
                          historyVars

LEMMA RescheduleTyped ==
  ASSUME TypeOK, NEW j \in JobIds, NEW t \in Times, Reschedule(j, t)
  PROVE  TypeOK'
<1> DEFINE next == NextGeneration(jobs[j])
<1>1. next \in Job
  BY NextGenerationTyped DEF TypeOK, StoreTypeOK
<1>2. [next EXCEPT !.at = t, !.due = "early"] \in Job
  BY <1>1 DEF Job, Dues
<1>3. jobs' \in [JobIds -> Job]
  BY <1>2 DEF Reschedule, TypeOK, StoreTypeOK
<1>4. timers' \subseteq Unit /\ stopping' \subseteq Unit
  BY UnitOfJob, StopsLaterTyped DEF Reschedule, TypeOK, UnitsTypeOK
<1>5. budget' \in [Bounds -> Nat]
  BY SpendTyped, SpendBothTyped, BoundNames DEF Reschedule, TypeOK, StoreTypeOK
<1> QED BY <1>3, <1>4, <1>5 DEF Reschedule, TypeOK, StoreTypeOK, UnitsTypeOK, VerbsTypeOK, historyVars

LEMMA VerbStepTyped ==
  ASSUME TypeOK, VerbStep
  PROVE  TypeOK'
<1>1. CASE \E j \in JobIds, c \in Cmds : Create(j, c)
  BY <1>1, CreateTyped
<1>2. CASE \E j \in JobIds, c \in Cmds, keep \in BOOLEAN : Update(j, c, keep)
  BY <1>2, UpdateTyped
<1>3. CASE \E p \in Clients, j \in JobIds, c \in Cmds, keep \in BOOLEAN : UpdateArmed(p, j, c, keep)
  BY <1>3, UpdateArmedTyped
<1>4. CASE \E p \in Clients : UpdateStops(p) \/ UpdateCommits(p)
  BY <1>4, UpdateStopsTyped, UpdateCommitsTyped
<1>5. CASE \E p \in Clients, j \in JobIds, verb \in {"arm", "run-now"} : ArmBegins(p, j, verb)
  BY <1>5, ArmBeginsTyped
<1>6. CASE \E p \in Clients : ArmCommits(p) \/ ArmFails(p) \/ Abandons(p)
  BY <1>6, ArmCommitsTyped, ArmFailsTyped, AbandonsTyped
<1>7. CASE \E p \in Clients : CancelAll(p) \/ CancelStops(p)
  BY <1>7, CancelAllTyped, CancelStopsTyped
<1>8. CASE \E j \in JobIds : Delete(j) \/ Disarm(j)
  BY <1>8, DeleteTyped, DisarmTyped
<1>9. CASE \E j \in JobIds, t \in Times \ {OwnTime} : RescheduleDraft(j, t) \/ Reschedule(j, t)
  BY <1>9, RescheduleDraftTyped, RescheduleTyped
<1> QED BY <1>1, <1>2, <1>3, <1>4, <1>5, <1>6, <1>7, <1>8, <1>9 DEF VerbStep

-----------------------------------------------------------------------------
(* The reconciler. *)
Visit == [job : Job, unit : {"none", "timer", "now"}]

LEMMA VisitsTyped ==
  ASSUME NEW job \in Job
  PROVE  /\ Kept(job) \in Visit
         /\ \A st \in Statuses : Turned(job, st) \in Visit
         /\ \A how \in {"timer", "now"} : ArmedAgain(job, how) \in Visit
         /\ FireOrMiss(job) \in Visit
<1>1. Kept(job) \in Visit
  BY DEF Kept, Visit
<1>2. \A st \in Statuses : Turned(job, st) \in Visit
  BY FinishTyped DEF Turned, Kept, Visit
<1>3. ASSUME NEW how \in {"timer", "now"}
      PROVE  ArmedAgain(job, how) \in Visit
  <2> DEFINE next == NextGeneration(job)
  <2>1. next \in Job
    BY NextGenerationTyped
  <2>2. [next EXCEPT !.due = IF how = "timer" THEN "early" ELSE @] \in Job
    BY <2>1 DEF Job, Dues
  <2> QED BY <2>2 DEF ArmedAgain, Visit
<1>4. FireOrMiss(job) \in Visit
  BY <1>2, <1>3 DEF FireOrMiss, Statuses
<1> QED BY <1>1, <1>2, <1>3, <1>4

LEMMA FromRecordTyped ==
  ASSUME NEW job \in Job, NEW record \in Record
  PROVE  FromRecord(job, record) \subseteq Visit
<1>1. record.status \in Statuses \cup {"none"} /\ record.counter \in Counters \cup {NoCounter}
  BY DEF Record
<1>2. CASE record.status = "armed"
  <2> DEFINE counted == IF job.status = "running"
                        THEN [job EXCEPT !.retries = CountRetry(@, record.counter)]
                        ELSE job
  <2>1. CountRetry(job.retries, record.counter) \in [Counters -> Nat]
    BY <1>1, CountRetryTyped DEF Job
  <2>2. counted \in Job
    BY <2>1 DEF Job
  <2>3. \A d \in Dues : [counted EXCEPT !.due = d] \in Job
    BY <2>2 DEF Job
  <2>4. \A d \in Dues : FireOrMiss([counted EXCEPT !.due = d]) \in Visit
    BY <2>3, VisitsTyped
  <2>5. Turned(job, "paused") \in Visit
    BY VisitsTyped DEF Statuses
  <2> QED BY <1>2, <2>4, <2>5 DEF FromRecord
<1>3. CASE record.status # "armed"
  <2>1. Turned(job, IF record.status = "none" THEN "interrupted" ELSE record.status) \in Visit
    BY <1>1, VisitsTyped DEF Statuses
  <2> QED BY <1>3, <2>1 DEF FromRecord
<1> QED BY <1>2, <1>3

LEMMA VisitsOfTyped ==
  ASSUME TypeOK, NEW j \in JobIds
  PROVE  Visits(j) \subseteq Visit
<1> DEFINE job == jobs[j]
           written == RecordsOf(j, job.gen)
           recorded == UNION {FromRecord(job, r) : r \in written}
<1>1. job \in Job /\ written \subseteq Record
  BY DEF TypeOK, StoreTypeOK, RecordsOf
<1>2. recorded \subseteq Visit
  BY <1>1, FromRecordTyped
<1>3. /\ Kept(job) \in Visit /\ FireOrMiss(job) \in Visit /\ Turned(job, "interrupted") \in Visit
      /\ Turned(job, "missed") \in Visit /\ ArmedAgain(job, "timer") \in Visit
  BY <1>1, VisitsTyped DEF Statuses
<1> QED BY <1>2, <1>3 DEF Visits

LEMMA PruneIntoTyped ==
  ASSUME TypeOK, NEW j \in JobIds, NEW job \in Job, PruneInto(j, job)
  PROVE  /\ jobs' \in [JobIds -> Job]
         /\ prompts' \in [JobIds -> Cmds \cup {NoPrompt}]
         /\ records' \subseteq Record
<1>1. jobs' \in [JobIds -> Job]
  BY PrunedTyped DEF PruneInto, TypeOK, StoreTypeOK
<1> QED BY <1>1 DEF PruneInto, TypeOK, StoreTypeOK

LEMMA ReconcileTyped ==
  ASSUME TypeOK, NEW j \in JobIds, Reconcile(j), UNCHANGED clients
  PROVE  TypeOK'
<1>1. PICK visit \in Visits(j), recent \in BOOLEAN :
        /\ PruneInto(j, visit.job)
        /\ \/ Created(<<j, visit.job.gen>>, visit.unit) /\ UNCHANGED budget
           \/ visit.unit # "none" /\ Spend("faults") /\ UNCHANGED <<timers, runners>>
        /\ StopsLater(Stale(j, visit.job, recent))
        /\ UNCHANGED <<blocked, historyVars>>
  BY DEF Reconcile
<1>2. visit.job \in Job /\ visit.job.gen \in Nat
  BY <1>1, VisitsOfTyped DEF Visit, Job
<1>3. /\ jobs' \in [JobIds -> Job]
      /\ prompts' \in [JobIds -> Cmds \cup {NoPrompt}]
      /\ records' \subseteq Record
  BY <1>1, <1>2, PruneIntoTyped
<1>4. <<j, visit.job.gen>> \in Unit
  BY <1>2 DEF Unit
<1>5. timers' \subseteq Unit /\ runners' \subseteq Runner
  BY <1>1, <1>4, CreatedTyped DEF TypeOK, UnitsTypeOK
<1>6. timers \cup {UnitOf(r) : r \in runners} \subseteq Unit
  BY RunnerFields DEF TypeOK, UnitsTypeOK
<1>7. Stale(j, visit.job, recent) \subseteq Unit
  BY <1>6 DEF Stale
<1>8. stopping' \subseteq Unit
  BY <1>1, <1>7, StopsLaterTyped DEF TypeOK
<1>9. budget' \in [Bounds -> Nat]
  BY <1>1, SpendTyped, BoundNames DEF TypeOK, StoreTypeOK
<1> QED BY <1>1, <1>3, <1>5, <1>8, <1>9 DEF TypeOK, StoreTypeOK, UnitsTypeOK, VerbsTypeOK, historyVars

LEMMA ReconcileStepTyped ==
  ASSUME TypeOK, ReconcileStep, UNCHANGED clients
  PROVE  TypeOK'
<1>1. PICK j \in JobIds : Reconcile(j) \/ OnlyPrunes(j) \/ ReconcileCut(j)
  BY DEF ReconcileStep
<1>2. CASE Reconcile(j)
  BY <1>2, ReconcileTyped
<1>3. CASE OnlyPrunes(j)
  <2>1. jobs[j] \in Job
    BY DEF TypeOK, StoreTypeOK
  <2>2. /\ jobs' \in [JobIds -> Job]
        /\ prompts' \in [JobIds -> Cmds \cup {NoPrompt}]
        /\ records' \subseteq Record
    BY <1>3, <2>1, PruneIntoTyped DEF OnlyPrunes
  <2>3. budget' \in [Bounds -> Nat]
    BY <1>3, SpendTyped, BoundNames DEF OnlyPrunes, TypeOK, StoreTypeOK
  <2> QED BY <1>3, <2>2, <2>3 DEF OnlyPrunes, TypeOK, StoreTypeOK, UnitsTypeOK, VerbsTypeOK, unitVars,
                                 historyVars
<1>4. CASE ReconcileCut(j)
  <2>1. budget' \in [Bounds -> Nat]
    BY <1>4, SpendTyped, BoundNames DEF ReconcileCut, TypeOK, StoreTypeOK
  <2>2. prompts' \in [JobIds -> Cmds \cup {NoPrompt}] /\ records' \subseteq Record
    BY <1>4 DEF ReconcileCut, TypeOK, StoreTypeOK
  <2> QED BY <1>4, <2>1, <2>2 DEF ReconcileCut, TypeOK, StoreTypeOK, UnitsTypeOK, VerbsTypeOK, unitVars,
                                 historyVars
<1> QED BY <1>1, <1>2, <1>3, <1>4

-----------------------------------------------------------------------------
LEMMA InitTyped == Init => TypeOK
<1> SUFFICES ASSUME Init PROVE TypeOK
  OBVIOUS
<1>1. PICK c \in Cmds :
        /\ jobs = [j \in JobIds |-> [Draft(0, c) EXCEPT !.status = "free", !.promptAvailable = FALSE]]
        /\ confirmed = [j \in JobIds |-> c]
  BY DEF Init, StoreInit
<1>2. Draft(0, c) \in Job
  BY DraftTyped
<1>3. [Draft(0, c) EXCEPT !.status = "free", !.promptAvailable = FALSE] \in Job
  BY <1>2 DEF Job, Absent
<1>4. jobs \in [JobIds -> Job] /\ confirmed \in [JobIds -> Cmds]
  BY <1>1, <1>3
<1>5. StoreTypeOK
  BY <1>4, StoreAssumption DEF Init, StoreInit, StoreTypeOK
<1> QED BY <1>5, IdleTyped DEF Init, UnitsInit, VerbsInit, TypeOK, UnitsTypeOK, VerbsTypeOK

LEMMA NextTyped == TypeOK /\ [Next]_vars => TypeOK'
<1> SUFFICES ASSUME TypeOK, [Next]_vars PROVE TypeOK'
  OBVIOUS
<1>1. CASE VerbStep
  BY <1>1, VerbStepTyped
<1>2. CASE Process /\ UNCHANGED clients
  BY <1>2, ProcessTyped
<1>3. CASE ReconcileStep /\ UNCHANGED clients
  BY <1>3, ReconcileStepTyped
<1>4. CASE Elapse /\ UNCHANGED clients
  BY <1>4, ElapseTyped
<1>5. CASE Stop /\ UNCHANGED clients
  BY <1>5, StopTyped
<1>6. CASE Time /\ UNCHANGED <<unitVars, clients>>
  BY <1>6, TimeTyped
<1>7. CASE KillSwitchFlips /\ UNCHANGED <<unitVars, clients>>
  BY <1>7, KillSwitchTyped
<1>8. CASE Reboot
  <2>1. budget' \in [Bounds -> Nat]
    BY <1>8, SpendTyped, BoundNames DEF Reboot, TypeOK, StoreTypeOK
  <2> QED BY <1>8, <2>1, IdleTyped DEF Reboot, TypeOK, StoreTypeOK, UnitsTypeOK, VerbsTypeOK,
                                       storeVars, historyVars
<1>9. CASE UNCHANGED vars
  BY <1>9 DEF vars, TypeOK, StoreTypeOK, UnitsTypeOK, VerbsTypeOK, storeVars, unitVars, historyVars
<1> QED BY <1>1, <1>2, <1>3, <1>4, <1>5, <1>6, <1>7, <1>8, <1>9 DEF Next

(* Every variable holds a value of its kind, whatever the verbs, runners, passes and crashes
   do to the files, for every set of jobs, commands and caps. *)
THEOREM TypeCorrect == Spec => []TypeOK
BY InitTyped, NextTyped, PTL DEF Spec

-----------------------------------------------------------------------------
(* The phases in which a runner has claimed its generation. *)
Claimed == {"agent", "post"}

(* A unit of a generation the job reaches in this step. *)
Fresh(u) == u[2] > jobs[u[1]].gen /\ u[2] = jobs'[u[1]].gen

GensGrow == \A j \in JobIds : jobs[j].gen <= jobs'[j].gen

TimersMove == \A u \in timers' : u \in timers \/ Fresh(u)

(* A process was there before, or its timer was, or its unit is new. *)
RunnersMove ==
  \A s \in runners' :
    \/ \E r \in runners : UnitOf(r) = UnitOf(s)
    \/ /\ UnitOf(s) \in timers \/ Fresh(UnitOf(s))
       /\ UnitOf(s) \notin timers'

OneProcess == \A r, s \in runners' : UnitOf(r) = UnitOf(s) => r = s

(* A claim was there before, with its session, or takes the session of the job it starts. *)
ClaimsMove ==
  \A s \in runners' :
    s.phase \in Claimed =>
      \/ \E r \in runners : UnitOf(r) = UnitOf(s) /\ r.phase \in Claimed /\ r.session = s.session
      \/ jobs'[s.job].status = "running" /\ s.session = jobs'[s.job].session

(* A job stops running under its generation only when no runner claims it any more. *)
RunsKept ==
  \A j \in JobIds :
    jobs[j].status = "running" /\ jobs'[j].gen = jobs[j].gen /\ jobs'[j].status # "running" =>
      \A s \in runners' : UnitOf(s) = <<j, jobs[j].gen>> => s.phase \notin Claimed

(* Two processes never hold one session. *)
SessionExclusive ==
  \A r, s \in runners : r.session = s.session /\ r.session # NoSession => r = s

SessionsMove ==
  \A s \in runners' :
    s.session # NoSession =>
      \/ \E r \in runners : UnitOf(r) = UnitOf(s) /\ r.session = s.session
      \/ \A q \in runners' : q.session = s.session => UnitOf(q) = UnitOf(s)

Effects == /\ GensGrow /\ TimersMove /\ RunnersMove /\ OneProcess
           /\ ClaimsMove /\ RunsKept /\ SessionsMove

-----------------------------------------------------------------------------
(* The invariants follow from the effects. *)
LEMMA UnitsFollow ==
  ASSUME TypeOK, TypeOK', UnitsBehindStore, Effects
  PROVE  UnitsBehindStore'
<1>1. \A u \in timers' : u[2] <= jobs'[u[1]].gen
  <2> SUFFICES ASSUME NEW u \in timers' PROVE u[2] <= jobs'[u[1]].gen
    OBVIOUS
  <2>1. u[1] \in JobIds /\ u[2] \in Nat
    BY DEF TypeOK, UnitsTypeOK, Unit
  <2>2. jobs[u[1]].gen \in Nat /\ jobs'[u[1]].gen \in Nat
    BY <2>1 DEF TypeOK, StoreTypeOK, Job
  <2> QED BY <2>1, <2>2 DEF Effects, GensGrow, TimersMove, Fresh, UnitsBehindStore
<1>2. ASSUME NEW s \in runners'
      PROVE  s.gen <= jobs'[s.job].gen /\ UnitOf(s) \notin timers'
  <2>1. s \in Runner /\ s.job \in JobIds /\ s.gen \in Nat /\ UnitOf(s) = <<s.job, s.gen>>
    BY RunnerFields DEF TypeOK, UnitsTypeOK, UnitOf
  <2>2. jobs[s.job].gen \in Nat /\ jobs'[s.job].gen \in Nat /\ jobs[s.job].gen <= jobs'[s.job].gen
    BY <2>1 DEF TypeOK, StoreTypeOK, Job, Effects, GensGrow
  <2>3. CASE \E r \in runners : UnitOf(r) = UnitOf(s)
    <3>1. PICK r \in runners : UnitOf(r) = UnitOf(s)
      BY <2>3
    <3>2. r.job = s.job /\ r.gen = s.gen
      BY <2>1, <3>1 DEF UnitOf
    <3>3. s.gen <= jobs[s.job].gen /\ UnitOf(s) \notin timers
      BY <3>1, <3>2 DEF UnitsBehindStore
    <3>4. ~Fresh(UnitOf(s))
      BY <2>1, <2>2, <3>3 DEF Fresh
    <3> QED BY <2>1, <2>2, <3>3, <3>4 DEF Effects, TimersMove
  <2>4. CASE ~\E r \in runners : UnitOf(r) = UnitOf(s)
    <3>1. UnitOf(s) \in timers \/ Fresh(UnitOf(s))
      BY <2>4 DEF Effects, RunnersMove
    <3>2. UnitOf(s) \notin timers'
      BY <2>4 DEF Effects, RunnersMove
    <3>3. s.gen <= jobs'[s.job].gen
      BY <2>1, <2>2, <3>1 DEF Fresh, UnitsBehindStore
    <3> QED BY <3>2, <3>3
  <2> QED BY <2>3, <2>4
<1>3. OneProcess
  BY DEF Effects
<1> QED BY <1>1, <1>2, <1>3 DEF UnitsBehindStore, OneProcess

LEMMA ClaimsFollow ==
  ASSUME TypeOK, TypeOK', UnitsBehindStore, ClaimIsCurrent, Effects
  PROVE  ClaimIsCurrent'
<1> SUFFICES ASSUME NEW s \in runners', s.phase \in Claimed, s.gen = jobs'[s.job].gen,
                    jobs'[s.job].status # "running"
             PROVE  FALSE
  BY DEF ClaimIsCurrent, Claimed
<1>1. s.job \in JobIds /\ s.gen \in Nat /\ UnitOf(s) = <<s.job, s.gen>>
  BY RunnerFields DEF TypeOK, UnitsTypeOK, UnitOf
<1>2. PICK r \in runners : UnitOf(r) = UnitOf(s) /\ r.phase \in Claimed
  BY DEF Effects, ClaimsMove
<1>3. r.job = s.job /\ r.gen = s.gen
  BY <1>1, <1>2 DEF UnitOf
<1>4. /\ jobs[s.job].gen \in Nat /\ jobs'[s.job].gen \in Nat
      /\ jobs[s.job].gen <= jobs'[s.job].gen
      /\ s.gen <= jobs[s.job].gen
  BY <1>1, <1>2, <1>3 DEF TypeOK, StoreTypeOK, Job, Effects, GensGrow, UnitsBehindStore
<1>5. s.gen = jobs[s.job].gen /\ jobs'[s.job].gen = jobs[s.job].gen
  BY <1>1, <1>4
<1>6. jobs[s.job].status = "running"
  BY <1>2, <1>3, <1>5 DEF ClaimIsCurrent, Claimed
<1> QED BY <1>1, <1>5, <1>6 DEF Effects, RunsKept

LEMMA SessionsFollow ==
  ASSUME SessionExclusive, UnitsBehindStore, Effects
  PROVE  SessionExclusive'
<1> SUFFICES ASSUME NEW r \in runners', NEW s \in runners', r.session = s.session,
                    r.session # NoSession
             PROVE  UnitOf(r) = UnitOf(s)
  BY DEF SessionExclusive, Effects, OneProcess
<1>1. CASE \/ \A q \in runners' : q.session = s.session => UnitOf(q) = UnitOf(s)
           \/ \A q \in runners' : q.session = r.session => UnitOf(q) = UnitOf(r)
  BY <1>1
<1>2. CASE /\ \E q \in runners : UnitOf(q) = UnitOf(s) /\ q.session = s.session
           /\ \E q \in runners : UnitOf(q) = UnitOf(r) /\ q.session = r.session
  BY <1>2 DEF SessionExclusive
<1> QED BY <1>1, <1>2 DEF Effects, SessionsMove

(* A unit of a step that was neither a timer nor a process before it is fresh. *)
LEMMA FreshFollows ==
  ASSUME TypeOK', Effects
  PROVE  \A u \in (timers' \cup {UnitOf(r) : r \in runners'})
                  \ (timers \cup {UnitOf(r) : r \in runners}) :
           u[2] > jobs[u[1]].gen
BY DEF Effects, TimersMove, RunnersMove, Fresh

-----------------------------------------------------------------------------
(* Four shapes of a step, by what it does to the runners. *)
LEMMA NoNewRunner ==
  ASSUME UnitsBehindStore, runners' \subseteq runners, TimersMove, GensGrow, RunsKept
  PROVE  Effects
BY DEF Effects, RunnersMove, OneProcess, ClaimsMove, SessionsMove, UnitsBehindStore

LEMMA RunnerBecomes ==
  ASSUME UnitsBehindStore, TimersMove, GensGrow, RunsKept,
         NEW r \in runners, NEW s, runners' = (runners \ {r}) \cup {s},
         UnitOf(s) = UnitOf(r), s.session = r.session,
         s.phase \in Claimed => r.phase \in Claimed
  PROVE  Effects
<1>1. \A q \in runners' : \E o \in runners : UnitOf(o) = UnitOf(q) /\ o.session = q.session
  OBVIOUS
<1>2. OneProcess
  BY DEF OneProcess, UnitsBehindStore
<1>3. ClaimsMove
  BY DEF ClaimsMove
<1> QED BY <1>1, <1>2, <1>3 DEF Effects, RunnersMove, SessionsMove

LEMMA RunnerAdded ==
  ASSUME TypeOK, UnitsBehindStore, TimersMove, GensGrow, RunsKept,
         NEW u \in Unit, u \in timers \/ Fresh(u), u \notin timers',
         runners' = runners \cup {NewRunner(u)}
  PROVE  Effects
<1> DEFINE new == NewRunner(u)
<1>1. UnitOf(new) = u /\ new.phase = "start" /\ new.session = NoSession
  BY NewRunnerTyped DEF NewRunner
<1>2. \A q \in runners : UnitOf(q) # u
  <2> SUFFICES ASSUME NEW q \in runners, UnitOf(q) = u PROVE FALSE
    OBVIOUS
  <2>1. q.job \in JobIds /\ q.gen \in Nat /\ u[1] = q.job /\ u[2] = q.gen
    BY RunnerFields DEF TypeOK, UnitsTypeOK
  <2>2. q.gen <= jobs[q.job].gen /\ jobs[q.job].gen \in Nat /\ u \notin timers
    BY <2>1 DEF UnitsBehindStore, TypeOK, StoreTypeOK, Job
  <2> QED BY <2>1, <2>2 DEF Fresh
<1> HIDE DEF new
<1>3. runners' = runners \cup {new}
  BY DEF new
<1>4. OneProcess
  BY <1>1, <1>2, <1>3 DEF OneProcess, UnitsBehindStore
<1>5. RunnersMove
  BY <1>1, <1>3 DEF RunnersMove
<1>6. ClaimsMove
  BY <1>1, <1>3 DEF ClaimsMove, Claimed
<1>7. SessionsMove
  BY <1>1, <1>3 DEF SessionsMove
<1> QED BY <1>4, <1>5, <1>6, <1>7 DEF Effects

LEMMA UnitStopped ==
  ASSUME TypeOK, UnitsBehindStore, NEW u, StopsUnit(u), UNCHANGED jobs
  PROVE  Effects
<1> DEFINE Stopped(r) == IF UnitOf(r) = u /\ r.phase # "leave" THEN [r EXCEPT !.term = TRUE] ELSE r
<1>1. ASSUME NEW r \in runners
      PROVE  /\ UnitOf(Stopped(r)) = UnitOf(r) /\ Stopped(r).session = r.session
             /\ Stopped(r).phase = r.phase
  <2>1. r \in Runner
    BY DEF TypeOK, UnitsTypeOK
  <2> QED BY <2>1 DEF UnitOf, Runner
<1>2. runners' = {Stopped(r) : r \in runners} /\ timers' \subseteq timers
  BY DEF StopsUnit
<1> HIDE DEF Stopped
<1>3. \A s \in runners' : \E r \in runners : s = Stopped(r) /\ UnitOf(r) = UnitOf(s)
                            /\ r.session = s.session /\ r.phase = s.phase
  BY <1>1, <1>2
<1>4. OneProcess
  <2> SUFFICES ASSUME NEW r \in runners', NEW s \in runners', UnitOf(r) = UnitOf(s) PROVE r = s
    BY DEF OneProcess
  <2>1. PICK q \in runners : r = Stopped(q) /\ UnitOf(q) = UnitOf(r)
    BY <1>3
  <2>2. PICK o \in runners : s = Stopped(o) /\ UnitOf(o) = UnitOf(s)
    BY <1>3
  <2> QED BY <2>1, <2>2 DEF UnitsBehindStore
<1>5. GensGrow /\ RunsKept
  BY DEF GensGrow, RunsKept, TypeOK, StoreTypeOK, Job
<1>6. RunnersMove /\ ClaimsMove /\ SessionsMove
  BY <1>3 DEF RunnersMove, ClaimsMove, SessionsMove
<1>7. TimersMove
  BY <1>2 DEF TimersMove
<1> QED BY <1>4, <1>5, <1>6, <1>7 DEF Effects

LEMMA StoreUntouched ==
  ASSUME TypeOK, UNCHANGED jobs
  PROVE  GensGrow /\ RunsKept
BY DEF GensGrow, RunsKept, TypeOK, StoreTypeOK, Job

(* One job becomes another: what the shapes ask of the store. *)
LEMMA OneJobChanges ==
  ASSUME TypeOK, NEW j \in JobIds, NEW job \in Job, jobs' = [jobs EXCEPT ![j] = job],
         jobs[j].gen <= job.gen,
         \/ job.gen # jobs[j].gen \/ jobs[j].status # "running" \/ job.status = "running"
         \/ \A s \in runners' : UnitOf(s) = <<j, jobs[j].gen>> => s.phase \notin Claimed
  PROVE  GensGrow /\ RunsKept
<1>1. jobs'[j] = job /\ \A i \in JobIds \ {j} : jobs'[i] = jobs[i]
  BY DEF TypeOK, StoreTypeOK
<1>2. \A i \in JobIds : jobs[i].gen \in Nat
  BY DEF TypeOK, StoreTypeOK, Job
<1> QED BY <1>1, <1>2 DEF GensGrow, RunsKept

-----------------------------------------------------------------------------
(* What the job transitions do to the generation and the status. *)
LEMMA SetStatusFields ==
  ASSUME NEW job \in Job, NEW st
  PROVE  /\ SetStatus(job, st).status = st
         /\ SetStatus(job, st).gen = job.gen
         /\ SetStatus(job, st).cmd = job.cmd
         /\ SetStatus(job, st).session = job.session
BY DEF SetStatus, Job

LEMMA FinishFields ==
  ASSUME NEW job \in Job, NEW st \in Statuses
  PROVE  /\ Finish(job, st).status = st
         /\ Finish(job, st).gen = job.gen
         /\ Finish(job, st).cmd = job.cmd
<1> DEFINE base == SetStatus(job, st)
<1>1. base \in Job /\ base.status = st /\ base.gen = job.gen /\ base.cmd = job.cmd
  BY SetStatusTyped, SetStatusFields
<1> HIDE DEF base
<1>2. Finish(job, st) = [base EXCEPT !.promptAvailable = @ /\ st \notin Closed]
  BY DEF Finish, base
<1> QED BY <1>1, <1>2 DEF Job

LEMMA DecidedFields ==
  ASSUME NEW job \in Job, NEW act \in Actions
  PROVE  /\ Decided(job, act).status = act.status
         /\ Decided(job, act).cmd = job.cmd
         /\ Decided(job, act).gen = IF act.status = "armed" THEN job.gen + 1 ELSE job.gen
<1>1. CASE act.status = "armed"
  <2> DEFINE base == SetStatus(job, "armed")
             next == [base EXCEPT !.gen = @ + 1]
  <2>1. base \in Job /\ base.status = "armed" /\ base.gen = job.gen /\ base.cmd = job.cmd
    BY SetStatusTyped, SetStatusFields DEF Statuses
  <2> HIDE DEF base
  <2>2. next \in Job /\ next.status = "armed" /\ next.gen = job.gen + 1 /\ next.cmd = job.cmd
    BY <2>1 DEF Job
  <2>3. next = NextGeneration(job)
    BY DEF NextGeneration, base
  <2> HIDE DEF next
  <2>4. Decided(job, act) =
          [[next EXCEPT !.retries = CountRetry(@, act.counter)] EXCEPT !.due = "early"]
    BY <1>1, <2>3 DEF Decided
  <2> QED BY <1>1, <2>2, <2>4 DEF Job
<1>2. CASE act.status # "armed"
  BY <1>2, ActionFields, FinishFields DEF Decided
<1> QED BY <1>1, <1>2

-----------------------------------------------------------------------------
(* The runner. *)

(* The timer of a retry is fresh, and the job it belongs to moves on. *)
LEMMA SettleEffects ==
  ASSUME TypeOK, NEW j \in JobIds, NEW job \in Job, job.gen = jobs[j].gen, NEW act \in Actions,
         Settle(j, job, act),
         jobs[j].status = "armed" \/ \A s \in runners' : UnitOf(s) = <<j, jobs[j].gen>> =>
                                                         s.phase \notin Claimed
  PROVE  TimersMove /\ GensGrow /\ RunsKept
<1> DEFINE new == Decided(job, act)
<1>1. new \in Job /\ new.status = act.status
      /\ new.gen = IF act.status = "armed" THEN jobs[j].gen + 1 ELSE jobs[j].gen
  BY DecidedTyped, DecidedFields
<1>2. jobs' = [jobs EXCEPT ![j] = new] /\ jobs[j].gen \in Nat
  BY DEF Settle, TypeOK, StoreTypeOK, Job
<1> HIDE DEF new
<1>a. jobs[j].gen <= new.gen
  BY <1>1, <1>2
<1>3. GensGrow /\ RunsKept
  <2>1. CASE jobs[j].status = "armed"
    <3>1. jobs[j].status # "running"
      BY <2>1
    <3> QED BY <1>1, <1>2, <1>a, <3>1, OneJobChanges
  <2>2. CASE \A s \in runners' : UnitOf(s) = <<j, jobs[j].gen>> => s.phase \notin Claimed
    BY <1>1, <1>2, <1>a, <2>2, OneJobChanges
  <2> QED BY <2>1, <2>2
<1>4. jobs'[j] = new
  BY <1>2 DEF TypeOK, StoreTypeOK
<1>5. TimersMove
  BY <1>1, <1>2, <1>4 DEF TimersMove, Fresh, Settle
<1> QED BY <1>3, <1>5

(* Leaving: the process stays, its claim does not. *)
LEMMA LeavingRunner ==
  ASSUME NEW r \in Runner
  PROVE  /\ UnitOf([r EXCEPT !.phase = "leave", !.term = FALSE]) = UnitOf(r)
         /\ [r EXCEPT !.phase = "leave", !.term = FALSE].session = r.session
         /\ [r EXCEPT !.phase = "leave", !.term = FALSE].phase = "leave"
BY DEF Runner, UnitOf

(* Once r left or exited, nobody claims its unit. *)
LEMMA NoClaimLeft ==
  ASSUME TypeOK, UnitsBehindStore, NEW r \in runners, Leaves(r) \/ Exits(r)
  PROVE  \A s \in runners' : UnitOf(s) = UnitOf(r) => s.phase \notin Claimed
<1> DEFINE gone == [r EXCEPT !.phase = "leave", !.term = FALSE]
<1>1. gone.phase \notin Claimed
  BY LeavingRunner DEF TypeOK, UnitsTypeOK, Claimed
<1>2. \A s \in runners' : s = gone \/ (s \in runners /\ s # r)
  BY DEF Leaves, Became, Exits
<1> QED BY <1>1, <1>2 DEF UnitsBehindStore

LEMMA LeavesEffects ==
  ASSUME TypeOK, UnitsBehindStore, TimersMove, GensGrow, RunsKept,
         NEW r \in runners, Leaves(r) \/ Exits(r)
  PROVE  Effects
<1>1. CASE Leaves(r)
  <2> DEFINE gone == [r EXCEPT !.phase = "leave", !.term = FALSE]
  <2>1. UnitOf(gone) = UnitOf(r) /\ gone.session = r.session /\ gone.phase = "leave"
    BY LeavingRunner DEF TypeOK, UnitsTypeOK
  <2>2. runners' = (runners \ {r}) \cup {gone}
    BY <1>1 DEF Leaves, Became
  <2> HIDE DEF gone
  <2> QED BY <2>1, <2>2, RunnerBecomes DEF Claimed
<1>2. CASE Exits(r)
  BY <1>2, NoNewRunner DEF Exits
<1> QED BY <1>1, <1>2

LEMMA EndsEffects ==
  ASSUME TypeOK, UnitsBehindStore, NEW r \in runners, NEW act \in Actions, Ends(r, act),
         Current(r) \/ RunsNow(r)
  PROVE  Effects
<1>1. r.job \in JobIds /\ jobs[r.job] \in Job
  BY RunnerFields DEF TypeOK, UnitsTypeOK, StoreTypeOK
<1>2. CASE Settle(r.job, jobs[r.job], act) /\ Leaves(r)
  <2>1. jobs[r.job].status = "armed" \/ \A s \in runners' :
          UnitOf(s) = <<r.job, jobs[r.job].gen>> => s.phase \notin Claimed
    BY <1>2, NoClaimLeft DEF Current, RunsNow, UnitOf
  <2> QED BY <1>1, <1>2, <2>1, SettleEffects, LeavesEffects
<1>3. CASE ClosesPromptOnly(r.job, act) /\ Exits(r)
  <2>1. TimersMove /\ GensGrow /\ RunsKept
    BY <1>3, StoreUntouched DEF ClosesPromptOnly, TimersMove
  <2> QED BY <1>3, <2>1, LeavesEffects
<1> QED BY <1>2, <1>3 DEF Ends

LEMMA RunnerStepEffects ==
  ASSUME TypeOK, UnitsBehindStore, NEW r \in runners, RunnerStep(r)
  PROVE  Effects
<1>1. r \in Runner /\ r.job \in JobIds /\ jobs[r.job] \in Job /\ UnitOf(r) = <<r.job, r.gen>>
  BY RunnerFields DEF TypeOK, UnitsTypeOK, StoreTypeOK, UnitOf
<1>2. \A st \in {"failed", "skipped", "needs_confirm", "paused"} :
        Final(st) \in Actions /\ Final(st).status = st
  BY DEF Actions, Statuses, Final
<1>3. CASE ClaimStale(r) \/ StoreUnavailable(r)
  <2>1. TimersMove /\ GensGrow /\ RunsKept
    BY <1>3, StoreUntouched DEF ClaimStale, StoreUnavailable, storeVars, TimersMove
  <2> QED BY <1>3, <2>1, LeavesEffects DEF ClaimStale, StoreUnavailable
<1>4. CASE ClaimChecks(r) \/ AgentEnds(r)
  <2>1. TimersMove /\ GensGrow /\ RunsKept
    BY <1>4, StoreUntouched DEF ClaimChecks, AgentEnds, storeVars, TimersMove
  <2>2. PICK phase \in {"gate", "post"} : Enters(r, phase) /\ (phase = "post" => r.phase = "agent")
    BY <1>4 DEF ClaimChecks, AgentEnds
  <2> DEFINE next == [r EXCEPT !.phase = phase]
  <2>3. UnitOf(next) = UnitOf(r) /\ next.session = r.session /\ next.phase = phase
    BY <1>1 DEF Runner, UnitOf
  <2>4. runners' = (runners \ {r}) \cup {next}
    BY <2>2 DEF Enters, Became
  <2> HIDE DEF next
  <2> QED BY <2>1, <2>2, <2>3, <2>4, RunnerBecomes DEF Claimed
<1>5. CASE ClaimPaused(r)
  BY <1>2, <1>5, EndsEffects DEF ClaimPaused
<1>6. CASE ClaimEdited(r)
  <2> DEFINE new == Decided(jobs[r.job], Final("needs_confirm"))
  <2>1. new \in Job /\ new.gen = jobs[r.job].gen
    BY <1>1, <1>2, DecidedTyped, DecidedFields
  <2>2. jobs' = [jobs EXCEPT ![r.job] = new] /\ jobs[r.job].status = "armed"
        /\ jobs[r.job].gen \in Nat
    BY <1>1, <1>6 DEF ClaimEdited, Current, Job
  <2> HIDE DEF new
  <2>a. jobs[r.job].gen <= new.gen /\ jobs[r.job].status # "running"
    BY <2>1, <2>2
  <2>3. GensGrow /\ RunsKept
    BY <1>1, <2>1, <2>2, <2>a, OneJobChanges
  <2> QED BY <1>6, <2>3, LeavesEffects DEF ClaimEdited, TimersMove
<1>7. CASE ClaimRefused(r)
  <2>1. PICK act \in PrefireActions(jobs[r.job].retries, jobs[r.job].due) \cup {Final("failed")} :
          act # Fire /\ Ends(r, act)
    BY <1>7 DEF ClaimRefused
  <2>2. act \in Actions
    BY <1>2, <2>1, PrefireIsAction
  <2> QED BY <1>7, <2>1, <2>2, EndsEffects DEF ClaimRefused
<1>8. CASE GateRefused(r)
  <2>1. PICK act \in {Final("failed"), Final("skipped")} \cup DeferActions(jobs[r.job].retries) :
          Ends(r, act)
    BY <1>8 DEF GateRefused
  <2>2. act \in Actions
    BY <1>2, <2>1, RetryOrIsAction DEF DeferActions, Counters, Statuses, Actions
  <2> QED BY <1>8, <2>1, <2>2, EndsEffects DEF GateRefused
<1>9. CASE SessionBusy(r)
  <2>1. BusyAction(jobs[r.job].retries) \in Actions
    BY RetryOrIsAction DEF BusyAction, Counters, Statuses
  <2> QED BY <1>9, <2>1, EndsEffects DEF SessionBusy
<1>10. CASE PromptUnusable(r)
  BY <1>2, <1>10, EndsEffects DEF PromptUnusable
<1>11. CASE ClaimStarts(r)
  <2> DEFINE session == jobs[r.job].session
             next == [r EXCEPT !.phase = "agent", !.session = session]
             new == SetStatus(jobs[r.job], "running")
  <2>1. next.job = r.job /\ UnitOf(next) = UnitOf(r) /\ next.session = session
    BY <1>1 DEF Runner, UnitOf
  <2>2. new \in Job /\ new.gen = jobs[r.job].gen /\ new.status = "running"
        /\ new.session = session
    BY <1>1, SetStatusTyped, SetStatusFields DEF Statuses
  <2>3. jobs' = [jobs EXCEPT ![r.job] = new] /\ jobs[r.job].gen \in Nat
    BY <1>1, <1>11 DEF ClaimStarts, Job
  <2>4. runners' = (runners \ {r}) \cup {next} /\ timers' = timers
    BY <1>11 DEF ClaimStarts, Became
  <2>5. session # NoSession => \A s \in runners \ {r} : s.session # session
    BY <1>11 DEF ClaimStarts, LockedByOther
  <2> HIDE DEF next, new
  <2>a. jobs[r.job].gen <= new.gen
    BY <2>2, <2>3
  <2>6. GensGrow /\ RunsKept
    BY <1>1, <2>2, <2>3, <2>a, OneJobChanges
  <2>7. jobs'[r.job].status = "running" /\ jobs'[r.job].session = session
    BY <1>1, <2>2, <2>3 DEF TypeOK, StoreTypeOK
  <2>8. RunnersMove /\ OneProcess /\ TimersMove
    BY <2>1, <2>4 DEF RunnersMove, OneProcess, TimersMove, UnitsBehindStore
  <2>9. ClaimsMove
    BY <2>1, <2>4, <2>7 DEF ClaimsMove
  <2>10. SessionsMove
    BY <2>1, <2>4, <2>5 DEF SessionsMove
  <2> QED BY <2>6, <2>8, <2>9, <2>10 DEF Effects
<1>12. CASE ActLate(r)
  <2> DEFINE new == Touched(r.job)
  <2>1. new \in Job /\ new.gen = jobs[r.job].gen /\ new.status = jobs[r.job].status
    BY <1>1 DEF Touched, Job, Ages
  <2>2. /\ jobs' = [jobs EXCEPT ![r.job] = new] \/ jobs' = jobs
        /\ jobs[r.job].gen \in Nat
    BY <1>1, <1>12 DEF ActLate, Job
  <2> HIDE DEF new
  <2>a. jobs[r.job].gen <= new.gen
    BY <2>1, <2>2
  <2>3. GensGrow /\ RunsKept
    BY <1>1, <2>1, <2>2, <2>a, OneJobChanges, StoreUntouched
  <2> QED BY <1>12, <2>3, LeavesEffects DEF ActLate, TimersMove
<1>13. CASE Act(r)
  <2>0. PICK outcome \in Outcomes :
          \E act \in PostrunActions(jobs[r.job].retries, outcome) :
            /\ \E session \in SessionsAfter(r.job) :
                 Settle(r.job, [jobs[r.job] EXCEPT !.session = session], act)
            /\ Leaves(r)
    BY <1>13 DEF Act
  <2>a. PICK act \in PostrunActions(jobs[r.job].retries, outcome) :
          /\ \E session \in SessionsAfter(r.job) :
               Settle(r.job, [jobs[r.job] EXCEPT !.session = session], act)
          /\ Leaves(r)
    BY <2>0
  <2>1. PICK session \in SessionsAfter(r.job) :
          /\ Settle(r.job, [jobs[r.job] EXCEPT !.session = session], act)
          /\ Leaves(r)
    BY <2>a
  <2>2. act \in Actions
    BY <2>a, PostrunIsAction
  <2>3. session \in Sessions \cup {NoSession}
    BY <1>1, <2>1, StoreAssumption DEF SessionsAfter, Job
  <2> DEFINE job == [jobs[r.job] EXCEPT !.session = session]
  <2>4. job \in Job /\ job.gen = jobs[r.job].gen
    BY <1>1, <2>3 DEF Job
  <2>5. Settle(r.job, job, act) /\ Leaves(r)
    BY <2>1
  <2> HIDE DEF job
  <2>6. \A s \in runners' : UnitOf(s) = <<r.job, jobs[r.job].gen>> => s.phase \notin Claimed
    BY <1>1, <1>13, <2>5, NoClaimLeft DEF Act, RunsNow
  <2> QED BY <1>1, <2>2, <2>4, <2>5, <2>6, SettleEffects, LeavesEffects
<1>14. CASE ActCut(r)
  <2>1. TimersMove /\ GensGrow /\ RunsKept
    BY <1>14, StoreUntouched DEF ActCut, TimersMove
  <2> QED BY <1>14, <2>1, LeavesEffects DEF ActCut
<1>15. CASE MarkFailed(r)
  BY <1>2, <1>15, EndsEffects DEF MarkFailed
<1> QED BY <1>3, <1>4, <1>5, <1>6, <1>7, <1>8, <1>9, <1>10, <1>11, <1>12, <1>13, <1>14, <1>15
        DEF RunnerStep

LEMMA ProcessEffects ==
  ASSUME TypeOK, UnitsBehindStore, Process
  PROVE  Effects
<1>1. PICK r \in runners : \/ RunnerStep(r) \/ RunnerExits(r) \/ RunnerDies(r)
                          \/ RunnerKilled(r) \/ RuntimeExceeded(r)
  BY DEF Process
<1>2. CASE RunnerExits(r) \/ RunnerDies(r) \/ RunnerKilled(r)
  <2>1. TimersMove /\ GensGrow /\ RunsKept
    BY <1>2, StoreUntouched DEF RunnerExits, RunnerDies, RunnerKilled, storeVars, TimersMove
  <2> QED BY <1>2, <2>1, LeavesEffects DEF RunnerExits, RunnerDies, RunnerKilled
<1>3. CASE RuntimeExceeded(r)
  <2> DEFINE next == [r EXCEPT !.term = TRUE]
  <2>1. TimersMove /\ GensGrow /\ RunsKept
    BY <1>3, StoreUntouched DEF RuntimeExceeded, storeVars, TimersMove
  <2>2. UnitOf(next) = UnitOf(r) /\ next.session = r.session /\ next.phase = r.phase
    BY DEF TypeOK, UnitsTypeOK, Runner, UnitOf
  <2>3. runners' = (runners \ {r}) \cup {next}
    BY <1>3 DEF RuntimeExceeded, Became
  <2> HIDE DEF next
  <2> QED BY <2>1, <2>2, <2>3, RunnerBecomes
<1> QED BY <1>1, <1>2, <1>3, RunnerStepEffects

-----------------------------------------------------------------------------
(* Steps that change one job and perhaps create its unit. *)

(* The units are left alone. *)
LEMMA JobMoves ==
  ASSUME TypeOK, UnitsBehindStore, NEW j \in JobIds, NEW job \in Job,
         jobs' = [jobs EXCEPT ![j] = job], UNCHANGED <<timers, runners>>,
         jobs[j].gen <= job.gen,
         job.gen # jobs[j].gen \/ jobs[j].status # "running" \/ job.status = "running"
  PROVE  Effects
<1>1. GensGrow /\ RunsKept
  BY OneJobChanges
<1>2. TimersMove
  BY DEF TimersMove
<1> QED BY <1>1, <1>2, NoNewRunner

(* A new generation, and the unit that carries it, or none when systemd-run failed. *)
LEMMA UnitCreated ==
  ASSUME TypeOK, UnitsBehindStore, NEW j \in JobIds, NEW job \in Job,
         jobs' = [jobs EXCEPT ![j] = job], job.gen = jobs[j].gen + 1,
         NEW how, Created(<<j, job.gen>>, how) \/ UNCHANGED <<timers, runners>>
  PROVE  Effects
<1> DEFINE u == <<j, job.gen>>
<1>1. jobs[j].gen \in Nat /\ job.gen \in Nat /\ u \in Unit /\ u[1] = j /\ u[2] = job.gen
  BY DEF TypeOK, StoreTypeOK, Job, Unit
<1>2. jobs[j].gen < job.gen /\ jobs[j].gen <= job.gen /\ job.gen # jobs[j].gen
  BY <1>1
<1>3. jobs'[j] = job
  BY DEF TypeOK, StoreTypeOK
<1>4. Fresh(u)
  BY <1>1, <1>2, <1>3 DEF Fresh
<1>5. u \notin timers
  BY <1>1, <1>2 DEF UnitsBehindStore
<1>6. GensGrow /\ RunsKept
  BY <1>2, OneJobChanges
<1> HIDE DEF u
<1>7. TimersMove
  BY <1>4 DEF TimersMove, Created, u
<1>8. CASE Created(u, how) /\ how = "now"
  <2>1. runners' = runners \cup {NewRunner(u)} /\ timers' = timers
    BY <1>8 DEF Created
  <2> QED BY <1>1, <1>4, <1>5, <1>6, <1>7, <2>1, RunnerAdded
<1>9. CASE UNCHANGED runners
  BY <1>6, <1>7, <1>9, NoNewRunner
<1> QED BY <1>8, <1>9 DEF Created, u

(* Nothing the invariants speak of changes. *)
LEMMA NothingMoves ==
  ASSUME TypeOK, UnitsBehindStore, UNCHANGED <<jobs, timers, runners>>
  PROVE  Effects
<1>1. TimersMove
  BY DEF TimersMove
<1> QED BY <1>1, StoreUntouched, NoNewRunner

-----------------------------------------------------------------------------
(* Time and systemd. *)
LEMMA TimeEffects ==
  ASSUME TypeOK, UnitsBehindStore, Time, UNCHANGED unitVars
  PROVE  Effects
<1>1. PICK j \in JobIds : FireTimeNears(j) \/ GracePasses(j) \/ GrowsOld(j)
  BY DEF Time
<1>2. PICK due \in Dues, age \in Ages :
        jobs' = [jobs EXCEPT ![j] = [[@ EXCEPT !.due = due] EXCEPT !.age = age]]
  <2>1. CASE FireTimeNears(j) \/ GracePasses(j)
    <3>1. PICK due \in Dues : jobs' = [jobs EXCEPT ![j] = [@ EXCEPT !.due = due]]
      BY <2>1 DEF FireTimeNears, GracePasses, Dues
    <3>2. jobs[j].age \in Ages /\ jobs[j] \in Job
      BY DEF TypeOK, StoreTypeOK, Job
    <3>3. [[jobs[j] EXCEPT !.due = due] EXCEPT !.age = jobs[j].age] = [jobs[j] EXCEPT !.due = due]
      BY <3>2 DEF Job
    <3> QED BY <3>1, <3>2, <3>3
  <2>2. CASE GrowsOld(j)
    <3>1. PICK age \in Ages : jobs' = [jobs EXCEPT ![j] = [@ EXCEPT !.age = age]]
      BY <2>2 DEF GrowsOld, Ages
    <3>2. jobs[j].due \in Dues /\ jobs[j] \in Job
      BY DEF TypeOK, StoreTypeOK, Job
    <3>3. [[jobs[j] EXCEPT !.due = jobs[j].due] EXCEPT !.age = age] = [jobs[j] EXCEPT !.age = age]
      BY <3>2 DEF Job
    <3> QED BY <3>1, <3>2, <3>3
  <2> QED BY <1>1, <2>1, <2>2
<1> DEFINE new == [[jobs[j] EXCEPT !.due = due] EXCEPT !.age = age]
<1>3. jobs[j] \in Job
  BY DEF TypeOK, StoreTypeOK
<1>4. new \in Job /\ new.gen = jobs[j].gen /\ new.status = jobs[j].status
  BY <1>3 DEF Job
<1>5. jobs' = [jobs EXCEPT ![j] = new]
  BY <1>2
<1> HIDE DEF new
<1>6. jobs[j].gen <= new.gen
  BY <1>3, <1>4 DEF Job
<1> QED BY <1>4, <1>5, <1>6, JobMoves DEF unitVars

LEMMA ElapseEffects ==
  ASSUME TypeOK, UnitsBehindStore, Elapse
  PROVE  Effects
<1>1. PICK u \in timers : TimerElapses(u)
  BY DEF Elapse
<1>2. u \in Unit /\ u \notin timers' /\ runners' = runners \cup {NewRunner(u)}
  BY <1>1 DEF TimerElapses, TypeOK, UnitsTypeOK
<1>3. TimersMove /\ GensGrow /\ RunsKept
  BY <1>1, StoreUntouched DEF TimerElapses, storeVars, TimersMove
<1> QED BY <1>2, <1>3, RunnerAdded

LEMMA StopEffects ==
  ASSUME TypeOK, UnitsBehindStore, Stop
  PROVE  Effects
<1>1. PICK u \in stopping : StopSent(u) \/ StopLost(u)
  BY DEF Stop
<1>2. CASE StopSent(u)
  BY <1>2, UnitStopped DEF StopSent, storeVars
<1>3. CASE StopLost(u)
  BY <1>3, NothingMoves DEF StopLost, storeVars
<1> QED BY <1>1, <1>2, <1>3

LEMMA RebootEffects ==
  ASSUME TypeOK, UnitsBehindStore, Reboot
  PROVE  Effects
<1>1. TimersMove /\ GensGrow /\ RunsKept
  BY StoreUntouched DEF Reboot, storeVars, TimersMove
<1> QED BY <1>1, NoNewRunner DEF Reboot

-----------------------------------------------------------------------------
(* The verbs. *)

(* A job replaced by a draft keeps its generation. *)
LEMMA DraftFields ==
  ASSUME NEW gen \in Nat, NEW cmd \in Cmds
  PROVE  Draft(gen, cmd) \in Job /\ Draft(gen, cmd).gen = gen
BY DraftTyped DEF Draft

LEMMA CommitUpdateMoves ==
  ASSUME TypeOK, UnitsBehindStore, NEW j \in JobIds, NEW c \in Cmds, NEW keep \in BOOLEAN,
         CommitUpdate(j, c, keep) \/ StoresPromptOnly(j, c, keep),
         jobs[j].status # "running", UNCHANGED <<timers, runners>>
  PROVE  Effects
<1>1. jobs[j] \in Job /\ jobs[j].gen \in Nat
  BY DEF TypeOK, StoreTypeOK, Job
<1>2. CASE CommitUpdate(j, c, keep)
  <2> DEFINE cmd == UpdatedCmd(j, c, keep)
             new == Draft(jobs[j].gen, cmd)
  <2>1. cmd \in Cmds
    BY <1>2 DEF CommitUpdate, CanUpdate, UpdatedCmd, TypeOK, StoreTypeOK
  <2>2. new \in Job /\ new.gen = jobs[j].gen
    BY <1>1, <2>1, DraftFields
  <2>3. jobs' = [jobs EXCEPT ![j] = new]
    BY <1>2 DEF CommitUpdate
  <2> HIDE DEF new
  <2>4. jobs[j].gen <= new.gen
    BY <1>1, <2>2
  <2> QED BY <2>2, <2>3, <2>4, JobMoves
<1>3. CASE StoresPromptOnly(j, c, keep)
  BY <1>3, NothingMoves DEF StoresPromptOnly
<1> QED BY <1>2, <1>3

(* A job that only changes its status, or its trigger, at the generation it has. *)
LEMMA StatusMoves ==
  ASSUME TypeOK, UnitsBehindStore, NEW j \in JobIds, NEW st \in Statuses \cup Absent,
         NEW t \in Times, jobs' = [jobs EXCEPT ![j] = [[@ EXCEPT !.status = st] EXCEPT !.at = t]],
         jobs[j].status # "running", UNCHANGED <<timers, runners>>
  PROVE  Effects
<1> DEFINE new == [[jobs[j] EXCEPT !.status = st] EXCEPT !.at = t]
<1>1. jobs[j] \in Job /\ jobs[j].gen \in Nat
  BY DEF TypeOK, StoreTypeOK, Job
<1>2. new \in Job /\ new.gen = jobs[j].gen
  BY <1>1 DEF Job
<1>3. jobs' = [jobs EXCEPT ![j] = new]
  OBVIOUS
<1> HIDE DEF new
<1>4. jobs[j].gen <= new.gen
  BY <1>1, <1>2
<1> QED BY <1>2, <1>3, <1>4, JobMoves

LEMMA DeletedOnly ==
  ASSUME TypeOK, UnitsBehindStore, NEW j \in JobIds,
         jobs' = [jobs EXCEPT ![j].status = "deleted"],
         jobs[j].status # "running", UNCHANGED <<timers, runners>>
  PROVE  Effects
<1>1. jobs[j] \in Job /\ jobs[j].at \in Times
  BY DEF TypeOK, StoreTypeOK, Job
<1>2. [[jobs[j] EXCEPT !.status = "deleted"] EXCEPT !.at = jobs[j].at]
        = [jobs[j] EXCEPT !.status = "deleted"]
  BY <1>1 DEF Job
<1>3. jobs' = [jobs EXCEPT ![j] = [[@ EXCEPT !.status = "deleted"] EXCEPT !.at = jobs[j].at]]
  BY <1>2
<1> QED BY <1>1, <1>3, StatusMoves DEF Absent

(* Disarming bumps the generation. *)
LEMMA DisarmedFields ==
  ASSUME NEW job \in Job
  PROVE  Disarmed(job) \in Job /\ Disarmed(job).gen = job.gen + 1
<1> DEFINE base == SetStatus(job, "disarmed")
<1>1. base \in Job /\ base.gen = job.gen
  BY SetStatusTyped, SetStatusFields DEF Statuses
<1> HIDE DEF base
<1>2. Disarmed(job) = [base EXCEPT !.gen = @ + 1]
  BY DEF Disarmed, base
<1> QED BY <1>1, <1>2 DEF Job

LEMMA NextGenerationFields ==
  ASSUME NEW job \in Job
  PROVE  NextGeneration(job) \in Job /\ NextGeneration(job).gen = job.gen + 1
<1> DEFINE base == SetStatus(job, "armed")
<1>1. base \in Job /\ base.gen = job.gen
  BY SetStatusTyped, SetStatusFields DEF Statuses
<1> HIDE DEF base
<1>2. NextGeneration(job) = [base EXCEPT !.gen = @ + 1]
  BY DEF NextGeneration, base
<1> QED BY <1>1, <1>2 DEF Job

LEMMA DisarmMoves ==
  ASSUME TypeOK, UnitsBehindStore, NEW j \in JobIds,
         jobs' = [jobs EXCEPT ![j] = Disarmed(@)], UNCHANGED <<timers, runners>>
  PROVE  Effects
<1> DEFINE new == Disarmed(jobs[j])
<1>1. new \in Job /\ new.gen = jobs[j].gen + 1
  BY DisarmedFields DEF TypeOK, StoreTypeOK
<1>2. jobs' = [jobs EXCEPT ![j] = new] /\ jobs[j].gen \in Nat
  BY DEF TypeOK, StoreTypeOK, Job
<1> HIDE DEF new
<1>3. jobs[j].gen <= new.gen /\ new.gen # jobs[j].gen
  BY <1>1, <1>2
<1> QED BY <1>1, <1>2, <1>3, JobMoves

LEMMA ArmEffects ==
  ASSUME TypeOK, UnitsBehindStore, NEW p \in Clients, ArmCommits(p) \/ ArmFails(p)
  PROVE  Effects
<1> DEFINE j == clients[p].job
<1>0. clients[p] \in Pending /\ clients[p].verb \in {"arm", "run-now"}
  BY DEF TypeOK, VerbsTypeOK, ArmCommits, ArmFails
<1>1. j \in JobIds
  BY <1>0, PendingFields
<1>2. jobs[j] \in Job /\ jobs[j].gen \in Nat
  BY <1>1 DEF TypeOK, StoreTypeOK, Job
<1>3. CASE ArmCommits(p)
  <2>1. PICK how \in Ways(clients[p].verb) :
          /\ jobs' = [jobs EXCEPT ![j] = ArmedByUser(@, how)]
          /\ Created(<<j, jobs[j].gen + 1>>, how) \/ UNCHANGED <<timers, runners>>
    BY <1>3 DEF ArmCommits, unitVars
  <2> DEFINE next == NextGeneration(jobs[j])
             new == ArmedByUser(jobs[j], how)
  <2>2. next \in Job /\ next.gen = jobs[j].gen + 1
    BY <1>2, NextGenerationFields
  <2>3. new \in Job
    BY <1>2, ArmedByUserTyped
  <2> HIDE DEF next
  <2>4. new = [next EXCEPT !.retries = NoRetries, !.due = IF how = "now" THEN "due" ELSE "early"]
    BY DEF ArmedByUser, next
  <2>5. new.gen = jobs[j].gen + 1
    BY <2>2, <2>4 DEF Job
  <2>6. jobs' = [jobs EXCEPT ![j] = new]
    BY <2>1
  <2> HIDE DEF new
  <2> QED BY <1>1, <2>1, <2>3, <2>5, <2>6, UnitCreated
<1>4. CASE ArmFails(p)
  <2> DEFINE base == [jobs[j] EXCEPT !.gen = @ + 1]
             new == [base EXCEPT !.age = "new"]
  <2>0. base \in Job /\ base.gen = jobs[j].gen + 1
    BY <1>2 DEF Job
  <2>1. new \in Job /\ new.gen = jobs[j].gen + 1
    BY <2>0 DEF Job, Ages
  <2>2. jobs' = [jobs EXCEPT ![j] = new]
    BY <1>1, <1>4 DEF ArmFails, TypeOK, StoreTypeOK
  <2>3. \E how : Created(<<j, jobs[j].gen + 1>>, how) \/ UNCHANGED <<timers, runners>>
    BY <1>4 DEF ArmFails
  <2> HIDE DEF new
  <2> QED BY <1>1, <2>1, <2>2, <2>3, UnitCreated
<1> QED BY <1>3, <1>4

LEMMA RescheduleEffects ==
  ASSUME TypeOK, UnitsBehindStore, NEW j \in JobIds, NEW t \in Times, Reschedule(j, t)
  PROVE  Effects
<1> DEFINE next == NextGeneration(jobs[j])
           new == [next EXCEPT !.at = t, !.due = "early"]
<1>1. next \in Job /\ next.gen = jobs[j].gen + 1
  BY NextGenerationFields DEF TypeOK, StoreTypeOK
<1>2. jobs' = [jobs EXCEPT ![j] = new]
  BY DEF Reschedule
<1> HIDE DEF next
<1>3. new \in Job /\ new.gen = jobs[j].gen + 1
  BY <1>1 DEF Job, Dues
<1> HIDE DEF new
<1>4. Created(<<j, new.gen>>, "timer") \/ UNCHANGED <<timers, runners>>
  BY <1>3 DEF Reschedule, Created
<1> QED BY <1>2, <1>3, <1>4, UnitCreated

LEMMA CancelAllEffects ==
  ASSUME TypeOK, UnitsBehindStore, NEW p \in Clients, CancelAll(p)
  PROVE  Effects
<1>1. \A j \in JobIds : jobs[j] \in Job /\ jobs[j].gen \in Nat
  BY DEF TypeOK, StoreTypeOK, Job
<1>2. ASSUME NEW j \in JobIds
      PROVE  jobs'[j] = jobs[j] \/ jobs'[j].gen = jobs[j].gen + 1
  BY <1>1, DisarmedFields DEF CancelAll
<1>3. GensGrow /\ RunsKept
  BY <1>1, <1>2 DEF GensGrow, RunsKept
<1>4. TimersMove
  BY DEF TimersMove, CancelAll, unitVars
<1> QED BY <1>3, <1>4, NoNewRunner DEF CancelAll, unitVars

LEMMA UpdateEffects ==
  ASSUME TypeOK, UnitsBehindStore, NEW p \in Clients, UpdateStops(p) \/ UpdateCommits(p)
  PROVE  Effects
<1>1. CASE UpdateStops(p)
  BY <1>1, UnitStopped DEF UpdateStops, storeVars
<1>2. CASE UpdateCommits(p)
  <2>1. clients[p] \in Pending /\ clients[p].verb = "update"
    BY <1>2 DEF UpdateCommits, TypeOK, VerbsTypeOK
  <2>2. clients[p].job \in JobIds /\ clients[p].cmd \in Cmds /\ clients[p].keep \in BOOLEAN
    BY <2>1, PendingFields
  <2>3. /\ \/ CommitUpdate(clients[p].job, clients[p].cmd, clients[p].keep)
           \/ StoresPromptOnly(clients[p].job, clients[p].cmd, clients[p].keep)
        /\ jobs[clients[p].job].status # "running"
        /\ UNCHANGED <<timers, runners>>
    BY <1>2 DEF UpdateCommits, unitVars
  <2> QED BY <2>2, <2>3, CommitUpdateMoves
<1> QED BY <1>1, <1>2

LEMMA CreateEffects ==
  ASSUME TypeOK, UnitsBehindStore, NEW j \in JobIds, NEW c \in Cmds, Create(j, c)
  PROVE  Effects
<1> DEFINE new == Draft(jobs[j].gen, c)
<1>1. jobs[j].gen \in Nat /\ jobs[j].status # "running"
  BY DEF Create, TypeOK, StoreTypeOK, Job
<1>2. new \in Job /\ new.gen = jobs[j].gen
  BY <1>1, DraftFields
<1>3. jobs' = [jobs EXCEPT ![j] = new] \/ jobs' = [jobs EXCEPT ![j].status = "deleted"]
  BY DEF Create
<1> HIDE DEF new
<1>4. jobs[j].gen <= new.gen
  BY <1>1, <1>2
<1> QED BY <1>1, <1>2, <1>3, <1>4, JobMoves, DeletedOnly DEF Create, unitVars

LEMMA RescheduleDraftEffects ==
  ASSUME TypeOK, UnitsBehindStore, NEW j \in JobIds, NEW t \in Times, RescheduleDraft(j, t)
  PROVE  Effects
<1>1. jobs[j] \in Job /\ jobs[j].status = "draft" /\ jobs[j].status \in Statuses
  BY DEF RescheduleDraft, TypeOK, StoreTypeOK, Statuses
<1>2. [[jobs[j] EXCEPT !.status = jobs[j].status] EXCEPT !.at = t] = [jobs[j] EXCEPT !.at = t]
  BY <1>1 DEF Job
<1>3. jobs' = [jobs EXCEPT ![j] = [[@ EXCEPT !.status = jobs[j].status] EXCEPT !.at = t]]
  BY <1>2 DEF RescheduleDraft
<1>4. jobs[j].status # "running" /\ UNCHANGED <<timers, runners>>
  BY <1>1 DEF RescheduleDraft, unitVars
<1> QED BY <1>1, <1>3, <1>4, StatusMoves

LEMMA VerbStepEffects ==
  ASSUME TypeOK, UnitsBehindStore, VerbStep
  PROVE  Effects
<1>1. CASE \E j \in JobIds, c \in Cmds : Create(j, c)
  BY <1>1, CreateEffects
<1>2. CASE \E j \in JobIds, c \in Cmds, keep \in BOOLEAN : Update(j, c, keep)
  <2>1. PICK j \in JobIds, c \in Cmds, keep \in BOOLEAN : Update(j, c, keep)
    BY <1>2
  <2>2. /\ CommitUpdate(j, c, keep) \/ StoresPromptOnly(j, c, keep)
        /\ jobs[j].status # "running" /\ UNCHANGED <<timers, runners>>
    BY <2>1 DEF Update, unitVars
  <2> QED BY <2>2, CommitUpdateMoves
<1>3. CASE \E p \in Clients, j \in JobIds, c \in Cmds, keep \in BOOLEAN : UpdateArmed(p, j, c, keep)
  BY <1>3, DisarmMoves DEF UpdateArmed, unitVars
<1>4. CASE \E p \in Clients : UpdateStops(p) \/ UpdateCommits(p)
  BY <1>4, UpdateEffects
<1>5. CASE \E p \in Clients, j \in JobIds, verb \in {"arm", "run-now"} : ArmBegins(p, j, verb)
  BY <1>5, NothingMoves DEF ArmBegins, storeVars, unitVars
<1>6. CASE \E p \in Clients : ArmCommits(p) \/ ArmFails(p)
  BY <1>6, ArmEffects
<1>7. CASE \E p \in Clients : Abandons(p) \/ CancelStops(p)
  BY <1>7, NothingMoves DEF Abandons, CancelStops, storeVars, unitVars
<1>8. CASE \E p \in Clients : CancelAll(p)
  BY <1>8, CancelAllEffects
<1>9. CASE \E j \in JobIds : Delete(j)
  BY <1>9, DeletedOnly DEF Delete, unitVars
<1>10. CASE \E j \in JobIds : Disarm(j)
  BY <1>10, DisarmMoves DEF Disarm
<1>11. CASE \E j \in JobIds, t \in Times : RescheduleDraft(j, t) \/ Reschedule(j, t)
  BY <1>11, RescheduleDraftEffects, RescheduleEffects
<1> QED BY <1>1, <1>2, <1>3, <1>4, <1>5, <1>6, <1>7, <1>8, <1>9, <1>10, <1>11 DEF VerbStep

-----------------------------------------------------------------------------
(* The reconcile pass. *)

(* What a visit does: a unit comes with a new generation, and without one a running job is
   moved only when nobody runs it. *)
VisitMoves(j, visit) ==
  /\ visit.job \in Job
  /\ \/ visit.unit # "none" /\ visit.job.gen = jobs[j].gen + 1
     \/ /\ visit.unit = "none" /\ visit.job.gen = jobs[j].gen
        /\ \/ jobs[j].status # "running" \/ visit.job.status = "running"
           \/ ~ServiceLive(<<j, jobs[j].gen>>)

LEMMA VisitShapes ==
  ASSUME NEW job \in Job
  PROVE  /\ Kept(job).unit = "none" /\ Kept(job).job = job
         /\ \A st \in Statuses : /\ Turned(job, st).unit = "none"
                                 /\ Turned(job, st).job.gen = job.gen
         /\ \A how \in {"timer", "now"} : /\ ArmedAgain(job, how).unit # "none"
                                          /\ ArmedAgain(job, how).job.gen = job.gen + 1
<1>1. ASSUME NEW how \in {"timer", "now"}
      PROVE  ArmedAgain(job, how).unit # "none" /\ ArmedAgain(job, how).job.gen = job.gen + 1
  <2> DEFINE next == NextGeneration(job)
  <2>1. next \in Job /\ next.gen = job.gen + 1
    BY NextGenerationFields
  <2> HIDE DEF next
  <2>2. ArmedAgain(job, how).job = [next EXCEPT !.due = IF how = "timer" THEN "early" ELSE @]
        /\ ArmedAgain(job, how).unit = how
    BY DEF ArmedAgain, next
  <2> QED BY <2>1, <2>2 DEF Job
<1>2. ASSUME NEW st \in Statuses
      PROVE  Turned(job, st).unit = "none" /\ Turned(job, st).job.gen = job.gen
  BY FinishFields DEF Turned, Kept
<1> QED BY <1>1, <1>2 DEF Kept

(* A visit that fires, pauses or gives up a job the pass found without a unit. *)
LEMMA FireOrMissShape ==
  ASSUME NEW job \in Job, NEW visit, visit = FireOrMiss(job)
  PROVE  \/ visit.unit # "none" /\ visit.job.gen = job.gen + 1
         \/ visit.unit = "none" /\ visit.job.gen = job.gen
BY VisitShapes DEF FireOrMiss, Statuses

LEMMA FromRecordShape ==
  ASSUME NEW job \in Job, NEW record \in Record, NEW visit \in FromRecord(job, record)
  PROVE  \/ visit.unit # "none" /\ visit.job.gen = job.gen + 1
         \/ visit.unit = "none" /\ visit.job.gen = job.gen
<1>1. record.status \in Statuses \cup {"none"} /\ record.counter \in Counters \cup {NoCounter}
  BY DEF Record
<1>2. CASE record.status = "armed" /\ ~blocked
  <2> DEFINE counted == IF job.status = "running"
                        THEN [job EXCEPT !.retries = CountRetry(@, record.counter)]
                        ELSE job
  <2>1. CountRetry(job.retries, record.counter) \in [Counters -> Nat]
    BY <1>1, CountRetryTyped DEF Job
  <2>2. counted \in Job /\ counted.gen = job.gen
    BY <2>1 DEF Job
  <2>3. PICK d \in Dues : visit = FireOrMiss([counted EXCEPT !.due = d])
    BY <1>2 DEF FromRecord
  <2> HIDE DEF counted
  <2>4. [counted EXCEPT !.due = d] \in Job /\ [counted EXCEPT !.due = d].gen = job.gen
    BY <2>2 DEF Job
  <2> QED BY <2>3, <2>4, FireOrMissShape
<1>3. CASE record.status # "armed" \/ blocked
  <2>1. PICK st \in Statuses : visit = Turned(job, st)
    BY <1>1, <1>3 DEF FromRecord, Statuses
  <2> QED BY <2>1, VisitShapes
<1> QED BY <1>2, <1>3

LEMMA VisitsMove ==
  ASSUME TypeOK, NEW j \in JobIds, NEW visit \in Visits(j)
  PROVE  VisitMoves(j, visit)
<1> DEFINE job == jobs[j]
           unit == <<j, job.gen>>
           written == RecordsOf(j, job.gen)
           recorded == UNION {FromRecord(job, r) : r \in written}
           shape == \/ visit.unit # "none" /\ visit.job.gen = job.gen + 1
                    \/ visit.unit = "none" /\ visit.job.gen = job.gen
<1>1. job \in Job /\ written \subseteq Record
  BY DEF TypeOK, StoreTypeOK, RecordsOf
<1>2. visit.job \in Job
  BY VisitsOfTyped DEF Visit
<1>3. visit \in recorded => shape
  BY <1>1, FromRecordShape
<1>4. CASE job.status = "armed" /\ ~UnitLive(unit)
  <2>1. visit \in recorded \/ visit = FireOrMiss(job)
    BY <1>4 DEF Visits
  <2> QED BY <1>1, <1>2, <1>3, <1>4, <2>1, FireOrMissShape DEF VisitMoves
<1>5. CASE job.status = "running" /\ ~ServiceLive(unit)
  <2>1. visit \in recorded \/ visit = Turned(job, "interrupted")
    BY <1>5 DEF Visits
  <2> QED BY <1>1, <1>2, <1>3, <1>5, <2>1, VisitShapes DEF VisitMoves, Statuses
<1>6. CASE job.status = "paused" /\ ~blocked /\ job.promptAvailable
  <2>1. visit = Turned(job, "missed") \/ visit = ArmedAgain(job, "timer")
    BY <1>6 DEF Visits
  <2> QED BY <1>1, <1>2, <1>6, <2>1, VisitShapes DEF VisitMoves, Statuses
<1>7. CASE visit = Kept(job)
  BY <1>1, <1>2, <1>7, VisitShapes DEF VisitMoves
<1> QED BY <1>4, <1>5, <1>6, <1>7 DEF Visits

(* Retention deletes no job that waits or runs. *)
LEMMA PrunedKeepsRunning ==
  ASSUME NEW job \in Job
  PROVE  job.status = "running" => Pruned(job).status = "running"
BY DEF Pruned, InQueue, Absent, Job

LEMMA ReconcileEffects ==
  ASSUME TypeOK, UnitsBehindStore, NEW j \in JobIds, Reconcile(j)
  PROVE  Effects
<1>1. PICK visit \in Visits(j) :
        /\ jobs' = [jobs EXCEPT ![j] = Pruned(visit.job)]
        /\ \/ Created(<<j, visit.job.gen>>, visit.unit)
           \/ visit.unit # "none" /\ UNCHANGED <<timers, runners>>
  BY DEF Reconcile, PruneInto
<1> DEFINE new == Pruned(visit.job)
<1>2. VisitMoves(j, visit)
  BY VisitsMove
<1>3. new \in Job /\ new.gen = visit.job.gen /\ jobs[j].gen \in Nat
      /\ (visit.job.status = "running" => new.status = "running")
  BY <1>2, PrunedTyped, PrunedKeepsRunning DEF VisitMoves, TypeOK, StoreTypeOK, Job
<1>4. jobs' = [jobs EXCEPT ![j] = new]
  BY <1>1
<1> HIDE DEF new
<1>5. CASE visit.unit # "none"
  <2>1. new.gen = jobs[j].gen + 1 /\ (Created(<<j, new.gen>>, visit.unit) \/ UNCHANGED <<timers, runners>>)
    BY <1>1, <1>2, <1>3, <1>5 DEF VisitMoves
  <2> QED BY <1>3, <1>4, <2>1, UnitCreated
<1>6. CASE visit.unit = "none"
  <2>1. UNCHANGED <<timers, runners>>
    BY <1>1, <1>6 DEF Created
  <2>2. jobs[j].gen <= new.gen
    BY <1>2, <1>3, <1>6 DEF VisitMoves
  <2>3. CASE jobs[j].status # "running" \/ new.status = "running"
    BY <1>3, <1>4, <2>1, <2>2, <2>3, JobMoves
  <2>4. CASE ~ServiceLive(<<j, jobs[j].gen>>)
    <3>1. \A s \in runners' : UnitOf(s) = <<j, jobs[j].gen>> => s.phase \notin Claimed
      BY <2>1, <2>4 DEF ServiceLive
    <3>2. GensGrow /\ RunsKept
      BY <1>3, <1>4, <2>2, <3>1, OneJobChanges
    <3> QED BY <2>1, <3>2, NoNewRunner DEF TimersMove
  <2> QED BY <1>2, <1>3, <1>6, <2>3, <2>4 DEF VisitMoves
<1> QED BY <1>5, <1>6

LEMMA ReconcileStepEffects ==
  ASSUME TypeOK, UnitsBehindStore, ReconcileStep
  PROVE  Effects
<1>1. PICK j \in JobIds : Reconcile(j) \/ OnlyPrunes(j) \/ ReconcileCut(j)
  BY DEF ReconcileStep
<1>2. CASE Reconcile(j)
  BY <1>2, ReconcileEffects
<1>3. CASE OnlyPrunes(j)
  <2> DEFINE new == Pruned(jobs[j])
  <2>1. jobs[j] \in Job /\ jobs[j].gen \in Nat
    BY DEF TypeOK, StoreTypeOK, Job
  <2>2. new \in Job /\ new.gen = jobs[j].gen
        /\ (jobs[j].status = "running" => new.status = "running")
    BY <2>1, PrunedTyped, PrunedKeepsRunning
  <2>3. jobs' = [jobs EXCEPT ![j] = new] /\ UNCHANGED <<timers, runners>>
    BY <1>3 DEF OnlyPrunes, PruneInto, unitVars
  <2> HIDE DEF new
  <2>4. jobs[j].gen <= new.gen
    BY <2>1, <2>2
  <2> QED BY <2>2, <2>3, <2>4, JobMoves
<1>4. CASE ReconcileCut(j)
  BY <1>4, NothingMoves DEF ReconcileCut, unitVars
<1> QED BY <1>1, <1>2, <1>3, <1>4

-----------------------------------------------------------------------------
(* Every step has the effects. *)
LEMMA NextEffects ==
  ASSUME TypeOK, UnitsBehindStore, [Next]_vars
  PROVE  Effects
<1>1. CASE VerbStep
  BY <1>1, VerbStepEffects
<1>2. CASE Process
  BY <1>2, ProcessEffects
<1>3. CASE ReconcileStep
  BY <1>3, ReconcileStepEffects
<1>4. CASE Elapse
  BY <1>4, ElapseEffects
<1>5. CASE Stop
  BY <1>5, StopEffects
<1>6. CASE Time /\ UNCHANGED unitVars
  BY <1>6, TimeEffects
<1>7. CASE KillSwitchFlips /\ UNCHANGED unitVars
  BY <1>7, NothingMoves DEF KillSwitchFlips, storeVars, unitVars
<1>8. CASE Reboot
  BY <1>8, RebootEffects
<1>9. CASE UNCHANGED vars
  BY <1>9, NothingMoves DEF vars, storeVars, unitVars
<1> QED BY <1>1, <1>2, <1>3, <1>4, <1>5, <1>6, <1>7, <1>8, <1>9 DEF Next

(* The inductive invariant: each part needs the ones before it. *)
Safe == TypeOK /\ UnitsBehindStore /\ ClaimIsCurrent /\ SessionExclusive

LEMMA InitSafe == Init => Safe
<1> SUFFICES ASSUME Init PROVE Safe
  OBVIOUS
<1>1. TypeOK
  BY InitTyped
<1>2. timers = {} /\ runners = {}
  BY DEF Init, UnitsInit
<1> QED BY <1>1, <1>2 DEF Safe, UnitsBehindStore, ClaimIsCurrent, SessionExclusive

LEMMA NextSafe == Safe /\ [Next]_vars => Safe'
<1> SUFFICES ASSUME Safe, [Next]_vars PROVE Safe'
  OBVIOUS
<1>1. TypeOK' /\ Effects
  BY NextTyped, NextEffects DEF Safe
<1> QED BY <1>1, UnitsFollow, ClaimsFollow, SessionsFollow DEF Safe

LEMMA AlwaysSafe == Spec => []Safe
BY InitSafe, NextSafe, PTL DEF Spec

(* No timer and no runner is ever ahead of the generation of its job in jobs.json, a unit has
   at most one process, and a unit with a process has no timer. *)
THEOREM UnitsStayBehind == Spec => []UnitsBehindStore
<1>1. Safe => UnitsBehindStore
  BY DEF Safe
<1> QED BY <1>1, AlwaysSafe, PTL

(* A runner past its claim finds its job running as long as the generation is its own: no
   other actor moves the job away under it without bumping the generation. *)
THEOREM ClaimStaysCurrent == Spec => []ClaimIsCurrent
<1>1. Safe => ClaimIsCurrent
  BY DEF Safe
<1> QED BY <1>1, AlwaysSafe, PTL

(* A unit that appears carries a generation its job never had before. *)
THEOREM UnitsAreFresh == Spec => FreshGeneration
<1>1. Safe /\ Safe' /\ [Next]_vars =>
        [\A u \in (timers' \cup {UnitOf(r) : r \in runners'})
                  \ (timers \cup {UnitOf(r) : r \in runners}) :
           u[2] > jobs[u[1]].gen]_vars
  BY NextEffects, FreshFollows DEF Safe
<1> QED BY <1>1, AlwaysSafe, PTL DEF Spec, FreshGeneration
=======================================================================
