# Auto Pilot Unlocked: a TLA+ model

The program runs a coding agent's prompt at a chosen time. A panel (QML) calls a short-lived
Python helper (`ap4a <verb>`); the helper keeps jobs in `jobs.json`, creates transient systemd user
timers, and each timer starts `ap4a run`, which claims its job, runs the agent and records the
outcome. Nothing runs permanently: what keeps the system consistent is one lock on the job store, a
generation number in every unit name, and a reconcile pass that repairs what a crash left behind.
This directory models that system, checks it with TLC and proves its main invariants with TLAPS.

## Inventory

| Part | Code | State | Operations | What makes it correct |
|---|---|---|---|---|
| job store | `jobs.py`, `consts.py` | `jobs.json`, `prompts/<id>.txt`, `runs/<id>-g<gen>.json` | load and save under the lock, status changes, prune | no prompt left behind, none lost while a job needs it; records belong to past generations |
| status policy | `trigger.py`, `consts.py` | none | prefire, defer_verdict, postrun | the caps bound every kind of retry |
| unit manager | `systemd.py` | timers and services of the user manager | arm, stop, list | a unit name is never reused |
| runner | `runner.py`, `supervise.py` | one process per fired unit, the session lock it holds | claim (two sections), run, act, leave | one agent per session; a late outcome never overwrites a newer arming |
| verbs | `cli_core.py`, `main.py` | what a verb carries from one section to the next | create, update, delete, arm, run-now, disarm, cancel-all, reschedule, swap, shift | what runs is what the user confirmed |
| reconciler | `reconcile.py` | none | one pass over all jobs and units | idempotent; every armed or running job is moved on |
| kill switch, identity | `identity.py`, `fsio.py` | one file, the shell's settings | read | nothing starts while it is set |
| panel service | `Service.qml` | request lanes, a mirror of the store | request, answer, refresh | every call is answered once, changes in order, reads never stale |
| helper call | `BoundedProcess.qml` | one process with its caps and timers | start, kill, settle | settles exactly once |
| supervision | `supervise.py` | pipes, deadline, ring, framer | run_agent | ends for every agent; bounded memory |
| state files | `fsio.py` | one folder, its files and locks | lock, read_bytes, write_atomic | one whole value; no change lost, by another helper or by a power cut |
| gate | `paid.py` | none; reads the folders, settings and sign-ins of the agents | check_job in three phases, paid_defer | nothing that costs runs unasked; no folder's code runs; the preview says what arming will |
| model cache | `models.py` | `models-opencode.json` | detect, cached_billing | an old answer is never taken for a new one |
| classification | `classify.py` | what one stream left behind | feed_line, classify | a run that ended well, or was stopped, is never sent again |
| fire times | `trigger.py`, `usage.py`, `limits_history.py` | the job's counters and basis, recorded resets | compute_fire_at, prefire, defer_verdict, postrun | no start before a reset the job waits for |
| scans | `sessions.py`, `finder.py`, `folders.py` | none | read-only | (not modelled) |
| panel views | `Panel.qml`, `components/*` | drafts, selections | drawing, input | (not modelled) |

The parts meet in three places. **The lock:** verbs, runners and passes change `jobs.json` only in a
section under it. **The units:** a section creates timers before it releases the lock, and stops old
units after. **The run record:** a runner writes it before it saves, so a pass can finish what a dead
runner began. The hard behaviours follow: verbs and claims probe *between* two sections and work from
what the first one read; stops are sent when somebody else may have armed the job again; a process
can die between any two of its durable writes; a systemd call fails or times out having worked.

## Modules

| Module | Models | Variables |
|---|---|---|
| `Policy` | the status vocabulary and the decisions of `trigger.py` | none |
| `JobStore` | job list, prompts, records, retention, time, kill switch | `jobs prompts records blocked` (`budget launches confirmed` are bounds and history) |
| `Units` | timers, services, stops, deaths of a runner | `timers runners stopping` |
| `Runner` | `cmd_run` | (those of `Units`) |
| `Verbs` | the verbs | `clients` |
| `Reconciler` | the pass | none |
| `AutoPilot` | all of it together, `Spec`, `FairSpec` and the properties | |
| `MCAutoPilot` | values of the constants for TLC | |
| `AutoPilotSafety`, `AutoPilotJobs` | theorems and their proofs | |
| `Supervise` | the loop of `run_agent` beside an agent and a descendant | `clock leader child pipes written stopEvent loop` |
| `Requests`, `MCRequests` | the request lanes of `Service.qml` | `version lane write joiners mirror asks budget` |
| `HelperCall`, `MCHelperCall` | one call of `BoundedProcess.qml` | the child, `running`, flags, timers, what was answered |
| `OneCall` | what the caller of a helper relies on; `HelperCall` implements it | `asked answers` |
| `SuperviseProofs`, `HelperCallProofs`, `RequestsProofs` | theorems and their proofs | |
| `Gate`, `MCGate` | `check_job` and the cache of OpenCode's models | `job now price catalogue cache detects stage gate` (`changes` is a bound) |
| `Outcome` | `feed_line` and `classify`: the streams an agent can write and what a run is taken for | none |
| `Firing` | the decisions of `trigger.py` and `paid_defer`, with their times | none |
| `Attempts`, `MCAttempts` | one job over all its deferrals and retries, on top of `Outcome` and `Firing` | `job state now seen asked`, history `awaited over` |
| `StateFile`, `MCStateFile` | `jobs.json` and its lock, system call by system call | `pc lock dir disk temps holds synced fd got`, history `saved`, bound `cuts` |
| `AtomicStore` | one value that is taken, changed and survives a power cut; `StateFile` implements it | `value unsettled took` |
| `StateFileProofs`, `GateProofs`, `AttemptsProofs` | theorems and their proofs | |

How the model corresponds to the code:

- **A section under the jobs lock is one action.** The lock excludes other sections and dies with its
  holder. Every prefix of a section's durable writes that differs from doing nothing has an action
  of its own (`ClosesPromptOnly`, `ActCut`, `ReconcileCut`, the fault branches of `Create`, `Update`,
  `Delete`).
- **A verb or claim with two sections is two actions**, and what it carries over is state: `clients`
  for arm, update and cancel-all; the phase of the runner for a claim (`gate`).
- **A pass is one step per job.** It holds the lock throughout, but no visit reads another job, and
  the one thing that moves meanwhile, a timer that elapses, is still seen live (`list_units` lists
  timers before services). So any interleaving of per-job steps has the effect of some pass.
- **Stops are sent later** (`stopping`), as the code does after it releases the lock; a stop can be lost.
- **Time** is how a fire time stands to now (early, due, late) and how long a job has been left alone
  (new, day, month): the only comparisons the code makes that change what it does.
- **The digest** is the command and the trigger; the prompt file and `promptSha256` are the command it
  holds.
- **The loop of `run_agent` is two actions**, `Checks` (everything up to select, each check a function on
  the variables of the loop) and `Reads` or `Poll`; the agent, its descendant and the user move between
  them. The agent's output is lines that are ordinary or stop the run. `Runner` takes from this model that
  an agent phase ends.
- **A callback of QML is one action.** JavaScript runs to its end, so what can interleave is the order in
  which signals, timers and `Qt.callLater` turns come; these are the actions of `HelperCall` and
  `Requests`. `Requests` takes from `HelperCall` that every call is answered once: a helper there reads
  or changes the store at some moment and answers later, or fails.
- **The scheduler's choices are other modules' results.** In `Runner` and `Verbs` a gate's answer, an
  outcome and a fire time are nondeterministic; `Gate`, `Outcome` and `Firing` say which one it is. A
  section under the lock and a write of the store are one action there; `StateFile` shows that they may be.
- **A check meets a finding** (`Gate`): the machine as one check sees it. The folders above the working
  folder are a tree of at most `Depth` levels with the home folder, the repository and a `.git` that is
  none; of all trees only what a check can tell apart is kept (`Places`). Parsing a settings file or the
  output of a probe is abstracted to its result, an unreadable one included. Two checks may meet two
  findings: the machine may change in between, except for what is state, the price of the model and its
  copies. A check itself is taken as instantaneous.
- **A stream is a set of traces** (`Outcome`): each line of an agent becomes one of the changes `feed_line`
  can make of what was kept; a text is the signature a pattern finds in it. `Heard` is the set of all
  streams of up to `MaxLines` lines. The rules of `classify` are lists tried in order, as in the code.
- **A decision meets a reading** (`Attempts`): no usage record, a stale one or a fresh one, with any
  windows the agent's records have. Readings of two decisions need not agree, as the numbers of a provider
  need not.
- **A file is named by the call that wrote it** (`StateFile`), since each write makes a new one, and holds
  the set of changes made to it. A file that was not synced is not whole after a power cut, and the name
  may be on any file it was on since the folder was last synced.
- swap and shift are `Reschedule` of each job; `runSessionId` and `effective_session` are the field
  `session`.

## Runs

In the runs of the scheduler (`MCAutoPilot`) a cfg bounds user verbs (`Ops`), environment faults
(`Faults`: deaths, failed calls, reboots) and kill-switch flips (`Toggles`). Deadlock is checked in `Gate`;
elsewhere it is not, because the system rests once its bounds are spent: jobs are closed, the clock of
`Attempts` ends, the calls of `StateFile` have returned, everybody in the panel has an answer.

| Run | Question | Bounds | Result |
|---|---|---|---|
| `Lifecycle` | do units, generations, records, sessions and counters agree with the store, whatever dies? | 1 job that resumes a session, 2 verbs of arm, disarm, run-now and reschedule, 1 fault, one retry of a limited run | holds |
| `Edits` | does anything but the confirmed command run, and does the run at work keep its session? | 2 clients, 2 commands, 3 verbs of arm, update and disarm, 1 flip | never; yes |
| `Progress` | does an armed, paused or running job always move on, and does every orphaned prompt go? | 2 clients and 2 verbs of arm, update, delete, reschedule and cancel-all; or 1 verb, 1 fault, 2 flips; fairness | yes |
| `Supervise` | does `run_agent` return in time, for the right reason, with the output, leaving nothing? | deadline 4 polls, graces 1 and 2, 2 lines, 1 descendant | yes |
| `HelperCall` | is a helper call answered once, in time, with a complete answer? | deadline 3 s, 3 chunks a stream, caps 2 and 1 | yes |
| `Requests` | is a read or a change lost, repeated, put in the wrong order, stale, or never shown? | three crowds: 2 readers and a reconcile; 4 changes; 3 changes with a failure; lanes of 1, a queue of 2 | no |
| `Gate` | does a job that may not spend run on what costs, does a folder's code run, does the preview promise what arming refuses? | every agent, level and choice of paid usage; 5 folders, a walk of 3 at most; 2 detections in flight, 2 changes of price or catalogue, clock 2, cache age 1 | no |
| `Attempts` | is a finished or stopped run sent again, or a job started before a reset it waits for? | 9 jobs, one for each way limits are read, bound to a reset or not; streams of 3 lines; resets 1 or 3 ahead; one retry of each kind; clock 5 | no |
| `StateFile` | is the store ever a part, an old value or without a change that was saved? | 3 changes (symmetric), 1 read without the lock, any failures and deaths, 1 power cut | no |
| `PromptRace` | can an armed job lack its prompt? | | found: yes |
| `KillSwitchGap` | can a run start while the kill switch is set? | | found: yes |
| `LostRetryCount` | can a job run more often than its caps allow? | | found: yes |

Why these bounds are enough for the questions: generations only grow, so an error needs one old unit and
one new one (two verbs, or a verb and a retry); a repair is started by one fault; two flips set the
switch and remove it; caps act alike, so one counter with cap 1 shows both a retry and its exhaustion.
The late end of an old run meets a new one in `Edits`, which has the three verbs that takes (arm, disarm,
arm) and a run that creates its session; that it makes no difference how many jobs share a session is the
theorem `SessionStaysKept`. The two verbs of `Progress` are those it takes to stop a timer armed
meanwhile, an arm and a cancel-all, with a client for each; a behaviour has them or the faults, not both
(`MCVerbsOrFaults`). In `Supervise` the deadline is longer than each grace and leaves room for an exit, a
drain and a late stopping line before it. In `Requests` every lane is small enough to be full, which
takes sixteen requests in the code: the limits are constants that are only compared with. In `Gate` five
folders are the fewest in which Cursor's marker counts three names below `/` and the home folder lies
above the run; a stale answer needs one detection that is overtaken by a change of the price, a second
shows that a later one does not heal it. A walk of three folders stands for the 64 of `_WALK_MAX`, so
that some repositories are deeper. The price is read by the jobs that name a Zen model and by those with
OpenCode's default model, which may be one; it moves for such jobs that may not spend (Zen at Plan and
Full access, the default at Full access), since the cache depends neither on the level nor on the choice
and `NeverSpends` says nothing of a job that may. In `Attempts` two resets at different distances tell
the soonest from the latest; a window of three keeps one reset inside and one outside of it; the clock
leaves time for a deferral, a retry and the start after it. Three lines are a header or an init line, a
line that reads like something else, and the end of the turn. In `StateFile` two changes make a lost
update and the third one a file that is renamed over while open.

What the three disagreements show:

- **PromptRace.** `_arm_verb` says its digest check "proves the job did not change", but
  `promptAvailable` is not in the digest: a pass that prunes a day-old prompt during the probes leaves
  an armed job without one. It ends as `prompt_missing` when it fires.
- **KillSwitchGap.** The README says that while the file exists no job fires. A claim checks it in its
  first section only, up to thirty seconds before it starts the agent.
- **LostRetryCount.** `apply_record` pauses the job before it applies the counter of the dead runner's
  record, so once the switch is gone the job runs again with a retry uncounted.

Two smaller things the panel models show, stated as the code has them: a read that runs once more does
not ask whether a callback of its first answer has taken its place, so `LanesBounded` allows one read
more than `_readInflightMax` (Service.qml:870 says at most sixteen run at once); and `reconcileNow` joins
a reconcile that has already begun, so a joiner's answer may be of a pass older than its call, which is
why `ReadsFresh` speaks of reads only. When a list fails or is refused after a change, the panel shows the
change at the next refresh: `ChangesShown` names that case.

`StopsOnlyStale` is a property of `Lifecycle`, which has no cancel-all: cancel-all lists units after it
released the lock, so it may stop a timer armed meanwhile. `Progress` reaches that, with an arm between
the two sections of a cancel-all, and `ArmedResolves` shows there that a later pass repairs it.

How far the properties of the gate and of the attempts reach:

- **NeverSpends** rests on an answer at most `CACHE_TTL_S` old: a Zen model that became paid since is still
  run, and caught by its price only at the next answer. An OpenCode that does not answer the probe, and a
  folder with its own model settings, leave the class unknown, and unknown runs; the README's table says
  so for other providers. Both are written in the property (`Unsure`).
- **NoProjectCode** compares the walk of the gate with what the agents read (`AgentReadsUpTo`), the one
  part of `Gate` taken from comments, the docstrings of the preflights, as the agents are not in the
  repository: OpenCode and Codex read up to the root of the repository, or to `/` outside one; the gate
  looks up to `/`. Cursor and Gemini are not compared: what they read is described nowhere but as what
  the gate looks at. For both the model has the refusals and makes no claim about the walk. One thing to
  know of Cursor's: `_walk_to_git_root` gives up after `_WALK_MAX` folders and then returns the working
  folder alone, in the model as in the code, although paid.py:1048-1050 says that its files are refused
  anywhere up to the git root.
- **PreviewAgrees** is asked while the job is a draft, where the preview is shown. The state records the
  gate of a run that was let through; a refused one starts nothing.
- **WaitsForReset** speaks of the resets a decision took into account. Two it does not: a pre-fire check
  that finds the session window used up re-arms for it before it looks at the weekly ones, which the next
  check does; and a record that is stale holds nothing back (README, "When a job cannot run right away").
  The user may move a waiting job with run-now, reschedule, swap or shift (`RunNow`, `Reschedule`): the next
  attempt is then at the time asked for, and from its decision on the property counts again. The run meets
  no record or a fresh one (`Conditions`): a stale one adds nothing, as a decision takes its windows like
  a fresh one's or ignores it like a missing one. The theorem covers both.
- A read of `jobs.json` without the lock that meets a rename between its open and its fstat is refused:
  the file it has open has no link left. `CheckRefused` is that end; `OneValue` shows it is never a wrong
  value instead.

## Fairness

`FairSpec` asks that timers elapse and runners move (the user manager does both; `run_agent` ends every
agent at its deadline), that a pass visits every job again and again (the panel's five-minute timer, and
the end of every run), and that fire times come. No verb, fault or flip is fair. Passes repeat only
while the panel's shell is running; without it nothing repairs a lost timer.

In `Supervise` the loop runs, time passes, and the kernel ends within a poll what it was told to KILL;
nothing is asked of the agent. In `HelperCall` the event loop runs and timers fire; nothing is asked of
the helper, KILL included. In `Requests` every helper call ends, which `HelperCall` shows, and every
queued turn comes. Asking is never fair. `Gate`, `Attempts` and `StateFile` state safety alone and need
no fairness.

## Proofs

For every number of jobs, clients, commands, sessions, any caps and any budget
(`AutoPilotSafety`):

- `TypeCorrect`: `Spec => []TypeOK`.
- `UnitsStayBehind`: no unit is of a generation its job has not reached, no unit has two processes.
- `ClaimStaysCurrent`: a runner past its claim whose generation is current finds its job running.
- `UnitsAreFresh`: a unit is created only under a generation above the job's last.

None of the three is inductive alone: that a new unit is fresh needs all units behind the store, that a
claim is current needs one process per unit and fresh units. The inductive invariant `Safe` is the type
invariant, `UnitsBehindStore`, `ClaimIsCurrent` and `SessionExclusive`, that no session has two runners.
Its step is proved in two layers. `Effects` says what *any* step does to the parts of the state that
matter: generations never shrink, timers and runners appear only under a fresh generation or by a timer
elapsing, a runner enters the agent phase only when its job becomes running, a job that runs is left
alone unless its generation grows or its runner ends it, a session is taken only when no other runner has
it. Each of the some fifty actions is shown to satisfy `Effects` (`NextEffects`); that `Effects`
preserves `Safe` is then independent of the actions. The assumptions are `CapAssumption` and
`StoreAssumption`, which every run evaluates.

What happens to a job over all of this, with the same constants and assumptions (`AutoPilotJobs`):

- `CapsHold`: no counter passes its cap, whoever counts the retry.
- `ArmedIsUnrecorded`: no run record is of the generation of a job that waits to run.
- `RunsWhatWasConfirmed`: what waits, runs or resumes is the command the user armed last.
- `NothingReopens`: a closed job is never reopened by a late result, record or pass.
- `PromptsAreErased`: the save that closes a job finds its prompt erased.
- `PassIsIdempotent`: a second visit of a pass leaves a job as the first did.
- `SessionStaysKept`: the run at work for its job holds, alone, the session the job's next run resumes.
- `LaunchesArePaid`: `Spec /\ []~blocked => []LaunchesCounted`, every launch but the one under way is paid
  for by a retry counter.
- `StopsAreStale`: without cancel-all (`Spec /\ [][\A p \in Clients : ~CancelStops(p)]_vars`), no unit that
  waits to be stopped is one a job relies on.

The two hypotheses are those of the run `Lifecycle`, which has no switch and no cancel-all, and both are
needed: under the kill switch the pass that finds a record of a dead runner pauses its job and does not
count the retry (the finding of `LostRetryCount`), and cancel-all stops the units systemd lists after it
left the lock. The invariant is `Orderly`: `Safe`, `RecordsHold`, `RetriesWithinCap`,
`ConfirmedCommand` and `HoldsSession`, that a claim of the current generation holds its job's session.
`RecordsHold` is what the caps need: a retry that stands in a record and not yet in
the store is still one the cap allows, and no record is of the generation of an armed job. As before, the
actions are looked at once: `Moves` says in ten kinds of change what any step may do to a job (start it,
end it, count a retry, arm it anew, ...), `RecordsMove` who writes a record of which generation,
`StopsMove` which units come to wait for a stop; the theorems follow from these.

For every deadline, every positive grace and any output of the agent (`SuperviseProofs`):

- `StopLineIsReported`: a stopping line that was read is the reason the run ends with.
- `TheFirstReasonStands`: a reason to stop is never replaced.
- `KillComesAfterGrace`: no KILL before TERM and its grace.
- `ReturnsByDeadline`: `Spec => []ReturnsInTime`, the loop is over two polls after the deadline and the
  grace of TERM.
- `NoOutputIsLost`: `Spec => []OutputRead`, all that an agent wrote before it ended by itself was read.

A turn of `run_agent` is five steps on one record, and each has a lemma that says what it keeps and what
it changes; `ChecksFacts` chains them. The invariant `Inv` adds to the type invariant and
`StopLineReported` that, until the loop is over, a reason stands only when TERM was sent and `termAt` is
set only with TERM (`Sound`): without it `begin_stop` could replace a reason, or a grace could count from
a TERM that was never sent. `KillComesAfterGrace` needs the graces to be positive (`SuperviseAssumption`,
evaluated by the run `Supervise`): with a grace of zero one turn would send TERM and KILL. After the loop
is over `Sound` is given up, since the last stopping line is a reason without TERM. The two last
theorems have the invariant `Pace`: a bound on the clock for every phase a run that goes on is in
(`Paced`: TERM by the deadline, KILL by its grace, the exit noticed one poll later, the last reads one
poll after that), that a pipe is given up only when it is empty and nobody can write to it (`GivenUp`),
and that the reads after an exit was noticed leave nothing of the agent's (`ReadToTheEnd`).

For every deadline and all caps (`HelperCallProofs`), `AnsweredAtMostOnce`: a helper call starts in an
initial state of `OneCall`, and every step asks, answers for the first time, or is unseen by the caller.
The invariant `Once` says that a call has one answer when it has settled and none before. That the answer
comes at all is liveness, and stays with the run `HelperCall`. Two theorems say when it can come and what
it holds:

- `CallsSettleInTime`: `Spec => []SettlesInTime`.
- `AnswersAreComplete`: `Spec => []CompleteAnswer`, a text taken for a success is all the helper wrote.

Their invariant `CallInv` says that until a call settles one of its timers runs, and that the age each
falls due at is known (`Awaited`): the deadline, the KILL one grace later, the wait after the KILL, which
an overflow restarts once at most. `Traced` relates the flags to the child and to the bytes: whoever
waits after a KILL has no exit code to give, and a call that did not overflow counted every chunk it took.

For any number of calls and of power cuts (`StateFileProofs`; assumption: changes and reads are distinct):

- `SavesAreKept`: `Spec => []SavesStay`, a change that returned with its folder synced stays in the file.
- `OneValueHolds`: `Spec => OneValue`, the system calls implement `AtomicStore`.

`SavesStay` is not inductive: a change could be made to a store read before another change. The inductive
invariant `IInv` adds that only the holder of the lock is between its locking and its return
(`HolderAlone`), that a call's file is nobody's until it renames it, which makes a file that was opened
one that never changes (`FilesAreNew`), that the holder works from the file that stands
(`HolderIsCurrent`), and that each file the name may be on after a power cut is whole and has every change
that stays (`DiskIsWhole`). The refinement maps the value to what `jobs.json` holds, the values not yet
settled to what the files on `disk` hold, and what a call has taken to the file it has open or what it
read from it. A rename is `Change`, the sync of the folder is `SettleFor`, a check, a load and a pruned
temporary file are unseen. It is an implication of specifications without fairness, so it is proved whole.

For any jobs, any depth of folders, any age of the caches and number of detections (`GateProofs`;
assumption `GateAssumption`: agents are offered at the level, and only OpenCode jobs name a model):

- `NothingIsSpent`: `Spec => []NeverSpends`.
- `NoFolderCodeRuns`: `Spec => []NoProjectCode`, for OpenCode and Codex at every level.
- `PreviewsAreKept`: `Spec => []PreviewAgrees`, what the preview shows as final is what arming says.

The invariant `GInv` says what an answer about the price is worth: whoever found a model free, or could
not tell, asked before the model was sold (`Answer`, of the cache and of every detection under way). A
detection that reads a paid price answers `zen_paid`; a later change of the price is younger than every
answer. `BillingRefuses` turns this into the gate's refusal. The other half is about pure operators:
`SignInRefusesWhatPays`, case by case of the agents; `WalksReachFarEnough`, the walk of the gate
against the agent's; and `PreflightsRefuseCode`. `PreviewsAreKept` needs no invariant: the checks of the two phases differ only
where the preview did not ask an agent (`UnaskedIsPending`, `UnaskedBilling`), and there the preview is
pending, or refuses for a reason that stands before the question (`PreviewTells`).

For any set of jobs, margins, leads, horizons, graces, backoffs and caps, any distance of the resets, any
usage record and streams of any length (`AttemptsProofs`; assumptions `OutcomeAssumption`,
`FiringAssumption`, `AttemptsAssumption`: the resets named are a finite set of times ahead, only OpenCode
jobs have a class of billing, and a job bound to a reset may lose its bond):

- `StartsAfterResets`: `Spec => WaitsForReset`.
- `EndsOnce`: `Spec => NeverSentAgain`.

The invariant `AttemptsInv` says that an armed job fires no earlier than the latest reset it was known to
have to wait for and that this reset has passed once it runs (`Waiting`), and that what is over stays done
or failed (`Ended`). Its first half rests on a lemma for each decision of `trigger.py` and `paid_defer`,
that the time it returns is after every reset it looked at: `PastIs` (the push past the blockers, in
whatever order they end), `FireAtIs`, `PrefireIs`, `PaidDeferIs`, `DeferVerdictIs`, `LimitRetryIs`,
`PostLimitIs`. Its second half is about classification: `ClassifyIs` follows the order of the rules to the
answer of a run that ended well or was stopped; `HeardHonest`, that no guard names a signal of the runner
as what it stopped, goes through the lines of the six agents for streams of any length; and `OverIsFinal`
concludes that `postrun` makes done or failed of both. `Heard` is a set built by recursion; the proof
gives its equation and an induction by hand, with the least length at which either would fail.

For any reads, any number of askers with any changes, any limits of the lanes and any crowds
(`RequestsProofs`; assumption `RequestsAssumption`: a list is a read, askers ask for a read or a change):

- `CallbacksHeldOnce`: `Spec => []HeldOnce`.
- `ReadsAreFresh`: `Spec => []ReadsFresh`.
- `LanesAreBounded`: `Spec => []LanesBounded`.
- `ArmsNeverWait`: `Spec => []ArmFollowsSave`.
- `ChangesAreShown`: `Spec => []ChangesShown`.

The invariant `RequestsInv` says where a callback can be: in a read under way, in one to run again, in the
wait, among those told later (`Readers`), or in the change at the helper, the queue, a refusal or a
joined reconcile (`Writers`): in one place while it waits, in none otherwise. `Fresh` adds to `ReadsFresh`
that a read that has looked at the store holds only askers who asked before it looked. `Shown` adds to
`ChangesShown` that a list that looked before a change is not the last one (`Covers`). A request of the
panel does one of six things to a lane (`RequestReadIs`), and `Gains` says of any of them that it gives
its askers a place and leaves everybody else one. Taking up the reads that wait, which the model writes as a
recursive function on the length of the wait, is `Redistributes`: its steps are followed by the
least number of them at which the claim would fail (`DrainsOn`, `FilledOn`). A read that ends is its end,
a callback that may ask for a read, and the read after it or such a drain (`ReadEndsKeeps`). A change
that ends (`ChangeEndsStep`) tells its asker and those that joined it, and its place goes to nobody or, after
a save, to the arm.

What the proofs found in the model: the value of a timer that is off was one a long deadline could reach
(`Off` is now a number no timer counts down to), and two arms of the `CASE` in `LimitRetryAt` overlapped,
which left the choice open (a limit with a known reset and a suspected one; the known reset comes first,
as in `_limit_retry_at`). Neither showed in a run, where the instance and the order of evaluation hid it.

Only model-checked: the liveness properties (jobs that come to rest, verbs that return, a run that
returns with nothing left of its group, a helper call that is answered, a request that is), as the
provers have no fairness.

## Not modelled

- Field validation, quarantine of a corrupt store, settings, text, notifications.
- The counts of retention (runs per job and in total, jobs in all): only its ages.
- The change of an agent's link found by `_arm_checks` (it changes the digest and refuses).
- Of a schedule, its text, dates and time zones; of the gate and of classification, how files, probe
  output and lines are parsed; sliding windows, which no rule waits for.
- Which entries the limits history drops when it is full, and the Cursor record kept for one poll.
- Read-only verbs and scans; the views of the panel.
- Owner and mode checks of state files, symbolic links, append-only logs.
- In `run_agent`: writing the prompt, a spawn that fails, lines as bytes (the framer and the ring), a
  last line without its end.
- The end of the panel itself in the middle of a call (`Component.onDestruction` kills the helper).

## Plan

1. Done: the scheduler core (`Policy` to `AutoPilot`), its runs, type and unit theorems; the supervision
   loop with its theorems; the helper call as an implementation of `OneCall`, its safety part proved; the
   request lanes; the state file as an implementation of `AtomicStore`, proved; the gate with its theorems;
   the attempts of a job over classification and fire times.
2. Done: proofs of the safety and action properties of the scheduler, the supervision loop, the helper
   call, the request lanes, the gate and the attempts.
3. The framer and the ring against a reference split; `bounded.py`, the second supervision loop.
4. The counts of retention, with a record that is evicted before a pass has applied it.
