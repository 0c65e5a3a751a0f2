----------------------------- MODULE Gate -----------------------------
(***************************************************************************)
(* paid.py and the models cache of models.py: what stands between a job and *)
(* its run.  check_job is asked when a job is shown, when it is armed and   *)
(* right before it runs; the machine may be another each time.  A check     *)
(* meets one Finding of its agent: the folders above the working one, the   *)
(* settings and the sign-in.  The price of a Zen model is kept apart: it is *)
(* the one fact the gate may take from an earlier answer.                   *)
(***************************************************************************)
EXTENDS Integers, FiniteSets, FiniteSetsExt, Sequences

CONSTANTS Jobs,               \* the jobs asked about
          Depth,              \* folders from the working folder, 1, up to /
          WalkMax,            \* _WALK_MAX
          Ttl,                \* CACHE_TTL_S
          Fresh,              \* _CATALOGUE_FRESH_S
          MaxDetects,         \* bound: detections of the models in flight
          MaxTime,            \* bound: the clock
          MaxChanges          \* bound: changes of the price and of the catalogue

None == "none"
Agents == {"claude", "codex", "gemini", "opencode", "cursor", "pi"}

(* edition.LEVELS: the agents of each level. *)
Offered(level) ==
  CASE level = "unattended" -> Agents \ {"cursor", "pi"}
    [] level = "auto"       -> Agents \ {"cursor"}
    [] OTHER                -> Agents

(* The draft of a job; model: the provider of the model an OpenCode job names, "default" for none. *)
JobKinds ==
  [agent : Agents, level : {"plan", "unattended", "auto", "full"}, allowPaid : BOOLEAN,
   model : {"zen", "go", "anthropic", "other", "default", None}]

ASSUME GateAssumption ==
  /\ Jobs \subseteq JobKinds
  /\ \A j \in Jobs : j.agent \in Offered(j.level) /\ (j.model = None <=> j.agent # "opencode")
  /\ Depth \in Nat \ {0} /\ WalkMax \in Nat \ {0} /\ Ttl \in Nat /\ Fresh \in Nat
  /\ MaxTime \in Nat /\ MaxDetects \in Nat /\ MaxChanges \in Nat

-----------------------------------------------------------------------------
(* The folders above a run.  home and repo: where the home folder and the repository are, 0 for
   not on this path; stray: a .git that git does not take for a repository; code: folders whose
   files would run code or widen the run; marked: the trust marker of Cursor, a harmless .env. *)
Folders == 1..Depth
Trees == [home : 0..Depth, repo : 0..Depth, stray : 0..Depth, code : SUBSET Folders, marked : SUBSET Folders]

UpTo(top) == 1..top
Gits(t) == {t.repo, t.stray} \ {0}
(* Mutant: the walk of OpenCode and Codex ends where Cursor's does. *)
WalkToAnyGit(t) == IF Gits(t) = {} THEN Folders ELSE UpTo(Min(Gits(t)))
WalkToRoot(t) == Folders

(* A .git among the first WalkMax folders ends the walk; without one it is the working folder. *)
WalkToGitRoot(t) ==
  LET near == {g \in Gits(t) : g <= WalkMax} IN IF near = {} THEN {1} ELSE UpTo(Min(near))

(* opencode_preflight, codex_preflight *)
CodeAbove(t) == \E f \in WalkToRoot(t) \ {t.home} : f \in t.code

(* gemini_preflight: the settings of the working folder, then the first .env found, whose harm is
   code and whose harmlessness is marked; the home folder's ends the search. *)
FirstEnv(t) == LET found == t.code \cup t.marked IN IF found = {} THEN 0 ELSE Min(found)
EnvAbove(t) == FirstEnv(t) # 0 /\ FirstEnv(t) # t.home /\ FirstEnv(t) \in t.code

(* cursor_preflight *)
RulesAbove(t) == \E f \in WalkToGitRoot(t) \ {t.home} : f \in t.code

(* cursor_trusted: a folder at place f of the path has Depth - f names before it. *)
CursorTrusts(t) ==
  \/ 1 \in t.marked
  \/ \E f \in 2..(t.home - 1) : Depth - f >= 3 /\ f \in t.marked

(* What OpenCode and Codex read, as their preflights describe it, whatever the gate's own walk
   does: up to the root of the repository, or to / outside one, whatever .git lies in between.
   The files of the home folder are the user's own. *)
AgentReadsUpTo(t) == UpTo(IF t.repo = 0 THEN Depth ELSE t.repo)
FolderReaders == {"opencode", "codex"}
ReadsFolderCode(agent, t) ==
  agent \in FolderReaders /\ \E f \in AgentReadsUpTo(t) \ {t.home} : f \in t.code

Refused(agent, t) ==
  CASE agent \in {"opencode", "codex"} -> CodeAbove(t)
    [] agent = "gemini"                -> EnvAbove(t)
    [] agent = "cursor"                -> RulesAbove(t)
    [] OTHER                           -> FALSE

Place == [refused : BOOLEAN, trusted : BOOLEAN, readsCode : BOOLEAN]
(* The few cases the checks of a folder tell apart. *)
Places ==
  [agent \in Agents |->
    {[refused |-> Refused(agent, t), trusted |-> agent = "cursor" => CursorTrusts(t),
      readsCode |-> ReadsFolderCode(agent, t)] : t \in Trees}]

-----------------------------------------------------------------------------
(* The sign-ins.  clear: the probe finished and its answer was understood; pays: the sign-in in
   use is not the user's plan. *)
(* gemini_settings_paths in order: system defaults, user, folder, system. *)
GeminiFiles == 1..4
GeminiTypes == [GeminiFiles -> {None, "google", "key", "unreadable"}]
Named(types) == {i \in GeminiFiles : types[i] # None}
(* gemini_selected_type, gemini_verdict *)
GeminiCode(types) ==
  IF \E i \in Named(types) : types[i] # "google" THEN "paid_blocked"
  ELSE IF Named(types) = {} THEN "not_logged_in" ELSE None
(* Gemini CLI: the last file that names a type, the folder's only when it is trusted. *)
GeminiPays(types) ==
  \/ Named(types) = {}
  \/ \E inForce \in {Named(types), Named(types) \ {3}} :
       inForce # {} /\ types[Max(inForce)] # "google"

(* codex_login_kind; pi_auth_parse with pi_verdict: a ready sign-in is a plan or is paid; OpenCode:
   the provider of the default model in its global settings. *)
Kinds(j) ==
  CASE j.agent = "codex"    -> {"chatgpt", "other login", "not logged in"}
    [] j.agent = "pi"       -> {"plan", "key", "claude", "not ready", "invalid", "no provider"}
    [] j.model = "default"  -> {"zen", "anthropic", None}
    [] OTHER                -> {None}
(* Whether the CLI may fail to answer the probe. *)
Probes(j) == IF j.agent \in {"codex", "pi"} \/ j.model \in {"zen", "default"} THEN BOOLEAN ELSE {TRUE}
Costly(kind) == kind \in {"other login", "key", "claude"}
SignIns(j) ==
  IF j.agent = "gemini"
  THEN {[clear |-> TRUE, kind |-> None, code |-> GeminiCode(types), pays |-> GeminiPays(types)] :
          types \in GeminiTypes}
  ELSE {[clear |-> c, kind |-> k, code |-> None, pays |-> Costly(k)] : c \in Probes(j), k \in Kinds(j)}

Obstacles(j) ==
  CASE j.agent = "cursor" -> {"autorun", "network"}
    [] j.agent = "gemini" -> {"policy", "no sandbox", "folder settings"}
    [] j.agent = "codex"  -> {"unknown mcp"}
    [] j.agent = "claude" -> {"no auto mode"}
    [] OTHER -> (IF j.level = "auto" THEN {"no sandbox"} ELSE {})
                \cup (IF j.model = "default" THEN {"folder config"} ELSE {})
                \cup (IF j.model \in {"zen", "default"} THEN {"other version"} ELSE {})

Findings(j) == [place : Places[j.agent], sign : SignIns(j), obstacles : SUBSET Obstacles(j)]

-----------------------------------------------------------------------------
(* Cursor at Full access has nothing left to widen; gemini_policy_wanted, codex_mcp_off,
   claude_auto_level, sandbox_wanted *)
Guarded(j)       == j.agent = "cursor" /\ j.level # "full"
PolicyWanted(j)  == j.agent = "gemini" /\ j.level # "full"
McpMustBeOff(j)  == j.agent = "codex" /\ j.level \in {"plan", "unattended"}
AutoMode(j)      == j.agent = "claude" /\ j.level = "auto"
SandboxWanted(j) == j.agent \in {"opencode", "gemini", "pi"} /\ j.level = "auto"
(* opencode_hides_tools *)
HidesTools(j)    == j.agent = "opencode" /\ j.level \in {"plan", "unattended"}

(* The preflights of check_job in their order, of which an agent meets its own: the code of the
   first that refuses. *)
If(found, code, next) == IF found THEN code ELSE next
Sandbox(j, f) == If(SandboxWanted(j) /\ "no sandbox" \in f.obstacles, "sandbox_unavailable", None)
Preflights(j, f) ==
  CASE Guarded(j) ->
         If("autorun" \in f.obstacles, "cursor_autorun_config",
         If("network" \in f.obstacles, "cursor_network_config",
         If(f.place.refused, "cursor_project_rules",
         If(~f.place.trusted, "cursor_untrusted", None))))
    [] j.agent = "gemini" ->
         If(PolicyWanted(j) /\ "policy" \in f.obstacles, "gemini_policy",
         If("folder settings" \in f.obstacles \/ f.place.refused, "gemini_project_config", Sandbox(j, f)))
    [] j.agent = "opencode" -> If(f.place.refused, "opencode_plugin_code", Sandbox(j, f))
    [] j.agent = "codex" ->
         If(f.place.refused, "codex_project_config",
         If(McpMustBeOff(j) /\ "unknown mcp" \in f.obstacles, "codex_mcp_config", None))
    [] AutoMode(j) -> If("no auto mode" \in f.obstacles, "claude_auto_model", None)
    [] OTHER -> Sandbox(j, f)

CodexCode(j, phase, sign) ==
  IF ~sign.clear THEN IF phase = "preview" \/ j.allowPaid THEN None ELSE "not_logged_in"
  ELSE IF sign.kind = "not logged in" THEN "not_logged_in"
  ELSE IF ~j.allowPaid /\ sign.kind # "chatgpt" THEN "paid_blocked" ELSE None

PiCode(j, phase, sign) ==
  IF sign.kind = "no provider" THEN "pi_auth_invalid"
  ELSE IF ~sign.clear THEN IF phase = "preview" THEN None ELSE "pi_auth_invalid"
  ELSE CASE sign.kind = "not ready"                -> "not_logged_in"
         [] sign.kind = "invalid"                  -> "pi_auth_invalid"
         [] sign.kind = "key" /\ ~j.allowPaid      -> "paid_pi_key"
         [] sign.kind = "claude" /\ ~j.allowPaid   -> "paid_pi_claude"
         [] OTHER                                  -> None

SignInCode(j, phase, sign) ==
  CASE j.agent = "codex"                       -> CodexCode(j, phase, sign)
    [] j.agent = "pi"                          -> PiCode(j, phase, sign)
    [] j.agent = "gemini" /\ ~j.allowPaid      -> sign.code
    [] OTHER                                   -> None
Pending(j, phase, sign) == phase = "preview" /\ j.agent \in {"codex", "pi"} /\ ~sign.clear

-----------------------------------------------------------------------------
(* OpenCode: the price of one Zen model, where it is written down, and who looks. *)
VARIABLES job,        \* the job, as drafted
          now,        \* the clock, in steps of the cache's age
          price,      \* the model as OpenCode sells it, and since when
          catalogue,  \* ~/.cache/opencode/models.json: what it lists, its mtime
          cache,      \* models-opencode.json: fetchedAt and the class it holds, if any
          detects,    \* detections of the models in flight
          stage,      \* how far the job is
          gate,       \* what the gate that let the run through met
          changes     \* bound: changes of price and catalogue so far
vars == <<job, now, price, catalogue, cache, detects, stage, gate, changes>>

Listings == {"free", "paid", "deprecated", "gone"}

(* classify_opencode for a Zen model: live and listed are entries, "gone" for none. *)
ClassifyZen(live, listed, mtime, t) ==
  IF "paid" \in {live, listed} THEN "zen_paid"
  ELSE IF live = "free" /\ listed = "free" /\ t - mtime <= Fresh THEN "zen_free" ELSE "unknown"

(* _detect_opencode: a model that is deprecated or gone is left out of the result. *)
DetectedClass(t) ==
  IF price.live = "gone" \/ "deprecated" \in {price.live, catalogue.listed} THEN None
  ELSE ClassifyZen(price.live, catalogue.listed, catalogue.mtime, t)

(* cached_billing *)
CachedBilling(f, t) ==
  IF cache.at <= t /\ t - cache.at <= Ttl /\ "other version" \notin f.obstacles
  THEN cache.class ELSE None

Provider(f) ==
  IF job.model # "default" THEN job.model
  ELSE IF "folder config" \in f.obstacles THEN None ELSE f.sign.kind

(* Mutant: a preview that did not look says it is sure. *)
UnaskedButSure == [class |-> "unknown", pending |-> FALSE]
Unasked == [class |-> "unknown", pending |-> TRUE]
(* opencode_billing *)
Billing(phase, f) ==
  LET sure(class) == [class |-> class, pending |-> FALSE] IN
  IF Provider(f) = None THEN sure("unknown")
  ELSE IF Provider(f) # "zen" THEN sure(Provider(f))
  ELSE IF CachedBilling(f, now) # None THEN sure(CachedBilling(f, now))
  ELSE IF phase = "preview" THEN Unasked
  ELSE sure(ClassifyZen(IF f.sign.clear THEN price.live ELSE "gone",
                        catalogue.listed, catalogue.mtime, now))

BillingCode(class) ==
  CASE class = "zen_paid" /\ ~job.allowPaid         -> "paid_zen"
    [] class = "anthropic" /\ ~job.allowPaid        -> "paid_opencode_claude"
    [] class = "zen_free" /\ HidesTools(job)        -> "opencode_zen_tools"
    [] OTHER                                        -> None

(* check_job *)
Check(phase, f) ==
  LET open == Preflights(job, f)
      asked == SignInCode(job, phase, f.sign)
      billing == IF job.agent = "opencode" THEN Billing(phase, f) ELSE [class |-> None, pending |-> FALSE]
  IN [code    |-> IF open # None THEN open ELSE IF asked # None THEN asked ELSE BillingCode(billing.class),
      pending |-> billing.pending \/ (open = None /\ Pending(job, phase, f.sign)),
      billing |-> billing.class]

-----------------------------------------------------------------------------
NoGate == [at |-> 0, model |-> None, clear |-> TRUE, pays |-> FALSE, readsCode |-> FALSE]
Init ==
  /\ job \in Jobs
  /\ now = 0 /\ changes = 0
  /\ price \in [live : Listings, since : {0}]
  /\ catalogue \in [listed : Listings, mtime : {0}]
  /\ cache = [at |-> 0, class |-> None] /\ detects = {}
  /\ stage = "draft" /\ gate = NoGate

(* cmd_arm: a refused arming leaves the draft. *)
Arm ==
  /\ stage = "draft"
  /\ \E f \in Findings(job) : stage' = IF Check("arm", f).code = None THEN "armed" ELSE "draft"
  /\ UNCHANGED <<job, now, price, catalogue, cache, detects, gate, changes>>

(* runner._prefire_gate: a gate that cannot be evaluated refuses the run. *)
PrefireGate ==
  /\ stage = "armed"
  /\ \/ /\ stage' = "gated"
        /\ \E f \in Findings(job) :
             /\ Check("prefire", f).code = None
             /\ gate' = [at |-> now, model |-> Provider(f), clear |-> f.sign.clear,
                         pays |-> f.sign.pays, readsCode |-> f.place.readsCode]
     \/ stage' = "refused" /\ UNCHANGED gate
  /\ UNCHANGED <<job, now, price, catalogue, cache, detects, changes>>

Start ==
  /\ stage = "gated" /\ stage' = "ran"
  /\ UNCHANGED <<job, now, price, catalogue, cache, detects, gate, changes>>

(* models.detect for OpenCode takes the time, asks OpenCode, and saves what it heard; any number of
   panels may ask.  An incomplete answer is not saved; a save that fails is not reported.  Past its
   gate a run reads neither the cache nor the clock: only the price still moves. *)
Priced == job.model \in {"zen", "default"}
Watched == Priced /\ stage \in {"draft", "armed"}
DetectBegins ==
  /\ Watched /\ Cardinality(detects) < MaxDetects
  /\ detects' = detects \cup {[at |-> now, class |-> "asked"]}
  /\ UNCHANGED <<job, now, price, catalogue, cache, stage, gate, changes>>

(* Mutant: the detection is dated when it is saved. *)
DatedAtSave(d) == [at |-> now, class |-> d.class]
Dated(d) == d
DetectReads(d, complete) ==
  /\ d.class = "asked"
  /\ detects' = (detects \ {d}) \cup
       (IF complete THEN {[at |-> d.at, class |-> DetectedClass(d.at)]} ELSE {})
  /\ UNCHANGED <<job, now, price, catalogue, cache, stage, gate, changes>>

DetectSaves(d) ==
  /\ d.class # "asked"
  /\ detects' = detects \ {d}
  /\ cache' \in {cache, Dated(d)}
  /\ UNCHANGED <<job, now, price, catalogue, stage, gate, changes>>

PriceChanges ==
  /\ Priced /\ stage \notin {"ran", "refused"}
  /\ changes < MaxChanges /\ changes' = changes + 1
  /\ price' \in [live : Listings \ {price.live}, since : {now}]
  /\ UNCHANGED <<job, now, catalogue, cache, detects, stage, gate>>

(* OpenCode fetches its catalogue again. *)
CatalogueFetched ==
  /\ Watched /\ changes < MaxChanges /\ changes' = changes + 1
  /\ catalogue' = [listed |-> price.live, mtime |-> now]
  /\ UNCHANGED <<job, now, price, cache, detects, stage, gate>>

Tick ==
  /\ Watched /\ now < MaxTime /\ now' = now + 1
  /\ UNCHANGED <<job, price, catalogue, cache, detects, stage, gate, changes>>

Done == stage \in {"ran", "refused"} /\ UNCHANGED vars
Next ==
  \/ Arm \/ PrefireGate \/ Start \/ PriceChanges \/ CatalogueFetched \/ Tick \/ Done
  \/ DetectBegins \/ \E d \in detects : DetectSaves(d) \/ \E complete \in BOOLEAN : DetectReads(d, complete)
Spec == Init /\ [][Next]_vars

-----------------------------------------------------------------------------
(* A job that may not spend never runs on a sign-in or a model that costs: not on a model that was
   paid already when the last answer the gate could rest on, at most Ttl old, was asked for.  An
   OpenCode that does not answer and a folder with its own model settings leave it unknown, and
   unknown runs. *)
Unsure == ~gate.clear \/ gate.model = None
NeverSpends ==
  stage = "ran" /\ ~job.allowPaid =>
    /\ ~gate.pays
    /\ gate.model # "anthropic"
    /\ gate.model = "zen" /\ price.live = "paid" => Unsure \/ price.since >= gate.at - Ttl

(* OpenCode and Codex start at no level where a folder they read brings code or settings of its
   own: the walk of their preflights ends no earlier than theirs, wherever the repository, a stray
   .git and the home folder lie. *)
NoProjectCode ==
  stage = "ran" /\ job.agent \in FolderReaders => ~gate.readsCode

(* What the panel shows before arming is what arming says: a preview that is not pending, and one
   that refuses, has the code of the arming in the same state. *)
PreviewAgrees ==
  stage = "draft" =>
  \A f \in Findings(job) :
    LET shown == Check("preview", f) IN
    shown.code # None \/ ~shown.pending => shown.code = Check("arm", f).code
=============================================================================
