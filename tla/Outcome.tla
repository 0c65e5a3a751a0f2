---------------------------- MODULE Outcome ----------------------------
(***************************************************************************)
(* classify.py: what the lines of an agent leave behind, and what the       *)
(* runner takes the run for.  A stream holds what feed_line keeps; texts    *)
(* are the signatures its patterns find in them.  Times are left open: a    *)
(* limit either carries a reset or does not.                                *)
(***************************************************************************)
EXTENDS Integers, FiniteSets, FiniteSetsExt, Sequences

CONSTANT MaxLines             \* bound: lines of an agent that matter

ASSUME OutcomeAssumption == MaxLines \in Nat

None == "none"

(* A run as it starts.  billing: what kind of model OpenCode runs, as the gate's class and the name
   of the model tell: a free Zen model, one of Go, another Zen model ("zen": it costs, or its class is
   unknown), or none of Zen. *)
Starts ==
  [agent : {"claude", "codex", "gemini", "opencode", "cursor", "pi"},
   level : {"plan", "auto", "full"}, allowPaid : BOOLEAN,
   billing : {"zen_free", "go", "zen", None}]

NoRate == [rejected |-> FALSE, overage |-> FALSE, reset |-> FALSE]
(* new_stream_state.  init: None, or the permission mode reported; end: the agent's own account
   of the turn; calls: a tool of the wrong kind was used. *)
Silent ==
  [lines |-> FALSE, verdict |-> None, detail |-> None, init |-> None, rate |-> NoRate, error |-> None,
   texts |-> {}, end |-> None, failed |-> FALSE, calls |-> FALSE, content |-> FALSE, api |-> None]

(* _kill and the framer: the first answer that stops the agent stands. *)
Kill(s, detail, verdict) ==
  IF s.verdict = None THEN [s EXCEPT !.verdict = verdict, !.detail = detail] ELSE s
Says(s, sign) == [s EXCEPT !.texts = @ \cup ({sign} \ {None})]

-----------------------------------------------------------------------------
(* feed_line: the streams one more line can make of s. *)
ClaudeLimits == {"limit", "banner", "model_limit", "rate_limit_reached"}
ClaudeSigns == ClaudeLimits \cup {"no_conversation", "auth", "not_your_limit", "held"}
Modes == {"as_told", "default", "other"}

ClaudeInit(c, s) ==
  {Kill([s EXCEPT !.init = m], "api_key_source", "paid") : m \in IF c.allowPaid THEN {} ELSE Modes}
  \cup {[s EXCEPT !.init = "as_told"]}
  \cup {Kill([s EXCEPT !.init = m],
             IF m = "default" /\ c.level = "auto" THEN "auto_off" ELSE "init_mode", "boundary") :
          m \in Modes \ {"as_told"}}
  \cup (IF c.level = "plan" THEN {Kill([s EXCEPT !.init = "as_told"], "init_tools", "boundary")} ELSE {})

KeepRate(s, r) == IF r.rejected \/ ~s.rate.rejected THEN [s EXCEPT !.rate = r] ELSE s
ClaudeRate(c, s) ==
  {IF r.overage /\ ~c.allowPaid THEN Kill([s EXCEPT !.rate = r], "overage_blocked", "overage")
   ELSE KeepRate(s, r) : r \in [rejected : BOOLEAN, overage : BOOLEAN, reset : BOOLEAN]}

ClaudeAssistant(s) ==
  {[s EXCEPT !.error = e] : e \in {"auth", "overloaded"}}
  \cup {Says([s EXCEPT !.error = "rate_limit"], t) : t \in ClaudeSigns \cup {None}}
  \cup {IF s.init = None THEN Kill(s, "init_missing", "boundary") ELSE s}
ClaudeResult(s) ==
  {[s EXCEPT !.end = e] : e \in {"success", "max_turns", "budget", "429", "5xx"}}
  \cup {Says([s EXCEPT !.end = "error"], t) : t \in ClaudeSigns \cup {None}}

FeedClaude(c, s) == ClaudeInit(c, s) \cup ClaudeRate(c, s) \cup ClaudeAssistant(s) \cup ClaudeResult(s)

CodexSigns == {"no_rollout", "auth", "limit", "limit_until", "capacity", "untrusted"}
FeedCodex(s) ==
  {Says(s, t) : t \in CodexSigns}
  \cup {Says([s EXCEPT !.failed = TRUE], t) : t \in CodexSigns \cup {None}}
  \cup {[s EXCEPT !.end = "completed"]}

OpenCodeSigns == {"no_session", "auth", "limit"}
OpenCodeApi == {"free_limit", "go_limit", "go_limit_until", "rate_limit", "billing"}
FeedOpenCode(s) ==
  {Says([s EXCEPT !.failed = TRUE], t) : t \in OpenCodeSigns \cup {None}}
  \cup {[s EXCEPT !.failed = TRUE, !.api = a] : a \in OpenCodeApi}
  \cup {[s EXCEPT !.content = TRUE], [s EXCEPT !.content = TRUE, !.calls = TRUE]}

FeedCursor(s) ==
  {[s EXCEPT !.init = "login"], Kill([s EXCEPT !.init = "key"], "api_key_source", "boundary"),
   [s EXCEPT !.calls = TRUE], [s EXCEPT !.end = "success"], [s EXCEPT !.end = "error"]}

(* The first line is the session header; init: it was one. *)
PiErrors == {"limit", "limit_until", "extra_usage", "quota", "rate", None}
FeedPi(s) ==
  IF ~s.lines THEN {[s EXCEPT !.init = "header"], Kill(s, "no_header", "boundary")}
  ELSE {[s EXCEPT !.end = e, !.texts = {}] : e \in {"stop", "aborted"}}
       \cup {[s EXCEPT !.end = "error", !.texts = {t} \ {None}] : t \in PiErrors}
       \cup {Kill(s, "provider_mismatch", "boundary"), Kill(s, "tool_violation", "boundary"),
             [s EXCEPT !.failed = TRUE]}

GeminiSigns == {"no_session", "auth", "daily_quota", "quota_until", "retryable"}
FeedGemini(s) ==
  {[s EXCEPT !.end = "response"]}
  \cup {Says([s EXCEPT !.end = "response", !.failed = TRUE], t) : t \in GeminiSigns \cup {None}}
  \cup {Says([s EXCEPT !.failed = TRUE], t) : t \in GeminiSigns \cup {None}}

Lines(c, s) ==
  CASE c.agent = "claude"   -> FeedClaude(c, s)
    [] c.agent = "codex"    -> FeedCodex(s)
    [] c.agent = "opencode" -> FeedOpenCode(s)
    [] c.agent = "cursor"   -> FeedCursor(s)
    [] c.agent = "pi"       -> FeedPi(s)
    [] c.agent = "gemini"   -> FeedGemini(s)
Heard(c) ==
  LET upTo[n \in 0..MaxLines] ==
        IF n = 0 THEN {Silent}
        ELSE upTo[n - 1] \cup {[s EXCEPT !.lines = TRUE] : s \in UNION {Lines(c, t) : t \in upTo[n - 1]}}
  IN upTo[MaxLines]

-----------------------------------------------------------------------------
(* What supervise.run_agent returns beside the lines.  Lines that were written before the stop are
   still read after it, so the reason of the stop is the first one, not always the stream's. *)
Killers(c, s) ==
  {"deadline", "sigterm", s.verdict} \cup (IF c.agent = "opencode" THEN {"first_line"} ELSE {})
Exits(agent) == {"0", "1", "term"} \cup (IF agent = "gemini" THEN {"41", "42", "53", "55"} ELSE {})
Stderr(agent) ==
  CASE agent = "claude"   -> {None, "auth", "limit", "held"}
    [] agent = "codex"    -> {None, "no_rollout", "untrusted"}
    [] agent = "cursor"   -> {None, "untrusted", "auth", "limit", "limit_until", "sandbox", "transient", "busy"}
    [] agent = "pi"       -> {None, "auth"}
    [] agent = "gemini"   -> {None, "policy_error", "auth"}
    [] agent = "opencode" -> {None, "no_session", "auth", "limit"}
Runs(c, s) ==
  [spawned : {TRUE}, killed : Killers(c, s), rc : Exits(c.agent), stderr : Stderr(c.agent)]
NotSpawned == [spawned |-> FALSE, killed |-> None, rc |-> "1", stderr |-> None]

NoLimit == [kind |-> None, reset |-> FALSE, source |-> None, overage |-> FALSE, rearm |-> FALSE]
Is(outcome, detail, reason) == [outcome |-> outcome, detail |-> detail, reason |-> reason, limit |-> NoLimit]
(* _limit: reset says whether the answer carries one. *)
Limit(detail, kind, reset, source) ==
  [outcome |-> "limit", detail |-> detail, reason |-> None,
   limit |-> [kind |-> kind, reset |-> reset, source |-> source, overage |-> FALSE, rearm |-> TRUE]]
Overage(result) == [result EXCEPT !.limit.overage = TRUE]
Final(result) == [result EXCEPT !.limit.rearm = FALSE]

First(rules) == rules[Min({i \in DOMAIN rules : rules[i][1]})][2]
Deadline(run) == <<run.killed = "deadline", Is("timeout", "deadline", None)>>
Unclassified == <<TRUE, Is("failed", "unclassified", None)>>

Claude(c, s, run, text) ==
  LET limited == s.error = "rate_limit" \/ s.end = "429" \/ text \cap ClaudeLimits # {}
      throttled == "not_your_limit" \in text
      rejected == Limit("rate_limit_event", "other", s.rate.reset, "event")
  IN First(<< <<"no_conversation" \in text, Is("not_found", "session_missing", None)>>,
              <<s.error = "auth" \/ "auth" \in text, Is("auth", "auth", None)>>,
              <<s.rate.rejected, IF s.rate.overage THEN Overage(rejected) ELSE rejected>>,
              <<limited /\ ~throttled /\ "banner" \in text, Limit("banner", "other", TRUE, "banner")>>,
              <<limited /\ ~throttled /\ "model_limit" \in text,
                Limit("model_limit", "model_weekly", FALSE, "backoff")>>,
              <<limited /\ ~throttled,
                Limit(IF "rate_limit_reached" \in text THEN "rate_limit_reached" ELSE "rate_limit",
                      "other", FALSE, "backoff")>>,
              <<throttled \/ s.error = "overloaded" \/ s.end = "5xx", Is("transient", "overloaded", None)>>,
              <<s.end = None /\ run.rc = "1" /\ "held" \in text, Is("busy", "session_held", None)>>,
              <<s.end = "max_turns", Is("max_turns", "error_max_turns", None)>>,
              <<s.end = "budget", Is("budget", "error_max_budget_usd", None)>>,
              Deadline(run),
              <<s.end # None /\ s.init # "as_told", Is("boundary_mismatch", "init_missing", None)>>,
              Unclassified >>)

Codex(s, run, text) ==
  First(<< <<"no_rollout" \in text, Is("not_found", "session_missing", None)>>,
           <<"auth" \in text, Is("auth", "not_logged_in", None)>>,
           <<text \cap {"limit", "limit_until"} # {},
             Limit("usage_limit", "other", "limit_until" \in text, "banner")>>,
           <<"capacity" \in text, Is("transient", "capacity", None)>>,
           <<"untrusted" \in text, Is("untrusted", "git_gate", None)>>,
           Deadline(run), Unclassified >>)

OpenCode(s, run, text) ==
  First(<< <<s.api = "free_limit", Limit("zen_free_limit", "daily", TRUE, "retry_after")>>,
           <<s.api \in {"go_limit", "go_limit_until"},
             Limit("go_limit", "other", s.api = "go_limit_until", "retry_after")>>,
           <<s.api = "rate_limit", Is("transient", "rate_limit", None)>>,
           <<s.api = "billing", Is("failed", "zen_billing", "zen_billing")>>,
           <<"no_session" \in text, Is("not_found", "session_missing", None)>>,
           <<"auth" \in text, Is("auth", "provider_auth", None)>>,
           <<"limit" \in text, Limit("usage_limit", "other", FALSE, "backoff")>>,
           <<run.killed = "deadline" /\ ~s.content, Is("transient", "silent_timeout", None)>>,
           Deadline(run), Unclassified >>)

Cursor(s, run) ==
  First(<< Deadline(run),
           <<run.rc = "0", Is("failed", "no_result", None)>>,
           <<run.rc = "term", Is("interrupted", "interrupted", None)>>,
           <<run.stderr = "untrusted", Is("untrusted", "workspace_trust", None)>>,
           <<run.stderr = "auth", Is("auth", "auth", None)>>,
           <<run.stderr \in {"limit", "limit_until"},
             Final(Limit("monthly_limit", "monthly", run.stderr = "limit_until", "stderr"))>>,
           <<run.stderr = "sandbox", Is("failed", "cursor_sandbox", None)>>,
           <<run.stderr = "transient", Is("transient", "high_load", None)>>,
           <<run.stderr = "busy", Is("busy", "chat_busy", None)>>,
           Unclassified >>)

Pi(s, run) ==
  First(<< Deadline(run),
           <<s.end = "aborted", Is("interrupted", "aborted", None)>>,
           <<s.end = "error" /\ s.texts \cap {"limit", "limit_until"} # {},
             Limit("codex_limit", "other", "limit_until" \in s.texts, "event")>>,
           <<s.end = "error" /\ "extra_usage" \in s.texts, Is("failed", "extra_usage", "paid_blocked")>>,
           <<s.end = "error" /\ "quota" \in s.texts, Final(Limit("quota_final", "other", FALSE, "event"))>>,
           <<s.end = "error" /\ s.failed /\ "rate" \in s.texts, Is("transient", "rate_limited", None)>>,
           <<s.end = "error", Unclassified[2]>>,
           <<run.rc = "term", Is("interrupted", "interrupted", None)>>,
           <<s.end = None /\ run.rc = "1" /\ run.stderr = "auth", Is("auth", "no_credentials", None)>>,
           <<run.rc = "0", Is("failed", "no_result", None)>>,
           Unclassified >>)

Gemini(s, run, text) ==
  First(<< <<run.rc = "42" \/ "no_session" \in text, Is("not_found", "session_missing", None)>>,
           <<run.rc = "41" \/ "auth" \in text, Is("auth", "auth_method", None)>>,
           <<"quota_until" \in text /\ "daily_quota" \notin text,
             Limit("quota_retry_delay", "other", TRUE, "banner")>>,
           <<text \cap {"daily_quota", "quota_until"} # {}, Limit("daily_quota", "daily", FALSE, "backoff")>>,
           <<"retryable" \in text, Is("transient", "retryable_quota", None)>>,
           <<run.rc = "55", Is("untrusted", "folder_trust", None)>>,
           <<run.rc = "53", Is("max_turns", "turn_limit", None)>>,
           Deadline(run), Unclassified >>)

(* _success *)
Success(c, s, run) ==
  CASE c.agent = "claude"   -> s.end = "success" /\ s.init = "as_told"
    [] c.agent = "codex"    -> run.rc = "0" /\ s.end = "completed" /\ ~s.failed
    [] c.agent = "opencode" -> run.rc = "0" /\ ~s.failed /\ s.lines
    [] c.agent = "cursor"   -> run.rc = "0" /\ s.end = "success"
    [] c.agent = "pi"       -> s.init = "header" /\ s.end = "stop"
    [] c.agent = "gemini"   -> run.rc = "0" /\ s.end = "response" /\ ~s.failed

(* _first_line *)
FirstLine(c) ==
  IF c.billing = None THEN Is("transient", "stalled", "stalled")
  ELSE [Limit("limit_suspected", IF c.billing = "zen_free" THEN "daily" ELSE "other", c.billing = "zen_free",
              IF c.billing = "zen_free" THEN "computed" ELSE "backoff") EXCEPT !.reason = "limit_suspected"]

ByAgent(c, s, run) ==
  LET text == s.texts \cup ({run.stderr} \ {None}) IN
  CASE c.agent = "claude"   -> Claude(c, s, run, text)
    [] c.agent = "codex"    -> Codex(s, run, text)
    [] c.agent = "opencode" -> OpenCode(s, run, text)
    [] c.agent = "cursor"   -> Cursor(s, run)
    [] c.agent = "pi"       -> Pi(s, run)
    [] c.agent = "gemini"   -> Gemini(s, run, text)

Stopped(s, run) ==
  << <<~run.spawned, Is("failed", "spawn_failed", None)>>,
     <<run.killed = "paid", Is("failed", s.detail, "paid_blocked")>>,
     <<run.killed = "overage",
       [Overage(Limit("overage_blocked", "other", s.rate.reset, "event")) EXCEPT !.reason = "overage_blocked"]>>,
     <<run.killed = "boundary" /\ s.detail = "auto_off", Is("failed", "auto_off", "claude_auto_model")>>,
     <<run.killed = "boundary", Is("boundary_mismatch", s.detail, None)>> >>
Crossed(c, s, run) ==
  \/ c.agent = "gemini" /\ run.stderr = "policy_error"
  \/ c.agent \in {"opencode", "cursor"} /\ c.level = "plan" /\ s.calls

(* Mutant: the patterns of the agent are tried before its own account of the turn. *)
ClassifyByText(c, s, run) ==
  First(Stopped(s, run) \o
        << <<Crossed(c, s, run), Is("boundary_mismatch", "tool_violation", None)>>,
           <<run.killed = "sigterm", Is("timeout", "sigterm", None)>>,
           <<run.killed = "first_line", FirstLine(c)>>,
           <<ByAgent(c, s, run) # Unclassified[2], ByAgent(c, s, run)>>,
           <<Success(c, s, run), Is("done", "success", None)>>,
           Unclassified >>)
Classify(c, s, run) ==
  First(Stopped(s, run) \o
        << <<Crossed(c, s, run), Is("boundary_mismatch", "tool_violation", None)>>,
           <<Success(c, s, run), Is("done", "success", None)>>,
           <<run.killed = "sigterm", Is("timeout", "sigterm", None)>>,
           <<run.killed = "first_line", FirstLine(c)>>,
           <<TRUE, ByAgent(c, s, run)>> >>)

(* runner._classify: a limit of Claude that no event named is looked up in the transcript, where
   an entry without quota data is the server's throttling; Pi's is looked up in Codex's record. *)
Reread(c, result) ==
  LET here == result.limit IN
  IF c.agent = "claude" /\ result.outcome = "limit" /\ here.source # "event"
  THEN {result, [result EXCEPT !.limit = [here EXCEPT !.reset = TRUE, !.source = "transcript", !.rearm = TRUE]]}
       \cup (IF here.source = "backoff" THEN {Is("transient", "server_throttle", None)} ELSE {})
  ELSE IF c.agent = "pi" /\ result.detail = "codex_limit" /\ ~here.reset
  THEN {result, [result EXCEPT !.limit.reset = TRUE, !.limit.source = "record"]}
  ELSE {result}

(* Every end of a run: the result with what the run was.  clean: the agent finished its turn and
   said so, held to its level; stopped: a guard stopped it. *)
Ends(c) ==
  UNION {UNION {{[result |-> r,
                  clean |-> run.spawned /\ s.verdict = None /\ Success(c, s, run) /\ ~Crossed(c, s, run),
                  stopped |-> run.killed \in {"paid", "boundary"}] :
                    r \in Reread(c, Classify(c, s, run))} : run \in Runs(c, s) \cup {NotSpawned}} : s \in Heard(c)}
=============================================================================
