--------------------------- MODULE Supervise ---------------------------
(***************************************************************************)
(* supervise.py, run_agent: the loop that watches one agent.  The agent (the *)
(* leader of its process group) and a descendant that shares its pipes run   *)
(* beside it.  A turn of the loop checks, then waits in select and reads.    *)
(* Time is counted in polls of select (_POLL_S); the kernel ends what it was *)
(* told to KILL within a poll, and the loop is given the CPU in each.        *)
(***************************************************************************)
EXTENDS Integers, Sequences

CONSTANTS Deadline, FirstLine,              \* deadline_s, first_line_deadline_s
          TermGrace,                        \* AGENT_TERM_GRACE_S
          DrainGrace, StragglerGrace,       \* _POST_EXIT_DRAIN_S, _STRAGGLER_GRACE_S
          MaxLines                          \* bound: lines written

Streams == {"out", "err"}
Verdicts == {"boundary", "paid"}            \* of _KILL_ANSWERS; kill_overage is one more of the kind
Never == -1

ASSUME SuperviseAssumption ==
  /\ {Deadline, FirstLine, TermGrace, DrainGrace, StragglerGrace} \subseteq Nat \ {0}
  /\ MaxLines \in Nat

VARIABLES clock,
          leader,             \* alive, exited (by itself) or signalled
          child,              \* a descendant: none, in the group with the pipes (group) or
                              \* without them (quiet), away (in its own group), gone
          pipes, written,     \* what waits in each pipe; lines written
          stopEvent,          \* stop_event: the runner was told to stop
          loop                \* the variables of run_agent, and the signals it sent to the group

vars == <<clock, leader, child, pipes, written, stopEvent, loop>>

Init ==
  /\ clock = 0 /\ leader = "alive" /\ child = "none"
  /\ pipes = [s \in Streams |-> <<>>] /\ written = 0
  /\ stopEvent = FALSE
  /\ loop = [at |-> "check", readers |-> Streams, termAt |-> Never, exitedAt |-> Never,
             lines |-> 0, verdict |-> "none", killedBy |-> "none", sent |-> {}]

Line == [by : {"leader", "child"}, what : {"line"} \cup Verdicts]
Moment == Nat \cup {Never}

Reasons == {"none", "first_line", "sigterm", "deadline"} \cup Verdicts
LoopType ==
  [at : {"check", "select", "over"}, readers : SUBSET Streams, termAt : Moment, exitedAt : Moment,
   lines : Nat, verdict : {"none"} \cup Verdicts, killedBy : Reasons, sent : SUBSET {"TERM", "KILL"}]

TypeOK ==
  /\ clock \in Nat /\ written \in Nat /\ stopEvent \in BOOLEAN
  /\ leader \in {"alive", "exited", "signalled"}
  /\ child \in {"none", "group", "quiet", "away", "gone"}
  /\ pipes \in [Streams -> Seq(Line)]
  /\ loop \in LoopType

Alive == leader = "alive"
Holders == {p \in {"leader", "child"} : IF p = "leader" THEN Alive ELSE child \in {"group", "away"}}
InGroup == Alive \/ child \in {"group", "quiet"}

-----------------------------------------------------------------------------
(* The agent and its descendant. *)
Writes(who, s, what) ==
  /\ who \in Holders /\ loop.at # "over"
  /\ written < MaxLines /\ written' = written + 1
  /\ pipes' = [pipes EXCEPT ![s] = Append(@, [by |-> who, what |-> what])]
  /\ UNCHANGED <<clock, leader, child, stopEvent, loop>>

Forks ==
  /\ Alive /\ child = "none"
  /\ child' \in {"group", "quiet", "away"}
  /\ UNCHANGED <<clock, leader, pipes, written, stopEvent, loop>>

LeaderEnds ==
  /\ Alive
  /\ leader' \in {"exited"} \cup {"signalled" : x \in loop.sent}
  /\ UNCHANGED <<clock, child, pipes, written, stopEvent, loop>>

ChildEnds ==
  /\ child \in {"group", "quiet", "away"}
  /\ child' = "gone"
  /\ UNCHANGED <<clock, leader, pipes, written, stopEvent, loop>>

ToldToStop ==
  /\ ~stopEvent /\ loop.at # "over" /\ stopEvent' = TRUE
  /\ UNCHANGED <<clock, leader, child, pipes, written, loop>>

-----------------------------------------------------------------------------
(* The checks of a turn, each on the loop l as the one before left it. *)
Sends(l, signal) == [l EXCEPT !.sent = @ \cup {signal}]
Killed(l) == "KILL" \in l.sent

(* Mutant: a later reason replaces the first. *)
BeginsStopAgain(l, reason) ==
  IF reason = "none" THEN l
  ELSE [Sends(l, "TERM") EXCEPT !.killedBy = reason, !.termAt = IF @ = Never THEN clock ELSE @]
(* begin_stop *)
BeginsStop(l, reason) ==
  IF reason = "none" \/ l.termAt # Never THEN l
  ELSE [Sends(l, "TERM") EXCEPT !.killedBy = reason, !.termAt = clock]

Reason(l) ==
  IF l.verdict # "none" THEN l.verdict
  ELSE IF clock >= FirstLine /\ l.lines = 0 /\ l.exitedAt = Never THEN "first_line"
  ELSE IF stopEvent THEN "sigterm"
  ELSE IF clock >= Deadline THEN "deadline" ELSE "none"

Since(t, grace) == t # Never /\ clock - t >= grace

(* Mutant: the grace is not waited for. *)
KillsAtOnce(l) == IF l.termAt # Never /\ ~Killed(l) THEN Sends(l, "KILL") ELSE l
KillsAfterGrace(l) == IF Since(l.termAt, TermGrace) /\ ~Killed(l) THEN Sends(l, "KILL") ELSE l

NoticesExit(l) == IF l.exitedAt = Never /\ ~Alive THEN [l EXCEPT !.exitedAt = clock] ELSE l

(* Mutants: the loop ends with the agent; it waits for the pipes to close. *)
EndsWithAgent(l) == l.exitedAt # Never
EndsWithPipes(l) == l.exitedAt # Never /\ l.readers = {}
Ends(l) == l.exitedAt # Never /\ (l.readers = {} \/ (Killed(l) /\ Since(l.exitedAt, 1)))

(* The leader is gone but a descendant still holds a pipe. *)
StopsStragglers(l) ==
  LET termed == IF l.termAt = Never /\ Since(l.exitedAt, DrainGrace)
                THEN [Sends(l, "TERM") EXCEPT !.termAt = clock] ELSE l
  IN IF l.exitedAt # Never /\ Since(termed.termAt, StragglerGrace) /\ ~Killed(l) /\ l.killedBy = "none"
     THEN Sends(termed, "KILL") ELSE termed

(* Mutants: without the last line; without the last KILL. *)
OverWithoutVerdict(l) == [Sends(l, "KILL") EXCEPT !.at = "over"]
OverWithoutKill(l) == [l EXCEPT !.at = "over", !.killedBy = IF @ = "none" THEN l.verdict ELSE @]

(* After the loop: a stopping line read last is the reason, and what is left of the group goes. *)
Over(l) ==
  [Sends(l, "KILL") EXCEPT !.at = "over", !.killedBy = IF @ = "none" THEN l.verdict ELSE @]

Checks ==
  /\ loop.at = "check"
  /\ LET l == NoticesExit(KillsAfterGrace(BeginsStop(loop, Reason(loop)))) IN
     loop' = IF Ends(l) THEN Over(l) ELSE [StopsStragglers(l) EXCEPT !.at = "select"]
  /\ UNCHANGED <<clock, leader, child, pipes, written, stopEvent>>

-----------------------------------------------------------------------------
Horizon == Deadline + TermGrace + 3         \* bound: later than any run (ReturnsInTime)
Passes ==
  /\ Killed(loop) => ~InGroup
  /\ clock' = IF clock < Horizon THEN clock + 1 ELSE clock

Ready == {s \in loop.readers : pipes[s] # <<>> \/ Holders = {}}

(* The first stopping line of those read, if there is one. *)
FirstStop(out) ==
  {out[i].what : i \in {i \in DOMAIN out : /\ out[i].what \in Verdicts
                                        /\ \A k \in 1 .. i - 1 : out[k].what \notin Verdicts}}

(* The framer counts the lines of stdout: the first stopping answer is the verdict. *)
Framed(l, out) ==
  [l EXCEPT !.lines = @ + Len(out),
            !.verdict = IF @ # "none" \/ FirstStop(out) = {} THEN @ ELSE CHOOSE v \in FirstStop(out) : TRUE]

(* select returns: all that is ready is read, or the end of the file. *)
Reads ==
  /\ loop.at = "select" /\ Ready # {}
  /\ LET out == IF "out" \in Ready THEN pipes["out"] ELSE <<>> IN
     loop' = [Framed(loop, out) EXCEPT !.at = "check",
                                       !.readers = {s \in @ : s \notin Ready \/ pipes[s] # <<>>}]
  /\ pipes' = [s \in Streams |-> IF s \in Ready THEN <<>> ELSE pipes[s]]
  /\ clock' = clock \/ Passes
  /\ UNCHANGED <<leader, child, written, stopEvent>>

(* select times out. *)
Poll ==
  /\ loop.at = "select" /\ Ready = {}
  /\ Passes
  /\ loop' = [loop EXCEPT !.at = "check"]
  /\ UNCHANGED <<leader, child, pipes, written, stopEvent>>

-----------------------------------------------------------------------------
Next ==
  \/ \E who \in {"leader", "child"}, what \in {"line"} \cup Verdicts : Writes(who, "out", what)
  \/ \E who \in {"leader", "child"} : Writes(who, "err", "line")
  \/ Forks \/ LeaderEnds \/ ChildEnds \/ ToldToStop
  \/ Checks \/ Reads \/ Poll

KernelKills == Killed(loop) /\ (LeaderEnds \/ (child # "away" /\ ChildEnds))

(* The runner runs, and the kernel ends what it is told to KILL. *)
Spec == Init /\ [][Next]_vars /\ WF_vars(Checks) /\ WF_vars(Reads) /\ WF_vars(Poll) /\ WF_vars(KernelKills)

-----------------------------------------------------------------------------
(* run_agent returns for every agent: one that never ends, ignores TERM, prints without end or
   leaves a descendant with its pipes, in its group or out of it. *)
RunAgentReturns == <>(loop.at = "over")

(* ... and in time: after the deadline and the grace of TERM, a poll to see the exit of the
   agent and one more to read what is left. *)
ReturnsInTime == loop.at # "over" => clock <= Deadline + TermGrace + 2

(* Before the loop is over KILL comes only after TERM and its grace, or the shorter one of a
   descendant that an agent which ended by itself left behind. *)
KillAfterGrace ==
  [][~Killed(loop) /\ Killed(loop') /\ loop'.at # "over" =>
       /\ "TERM" \in loop.sent
       /\ \/ Since(loop.termAt, TermGrace)
          \/ loop.killedBy = "none" /\ leader # "alive" /\ Since(loop.termAt, StragglerGrace)]_vars

(* The first reason to stop stands: runner.py and classify.py judge the run by it. *)
FirstReasonStands == [][loop.killedBy # "none" => loop'.killedBy = loop.killedBy]_vars

(* A stopping line that was read is never lost: the run is not taken for one that ended well,
   also when the line was the last and the agent had already exited. *)
StopLineReported == loop.at = "over" /\ loop.verdict # "none" => loop.killedBy # "none"

(* All that an agent wrote before it exited by itself was read, unless it was stopped. *)
OutputRead ==
  loop.at = "over" /\ leader = "exited" /\ loop.killedBy = "none" =>
    \A s \in Streams : \A i \in DOMAIN pipes[s] : pipes[s][i].by # "leader"

(* Nothing of the process group outlives the run, though a descendant may ignore TERM. *)
NothingLeft == <>[]~InGroup
=======================================================================
