------------------------ MODULE SuperviseProofs ------------------------
(***************************************************************************)
(* Theorems about run_agent, for every deadline, grace and amount of output. *)
(***************************************************************************)
EXTENDS Supervise, TLAPS

(* What holds of a loop: TERM was sent at termAt, and a reason to stop comes with TERM. *)
Sound(l) ==
  /\ l.termAt # Never => "TERM" \in l.sent
  /\ l.killedBy # "none" => l.termAt # Never

(* An exit is noticed after it happened. *)
Noticed(l) == l.exitedAt # Never => leader # "alive"

Inv ==
  /\ TypeOK
  /\ loop.at # "over" => Sound(loop)
  /\ Noticed(loop)
  /\ StopLineReported

-----------------------------------------------------------------------------
(* The checks of a turn, one by one: each keeps a loop well typed and sound, and changes no more
   than is said. *)
LEMMA ReasonType ==
  ASSUME NEW l \in LoopType PROVE Reason(l) \in Reasons
BY DEF Reason, LoopType, Reasons, Verdicts

LEMMA BeginsStopFacts ==
  ASSUME NEW l \in LoopType, NEW reason \in Reasons, clock \in Nat, Sound(l), Noticed(l),
         NEW m, m = BeginsStop(l, reason)
  PROVE  /\ m \in LoopType /\ Sound(m) /\ Noticed(m)
         /\ m.at = l.at /\ m.verdict = l.verdict
         /\ l.termAt # Never => m = l
         /\ l.termAt = Never => m.termAt \in {Never, clock}
         /\ Killed(m) = Killed(l)
<1>1. CASE reason = "none" \/ l.termAt # Never
  BY <1>1 DEF BeginsStop
<1>2. CASE ~(reason = "none" \/ l.termAt # Never)
  <2>1. m = [[l EXCEPT !.sent = @ \cup {"TERM"}] EXCEPT !.killedBy = reason, !.termAt = clock]
    BY <1>2 DEF BeginsStop, Sends
  <2>2. clock # Never
    BY DEF Never
  <2> DEFINE base == [l EXCEPT !.sent = @ \cup {"TERM"}]
  <2>3. /\ base \in LoopType /\ base.sent = l.sent \cup {"TERM"}
        /\ base.at = l.at /\ base.verdict = l.verdict /\ base.exitedAt = l.exitedAt
    BY DEF LoopType
  <2>4. m = [base EXCEPT !.killedBy = reason, !.termAt = clock]
    BY <2>1
  <2> HIDE DEF base
  <2>5. /\ m \in LoopType /\ m.sent = base.sent /\ m.killedBy = reason /\ m.termAt = clock
        /\ m.at = base.at /\ m.verdict = base.verdict /\ m.exitedAt = base.exitedAt
    BY <2>3, <2>4 DEF LoopType, Moment
  <2> QED BY <1>2, <2>2, <2>3, <2>5 DEF Sound, Noticed, Killed
<1> QED BY <1>1, <1>2

LEMMA KillsAfterGraceFacts ==
  ASSUME NEW l \in LoopType, Sound(l), Noticed(l), NEW m, m = KillsAfterGrace(l)
  PROVE  /\ m \in LoopType /\ Sound(m) /\ Noticed(m)
         /\ m.at = l.at /\ m.verdict = l.verdict
         /\ m.killedBy = l.killedBy /\ m.termAt = l.termAt
         /\ Killed(m) /\ ~Killed(l) => Since(l.termAt, TermGrace)
BY DEF KillsAfterGrace, Sends, LoopType, Sound, Noticed, Killed

LEMMA NoticesExitFacts ==
  ASSUME NEW l \in LoopType, clock \in Nat, Sound(l), Noticed(l), NEW m, m = NoticesExit(l)
  PROVE  /\ m \in LoopType /\ Sound(m) /\ Noticed(m)
         /\ m.at = l.at /\ m.verdict = l.verdict
         /\ m.killedBy = l.killedBy /\ m.termAt = l.termAt /\ m.sent = l.sent
BY DEF NoticesExit, LoopType, Moment, Sound, Noticed, Alive

LEMMA StopsStragglersFacts ==
  ASSUME NEW l \in LoopType, clock \in Nat, Sound(l), Noticed(l),
         SuperviseAssumption,
         NEW m, m = StopsStragglers(l)
  PROVE  /\ m \in LoopType /\ Sound(m) /\ Noticed(m)
         /\ m.at = l.at /\ m.verdict = l.verdict /\ m.killedBy = l.killedBy
         /\ Killed(m) /\ ~Killed(l) =>
              l.killedBy = "none" /\ leader # "alive" /\ Since(l.termAt, StragglerGrace)
<1> DEFINE termed == IF l.termAt = Never /\ Since(l.exitedAt, DrainGrace)
                     THEN [Sends(l, "TERM") EXCEPT !.termAt = clock] ELSE l
<1>1. m = IF l.exitedAt # Never /\ Since(termed.termAt, StragglerGrace) /\ ~Killed(l) /\ l.killedBy = "none"
          THEN Sends(termed, "KILL") ELSE termed
  BY DEF StopsStragglers
<1>2. clock # Never
  BY DEF Never
<1>3. /\ termed \in LoopType /\ Sound(termed) /\ Noticed(termed)
      /\ termed.at = l.at /\ termed.verdict = l.verdict /\ termed.killedBy = l.killedBy
      /\ termed.exitedAt = l.exitedAt
      /\ Killed(termed) = Killed(l)
      /\ termed.termAt = l.termAt \/ termed.termAt = clock
  <2>1. CASE ~(l.termAt = Never /\ Since(l.exitedAt, DrainGrace))
    BY <2>1
  <2>2. CASE l.termAt = Never /\ Since(l.exitedAt, DrainGrace)
    <3> DEFINE base == [l EXCEPT !.sent = @ \cup {"TERM"}]
    <3>1. /\ base \in LoopType /\ base.sent = l.sent \cup {"TERM"} /\ base.killedBy = l.killedBy
          /\ base.at = l.at /\ base.verdict = l.verdict /\ base.exitedAt = l.exitedAt
      BY DEF LoopType
    <3>2. termed = [base EXCEPT !.termAt = clock]
      BY <2>2 DEF Sends
    <3> HIDE DEF base, termed
    <3>3. /\ termed \in LoopType /\ termed.sent = base.sent /\ termed.killedBy = base.killedBy
          /\ termed.at = base.at /\ termed.verdict = base.verdict /\ termed.exitedAt = base.exitedAt
          /\ termed.termAt = clock
      BY <3>1, <3>2 DEF LoopType, Moment
    <3> QED BY <1>2, <3>1, <3>3 DEF Sound, Noticed, Killed
  <2> QED BY <2>1, <2>2
<1>4. ~(clock - clock >= StragglerGrace)
  BY DEF SuperviseAssumption
<1>5. Since(termed.termAt, StragglerGrace) => termed.termAt = l.termAt
  BY <1>3, <1>4 DEF Since
<1> HIDE DEF termed
<1>6. CASE l.exitedAt # Never /\ Since(termed.termAt, StragglerGrace) /\ ~Killed(l) /\ l.killedBy = "none"
  <2>1. m = [termed EXCEPT !.sent = @ \cup {"KILL"}]
    BY <1>1, <1>6 DEF Sends
  <2>2. /\ m \in LoopType /\ m.sent = termed.sent \cup {"KILL"} /\ m.termAt = termed.termAt
        /\ m.at = termed.at /\ m.verdict = termed.verdict /\ m.killedBy = termed.killedBy
        /\ m.exitedAt = termed.exitedAt
    BY <1>3, <2>1 DEF LoopType
  <2> QED BY <1>3, <1>5, <1>6, <2>2 DEF Sound, Noticed
<1>7. CASE ~(l.exitedAt # Never /\ Since(termed.termAt, StragglerGrace) /\ ~Killed(l) /\ l.killedBy = "none")
  BY <1>1, <1>3, <1>7
<1> QED BY <1>6, <1>7

(* A whole turn of checks. *)
LEMMA ChecksFacts ==
  ASSUME Inv, Checks, SuperviseAssumption
  PROVE  /\ loop' \in LoopType /\ loop'.verdict = loop.verdict
         /\ loop'.at \in {"select", "over"}
         /\ loop'.at # "over" => Sound(loop')
         /\ Noticed(loop')
         /\ loop'.at = "over" /\ loop'.verdict # "none" => loop'.killedBy # "none"
         /\ loop.killedBy # "none" => loop'.killedBy = loop.killedBy
         /\ ~Killed(loop) /\ Killed(loop') /\ loop'.at # "over" =>
              /\ "TERM" \in loop.sent
              /\ \/ Since(loop.termAt, TermGrace)
                 \/ loop.killedBy = "none" /\ leader # "alive" /\ Since(loop.termAt, StragglerGrace)
<1> DEFINE l1 == BeginsStop(loop, Reason(loop))
           l2 == KillsAfterGrace(l1)
           l3 == NoticesExit(l2)
           l4 == StopsStragglers(l3)
<1>0. /\ loop \in LoopType /\ clock \in Nat /\ Sound(loop) /\ Noticed(loop) /\ loop.at = "check"
      /\ loop' = IF Ends(l3) THEN Over(l3) ELSE [l4 EXCEPT !.at = "select"]
  BY DEF Inv, TypeOK, Checks
<1>1. /\ l1 \in LoopType /\ Sound(l1) /\ Noticed(l1) /\ l1.verdict = loop.verdict
      /\ loop.termAt # Never => l1 = loop
      /\ loop.termAt = Never => l1.termAt \in {Never, clock}
      /\ Killed(l1) = Killed(loop)
  <2>1. Reason(loop) \in Reasons
    BY <1>0, ReasonType
  <2> HIDE DEF l1
  <2>2. l1 = BeginsStop(loop, Reason(loop))
    BY DEF l1
  <2> QED BY <1>0, <2>1, <2>2, BeginsStopFacts
<1> HIDE DEF l1
<1>2. /\ l2 \in LoopType /\ Sound(l2) /\ Noticed(l2) /\ l2.verdict = l1.verdict
      /\ l2.killedBy = l1.killedBy /\ l2.termAt = l1.termAt
      /\ Killed(l2) /\ ~Killed(l1) => Since(l1.termAt, TermGrace)
  BY <1>1, KillsAfterGraceFacts
<1> HIDE DEF l2
<1>3. /\ l3 \in LoopType /\ Sound(l3) /\ Noticed(l3) /\ l3.verdict = l2.verdict
      /\ l3.killedBy = l2.killedBy /\ l3.termAt = l2.termAt /\ l3.sent = l2.sent
  BY <1>0, <1>2, NoticesExitFacts
<1> HIDE DEF l3
<1>4. /\ l4 \in LoopType /\ Sound(l4) /\ Noticed(l4) /\ l4.verdict = l3.verdict /\ l4.killedBy = l3.killedBy
      /\ Killed(l4) /\ ~Killed(l3) =>
           l3.killedBy = "none" /\ leader # "alive" /\ Since(l3.termAt, StragglerGrace)
  BY <1>0, <1>3, StopsStragglersFacts
<1> HIDE DEF l4
<1>5. UNCHANGED <<clock, leader>>
  BY DEF Checks
(* What was decided while TERM had not been sent has no grace behind it. *)
<1>6. /\ loop.killedBy # "none" => l3.killedBy = loop.killedBy
      /\ l3.killedBy = "none" => loop.killedBy = "none"
  BY <1>0, <1>1, <1>2, <1>3 DEF Sound
<1>7. ASSUME NEW grace \in Nat \ {0}, Since(l1.termAt, grace)
      PROVE  Since(loop.termAt, grace) /\ "TERM" \in loop.sent
  <2>1. ~(clock - clock >= grace)
    BY <1>0
  <2>2. loop.termAt # Never
    BY <1>1, <1>7, <2>1 DEF Since
  <2> QED BY <1>0, <1>1, <1>7, <2>2 DEF Sound
<1>8. CASE Ends(l3)
  <2>1. loop' = [[l3 EXCEPT !.sent = @ \cup {"KILL"}]
                   EXCEPT !.at = "over", !.killedBy = IF l3.killedBy = "none" THEN l3.verdict ELSE l3.killedBy]
    BY <1>0, <1>3, <1>8 DEF Over, Sends, LoopType
  <2>2. /\ loop' \in LoopType /\ loop'.at = "over" /\ loop'.verdict = l3.verdict
        /\ loop'.exitedAt = l3.exitedAt
        /\ loop'.killedBy = IF l3.killedBy = "none" THEN l3.verdict ELSE l3.killedBy
    BY <1>3, <2>1 DEF LoopType, Reasons
  <2> QED BY <1>1, <1>2, <1>3, <1>6, <2>2 DEF Noticed
<1>9. CASE ~Ends(l3)
  <2>1. loop' = [l4 EXCEPT !.at = "select"]
    BY <1>0, <1>9
  <2>2. /\ loop' \in LoopType /\ loop'.at = "select" /\ loop'.verdict = l4.verdict
        /\ loop'.killedBy = l4.killedBy /\ loop'.termAt = l4.termAt /\ loop'.exitedAt = l4.exitedAt
        /\ loop'.sent = l4.sent
    BY <1>4, <2>1 DEF LoopType
  <2>3. Sound(loop') /\ Noticed(loop')
    BY <1>4, <2>2 DEF Sound, Noticed
  <2>4. ASSUME ~Killed(loop), Killed(loop')
        PROVE  /\ "TERM" \in loop.sent
               /\ \/ Since(loop.termAt, TermGrace)
                  \/ loop.killedBy = "none" /\ leader # "alive" /\ Since(loop.termAt, StragglerGrace)
    <3>1. Killed(l4) /\ ~Killed(l1)
      BY <1>1, <2>2, <2>4 DEF Killed
    <3>2. CASE Killed(l2)
      BY <1>2, <1>7, <3>1, <3>2 DEF SuperviseAssumption
    <3>3. CASE ~Killed(l2)
      <4>1. l3.killedBy = "none" /\ leader # "alive" /\ Since(l1.termAt, StragglerGrace)
        BY <1>2, <1>3, <1>4, <3>1, <3>3 DEF Killed
      <4> QED BY <1>6, <1>7, <4>1 DEF SuperviseAssumption
    <3> QED BY <3>2, <3>3
  <2> QED BY <1>1, <1>2, <1>3, <1>4, <1>6, <2>2, <2>3, <2>4
<1> QED BY <1>8, <1>9

(* What is read changes only the lines and the verdict of a loop that is not over. *)
LEMMA ReadsFacts ==
  ASSUME Inv, Reads
  PROVE  /\ loop' \in LoopType /\ pipes' \in [Streams -> Seq(Line)] /\ clock' \in Nat
         /\ loop.at = "select" /\ loop'.at = "check"
         /\ loop'.termAt = loop.termAt /\ loop'.exitedAt = loop.exitedAt
         /\ loop'.killedBy = loop.killedBy /\ loop'.sent = loop.sent
<1> DEFINE out == IF "out" \in Ready THEN pipes["out"] ELSE <<>>
           framed == Framed(loop, out)
<1>0. loop \in LoopType /\ clock \in Nat /\ pipes \in [Streams -> Seq(Line)] /\ loop.at = "select"
  BY DEF Inv, TypeOK, Reads
<1>1. out \in Seq(Line)
  BY <1>0 DEF Streams
<1>2. loop' = [framed EXCEPT !.at = "check",
                             !.readers = {s \in @ : s \notin Ready \/ pipes[s] # <<>>}]
  BY DEF Reads
<1>3. pipes' \in [Streams -> Seq(Line)] /\ clock' \in Nat
  BY <1>0 DEF Reads, Passes, Horizon
<1> HIDE DEF out
<1>4. FirstStop(out) \subseteq Verdicts
  BY <1>1 DEF FirstStop
<1>5. (CHOOSE v \in FirstStop(out) : TRUE) \in FirstStop(out) \/ FirstStop(out) = {}
  OBVIOUS
<1>6. /\ framed \in LoopType
      /\ framed.termAt = loop.termAt /\ framed.exitedAt = loop.exitedAt
      /\ framed.killedBy = loop.killedBy /\ framed.sent = loop.sent
  <2> DEFINE verdict == IF loop.verdict # "none" \/ FirstStop(out) = {} THEN loop.verdict
                        ELSE CHOOSE v \in FirstStop(out) : TRUE
  <2>1. verdict \in {"none"} \cup Verdicts
    BY <1>0, <1>4, <1>5 DEF LoopType
  <2>2. Len(out) \in Nat
    BY <1>1
  <2> DEFINE lines == loop.lines + Len(out)
  <2>3. lines \in Nat
    BY <1>0, <2>2 DEF LoopType
  <2>4. framed = [loop EXCEPT !.lines = lines, !.verdict = verdict]
    BY <1>0 DEF Framed, LoopType
  <2> HIDE DEF lines, verdict, framed
  <2> QED BY <1>0, <2>1, <2>3, <2>4 DEF LoopType
<1> HIDE DEF framed
<1>7. loop' \in LoopType /\ loop'.at = "check"
      /\ loop'.termAt = framed.termAt /\ loop'.exitedAt = framed.exitedAt
      /\ loop'.killedBy = framed.killedBy /\ loop'.sent = framed.sent
  BY <1>2, <1>6 DEF LoopType
<1> QED BY <1>0, <1>3, <1>6, <1>7

-----------------------------------------------------------------------------
(* Every step keeps the invariant. *)
LEMMA InvInductive ==
  ASSUME Inv, [Next]_vars, SuperviseAssumption PROVE Inv'
<1> USE DEF Noticed, Alive
<1>0. /\ clock \in Nat /\ written \in Nat /\ stopEvent \in BOOLEAN
      /\ leader \in {"alive", "exited", "signalled"}
      /\ child \in {"none", "group", "quiet", "away", "gone"}
      /\ pipes \in [Streams -> Seq(Line)] /\ loop \in LoopType
      /\ (loop.at # "over" => Sound(loop)) /\ Noticed(loop) /\ StopLineReported
  BY DEF Inv, TypeOK
<1>1. ASSUME NEW who \in {"leader", "child"}, NEW s \in Streams, NEW what \in {"line"} \cup Verdicts,
             Writes(who, s, what)
      PROVE  Inv'
  <2>1. /\ pipes' = [pipes EXCEPT ![s] = Append(@, [by |-> who, what |-> what])]
        /\ written' = written + 1
        /\ UNCHANGED <<clock, leader, child, stopEvent, loop>>
    BY <1>1 DEF Writes
  <2>2. [by |-> who, what |-> what] \in Line
    BY DEF Line
  <2>3. pipes' \in [Streams -> Seq(Line)]
    BY <1>0, <2>1, <2>2
  <2> QED BY <1>0, <2>1, <2>3 DEF Inv, TypeOK, Sound, StopLineReported
<1>2. CASE Forks \/ ChildEnds
  BY <1>0, <1>2 DEF Forks, ChildEnds, Inv, TypeOK, Sound, StopLineReported
<1>3. CASE LeaderEnds
  BY <1>0, <1>3 DEF LeaderEnds, Inv, TypeOK, Sound, StopLineReported
<1>4. CASE ToldToStop
  BY <1>0, <1>4 DEF ToldToStop, Inv, TypeOK, Sound, StopLineReported
<1>5. CASE Checks
  <2>1. UNCHANGED <<clock, leader, child, pipes, written, stopEvent>>
    BY <1>5 DEF Checks
  <2>2. /\ loop' \in LoopType /\ (loop'.at # "over" => Sound(loop')) /\ Noticed(loop')
        /\ (loop'.at = "over" /\ loop'.verdict # "none" => loop'.killedBy # "none")
    BY <1>5, ChecksFacts
  <2> QED BY <1>0, <2>1, <2>2 DEF Inv, TypeOK, Sound, StopLineReported
<1>6. CASE Reads
  <2>1. UNCHANGED <<leader, child, written, stopEvent>>
    BY <1>6 DEF Reads
  <2> QED BY <1>0, <1>6, <2>1, ReadsFacts DEF Inv, TypeOK, Sound, StopLineReported
<1>7. CASE Poll
  <2>1. /\ UNCHANGED <<leader, child, pipes, written, stopEvent>>
        /\ loop' = [loop EXCEPT !.at = "check"] /\ loop.at = "select"
    BY <1>7 DEF Poll
  <2>2. clock' \in Nat
    BY <1>0, <1>7 DEF Poll, Passes
  <2>3. /\ loop' \in LoopType /\ loop'.at = "check" /\ loop'.termAt = loop.termAt
        /\ loop'.exitedAt = loop.exitedAt /\ loop'.killedBy = loop.killedBy /\ loop'.sent = loop.sent
    BY <1>0, <2>1 DEF LoopType
  <2> QED BY <1>0, <2>1, <2>2, <2>3 DEF Inv, TypeOK, Sound, StopLineReported
<1>8. CASE UNCHANGED vars
  BY <1>0, <1>8 DEF vars, Inv, TypeOK, Sound, StopLineReported
<1> QED BY <1>1, <1>2, <1>3, <1>4, <1>5, <1>6, <1>7, <1>8 DEF Next, Streams

(* The invariant holds in every reachable state. *)
THEOREM Invariant == Spec => []Inv
<1>1. ASSUME Init PROVE Inv
  <2>1. /\ clock = 0 /\ leader = "alive" /\ child = "none" /\ written = 0 /\ stopEvent = FALSE
        /\ pipes = [s \in Streams |-> <<>>] /\ loop.at = "check" /\ loop.exitedAt = Never
        /\ loop.termAt = Never /\ loop.killedBy = "none"
    BY <1>1 DEF Init
  <2>2. loop \in LoopType
    BY <1>1 DEF Init, LoopType, Moment, Reasons
  <2>3. pipes \in [Streams -> Seq(Line)]
    BY <2>1
  <2> QED BY <2>1, <2>2, <2>3 DEF Inv, TypeOK, Sound, Noticed, StopLineReported
<1>2. Inv /\ [Next]_vars => Inv'
  BY InvInductive, SuperviseAssumption
<1> QED BY <1>1, <1>2, PTL DEF Spec

(* Every reachable state is well typed, for any deadlines, graces and output. *)
THEOREM SuperviseTyped == Spec => []TypeOK
<1>1. Inv => TypeOK
  BY DEF Inv
<1> QED BY <1>1, Invariant, PTL

(* A stopping line that run_agent read is its reason in the end, however the exit of the agent,
   the checks and the reads interleave: Over takes over the verdict of a last line that no turn
   of begin_stop saw. *)
THEOREM StopLineIsReported == Spec => []StopLineReported
<1>1. Inv => StopLineReported
  BY DEF Inv
<1> QED BY <1>1, Invariant, PTL

(* What happens to the reason and to the signals in a step, whichever it is. *)
LEMMA OtherSteps ==
  ASSUME Inv, [Next]_vars, ~Checks
  PROVE  loop'.killedBy = loop.killedBy /\ loop'.sent = loop.sent
<1>1. loop \in LoopType
  BY DEF Inv, TypeOK
<1>2. CASE Reads
  BY <1>2, ReadsFacts
<1>3. CASE Poll
  BY <1>1, <1>3 DEF Poll, LoopType
<1>4. CASE ~Reads /\ ~Poll
  <2>1. UNCHANGED loop
    BY <1>4 DEF Next, vars, Writes, Forks, LeaderEnds, ChildEnds, ToldToStop
  <2> QED BY <2>1
<1> QED BY <1>2, <1>3, <1>4

(* The first reason to stop is the one the run ends with: begin_stop does nothing once TERM was
   sent, and a reason never stands without TERM. *)
THEOREM TheFirstReasonStands == Spec => FirstReasonStands
<1>1. Inv /\ [Next]_vars => [loop.killedBy # "none" => loop'.killedBy = loop.killedBy]_vars
  BY OtherSteps, ChecksFacts, SuperviseAssumption
<1> QED BY <1>1, Invariant, PTL DEF Spec, FirstReasonStands

(* No KILL before TERM and its grace: a turn that just sent TERM never sends KILL too, for any
   positive graces. *)
THEOREM KillComesAfterGrace == Spec => KillAfterGrace
<1>1. Inv /\ [Next]_vars =>
        [~Killed(loop) /\ Killed(loop') /\ loop'.at # "over" =>
           /\ "TERM" \in loop.sent
           /\ \/ Since(loop.termAt, TermGrace)
              \/ loop.killedBy = "none" /\ leader # "alive" /\ Since(loop.termAt, StragglerGrace)]_vars
  BY OtherSteps, ChecksFacts, SuperviseAssumption DEF Killed
<1> QED BY <1>1, Invariant, PTL DEF Spec, KillAfterGrace

-----------------------------------------------------------------------------
(* The pace of the loop and what it has read. *)
Bound == Deadline + TermGrace

(* How late a turn can be, by what the loop has done so far: TERM is sent by the deadline, KILL by
   the grace after it, the exit is noticed a poll later and the loop ends a poll after that. *)
Paced ==
  loop.at # "over" =>
    /\ loop.termAt # Never => loop.termAt <= Deadline
    /\ loop.termAt = Never => clock <= Deadline /\ (loop.at = "select" => clock < Deadline)
    /\ ~Killed(loop) => clock <= Bound /\ (loop.at = "select" => clock < Bound)
    /\ loop.exitedAt = Never =>
         clock <= Bound + 1 /\ (clock = Bound + 1 => loop.at = "check" /\ ~Alive)
    /\ loop.exitedAt # Never =>
         loop.exitedAt <= Bound + 1 /\ clock <= Bound + 2 /\ (loop.at = "select" => clock <= Bound + 1)

(* A pipe is given up when nobody is left to write to it and it is empty. *)
Abandoned == Holders = {}
GivenUp == \A s \in Streams \ loop.readers : Abandoned /\ pipes[s] = <<>>

(* The first reads after the exit was noticed take what the agent wrote last. *)
LeaderIsRead == \A s \in Streams : \A i \in DOMAIN pipes[s] : pipes[s][i].by # "leader"
ReadToTheEnd ==
  loop.at = "over" \/ (loop.at = "check" /\ loop.exitedAt # Never) => LeaderIsRead

Pace == Paced /\ GivenUp /\ ReadToTheEnd

LEMMA HoldersGone == Abandoned <=> (~Alive /\ child \notin {"group", "away"})
BY DEF Abandoned, Holders

(* The loop after the three checks every turn makes. *)
Turned(l) == NoticesExit(KillsAfterGrace(BeginsStop(l, Reason(l))))

LEMMA BeginsStopFields ==
  ASSUME NEW l \in LoopType, clock \in Nat, NEW reason \in Reasons, NEW m, m = BeginsStop(l, reason)
  PROVE  /\ m \in LoopType
         /\ m.readers = l.readers /\ m.exitedAt = l.exitedAt
         /\ m.termAt = IF reason = "none" \/ l.termAt # Never THEN l.termAt ELSE clock
         /\ Killed(m) = Killed(l)
<1>1. CASE reason = "none" \/ l.termAt # Never
  BY <1>1 DEF BeginsStop
<1>2. CASE ~(reason = "none" \/ l.termAt # Never)
  <2> DEFINE base == [l EXCEPT !.sent = @ \cup {"TERM"}]
  <2>1. /\ base \in LoopType /\ base.sent = l.sent \cup {"TERM"}
        /\ base.readers = l.readers /\ base.exitedAt = l.exitedAt
    BY DEF LoopType
  <2>2. m = [base EXCEPT !.killedBy = reason, !.termAt = clock]
    BY <1>2 DEF BeginsStop, Sends
  <2> HIDE DEF base
  <2>3. /\ m \in LoopType /\ m.sent = base.sent /\ m.termAt = clock
        /\ m.readers = base.readers /\ m.exitedAt = base.exitedAt
    BY <2>1, <2>2 DEF LoopType, Moment
  <2> QED BY <1>2, <2>1, <2>3 DEF Killed
<1> QED BY <1>1, <1>2

LEMMA TurnedFields ==
  ASSUME NEW l \in LoopType, clock \in Nat, NEW m, m = Turned(l)
  PROVE  /\ m \in LoopType /\ m.readers = l.readers
         /\ m.termAt = IF Reason(l) = "none" \/ l.termAt # Never THEN l.termAt ELSE clock
         /\ Killed(m) <=> (Killed(l) \/ Since(m.termAt, TermGrace))
         /\ m.exitedAt = IF l.exitedAt = Never /\ ~Alive THEN clock ELSE l.exitedAt
<1> DEFINE l1 == BeginsStop(l, Reason(l))
           l2 == KillsAfterGrace(l1)
<1>1. Reason(l) \in Reasons
  BY ReasonType
<1>2. /\ l1 \in LoopType
      /\ l1.readers = l.readers /\ l1.exitedAt = l.exitedAt
      /\ l1.termAt = IF Reason(l) = "none" \/ l.termAt # Never THEN l.termAt ELSE clock
      /\ Killed(l1) = Killed(l)
  <2> HIDE DEF l1
  <2>1. l1 = BeginsStop(l, Reason(l))
    BY DEF l1
  <2> QED BY <1>1, <2>1, BeginsStopFields
<1> HIDE DEF l1
<1>3. /\ l2 \in LoopType /\ l2.termAt = l1.termAt
      /\ l2.readers = l1.readers /\ l2.exitedAt = l1.exitedAt
      /\ Killed(l2) <=> (Killed(l1) \/ Since(l1.termAt, TermGrace))
  BY <1>2 DEF KillsAfterGrace, Sends, LoopType, Killed
<1>4. m = NoticesExit(l2)
  BY DEF Turned, l1
<1> HIDE DEF l2
<1>5. /\ m \in LoopType /\ m.termAt = l2.termAt /\ m.readers = l2.readers /\ Killed(m) = Killed(l2)
      /\ m.exitedAt = IF l2.exitedAt = Never /\ ~Alive THEN clock ELSE l2.exitedAt
  BY <1>3, <1>4 DEF NoticesExit, LoopType, Moment, Killed
<1> QED BY <1>2, <1>3, <1>5

LEMMA StopsStragglersFields ==
  ASSUME NEW l \in LoopType, clock \in Nat, NEW m, m = StopsStragglers(l)
  PROVE  /\ m \in LoopType /\ m.readers = l.readers /\ m.exitedAt = l.exitedAt
         /\ m.termAt = l.termAt \/ (l.termAt = Never /\ m.termAt = clock)
         /\ Killed(l) => Killed(m)
<1> DEFINE termed == IF l.termAt = Never /\ Since(l.exitedAt, DrainGrace)
                     THEN [Sends(l, "TERM") EXCEPT !.termAt = clock] ELSE l
<1>1. m = Sends(termed, "KILL") \/ m = termed
  BY DEF StopsStragglers
<1>2. /\ termed \in LoopType /\ termed.readers = l.readers /\ termed.exitedAt = l.exitedAt
      /\ termed.termAt = l.termAt \/ (l.termAt = Never /\ termed.termAt = clock)
      /\ Killed(l) => Killed(termed)
  <2>1. CASE ~(l.termAt = Never /\ Since(l.exitedAt, DrainGrace))
    BY <2>1
  <2>2. CASE l.termAt = Never /\ Since(l.exitedAt, DrainGrace)
    <3> DEFINE base == [l EXCEPT !.sent = @ \cup {"TERM"}]
    <3>1. /\ base \in LoopType /\ base.sent = l.sent \cup {"TERM"}
          /\ base.readers = l.readers /\ base.exitedAt = l.exitedAt
      BY DEF LoopType
    <3>2. termed = [base EXCEPT !.termAt = clock]
      BY <2>2 DEF Sends
    <3> HIDE DEF base, termed
    <3>3. /\ termed \in LoopType /\ termed.sent = base.sent /\ termed.termAt = clock
          /\ termed.readers = base.readers /\ termed.exitedAt = base.exitedAt
      BY <3>1, <3>2 DEF LoopType, Moment
    <3> QED BY <2>2, <3>1, <3>3 DEF Killed
  <2> QED BY <2>1, <2>2
<1> HIDE DEF termed
<1> QED BY <1>1, <1>2 DEF Sends, LoopType, Killed

(* Once the deadline has passed there is a reason to stop. *)
LEMMA DeadlineIsReason ==
  ASSUME clock >= Deadline PROVE Reason(loop) # "none"
BY DEF Reason, Verdicts

LEMMA ChecksPace ==
  ASSUME Inv, Pace, Checks, SuperviseAssumption
  PROVE  Pace'
<1> DEFINE m == Turned(loop)
           n == StopsStragglers(m)
<1>0. /\ loop \in LoopType /\ clock \in Nat /\ loop.at = "check"
      /\ {Deadline, TermGrace} \subseteq Nat \ {0} /\ Bound \in Nat
      /\ loop.termAt \in Moment /\ loop.exitedAt \in Moment
      /\ loop.readers \subseteq Streams
  BY DEF Inv, TypeOK, Checks, SuperviseAssumption, Bound, LoopType
<1>1. /\ loop' = IF Ends(m) THEN Over(m) ELSE [n EXCEPT !.at = "select"]
      /\ UNCHANGED <<clock, leader, child, pipes>>
  BY DEF Checks, Turned
<1>2. /\ m \in LoopType /\ m.readers = loop.readers
      /\ m.termAt = IF Reason(loop) = "none" \/ loop.termAt # Never THEN loop.termAt ELSE clock
      /\ Killed(m) <=> (Killed(loop) \/ Since(m.termAt, TermGrace))
      /\ m.exitedAt = IF loop.exitedAt = Never /\ ~Alive THEN clock ELSE loop.exitedAt
  <2> HIDE DEF m
  <2>1. m = Turned(loop)
    BY DEF m
  <2> QED BY <1>0, <2>1, TurnedFields
<1> HIDE DEF m
<1>3. /\ n \in LoopType /\ n.readers = m.readers /\ n.exitedAt = m.exitedAt
      /\ n.termAt = m.termAt \/ (m.termAt = Never /\ n.termAt = clock)
      /\ Killed(m) => Killed(n)
  BY <1>0, <1>2, StopsStragglersFields
<1> HIDE DEF n
<1>4. clock # Never
  BY <1>0 DEF Never
<1>5. CASE Ends(m)
  <2>1. /\ loop'.at = "over" /\ loop'.readers = m.readers
    BY <1>1, <1>2, <1>5 DEF Over, Sends, LoopType
  <2>2. GivenUp'
    BY <1>1, <1>2, <2>1, HoldersGone DEF Pace, GivenUp, Abandoned, Holders, Alive
  <2>3. LeaderIsRead
    <3>1. CASE m.readers = {}
      BY <1>2, <3>1 DEF Pace, GivenUp, LeaderIsRead
    <3>2. CASE Since(m.exitedAt, 1)
      <4>1. loop.exitedAt # Never
        BY <1>0, <1>2, <3>2 DEF Since
      <4> QED BY <1>0, <4>1 DEF Pace, ReadToTheEnd
    <3> QED BY <1>5, <3>1, <3>2 DEF Ends
  <2> QED BY <1>1, <2>1, <2>2, <2>3 DEF Pace, Paced, ReadToTheEnd, LeaderIsRead
<1>6. CASE ~Ends(m)
  <2>1. /\ loop'.at = "select" /\ loop'.readers = n.readers /\ loop'.exitedAt = n.exitedAt
        /\ loop'.termAt = n.termAt /\ Killed(loop') = Killed(n)
    BY <1>1, <1>3, <1>6 DEF LoopType, Killed
  <2>2. GivenUp' /\ ReadToTheEnd'
    BY <1>1, <1>2, <1>3, <2>1, HoldersGone DEF Pace, GivenUp, ReadToTheEnd, Abandoned, Holders, Alive
  <2>3. /\ m.termAt # Never => m.termAt <= Deadline
        /\ m.termAt = Never => clock < Deadline
    <3>1. clock >= Deadline => Reason(loop) # "none"
      BY DeadlineIsReason
    <3>2. CASE loop.termAt # Never
      BY <1>0, <1>2, <3>2 DEF Pace, Paced
    <3>3. CASE loop.termAt = Never
      <4>1. clock <= Deadline
        BY <1>0, <3>3 DEF Pace, Paced
      <4>2. CASE Reason(loop) = "none"
        BY <1>0, <1>2, <3>1, <3>3, <4>1, <4>2
      <4>3. CASE Reason(loop) # "none"
        BY <1>2, <1>4, <3>3, <4>1, <4>3
      <4> QED BY <4>2, <4>3
    <3> QED BY <3>2, <3>3
  <2>4. /\ n.termAt # Never => n.termAt <= Deadline
        /\ n.termAt = Never => clock < Deadline
    BY <1>0, <1>3, <1>4, <2>3
  <2>5. ~Killed(n) => clock < Bound
    <3> SUFFICES ASSUME ~Killed(n) PROVE clock < Bound
      OBVIOUS
    <3>1. ~Since(m.termAt, TermGrace)
      BY <1>2, <1>3
    <3>2. CASE m.termAt = Never
      BY <1>0, <2>3, <3>2 DEF Bound
    <3>3. CASE m.termAt # Never
      <4>1. m.termAt \in Nat /\ clock - m.termAt < TermGrace /\ m.termAt <= Deadline
        BY <1>0, <1>2, <2>3, <3>1, <3>3 DEF Since, Moment, LoopType
      <4> QED BY <1>0, <4>1 DEF Bound
    <3> QED BY <3>2, <3>3
  <2>6. m.exitedAt = Never => clock <= Bound
    <3>1. m.exitedAt = Never => loop.exitedAt = Never /\ Alive
      BY <1>2, <1>4
    <3>2. m.exitedAt = Never => clock <= Bound + 1 /\ clock # Bound + 1
      BY <1>0, <3>1 DEF Pace, Paced
    <3> QED BY <1>0, <3>2
  <2>7. m.exitedAt # Never => m.exitedAt <= Bound + 1 /\ clock <= Bound + 1
    <3> SUFFICES ASSUME m.exitedAt # Never PROVE m.exitedAt <= Bound + 1 /\ clock <= Bound + 1
      OBVIOUS
    <3>1. CASE loop.exitedAt = Never
      BY <1>0, <1>2, <3>1 DEF Pace, Paced
    <3>2. CASE loop.exitedAt # Never
      <4>1. m.exitedAt = loop.exitedAt /\ loop.exitedAt <= Bound + 1 /\ clock <= Bound + 2
        BY <1>0, <1>2, <3>2 DEF Pace, Paced
      <4>2. clock # Bound + 2
        <5> SUFFICES ASSUME clock = Bound + 2 PROVE FALSE
          OBVIOUS
        <5>1. Killed(loop)
          BY <1>0 DEF Pace, Paced
        <5>2. clock - m.exitedAt >= 1
          BY <1>0, <3>2, <4>1 DEF Moment
        <5> QED BY <1>2, <1>6, <3>2, <5>1, <5>2, <4>1 DEF Ends, Since
      <4> QED BY <1>0, <4>1, <4>2
    <3> QED BY <3>1, <3>2
  <2>8. Paced'
    BY <1>0, <1>1, <1>3, <2>1, <2>4, <2>5, <2>6, <2>7 DEF Paced, Bound
  <2> QED BY <2>2, <2>8 DEF Pace
<1> QED BY <1>5, <1>6

(* A select: what is ready is read to its end, and a poll may pass. *)
LEMMA SelectPaced ==
  ASSUME Inv, Paced, SuperviseAssumption,
         loop.at = "select", loop'.at = "check", UNCHANGED <<leader, child>>,
         loop'.termAt = loop.termAt, loop'.exitedAt = loop.exitedAt, loop'.sent = loop.sent,
         clock' = clock \/ Passes
  PROVE  Paced'
<1>0. /\ clock \in Nat /\ Deadline \in Nat /\ TermGrace \in Nat /\ Bound \in Nat
      /\ loop.termAt \in Moment /\ loop.exitedAt \in Moment
  BY DEF Inv, TypeOK, SuperviseAssumption, Bound, LoopType
<1>1. clock' = clock \/ (clock' = clock + 1 /\ (Killed(loop) => ~Alive))
  BY DEF Passes, InGroup
<1>2. /\ Killed(loop') = Killed(loop) /\ Alive' = Alive
  BY DEF Killed, Alive
<1>3. UNCHANGED Bound
  BY DEF Bound
<1> QED BY <1>0, <1>1, <1>2, <1>3 DEF Paced

LEMMA ReadsPace ==
  ASSUME Inv, Pace, Reads, SuperviseAssumption
  PROVE  Pace'
<1>1. /\ loop.at = "select" /\ loop'.at = "check" /\ UNCHANGED <<leader, child>>
      /\ loop'.termAt = loop.termAt /\ loop'.exitedAt = loop.exitedAt /\ loop'.sent = loop.sent
      /\ clock' = clock \/ Passes
  BY ReadsFacts DEF Reads
<1>2. /\ loop \in LoopType /\ pipes \in [Streams -> Seq(Line)]
      /\ loop.readers \subseteq Streams
      /\ Noticed(loop)
  BY DEF Inv, TypeOK, LoopType
<1>3. loop'.readers = {s \in loop.readers : s \notin Ready \/ pipes[s] # <<>>}
  <2> DEFINE framed == Framed(loop, IF "out" \in Ready THEN pipes["out"] ELSE <<>>)
  <2>1. loop' = [framed EXCEPT !.at = "check", !.readers = {s \in @ : s \notin Ready \/ pipes[s] # <<>>}]
    BY DEF Reads
  <2>2. framed.readers = loop.readers /\ DOMAIN framed = DOMAIN loop
    BY <1>2 DEF Framed, LoopType
  <2>3. "readers" \in DOMAIN framed
    BY <1>2, <2>2 DEF LoopType
  <2> HIDE DEF framed
  <2> QED BY <2>1, <2>2, <2>3
<1>4. pipes' = [s \in Streams |-> IF s \in Ready THEN <<>> ELSE pipes[s]]
  BY DEF Reads
<1>5. Abandoned' = Abandoned
  BY <1>1, HoldersGone DEF Abandoned, Holders, Alive
<1>6. GivenUp'
  <2> SUFFICES ASSUME NEW s \in Streams, s \notin loop'.readers
               PROVE  Abandoned /\ pipes'[s] = <<>>
    BY <1>5 DEF GivenUp
  <2>1. CASE s \notin loop.readers
    BY <1>4, <2>1 DEF Pace, GivenUp
  <2>2. CASE s \in loop.readers
    <3>1. s \in Ready /\ pipes[s] = <<>>
      BY <1>3, <2>2
    <3> QED BY <1>4, <3>1 DEF Ready, Abandoned
  <2> QED BY <2>1, <2>2
<1>7. \A s \in Streams : pipes'[s] = <<>>
  BY <1>4 DEF Ready, Pace, GivenUp
<1>8. ReadToTheEnd'
  BY <1>7 DEF ReadToTheEnd, LeaderIsRead
<1> QED BY <1>1, <1>6, <1>8, SelectPaced DEF Pace

LEMMA PollPace ==
  ASSUME Inv, Pace, Poll, SuperviseAssumption
  PROVE  Pace'
<1>0. loop \in LoopType
  BY DEF Inv, TypeOK
<1>1. /\ loop.at = "select" /\ loop'.at = "check" /\ UNCHANGED <<leader, child, pipes>>
      /\ loop'.termAt = loop.termAt /\ loop'.exitedAt = loop.exitedAt /\ loop'.sent = loop.sent
      /\ loop'.readers = loop.readers
      /\ Passes /\ Ready = {}
  BY <1>0 DEF Poll, LoopType
<1>2. GivenUp'
  BY <1>1, HoldersGone DEF Pace, GivenUp, Abandoned, Holders, Alive
<1>3. \A s \in Streams : pipes'[s] = <<>>
  BY <1>1 DEF Ready, Pace, GivenUp
<1>4. ReadToTheEnd'
  BY <1>3 DEF ReadToTheEnd, LeaderIsRead
<1> QED BY <1>1, <1>2, <1>4, SelectPaced DEF Pace

(* What the agent, its descendant and the user do leaves the loop as it is. *)
LEMMA OutsidePace ==
  ASSUME Inv, Pace, UNCHANGED <<clock, loop>>,
         Alive' => Alive, Abandoned => Abandoned',
         \/ UNCHANGED pipes
         \/ \E who \in {"leader", "child"}, s \in Streams, what \in {"line"} \cup Verdicts : Writes(who, s, what)
  PROVE  Pace'
<1>0. pipes \in [Streams -> Seq(Line)] /\ Noticed(loop)
  BY DEF Inv, TypeOK
<1>1. Paced'
  BY DEF Pace, Paced, Bound, Killed
<1>2. CASE UNCHANGED pipes
  BY <1>1, <1>2 DEF Pace, GivenUp, ReadToTheEnd, LeaderIsRead
<1>3. ASSUME NEW who \in {"leader", "child"}, NEW s \in Streams, NEW what \in {"line"} \cup Verdicts,
             Writes(who, s, what)
      PROVE  GivenUp' /\ ReadToTheEnd'
  <2> DEFINE line == [by |-> who, what |-> what]
  <2>1. pipes' = [pipes EXCEPT ![s] = Append(@, line)] /\ who \in Holders /\ UNCHANGED <<leader, child>>
    BY <1>3 DEF Writes
  <2>2. ~Abandoned
    BY <2>1 DEF Abandoned
  <2>3. GivenUp'
    BY <2>2 DEF Pace, GivenUp
  <2>4. ASSUME loop.exitedAt # Never, LeaderIsRead PROVE LeaderIsRead'
    <3>1. who # "leader" /\ line.by # "leader"
      BY <1>0, <2>1, <2>4 DEF Noticed, Holders, Alive
    <3> HIDE DEF line
    <3> SUFFICES ASSUME NEW t \in Streams, NEW i \in DOMAIN pipes'[t] PROVE pipes'[t][i].by # "leader"
      BY DEF LeaderIsRead
    <3>2. CASE t # s
      BY <1>0, <2>1, <2>4, <3>2 DEF LeaderIsRead
    <3>3. CASE t = s
      <4>1. pipes[s] \in Seq(Line) /\ pipes'[s] = Append(pipes[s], line)
        BY <1>0, <2>1
      <4>2. DOMAIN pipes'[s] = 1 .. Len(pipes[s]) + 1 /\ DOMAIN pipes[s] = 1 .. Len(pipes[s])
        BY <4>1
      <4>3. CASE i = Len(pipes[s]) + 1
        BY <3>1, <3>3, <4>1, <4>3
      <4>4. CASE i \in DOMAIN pipes[s]
        BY <2>4, <3>3, <4>1, <4>4 DEF LeaderIsRead
      <4> QED BY <3>3, <4>2, <4>3, <4>4
    <3> QED BY <3>2, <3>3
  <2>5. loop.at # "over"
    BY <1>3 DEF Writes
  <2> QED BY <2>3, <2>4, <2>5 DEF Pace, ReadToTheEnd
<1> QED BY <1>1, <1>2, <1>3 DEF Pace

LEMMA PaceInductive ==
  ASSUME Inv, Pace, [Next]_vars, SuperviseAssumption PROVE Pace'
<1>1. CASE Checks
  BY <1>1, ChecksPace
<1>2. CASE Reads
  BY <1>2, ReadsPace
<1>3. CASE Poll
  BY <1>3, PollPace
<1>4. CASE \E who \in {"leader", "child"}, s \in Streams, what \in {"line"} \cup Verdicts : Writes(who, s, what)
  <2>1. UNCHANGED <<clock, loop, leader, child>>
    BY <1>4 DEF Writes
  <2> QED BY <1>4, <2>1, OutsidePace, HoldersGone DEF Abandoned, Holders, Alive
<1>5. CASE Forks \/ LeaderEnds \/ ChildEnds \/ ToldToStop \/ UNCHANGED vars
  <2>1. UNCHANGED <<clock, loop, pipes>>
    BY <1>5 DEF Forks, LeaderEnds, ChildEnds, ToldToStop, vars
  <2>2. (Alive' => Alive) /\ (Abandoned => Abandoned')
    BY <1>5 DEF Forks, LeaderEnds, ChildEnds, ToldToStop, vars, Abandoned, Holders, Alive
  <2> QED BY <2>1, <2>2, OutsidePace
<1> QED BY <1>1, <1>2, <1>3, <1>4, <1>5 DEF Next, Streams

LEMMA AlwaysPaced == Spec => [](Inv /\ Pace)
<1>1. ASSUME Init, SuperviseAssumption PROVE Pace
  BY <1>1 DEF Init, SuperviseAssumption, Pace, Paced, GivenUp, ReadToTheEnd, Killed, Bound, Never
<1>2. Inv /\ Pace /\ [Next]_vars => Pace'
  BY PaceInductive, SuperviseAssumption
<1> QED BY <1>1, <1>2, SuperviseAssumption, Invariant, PTL DEF Spec

(* run_agent never outlives its deadline by more than the grace of TERM and two polls, whatever
   the agent and its descendants do, as long as the kernel ends what it was told to KILL. *)
THEOREM ReturnsByDeadline == Spec => []ReturnsInTime
<1>1. Inv /\ Pace => ReturnsInTime
  <2> SUFFICES ASSUME Inv, Pace, loop.at # "over" PROVE clock <= Deadline + TermGrace + 2
    BY DEF ReturnsInTime
  <2>1. clock \in Nat /\ Deadline \in Nat /\ TermGrace \in Nat
    BY SuperviseAssumption DEF Inv, TypeOK, SuperviseAssumption
  <2> QED BY <2>1 DEF Pace, Paced, Bound
<1> QED BY <1>1, AlwaysPaced, PTL

(* What an agent wrote before it exited by itself was read when run_agent returns, though a
   descendant keeps the pipes open or the exit and the last lines come in one poll. *)
THEOREM NoOutputIsLost == Spec => []OutputRead
<1>1. Inv /\ Pace => OutputRead
  <2> SUFFICES ASSUME Inv, Pace, loop.at = "over", leader = "exited" PROVE LeaderIsRead
    BY DEF OutputRead, LeaderIsRead
  <2> QED BY DEF Pace, ReadToTheEnd
<1> QED BY <1>1, AlwaysPaced, PTL
=======================================================================
