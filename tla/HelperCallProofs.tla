----------------------- MODULE HelperCallProofs -----------------------
(***************************************************************************)
(* A helper call implements the safety part of OneCall, settles in time    *)
(* and answers with all its helper wrote, for every deadline and every     *)
(* cap, whatever the child does.                                           *)
(***************************************************************************)
EXTENDS HelperCall, TLAPS

(* The call is answered when it has settled, at most once, and not before it starts. *)
Once ==
  /\ finished = <<>> \/ (settled /\ Len(finished) = 1)
  /\ child = "none" => settled /\ finished = <<>>

(* What the caller sees of a step. *)
Seen == <<~settled \/ finished # <<>>, Len(finished)>>

(* _settle answers a call that was asked and not answered, or does nothing. *)
LEMMA SettlesFacts ==
  ASSUME Once, NEW reasons, Settles(reasons)
  PROVE  \/ UNCHANGED <<settled, finished>>
         \/ ~settled /\ finished = <<>> /\ settled' = TRUE /\ Len(finished') = 1 /\ finished' # <<>>
<1>1. CASE settled
  BY <1>1 DEF Settles
<1>2. CASE ~settled
  <2>1. finished = <<>> /\ settled' = TRUE /\ finished' = <<Verdict(reasons)>>
    BY <1>2 DEF Once, Settles
  <2> QED BY <1>2, <2>1
<1> QED BY <1>1, <1>2

(* A step that asks, answers or does neither, and none does both. *)
LEMMA Steps ==
  ASSUME Once, [Next]_vars
  PROVE  \/ /\ child = "none" /\ child' # "none"
            /\ settled' = FALSE /\ UNCHANGED finished
         \/ /\ child' = "none" => child = "none"
            /\ \/ UNCHANGED <<settled, finished>>
               \/ ~settled /\ finished = <<>> /\ settled' = TRUE /\ Len(finished') = 1 /\ finished' # <<>>
<1>1. CASE Start
  BY <1>1 DEF Start
<1>2. CASE ChildEnds
  BY <1>2 DEF ChildEnds, callVars
<1>3. ASSUME NEW s \in Streams, ChildWrites(s) \/ TakesChunk(s)
      PROVE  UNCHANGED <<child, settled, finished>>
  BY <1>3 DEF ChildWrites, TakesChunk, callVars
<1>4. CASE ExitReported \/ RunningDrops \/ KillTimerFires \/ Second
  BY <1>4 DEF ExitReported, RunningDrops, KillTimerFires, Second, childVars
<1>5. CASE SettleTurn \/ AbandonTimerFires
  BY <1>5, SettlesFacts DEF SettleTurn, AbandonTimerFires, childVars
<1>6. CASE DeadlineFires
  <2>1. CASE running
    BY <1>6, <2>1 DEF DeadlineFires
  <2>2. CASE ~running
    <3>1. Settles(flags') /\ UNCHANGED child
      BY <1>6, <2>2 DEF DeadlineFires
    <3> QED BY <3>1, SettlesFacts
  <2> QED BY <2>1, <2>2
<1>7. CASE UNCHANGED vars
  BY <1>7 DEF vars, childVars, callVars
<1> QED BY <1>1, <1>2, <1>3, <1>4, <1>5, <1>6, <1>7 DEF Next, EventLoop

(* A call that starts is answered at most once, and only after it was asked: the deadline, the
   exit, the output cap and the wait after KILL cannot answer it twice between them. *)
THEOREM AnsweredAtMostOnce == Spec => Caller!Init /\ [][Caller!Next]_Seen
<1>1. Init => Once /\ Caller!Init
  BY DEF Init, Once, Caller!Init
<1>2. ASSUME Once, [Next]_vars PROVE Once'
  BY <1>2, Steps DEF Once
<1>3. ASSUME Once, [Next]_vars PROVE [Caller!Next]_Seen
  <2>1. CASE child = "none" /\ settled' = FALSE /\ UNCHANGED finished
    BY <1>3, <2>1 DEF Once, Caller!Next, Caller!Ask
  <2>2. CASE UNCHANGED <<settled, finished>>
    BY <2>2 DEF Seen
  <2>3. CASE ~settled /\ finished = <<>> /\ settled' = TRUE /\ Len(finished') = 1 /\ finished' # <<>>
    <3>1. Len(finished) = 0
      BY <2>3
    <3> QED BY <2>3, <3>1 DEF Caller!Next, Caller!Answer
  <2> QED BY <1>3, <2>1, <2>2, <2>3, Steps
<1> QED BY <1>1, <1>2, <1>3, PTL DEF Spec

-----------------------------------------------------------------------------
(* The time a call takes and what its answer holds. *)
Ticking(t) == timers[t] # Off
DueBy == Deadline + KillGrace + AbandonGrace

Kinds ==
  /\ age \in Nat
  /\ timers \in [Timers -> Nat \cup {Off}]
  /\ count \in [Streams -> Nat] /\ unread \in [Streams -> Nat] /\ written \in [Streams -> Nat]

(* Until the call settles one of its timers runs, and each is due at a known age: the deadline
   first, then the KILL, and a wait after the KILL that an overflow restarts, but once. *)
Awaited ==
  /\ settled => \A t \in Timers : ~Ticking(t)
  /\ ~settled => \E t \in Timers : Ticking(t)
  /\ Ticking("deadline") => timers["deadline"] + age = Deadline
  /\ Ticking("killTimer") => timers["killTimer"] + age = Deadline + KillGrace
  /\ Ticking("abandonTimer") =>
       /\ timers["abandonTimer"] + age <= DueBy + AbandonGrace
       /\ "overflowed" \notin flags => timers["abandonTimer"] + age <= DueBy

(* A call that waits after a KILL has no exit code to give, and one that has the exit code of a
   child that ended by itself counted all it read. *)
Traced ==
  /\ Ticking("abandonTimer") => "signalled" \in flags
  /\ "exitSeen" \in flags => child \in {"exited", "killed"}
  /\ "exitSeen" \in flags /\ "crashed" \notin flags => child = "exited"
  /\ ~settled /\ "overflowed" \notin flags => \A s \in Streams : count[s] + unread[s] = written[s]

(* A call that has not started holds nothing. *)
Fresh ==
  child = "none" =>
    /\ age = 0 /\ settled /\ flags = {} /\ ~settleQueued
    /\ \A s \in Streams : count[s] = 0 /\ unread[s] = 0 /\ written[s] = 0

(* The answers given are complete ones, or say that they are not. *)
Complete(answer) ==
  answer.ok /\ ~answer.overflowed /\ ~answer.timedOut =>
    child = "exited" /\ answer.out = written["out"]

CallInv == Once /\ Kinds /\ Awaited /\ Traced /\ Fresh /\ CompleteAnswer

LEMMA TimerNames == "deadline" \in Timers /\ "killTimer" \in Timers /\ "abandonTimer" \in Timers
BY DEF Timers

LEMMA OffIsNoTime == Off \notin Nat
BY DEF Off

LEMMA VerdictFields ==
  ASSUME NEW reasons
  PROVE  LET answer == Verdict(reasons) IN
         /\ answer.ok => "exitSeen" \in reasons /\ "signalled" \notin reasons /\ "crashed" \notin reasons
         /\ ~answer.overflowed => "overflowed" \notin reasons
         /\ ~answer.timedOut => "timedOut" \notin reasons
         /\ answer.out = count["out"]
<1>1. /\ Verdict(reasons).ok = ("exitSeen" \in reasons /\ reasons \cap {"signalled", "crashed"} = {})
      /\ Verdict(reasons).overflowed = ("overflowed" \in reasons)
      /\ Verdict(reasons).timedOut = ("timedOut" \in reasons)
      /\ Verdict(reasons).out = count["out"]
  BY ZenonT(30) DEF Verdict
<1> QED BY <1>1

(* How old a call is that has not settled, by the timer it waits for. *)
LEMMA AgeOfCall ==
  ASSUME Kinds, Awaited, ~settled, CallAssumption
  PROVE  /\ age <= DueBy + AbandonGrace
         /\ "overflowed" \notin flags => age <= DueBy
<1>1. PICK t \in Timers : Ticking(t)
  BY DEF Awaited
<1>2. timers[t] \in Nat /\ age \in Nat /\ Deadline \in Nat
  BY <1>1 DEF Kinds, Ticking, CallAssumption
<1> QED BY <1>1, <1>2 DEF Awaited, Timers, DueBy, KillGrace, AbandonGrace

(* _settle: no timer is left, and the answer it gives is the one told of. *)
LEMMA SettlesOnce ==
  ASSUME CallInv, NEW reasons, Settles(reasons), UNCHANGED <<child, written>>,
         ~settled => Complete(Verdict(reasons))
  PROVE  /\ settled' /\ timers' \in [Timers -> Nat \cup {Off}]
         /\ \A t \in Timers : timers'[t] = Off
         /\ CompleteAnswer'
<1>1. CASE settled
  BY <1>1 DEF Settles, CallInv, Awaited, Ticking, Kinds, CompleteAnswer
<1>2. CASE ~settled
  <2>1. /\ settled' /\ timers' = [t \in Timers |-> Off]
        /\ finished = <<>> /\ finished' = <<Verdict(reasons)>>
    BY <1>2 DEF Settles, CallInv, Once
  <2>2. \A i \in DOMAIN finished' : finished'[i] = Verdict(reasons)
    BY <2>1
  <2>3. ASSUME NEW i \in DOMAIN finished', finished'[i].ok, ~finished'[i].overflowed,
               ~finished'[i].timedOut
        PROVE  child' = "exited" /\ finished'[i].out = written'["out"]
    BY <1>2, <2>2, <2>3 DEF Complete
  <2> QED BY <2>1, <2>3 DEF CompleteAnswer
<1> QED BY <1>1, <1>2

(* An answer stays complete as long as neither it nor a child that ended changes. *)
LEMMA AnswerStays ==
  ASSUME CompleteAnswer, UNCHANGED finished,
         child = "exited" => child' = "exited" /\ written'["out"] = written["out"]
  PROVE  CompleteAnswer'
BY DEF CompleteAnswer

LEMMA StartCall ==
  ASSUME CallInv, Start, CallAssumption PROVE Kinds' /\ Awaited' /\ Traced' /\ Fresh' /\ CompleteAnswer'
<1>1. /\ child = "none" /\ child' \in {"alive", "failed"}
      /\ settled' = FALSE /\ timers' = [timers EXCEPT !["deadline"] = Deadline]
      /\ UNCHANGED <<signals, written, unread, flags, count, age, finished>>
  BY DEF Start
<1>2. /\ age = 0 /\ settled /\ flags = {}
      /\ \A s \in Streams : count[s] = 0 /\ unread[s] = 0 /\ written[s] = 0
      /\ \A t \in Timers : timers[t] = Off
  BY <1>1 DEF CallInv, Fresh, Awaited, Ticking
<1>3. Deadline \in Nat \ {0}
  BY DEF CallAssumption
<1>4. /\ timers' \in [Timers -> Nat \cup {Off}] /\ timers'["deadline"] = Deadline
      /\ timers'["killTimer"] = Off /\ timers'["abandonTimer"] = Off
  BY <1>1, <1>2, <1>3, TimerNames DEF CallInv, Kinds
<1>5. Kinds'
  BY <1>1, <1>4 DEF CallInv, Kinds
<1>6. Awaited'
  BY <1>1, <1>2, <1>3, <1>4, OffIsNoTime, TimerNames DEF Awaited, Ticking
<1>7. Traced'
  BY <1>1, <1>2, <1>4 DEF Traced, Ticking
<1> QED BY <1>1, <1>5, <1>6, <1>7, AnswerStays DEF CallInv, Fresh

(* What the child does to itself and its pipes. *)
LEMMA ChildCall ==
  ASSUME CallInv, ChildEnds \/ \E s \in Streams : ChildWrites(s)
  PROVE  Kinds' /\ Awaited' /\ Traced' /\ Fresh' /\ CompleteAnswer'
<1>1. CASE ChildEnds
  <2>1. /\ child = "alive" /\ child' \in {"exited", "killed"}
        /\ UNCHANGED <<written, unread, count, settled, flags, timers, age, finished>>
    BY <1>1 DEF ChildEnds, callVars
  <2>2. "exitSeen" \notin flags
    BY <2>1 DEF CallInv, Traced
  <2> QED BY <2>1, <2>2, AnswerStays DEF CallInv, Kinds, Awaited, Traced, Fresh, Ticking
<1>2. ASSUME NEW s \in Streams, ChildWrites(s)
      PROVE  Kinds' /\ Awaited' /\ Traced' /\ Fresh' /\ CompleteAnswer'
  <2>1. /\ child = "alive" /\ written' = [written EXCEPT ![s] = @ + 1]
        /\ unread' = [unread EXCEPT ![s] = @ + 1]
        /\ UNCHANGED <<child, count, settled, flags, timers, age, finished>>
    BY <1>2 DEF ChildWrites, callVars
  <2>2. /\ written' \in [Streams -> Nat] /\ unread' \in [Streams -> Nat]
        /\ \A x \in Streams : written'[x] - unread'[x] = written[x] - unread[x]
    BY <2>1 DEF CallInv, Kinds
  <2>3. ~settled' /\ "overflowed" \notin flags' =>
          \A x \in Streams : count'[x] + unread'[x] = written'[x]
    BY <2>1, <2>2 DEF CallInv, Kinds, Traced
  <2>4. Kinds' /\ Awaited' /\ Fresh'
    BY <2>1, <2>2 DEF CallInv, Kinds, Awaited, Fresh, Ticking
  <2>5. Traced'
    BY <2>1, <2>3 DEF CallInv, Traced, Ticking
  <2> QED BY <2>1, <2>4, <2>5, AnswerStays DEF CallInv
<1> QED BY <1>1, <1>2

(* A chunk is counted, dropped, or one too much. *)
LEMMA ChunkCall ==
  ASSUME CallInv, NEW s \in Streams, TakesChunk(s), CallAssumption
  PROVE  Kinds' /\ Awaited' /\ Traced' /\ Fresh' /\ CompleteAnswer'
<1>1. PICK n \in 1 .. unread[s] :
        /\ unread' = [unread EXCEPT ![s] = @ - n]
        /\ IF settled \/ "overflowed" \in flags
           THEN UNCHANGED <<signals, flags, count, timers>>
           ELSE IF count[s] + n > Caps[s]
                THEN HardKill({"overflowed"}, timers) /\ UNCHANGED count
                ELSE count' = [count EXCEPT ![s] = @ + n] /\ UNCHANGED <<signals, flags, timers>>
        /\ UNCHANGED <<child, written, settled, settleQueued, age, finished>>
  BY DEF TakesChunk
<1>2. /\ unread[s] \in Nat /\ count[s] \in Nat /\ n \in Nat /\ n >= 1 /\ n <= unread[s]
  BY DEF CallInv, Kinds
<1>3. /\ unread' \in [Streams -> Nat]
      /\ \A x \in Streams : unread'[x] = IF x = s THEN unread[x] - n ELSE unread[x]
  BY <1>1, <1>2 DEF CallInv, Kinds
<1>4. child # "none"
  BY <1>2 DEF CallInv, Fresh
<1>5. Fresh'
  BY <1>1, <1>4 DEF Fresh
<1>6. CompleteAnswer'
  BY <1>1, AnswerStays DEF CallInv
<1>7. CASE settled \/ "overflowed" \in flags
  BY <1>1, <1>3, <1>5, <1>6, <1>7 DEF CallInv, Kinds, Awaited, Traced, Ticking
<1>8. CASE ~(settled \/ "overflowed" \in flags) /\ count[s] + n > Caps[s]
  <2>1. /\ flags' = flags \cup {"overflowed"} \cup {"signalled"}
        /\ timers' = [timers EXCEPT !["abandonTimer"] = AbandonGrace]
        /\ UNCHANGED <<count, settled>>
    BY <1>1, <1>8 DEF HardKill
  <2>2. /\ timers' \in [Timers -> Nat \cup {Off}]
        /\ timers'["deadline"] = timers["deadline"] /\ timers'["killTimer"] = timers["killTimer"]
        /\ timers'["abandonTimer"] = AbandonGrace
    BY <2>1, TimerNames DEF CallInv, Kinds, AbandonGrace
  <2>3. age \in Nat /\ age <= DueBy /\ DueBy \in Nat
    BY <1>8, AgeOfCall DEF CallInv, Kinds, DueBy, CallAssumption, KillGrace, AbandonGrace
  <2>4. AbandonGrace + age <= DueBy + AbandonGrace
    BY <2>3 DEF AbandonGrace
  <2>5. Awaited'
    <3>1. Ticking("abandonTimer")'
      BY <2>2, OffIsNoTime DEF Ticking, AbandonGrace
    <3>2. /\ Ticking("deadline")' => Ticking("deadline")
          /\ Ticking("killTimer")' => Ticking("killTimer")
      BY <2>2 DEF Ticking
    <3> QED BY <1>1, <1>8, <2>1, <2>2, <2>4, <3>1, <3>2, TimerNames DEF CallInv, Awaited, DueBy
  <2>6. Kinds'
    BY <1>1, <1>3, <2>1, <2>2 DEF CallInv, Kinds
  <2>7. Traced'
    BY <1>1, <2>1 DEF CallInv, Traced
  <2> QED BY <1>5, <1>6, <2>5, <2>6, <2>7
<1>9. CASE ~(settled \/ "overflowed" \in flags) /\ ~(count[s] + n > Caps[s])
  <2>1. /\ count' = [count EXCEPT ![s] = @ + n]
        /\ UNCHANGED <<flags, timers, settled, age, written, child>>
    BY <1>1, <1>9
  <2>2. /\ count' \in [Streams -> Nat]
        /\ \A x \in Streams : count'[x] = IF x = s THEN count[x] + n ELSE count[x]
    BY <1>2, <2>1 DEF CallInv, Kinds
  <2>3. \A x \in Streams : count'[x] + unread'[x] = written'[x]
    <3> SUFFICES ASSUME NEW x \in Streams PROVE count'[x] + unread'[x] = written[x]
      BY <2>1
    <3>1. count[x] + unread[x] = written[x] /\ count[x] \in Nat /\ unread[x] \in Nat
      BY <1>9 DEF CallInv, Traced, Kinds
    <3> QED BY <1>2, <1>3, <2>2, <3>1
  <2>4. Kinds' /\ Awaited'
    BY <1>3, <2>1, <2>2 DEF CallInv, Kinds, Awaited, Ticking
  <2>5. Traced'
    BY <2>1, <2>3 DEF CallInv, Traced, Ticking
  <2> QED BY <1>5, <1>6, <2>4, <2>5
<1> QED BY <1>7, <1>8, <1>9

(* The exit, the end of running and the turn in which the call settles. *)
LEMMA ExitCall ==
  ASSUME CallInv, ExitReported \/ RunningDrops
  PROVE  Kinds' /\ Awaited' /\ Traced' /\ Fresh' /\ CompleteAnswer'
<1>1. /\ UNCHANGED <<child, written, unread, count, settled, timers, age, finished>>
      /\ child # "none"
  BY DEF ExitReported, RunningDrops, childVars, Gone
<1>2. \/ UNCHANGED flags
      \/ /\ child \in {"exited", "killed"}
         /\ flags' = flags \cup {"exitSeen"} \cup (IF child = "killed" THEN {"crashed"} ELSE {})
  BY DEF ExitReported, RunningDrops
<1>3. ("overflowed" \in flags' <=> "overflowed" \in flags)
      /\ ("signalled" \in flags' <=> "signalled" \in flags)
  BY <1>2
<1>4. /\ "exitSeen" \in flags' => child \in {"exited", "killed"}
      /\ "exitSeen" \in flags' /\ "crashed" \notin flags' => child = "exited"
  BY <1>2 DEF CallInv, Traced
<1> QED BY <1>1, <1>3, <1>4, AnswerStays DEF CallInv, Kinds, Awaited, Traced, Fresh, Ticking

LEMMA SettlingCall ==
  ASSUME CallInv, SettleTurn \/ AbandonTimerFires
  PROVE  Kinds' /\ Awaited' /\ Traced' /\ Fresh' /\ CompleteAnswer'
<1>1. /\ Settles(flags) /\ UNCHANGED <<child, written, unread, flags, count, age>>
  BY DEF SettleTurn, AbandonTimerFires, childVars
<1>2. ~settled => Complete(Verdict(flags))
  <2> SUFFICES ASSUME ~settled, Verdict(flags).ok, ~Verdict(flags).overflowed
               PROVE  child = "exited" /\ Verdict(flags).out = written["out"]
    BY DEF Complete
  <2>1. /\ "exitSeen" \in flags /\ "signalled" \notin flags /\ "crashed" \notin flags
        /\ "overflowed" \notin flags /\ Verdict(flags).out = count["out"]
    BY VerdictFields
  <2>2. child = "exited"
    BY <2>1 DEF CallInv, Traced
  <2>3. CASE SettleTurn
    <3>1. unread["out"] = 0 /\ count["out"] + unread["out"] = written["out"] /\ count["out"] \in Nat
      BY <2>1, <2>2, <2>3 DEF SettleTurn, CallInv, Traced, Kinds, Streams
    <3> QED BY <2>1, <2>2, <3>1
  <2>4. CASE AbandonTimerFires
    BY <2>1, <2>4, OffIsNoTime DEF AbandonTimerFires, CallInv, Traced, Ticking
  <2> QED BY <2>3, <2>4
<1>3. /\ settled' /\ timers' \in [Timers -> Nat \cup {Off}]
      /\ \A t \in Timers : timers'[t] = Off
      /\ CompleteAnswer'
  BY <1>1, <1>2, SettlesOnce
<1>4. child # "none"
  BY OffIsNoTime, TimerNames DEF SettleTurn, AbandonTimerFires, CallInv, Fresh, Awaited, Ticking
<1> QED BY <1>1, <1>3, <1>4, TimerNames DEF CallInv, Kinds, Awaited, Traced, Fresh, Ticking

LEMMA DeadlineCall ==
  ASSUME CallInv, DeadlineFires, CallAssumption
  PROVE  Kinds' /\ Awaited' /\ Traced' /\ Fresh' /\ CompleteAnswer'
<1>1. /\ timers["deadline"] = 0 /\ Ticking("deadline")
      /\ UNCHANGED <<child, written, unread, count, age>>
  BY OffIsNoTime DEF DeadlineFires, Ticking
<1>2. ~settled /\ child # "none" /\ age = Deadline
  BY <1>1, TimerNames DEF CallInv, Awaited, Fresh, Kinds
<1>3. CASE running
  <2>1. /\ flags' = flags \cup {"timedOut", "signalled"}
        /\ timers' = [timers EXCEPT !["deadline"] = Off, !["killTimer"] = KillGrace]
        /\ UNCHANGED <<settled, finished>>
    BY <1>3 DEF DeadlineFires
  <2>2. /\ timers' \in [Timers -> Nat \cup {Off}]
        /\ timers'["deadline"] = Off /\ timers'["killTimer"] = KillGrace
        /\ timers'["abandonTimer"] = timers["abandonTimer"]
    BY <2>1, TimerNames DEF CallInv, Kinds, KillGrace
  <2>3. Ticking("killTimer")' /\ KillGrace + age = Deadline + KillGrace
    BY <1>2, <2>2, OffIsNoTime DEF Ticking, KillGrace, CallAssumption
  <2>4. Awaited'
    BY <1>1, <1>2, <2>1, <2>2, <2>3, TimerNames DEF CallInv, Awaited, Ticking
  <2>5. Kinds' /\ Traced' /\ Fresh'
    BY <1>1, <1>2, <2>1, <2>2 DEF CallInv, Kinds, Traced, Fresh, Ticking
  <2> QED BY <1>1, <2>1, <2>4, <2>5, AnswerStays DEF CallInv
<1>4. CASE ~running
  <2>1. flags' = flags \cup {"timedOut"} /\ Settles(flags')
    BY <1>4 DEF DeadlineFires
  <2>2. Complete(Verdict(flags'))
    BY <2>1, VerdictFields DEF Complete
  <2>3. /\ settled' /\ timers' \in [Timers -> Nat \cup {Off}]
        /\ \A t \in Timers : timers'[t] = Off
        /\ CompleteAnswer'
    BY <1>1, <2>1, <2>2, SettlesOnce
  <2> QED BY <1>1, <1>2, <2>1, <2>3, TimerNames DEF CallInv, Kinds, Awaited, Traced, Fresh, Ticking
<1> QED BY <1>3, <1>4

LEMMA KillCall ==
  ASSUME CallInv, KillTimerFires, CallAssumption
  PROVE  Kinds' /\ Awaited' /\ Traced' /\ Fresh' /\ CompleteAnswer'
<1> DEFINE left == [timers EXCEPT !["killTimer"] = Off]
<1>1. /\ timers["killTimer"] = 0 /\ Ticking("killTimer")
      /\ flags' = flags \cup {} \cup {"signalled"}
      /\ timers' = [left EXCEPT !["abandonTimer"] = AbandonGrace]
      /\ UNCHANGED <<child, written, unread, count, settled, age, finished>>
  BY OffIsNoTime DEF KillTimerFires, HardKill, Ticking
<1>2. /\ left \in [Timers -> Nat \cup {Off}] /\ left["killTimer"] = Off
      /\ left["deadline"] = timers["deadline"]
  BY TimerNames DEF CallInv, Kinds
<1> HIDE DEF left
<1>3. /\ timers' \in [Timers -> Nat \cup {Off}]
      /\ timers'["deadline"] = timers["deadline"] /\ timers'["killTimer"] = Off
      /\ timers'["abandonTimer"] = AbandonGrace
  BY <1>1, <1>2, TimerNames DEF AbandonGrace
<1>4. ~settled /\ child # "none" /\ age = Deadline + KillGrace
  BY <1>1, TimerNames DEF CallInv, Awaited, Fresh, Kinds
<1>5. Ticking("abandonTimer")' /\ AbandonGrace + age = DueBy /\ DueBy <= DueBy + AbandonGrace
  BY <1>3, <1>4, OffIsNoTime DEF Ticking, DueBy, AbandonGrace, KillGrace, CallAssumption
<1>6. Awaited'
  BY <1>1, <1>3, <1>4, <1>5, TimerNames DEF CallInv, Awaited, Ticking, DueBy
<1>7. Kinds' /\ Traced' /\ Fresh'
  BY <1>1, <1>3, <1>4 DEF CallInv, Kinds, Traced, Fresh
<1> QED BY <1>1, <1>6, <1>7, AnswerStays DEF CallInv

LEMMA SecondCall ==
  ASSUME CallInv, Second, CallAssumption
  PROVE  Kinds' /\ Awaited' /\ Traced' /\ Fresh' /\ CompleteAnswer'
<1>1. /\ ~settled /\ \A t \in Timers : timers[t] # 0
      /\ timers' = [t \in Timers |-> IF timers[t] = Off THEN Off ELSE timers[t] - 1]
      /\ age' = age + 1
      /\ UNCHANGED <<child, written, unread, flags, count, settled, finished>>
  BY DEF Second, childVars
<1>2. age \in Nat /\ age' \in Nat /\ child # "none"
  BY <1>1 DEF CallInv, Kinds, Fresh
<1>3. ASSUME NEW t \in Timers
      PROVE  /\ timers'[t] \in Nat \cup {Off} /\ Ticking(t)' = Ticking(t)
             /\ Ticking(t) => timers'[t] + age' = timers[t] + age
  <2>1. CASE timers[t] = Off
    BY <1>1, <2>1 DEF Ticking
  <2>2. CASE timers[t] # Off
    <3>1. timers[t] \in Nat \ {0} /\ timers'[t] = timers[t] - 1
      BY <1>1, <2>2 DEF CallInv, Kinds
    <3> QED BY <1>1, <1>2, <2>2, <3>1, OffIsNoTime DEF Ticking
  <2> QED BY <2>1, <2>2
<1>4. Awaited'
  BY <1>1, <1>3, TimerNames DEF CallInv, Awaited, DueBy
<1>5. Kinds' /\ Traced' /\ Fresh'
  BY <1>1, <1>2, <1>3, TimerNames DEF CallInv, Kinds, Traced, Fresh
<1> QED BY <1>1, <1>4, <1>5, AnswerStays DEF CallInv

LEMMA CallInductive ==
  ASSUME CallInv, [Next]_vars, CallAssumption PROVE CallInv'
<1>1. Once'
  BY Steps DEF CallInv, Once
<1>2. CASE UNCHANGED vars
  BY <1>1, <1>2 DEF vars, childVars, callVars, CallInv, Kinds, Awaited, Traced, Fresh, CompleteAnswer,
                    Ticking
<1>3. CASE Next
  BY <1>1, <1>3, StartCall, ChildCall, ChunkCall, ExitCall, SettlingCall, DeadlineCall, KillCall,
     SecondCall DEF Next, EventLoop, CallInv
<1> QED BY <1>2, <1>3

LEMMA CallInvariant == Spec => []CallInv
<1>1. Init => CallInv
  BY DEF Init, CallInv, Once, Kinds, Awaited, Traced, Fresh, CompleteAnswer, Ticking, Streams, Timers
<1>2. CallInv /\ [Next]_vars => CallInv'
  BY CallInductive, CallAssumption
<1> QED BY <1>1, <1>2, PTL DEF Spec

(* No caller waits longer than the deadline, the grace and two waits after the KILL, for a child
   that hangs, floods its streams or cannot be killed: a timer always runs, and an overflow
   restarts the last one only once. *)
THEOREM CallsSettleInTime == Spec => []SettlesInTime
<1>1. CallInv => SettlesInTime
  <2> SUFFICES ASSUME CallInv, ~settled
               PROVE  age <= Deadline + KillGrace + 2 * AbandonGrace
    BY DEF SettlesInTime
  <2>1. age <= DueBy + AbandonGrace /\ age \in Nat /\ Deadline \in Nat
    BY CallAssumption, AgeOfCall DEF CallInv, Kinds, CallAssumption
  <2> QED BY <2>1 DEF DueBy, KillGrace, AbandonGrace
<1> QED BY <1>1, CallInvariant, PTL

(* What the panel parses is all the helper wrote, with the exit of a helper that ended by itself:
   no timer, overflow or late chunk makes an answer of a part of it. *)
THEOREM AnswersAreComplete == Spec => []CompleteAnswer
<1>1. CallInv => CompleteAnswer
  BY DEF CallInv
<1> QED BY <1>1, CallInvariant, PTL
=======================================================================
