-------------------------- MODULE HelperCall --------------------------
(***************************************************************************)
(* BoundedProcess.qml: one call of the helper.  The events of the child     *)
(* (output, exit, the end of running) and of three timers arrive in any     *)
(* order the event loop allows; the call settles once.  Service.qml creates *)
(* an object per call, starts it once and destroys it when it has settled.  *)
(* Time is in seconds; a timer that is due fires before the next second.    *)
(***************************************************************************)
EXTENDS Integers, Sequences

CONSTANTS Caps,               \* what may be read of each stream: maxStdoutBytes, maxStderrBytes
          Deadline,           \* deadlineMs
          MaxWritten          \* bound: what the child writes to a stream

Streams == {"out", "err"}

ASSUME CallAssumption ==
  Caps \in [Streams -> Nat] /\ Deadline \in Nat \ {0} /\ MaxWritten \in Nat

(* The intervals of killTimer and abandonTimer. *)
KillGrace    == 2
AbandonGrace == 3

Timers == {"deadline", "killTimer", "abandonTimer"}
Off    == -1                  \* a timer that does not run

VARIABLES child,              \* the process: none, failed (to start), alive, exited, killed
          signals,            \* the signals sent to it
          written, unread,    \* of each stream: all it wrote, what is still in the pipe
          running,            \* proc.running, as the event loop has seen it
          flags,              \* which of _overflowed, _timedOut, ... hold
          count,              \* _outCount and _errCount
          settled,            \* _settled
          settleQueued,       \* Qt.callLater(_settle) waits for its turn
          timers,             \* seconds left
          age,                \* seconds since start()
          finished            \* the finished signals emitted

childVars == <<child, signals, written, unread>>
callVars  == <<running, flags, count, settled, settleQueued, timers, finished>>
vars      == <<childVars, callVars, age>>

Init ==
  /\ child = "none" /\ signals = {}
  /\ written = [s \in Streams |-> 0] /\ unread = [s \in Streams |-> 0]
  /\ running = FALSE /\ flags = {} /\ count = [s \in Streams |-> 0]
  /\ settled = TRUE /\ settleQueued = FALSE
  /\ timers = [t \in Timers |-> Off] /\ age = 0 /\ finished = <<>>

-----------------------------------------------------------------------------
Start ==
  /\ child = "none"
  /\ child' \in {"alive", "failed"}
  /\ running' = TRUE /\ settled' = FALSE
  /\ timers' = [timers EXCEPT !["deadline"] = Deadline]
  /\ UNCHANGED <<signals, written, unread, flags, count, settleQueued, age, finished>>

(* The answer of a call that settles with these flags. *)
Verdict(reasons) ==
  [ok         |-> "exitSeen" \in reasons /\ reasons \cap {"signalled", "crashed"} = {},
   out        |-> count["out"],
   overflowed |-> "overflowed" \in reasons,
   timedOut   |-> "timedOut" \in reasons]

(* Mutant: settled is not asked. *)
SettlesAgain(reasons) ==
  /\ settled' = TRUE
  /\ timers' = [t \in Timers |-> Off]
  /\ finished' = Append(finished, Verdict(reasons))

(* _settle *)
Settles(reasons) ==
  IF settled THEN UNCHANGED <<settled, timers, finished>>
  ELSE /\ settled' = TRUE
       /\ timers' = [t \in Timers |-> Off]
       /\ finished' = Append(finished, Verdict(reasons))

Sends(signal) == signals' = IF running THEN signals \cup {signal} ELSE signals

(* Mutant: nothing waits for the KILL to end the child. *)
HardKillOnly(reasons, left) ==
  /\ flags' = flags \cup reasons \cup {"signalled"}
  /\ Sends("KILL")
  /\ timers' = left

(* _hardKill, from an overflow or from the killTimer; left are the timers but for the restart. *)
HardKill(reasons, left) ==
  /\ flags' = flags \cup reasons \cup {"signalled"}
  /\ Sends("KILL")
  /\ timers' = [left EXCEPT !["abandonTimer"] = AbandonGrace]

-----------------------------------------------------------------------------
(* What the child does.  It may crash, ignore TERM, and even KILL may not be seen to end it. *)
ChildWrites(s) ==
  /\ child = "alive" /\ written[s] < MaxWritten
  /\ written' = [written EXCEPT ![s] = @ + 1]
  /\ unread'  = [unread EXCEPT ![s] = @ + 1]
  /\ UNCHANGED <<child, signals, callVars, age>>

ChildEnds ==
  /\ child = "alive"
  /\ child' \in {"exited", "killed"}
  /\ UNCHANGED <<signals, written, unread, callVars, age>>

-----------------------------------------------------------------------------
(* _takeOut and _takeErr: a chunk of n. *)
TakesChunk(s) ==
  \E n \in 1 .. unread[s] :
    /\ unread' = [unread EXCEPT ![s] = @ - n]
    /\ IF settled \/ "overflowed" \in flags
       THEN UNCHANGED <<signals, flags, count, timers>>
       ELSE IF count[s] + n > Caps[s]
            THEN HardKill({"overflowed"}, timers) /\ UNCHANGED count
            ELSE count' = [count EXCEPT ![s] = @ + n] /\ UNCHANGED <<signals, flags, timers>>
    /\ UNCHANGED <<child, written, running, settled, settleQueued, age, finished>>

Gone == child \in {"failed", "exited", "killed"}

(* _onExited: never for a child that did not start. *)
ExitReported ==
  /\ child \in {"exited", "killed"} /\ "exitSeen" \notin flags
  /\ flags' = flags \cup {"exitSeen"} \cup (IF child = "killed" THEN {"crashed"} ELSE {})
  /\ UNCHANGED <<childVars, running, count, settled, settleQueued, timers, age, finished>>

(* Mutant: the verdict is given as soon as running drops. *)
RunningDropsAtOnce ==
  /\ Gone /\ running
  /\ running' = FALSE
  /\ Settles(flags)
  /\ UNCHANGED <<childVars, flags, count, settleQueued, age>>

(* onRunningChanged *)
RunningDrops ==
  /\ Gone /\ running
  /\ running' = FALSE
  /\ settleQueued' = ~settled
  /\ UNCHANGED <<childVars, flags, count, settled, timers, age, finished>>

(* The next turn of the event loop, with the exit and the last chunks of this one in. *)
SettleTurn ==
  /\ settleQueued
  /\ child # "failed" => "exitSeen" \in flags /\ \A s \in Streams : unread[s] = 0
  /\ settleQueued' = FALSE
  /\ Settles(flags)
  /\ UNCHANGED <<childVars, running, flags, count, age>>

DeadlineFires ==
  /\ timers["deadline"] = 0
  /\ IF running
     THEN /\ flags' = flags \cup {"timedOut", "signalled"}
          /\ Sends("TERM")
          /\ timers' = [timers EXCEPT !["deadline"] = Off, !["killTimer"] = KillGrace]
          /\ UNCHANGED <<settled, finished>>
     ELSE /\ flags' = flags \cup {"timedOut"}
          /\ Settles(flags')
          /\ UNCHANGED signals
  /\ UNCHANGED <<child, written, unread, running, count, settleQueued, age>>

KillTimerFires ==
  /\ timers["killTimer"] = 0
  /\ HardKill({}, [timers EXCEPT !["killTimer"] = Off])
  /\ UNCHANGED <<child, written, unread, running, count, settled, settleQueued, age, finished>>

AbandonTimerFires ==
  /\ timers["abandonTimer"] = 0
  /\ Settles(flags)
  /\ UNCHANGED <<childVars, running, flags, count, settleQueued, age>>

Second ==
  /\ ~settled /\ \A t \in Timers : timers[t] # 0
  /\ timers' = [t \in Timers |-> IF timers[t] = Off THEN Off ELSE timers[t] - 1]
  /\ age' = age + 1
  /\ UNCHANGED <<childVars, running, flags, count, settled, settleQueued, finished>>

EventLoop ==
  \/ ExitReported \/ RunningDrops \/ SettleTurn
  \/ DeadlineFires \/ KillTimerFires \/ AbandonTimerFires
  \/ Second

Next ==
  \/ Start \/ EventLoop \/ ChildEnds
  \/ \E s \in Streams : ChildWrites(s) \/ TakesChunk(s)

(* The event loop runs and time passes; nothing is asked of the child. *)
Spec == Init /\ [][Next]_vars /\ WF_vars(EventLoop)

-----------------------------------------------------------------------------
(* Every call that starts is answered exactly once, whatever the child does: it never starts,
   hangs, ignores TERM, floods a stream or cannot even be killed. *)
Caller == INSTANCE OneCall WITH asked <- ~settled \/ finished # <<>>, answers <- Len(finished)
AnsweredOnce == Caller!Spec

(* The answer comes within a bound after the deadline: the grace before the KILL, the wait after
   it, and that wait once more when a last chunk overflows meanwhile (_hardKill restarts it). *)
SettlesInTime == ~settled => age <= Deadline + KillGrace + 2 * AbandonGrace

(* _parse reads the text of an answer that neither overflowed nor timed out: that text is all
   the child wrote when its exit code came with it, never a part. *)
CompleteAnswer ==
  \A i \in DOMAIN finished :
    finished[i].ok /\ ~finished[i].overflowed /\ ~finished[i].timedOut =>
      child = "exited" /\ finished[i].out = written["out"]
=======================================================================
