----------------------------- MODULE Units -----------------------------
(***************************************************************************)
(* The systemd user manager as systemd.py uses it: transient timers, the    *)
(* services they start, and stopping both by name.  A unit is a job id and  *)
(* a generation.  The service of a unit is its runner process (KillMode is  *)
(* control-group, so the agent never outlives it).                          *)
(***************************************************************************)
EXTENDS JobStore

VARIABLES timers,             \* units whose timer is loaded
          runners,            \* the live runner processes
          stopping            \* units some process is about to stop, the jobs lock released

unitVars == <<timers, runners, stopping>>

Unit == JobIds \X Nat

(* start: before the first section of the claim; gate: between its sections; agent: the
   agent runs; post: it ended, nothing is recorded; leave: only the exit is left.
   session is the one whose lock file the process holds. *)
Phases == {"start", "gate", "agent", "post", "leave"}
Runner == [job : JobIds, gen : Nat, phase : Phases, session : Sessions \cup {NoSession},
           term : BOOLEAN]

UnitOf(r)   == <<r.job, r.gen>>
NewRunner(u) == [job |-> u[1], gen |-> u[2], phase |-> "start", session |-> NoSession,
                 term |-> FALSE]

ServiceLive(u) == \E r \in runners : UnitOf(r) = u
UnitLive(u)    == u \in timers \/ ServiceLive(u)

Became(r, s) == runners' = (runners \ {r}) \cup {s}
Enters(r, phase) == Became(r, [r EXCEPT !.phase = phase])

(* Only the exit is left, and a SIGTERM changes nothing any more. *)
Leaves(r) == Became(r, [r EXCEPT !.phase = "leave", !.term = FALSE])
Exits(r)  == runners' = runners \ {r}

(* systemd-run: "timer" for a fire time ahead, "now" for a service started at once. *)
Created(u, how) ==
  /\ timers'  = IF how = "timer" THEN timers \cup {u} ELSE timers
  /\ runners' = IF how = "now" THEN runners \cup {NewRunner(u)} ELSE runners

(* Stopping may poll for seconds, so it waits until the jobs lock is released. *)
StopsLater(units) == stopping' = stopping \cup units

UnitsInit == timers = {} /\ runners = {} /\ stopping = {}

UnitsTypeOK ==
  /\ timers \subseteq Unit
  /\ runners \subseteq Runner
  /\ stopping \subseteq Unit

-----------------------------------------------------------------------------
(* The timer of the current generation waits for the fire time; when that of an older one
   elapses is not recorded any more.  --collect unloads it. *)
TimerElapses(u) ==
  /\ u \in timers
  /\ jobs[u[1]].gen = u[2] /\ jobs[u[1]].status = "armed" => jobs[u[1]].due # "early"
  /\ timers' = timers \ {u}
  /\ runners' = runners \cup {NewRunner(u)}
  /\ UNCHANGED <<stopping, storeVars, blocked, budget, historyVars>>

(* stop --no-block: the timer goes at once, the service gets SIGTERM. *)
StopsUnit(u) ==
  /\ timers' = timers \ {u}
  /\ runners' = {IF UnitOf(r) = u /\ r.phase # "leave" THEN [r EXCEPT !.term = TRUE] ELSE r :
                 r \in runners}

StopSent(u) ==
  /\ u \in stopping
  /\ stopping' = stopping \ {u}
  /\ StopsUnit(u)
  /\ UNCHANGED <<storeVars, blocked, budget, historyVars>>

(* systemctl failed, or the process that would have called it died. *)
StopLost(u) ==
  /\ u \in stopping
  /\ Spend("faults")
  /\ stopping' = stopping \ {u}
  /\ UNCHANGED <<timers, runners, storeVars, blocked, historyVars>>

(* RuntimeMaxSec. *)
RuntimeExceeded(r) ==
  /\ r \in runners /\ r.phase = "agent" /\ ~r.term
  /\ Became(r, [r EXCEPT !.term = TRUE])
  /\ UNCHANGED <<timers, stopping, storeVars, blocked, budget, historyVars>>

(* SIGKILL, TimeoutStopSec after the SIGTERM. *)
RunnerKilled(r) ==
  /\ r \in runners /\ r.term
  /\ Exits(r)
  /\ UNCHANGED <<timers, stopping, storeVars, blocked, budget, historyVars>>

(* The process dies by itself (out of memory), at any point between two writes. *)
RunnerDies(r) ==
  /\ r \in runners
  /\ Spend("faults")
  /\ Exits(r)
  /\ UNCHANGED <<timers, stopping, storeVars, blocked, historyVars>>

RunnerExits(r) ==
  /\ r \in runners /\ r.phase = "leave"
  /\ Exits(r)
  /\ UNCHANGED <<timers, stopping, storeVars, blocked, budget, historyVars>>
=======================================================================
