--------------------------- MODULE Requests ---------------------------
(***************************************************************************)
(* Service.qml: the requests of the panel to the helper.  Reads run side by *)
(* side, one per verb and arguments (a key); changes run one at a time.  A  *)
(* helper call is answered once (HelperCall): here it reads or changes the  *)
(* store at some moment and answers later.  The store is its version.       *)
(***************************************************************************)
EXTENDS Naturals, FiniteSets, Sequences, SequencesExt

CONSTANTS ReadKeys,           \* verb and arguments of the reads, "list" among them
          LatestKeys,         \* reads whose newest asker replaces the one still waiting
          Askers,             \* callbacks; each is asked for once
          Change,             \* the change an asker asks for, or "read"
          ReadMax, WaitMax, WriteMax,     \* _readInflightMax, _readWaitMax, _writeQueueMax
          Crowds,             \* bound: the askers that come together
          Budget              \* bounds, of each crowd: refreshes, changes by runners, helper calls that fail

Changes == {"save-and-arm", "disarm", "reconcile", "settings-set"}
Bounds == {"refreshes", "elsewhere", "failures"}

ASSUME RequestsAssumption ==
  /\ "list" \in ReadKeys /\ LatestKeys \subseteq ReadKeys \ {"list"} /\ "none" \notin Askers
  /\ Change \in [Askers -> Changes \cup {"read"}]
  /\ ReadMax \in Nat \ {0} /\ WaitMax \in Nat /\ WriteMax \in Nat
  /\ Crowds \subseteq SUBSET Askers /\ Budget \in [Crowds -> [Bounds -> Nat]]

VARIABLES version,            \* of the store
          lane,               \* the reads: in flight, pending per key, waiting, answered later
          write,              \* the change in flight, the queue, those answered later
          joiners,            \* askers of a reconcile that joined the one under way
          mirror,             \* the version the panel shows; whether the last list failed
          asks,               \* what became of each asker
          budget              \* what is left of Budget

vars == <<version, lane, write, joiners, mirror, asks, budget>>

Unseen == 0
Nobody == [verb |-> "none", asker |-> "none", applied |-> Unseen]

Init ==
  /\ version = 1
  /\ lane = [inflight |-> <<>>, pending |-> <<>>, wait |-> <<>>, later |-> {}]
  /\ write = [inflight |-> Nobody, queue |-> <<>>, later |-> {}]
  /\ joiners = {}
  /\ mirror = [shows |-> Unseen, failed |-> FALSE]
  /\ \E crowd \in Crowds :
       /\ asks = [a \in Askers |-> [state |-> IF a \in crowd THEN "idle" ELSE "absent",
                                   since |-> Unseen, saw |-> Unseen]]
       /\ budget = Budget[crowd]

-----------------------------------------------------------------------------
Running(l) == DOMAIN l.inflight
With(f, k, v) == [x \in DOMAIN f \cup {k} |-> IF x = k THEN v ELSE f[x]]
Without(f, k) == Restrict(f, DOMAIN f \ {k})

(* _startRead *)
StartRead(l, k, who) ==
  [l EXCEPT !.inflight = With(@, k, [askers |-> who, saw |-> Unseen])]

TellLater(l, k, who) == [l EXCEPT !.later = @ \cup {[key |-> k, askers |-> who]}]

(* _mergeRead: what waits for key k, in the lane where the one it replaces is told so. *)
MergedAskers(k, old, who) == IF k \in LatestKeys THEN who ELSE old \cup who
(* Mutant: the one it replaces is never told. *)
ToldNothing(l, k, old) == l
Told(l, k, old) == IF k \in LatestKeys THEN TellLater(l, k, old) ELSE l

(* Mutant: the limit is not asked. *)
StartNow(l, k, who) == StartRead(l, k, who)
StartOrWait(l, k, who) ==
  IF Cardinality(Running(l)) < ReadMax THEN StartRead(l, k, who)
  ELSE IF Len(l.wait) < WaitMax
  THEN [l EXCEPT !.wait = Append(@, [key |-> k, askers |-> who])]
  ELSE TellLater(l, k, who)

(* _requestRead *)
RequestRead(l, k, who) ==
  LET place == {i \in DOMAIN l.wait : l.wait[i].key = k} IN
  IF k \in Running(l)
  THEN IF k \in DOMAIN l.pending
       THEN [Told(l, k, l.pending[k]) EXCEPT !.pending[k] = MergedAskers(k, @, who)]
       ELSE [l EXCEPT !.pending = With(@, k, who)]
  ELSE IF place # {}
  THEN LET i == CHOOSE i \in place : TRUE
       IN [Told(l, k, l.wait[i].askers) EXCEPT !.wait[i].askers = MergedAskers(k, @, who)]
  ELSE StartOrWait(l, k, who)

(* Mutant: nothing that waits is started. *)
DrainedNone(l) == l
(* _drainReadWait: those that wait are taken up in their order, or wait on. *)
TakenUp(l, next) ==
  IF Cardinality(Running(l)) >= ReadMax THEN [l EXCEPT !.wait = Append(@, next)]
  ELSE IF next.key \in Running(l) THEN RequestRead(l, next.key, next.askers)
  ELSE StartRead(l, next.key, next.askers)
Drained(l) ==
  LET after[n \in 0..Len(l.wait)] ==
        IF n = 0 THEN [l EXCEPT !.wait = <<>>] ELSE TakenUp(after[n - 1], l.wait[n])
  IN after[Len(l.wait)]

(* Mutant: a list already under way is enough. *)
RefreshedOnce(l) == IF "list" \in Running(l) THEN l ELSE RequestRead(l, "list", {})
(* _refresh *)
Refreshed(l) == RequestRead(l, "list", {})

-----------------------------------------------------------------------------
(* An asker's callback runs: with an answer of the version saw, or with an error. *)
Answered(record, saw) == [record EXCEPT !.state = "answered", !.saw = saw]
Deliver(who, saw) ==
  asks' = [a \in Askers |-> IF a \in who THEN Answered(asks[a], saw) ELSE asks[a]]

Asks(a, since) ==
  /\ asks[a].state = "idle"
  /\ asks' = [asks EXCEPT ![a].state = "waiting", ![a].since = since]

AsksRead(a, k) ==
  /\ Change[a] = "read" /\ k # "list"
  /\ Asks(a, version)
  /\ lane' = RequestRead(lane, k, {a})
  /\ UNCHANGED <<version, write, joiners, mirror, budget>>

Spend(bound) == budget[bound] > 0 /\ budget' = [budget EXCEPT ![bound] = @ - 1]

(* The 30-second timer, the runner's `changed`, opening the panel. *)
Refreshes ==
  /\ Spend("refreshes")
  /\ lane' = Refreshed(lane)
  /\ UNCHANGED <<version, write, joiners, mirror, asks>>

(* The helper of a read reads the store. *)
HelperReads(k) ==
  /\ k \in Running(lane) /\ lane.inflight[k].saw = Unseen
  /\ lane' = [lane EXCEPT !.inflight[k].saw = version]
  /\ UNCHANGED <<version, write, joiners, mirror, asks, budget>>

(* _applyList, and what a list that fails leaves. *)
Mirrored(k, saw) ==
  mirror' = IF k # "list" THEN mirror
            ELSE IF saw = Unseen THEN [mirror EXCEPT !.failed = TRUE]
            ELSE [shows |-> saw, failed |-> FALSE]

(* What the callbacks of an answer may ask for: the job shown open when the list changed it, the
   models an OpenCode preview waits for. *)
Follows(k, saw, next) ==
  IF saw = Unseen THEN {}
  ELSE ReadKeys \cap (IF k = "list" THEN {"job-get"} ELSE IF k = "preview" /\ ~next THEN {"models"} ELSE {})

(* Mutant: what waits for a second read gets the answer of the first. *)
ReadEndsForBoth(k, saw) ==
  LET next == k \in DOMAIN lane.pending IN
  /\ lane' = Drained([lane EXCEPT !.inflight = Without(@, k), !.pending = Without(@, k)])
  /\ Mirrored(k, saw)
  /\ Deliver(lane.inflight[k].askers \cup (IF next THEN lane.pending[k] ELSE {}), saw)

(* The done callback of _startRead. *)
ReadEnds(k, saw) ==
  LET next  == k \in DOMAIN lane.pending
      ended == [lane EXCEPT !.inflight = Without(@, k), !.pending = Without(@, k)] IN
  /\ \E l \in {ended} \cup {RequestRead(ended, f, {}) : f \in Follows(k, saw, next)} :
       lane' = IF next THEN StartRead(l, k, lane.pending[k]) ELSE Drained(l)
  /\ Mirrored(k, saw)
  /\ Deliver(lane.inflight[k].askers, IF next /\ k = "preview" THEN Unseen ELSE saw)

ReadAnswers(k) ==
  /\ k \in Running(lane)
  /\ \/ lane.inflight[k].saw # Unseen /\ ReadEnds(k, lane.inflight[k].saw) /\ UNCHANGED budget
     \/ ReadEnds(k, Unseen) /\ Spend("failures")
  /\ UNCHANGED <<version, write, joiners>>

(* A request refused or superseded is answered on a later turn. *)
AnswersLater(told) ==
  /\ told \in lane.later
  /\ lane' = [lane EXCEPT !.later = @ \ {told}]
  /\ Deliver(told.askers, Unseen)
  /\ Mirrored(told.key, Unseen)
  /\ UNCHANGED <<version, write, joiners, budget>>

-----------------------------------------------------------------------------
Request(verb, a) == [verb |-> verb, asker |-> a, applied |-> Unseen]
FirstVerb(change) == IF change = "save-and-arm" THEN "save" ELSE change
Mutates(verb) == verb # "settings-set"

Refused(w, req) == [w EXCEPT !.later = @ \cup {req}]

(* Mutant: the arm that completes a save goes to the end of the queue. *)
QueuedInTurn(w, req, front) ==
  IF w.inflight = Nobody /\ w.queue = <<>> THEN [w EXCEPT !.inflight = req]
  ELSE IF Len(w.queue) >= WriteMax THEN Refused(w, req)
  ELSE [w EXCEPT !.queue = Append(@, req)]

(* _requestWrite *)
RequestWrite(w, req, front) ==
  IF w.inflight = Nobody /\ w.queue = <<>> THEN [w EXCEPT !.inflight = req]
  ELSE IF Len(w.queue) >= WriteMax THEN Refused(w, req)
  ELSE [w EXCEPT !.queue = IF front THEN <<req>> \o @ ELSE Append(@, req)]

(* The end of _startWrite: the next in the queue, if no callback has started one. *)
NextWrite(w) ==
  IF w.inflight = Nobody /\ w.queue # <<>>
  THEN [w EXCEPT !.inflight = Head(w.queue), !.queue = Tail(w.queue)] ELSE w

Waiting(w) == {w.inflight} \cup ToSet(w.queue) \cup w.later
ReconcileWaiting == \E req \in Waiting(write) : req.verb = "reconcile"

AsksChange(a) ==
  /\ Change[a] # "read"
  /\ Asks(a, Unseen)
  /\ IF Change[a] = "reconcile" /\ ReconcileWaiting
     THEN joiners' = joiners \cup {a} /\ UNCHANGED write
     ELSE /\ write' = RequestWrite(write, Request(FirstVerb(Change[a]), a), FALSE)
          /\ UNCHANGED joiners
  /\ UNCHANGED <<version, lane, mirror, budget>>

HelperChanges ==
  /\ write.inflight # Nobody /\ write.inflight.applied = Unseen
  /\ version' = version + (IF Mutates(write.inflight.verb) THEN 1 ELSE 0)
  /\ write' = [write EXCEPT !.inflight.applied = version']
  /\ UNCHANGED <<lane, joiners, mirror, asks, budget>>

(* The callbacks of a change that ended: the arm of createAndArm follows its save, a reconcile
   answers those that joined it, and re-reads the list even when it failed. *)
ChangeEnds(req, w, ok) ==
  LET arms == req.verb = "save" /\ ok
      all  == IF req.verb = "reconcile" THEN joiners ELSE {} IN
  /\ write' = NextWrite(IF arms THEN RequestWrite(w, Request("arm", req.asker), TRUE) ELSE w)
  /\ lane' = IF (ok /\ Mutates(req.verb)) \/ (~ok /\ req.verb = "reconcile")
             THEN Refreshed(lane) ELSE lane
  /\ joiners' = joiners \ all
  /\ Deliver(all \cup (IF arms THEN {} ELSE {req.asker}), IF ok THEN req.applied ELSE Unseen)

WriteAnswers ==
  /\ write.inflight # Nobody
  /\ LET ended == [write EXCEPT !.inflight = Nobody] IN
     \/ write.inflight.applied # Unseen /\ ChangeEnds(write.inflight, ended, TRUE) /\ UNCHANGED budget
     \/ ChangeEnds(write.inflight, ended, FALSE) /\ Spend("failures")
  /\ UNCHANGED <<version, mirror>>

(* busy_queue *)
RefusesLater(req) ==
  /\ req \in write.later
  /\ ChangeEnds(req, [write EXCEPT !.later = @ \ {req}], FALSE)
  /\ UNCHANGED <<version, mirror, budget>>

ChangesElsewhere ==
  /\ Spend("elsewhere")
  /\ version' = version + 1
  /\ UNCHANGED <<lane, write, joiners, mirror, asks>>

-----------------------------------------------------------------------------
Helper ==
  \/ \E k \in ReadKeys : HelperReads(k) \/ ReadAnswers(k)
  \/ HelperChanges \/ WriteAnswers
  \/ \E told \in lane.later : AnswersLater(told)
  \/ \E req \in write.later : RefusesLater(req)

Next ==
  \/ \E a \in Askers : AsksChange(a) \/ \E k \in ReadKeys : AsksRead(a, k)
  \/ Refreshes \/ ChangesElsewhere \/ Helper

(* Every helper call ends (HelperCall) and every queued turn comes. *)
Spec ==
  /\ Init /\ [][Next]_vars
  /\ \A k \in ReadKeys : WF_vars(HelperReads(k)) /\ WF_vars(ReadAnswers(k))
  /\ WF_vars(HelperChanges) /\ WF_vars(WriteAnswers)
  /\ WF_vars(\E told \in lane.later : AnswersLater(told))
  /\ WF_vars(\E req \in write.later : RefusesLater(req))

-----------------------------------------------------------------------------
Holders(a) ==
  {<<"read", k>> : k \in {k \in Running(lane) : a \in lane.inflight[k].askers}}
  \cup {<<"pending", k>> : k \in {k \in DOMAIN lane.pending : a \in lane.pending[k]}}
  \cup {<<"wait", i>> : i \in {i \in DOMAIN lane.wait : a \in lane.wait[i].askers}}
  \cup {<<"later", told>> : told \in {told \in lane.later : a \in told.askers}}
  \cup {<<"change", req>> : req \in {req \in Waiting(write) : req.asker = a}}
  \cup {<<"joined", x>> : x \in joiners \cap {a}}

(* A callback is held in one place until it has run, and nowhere after: merging, superseding,
   refusing and the arm after a save neither lose nor repeat it. *)
HeldOnce ==
  \A a \in Askers : Cardinality(Holders(a)) = (IF asks[a].state = "waiting" THEN 1 ELSE 0)

(* A read is answered from the store as it was when it was asked for, or later: it never gets
   the answer of a helper that had already read (_requestRead runs once more for that). *)
ReadsFresh ==
  \A a \in Askers :
    Change[a] = "read" /\ asks[a].saw # Unseen => asks[a].saw >= asks[a].since

(* Never more helpers and requests than the lanes allow.  A read that runs once more does not
   ask whether a callback of its first answer took its place: one read may be over the limit. *)
LanesBounded ==
  /\ Cardinality(Running(lane)) <= ReadMax + 1
  /\ Len(lane.wait) <= WaitMax
  /\ Len(write.queue) <= WriteMax

(* The arm of createAndArm never waits: it starts in the same turn as its save is answered, so
   no other change of the panel comes between the digest and the arm that uses it. *)
ArmFollowsSave == \A i \in DOMAIN write.queue : write.queue[i].verb # "arm"

(* A change the panel was told of is shown, or a list that will show it is on its way, or the
   last list failed or is being refused. *)
ChangesShown ==
  \A a \in Askers :
    LET seen == asks[a].saw IN
    Change[a] \in {"save-and-arm", "disarm", "reconcile"} /\ seen # Unseen =>
      \/ mirror.shows >= seen \/ mirror.failed
      \/ "list" \in Running(lane) /\ (lane.inflight["list"].saw = Unseen \/ lane.inflight["list"].saw >= seen)
      \/ "list" \in DOMAIN lane.pending
      \/ \E told \in ToSet(lane.wait) \cup lane.later : told.key = "list"

(* Every callback runs. *)
EveryAskAnswered == \A a \in Askers : asks[a].state = "waiting" ~> asks[a].state = "answered"
=======================================================================
