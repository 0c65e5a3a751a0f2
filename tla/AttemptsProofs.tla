------------------------ MODULE AttemptsProofs ------------------------
(***************************************************************************)
(* One armed job over its attempts, for any jobs, margins, horizons, caps    *)
(* and clocks: it never starts before a reset it knew it had to wait for,    *)
(* and a run that finished its turn, or that a guard stopped, is never sent  *)
(* again.                                                                    *)
(***************************************************************************)
EXTENDS Attempts, FiniteSetTheorems, WellFoundedInduction, TLAPS

(* Min and Max of the community modules, on sets of times. *)
LEMMA LeastIs == ASSUME NEW S \in SUBSET Nat, S # {} PROVE Min(S) \in S /\ \A y \in S : Min(S) <= y
<1> DEFINE R == OpToRel(<, Nat)
<1>1. IsWellFoundedOn(R, Nat)
  BY NatLessThanWellFounded
<1>2. \A x \in Nat, y \in Nat : x < y => <<x, y>> \in R
  BY DEF OpToRel
<1> HIDE DEF R
<1>3. PICK x \in S : \A y \in S : <<y, x>> \notin R
  BY <1>1, WFMin
<1>4. \A y \in S : ~(y < x)
  BY <1>2, <1>3
<1>5. \A y \in S : x <= y
  BY <1>4
<1> QED BY <1>5 DEF Min

Bounded(S) == \E b \in Nat : \A x \in S : x <= b

LEMMA GreatestIs ==
  ASSUME NEW S \in SUBSET Nat, S # {}, Bounded(S) PROVE Max(S) \in S /\ \A y \in S : y <= Max(S)
<1> DEFINE above == {n \in Nat : \A x \in S : x <= n}
           top == Min(above)
<1>1. above \in SUBSET Nat /\ above # {}
  BY DEF Bounded
<1>2. top \in Nat /\ (\A x \in S : x <= top) /\ \A n \in above : top <= n
  BY <1>1, LeastIs
<1> HIDE DEF top
<1>3. ASSUME top \notin S PROVE FALSE
  <2>1. PICK x \in S : TRUE
    OBVIOUS
  <2>2. \A y \in S : y \in Nat /\ y <= top - 1
    BY <1>2, <1>3
  <2>3. top - 1 \in Nat
    BY <1>2, <2>1, <2>2
  <2>4. top - 1 \in above
    BY <2>2, <2>3
  <2> QED BY <1>2, <2>3, <2>4
<1>4. \A y \in S : top >= y
  BY <1>2
<1>5. \E x \in S : \A y \in S : x >= y
  BY <1>3, <1>4
<1>6. Max(S) \in S /\ \A y \in S : Max(S) >= y
  BY <1>5 DEF Max
<1> QED BY <1>6

LEMMA FiniteIsBounded == ASSUME NEW A \in SUBSET Nat, IsFiniteSet(A) PROVE Bounded(A)
<1> DEFINE sizes == {n \in Nat : \E S \in SUBSET Nat : IsFiniteSet(S) /\ Cardinality(S) = n /\ ~Bounded(S)}
<1>1. SUFFICES ASSUME sizes # {} PROVE FALSE
  <2>1. Cardinality(A) \in Nat
    BY FS_CardinalityType
  <2> QED BY <2>1
<1> DEFINE n == Min(sizes)
<1>2. sizes \in SUBSET Nat
  OBVIOUS
<1>3. n \in sizes /\ \A m \in sizes : n <= m
  BY <1>1, <1>2, LeastIs
<1>4. PICK S \in SUBSET Nat : IsFiniteSet(S) /\ Cardinality(S) = n /\ ~Bounded(S)
  BY <1>3
<1>5. PICK x \in S : TRUE
  BY <1>4 DEF Bounded
<1>6. IsFiniteSet(S \ {x}) /\ Cardinality(S \ {x}) = n - 1 /\ Cardinality(S \ {x}) \in Nat
  BY <1>4, <1>5, FS_RemoveElement, FS_CardinalityType
<1>7. Bounded(S \ {x})
  <2>1. ASSUME ~Bounded(S \ {x}) PROVE FALSE
    <3>1. S \ {x} \in SUBSET Nat
      OBVIOUS
    <3>2. n - 1 \in sizes
      BY <1>6, <2>1, <3>1
    <3>3. n \in Nat
      BY <1>2, <1>3
    <3> HIDE DEF n, sizes
    <3> QED BY <1>3, <3>2, <3>3
  <2> QED BY <2>1
<1>8. PICK b \in Nat : \A y \in S \ {x} : y <= b
  BY <1>7 DEF Bounded
<1>9. x \in Nat /\ \A y \in S : y <= b + x
  BY <1>8
<1>10. b + x \in Nat
  BY <1>9
<1>11. Bounded(S)
  BY <1>9, <1>10 DEF Bounded
<1> QED BY <1>4, <1>11

LEMMA MaxOfTwo ==
  ASSUME NEW s \in Nat, NEW t \in Nat
  PROVE  /\ Max({s, t}) \in {s, t} /\ Max({s, t}) \in Nat
         /\ s <= Max({s, t}) /\ t <= Max({s, t})
<1>1. {s, t} \in SUBSET Nat /\ {s, t} # {}
  OBVIOUS
<1>2. Bounded({s, t})
  <2>1. s + t \in Nat /\ s <= s + t /\ t <= s + t
    OBVIOUS
  <2> QED BY <2>1 DEF Bounded
<1>3. Max({s, t}) \in {s, t} /\ \A y \in {s, t} : y <= Max({s, t})
  BY <1>1, <1>2, GreatestIs
<1> QED BY <1>3

LEMMA LaterIs ==
  ASSUME NEW s \in Nat, NEW t \in Nat
  PROVE  Later(s, t) \in {s, t} /\ Later(s, t) \in Nat /\ s <= Later(s, t) /\ t <= Later(s, t)
  BY MaxOfTwo DEF Later

LEMMA LatestIs ==
  ASSUME NEW S \in SUBSET Nat, Bounded(S)
  PROVE  Latest(S) \in Nat /\ (Latest(S) # NoTime => Latest(S) \in S) /\ \A y \in S : y <= Latest(S)
<1>1. CASE S = {}
  BY <1>1 DEF Latest, NoTime
<1>2. CASE S # {}
  BY <1>2, GreatestIs DEF Latest
<1> QED BY <1>1, <1>2

-----------------------------------------------------------------------------
(* What a record can say: windows that reset at times, the latest of which is known. *)
Legible(windows) == \E b \in Nat : \A w \in windows : w.reset \in Nat /\ w.reset <= b

LEMMA ResetsAreTimes ==
  ASSUME NEW all, Legible(all), NEW some \in SUBSET all
  PROVE  Resets(some) \in SUBSET Nat /\ Bounded(Resets(some))
  BY DEF Legible, Resets, Bounded

LEMMA AfterIs ==
  ASSUME NEW S \in SUBSET Nat, Bounded(S), NEW t
  PROVE  After(S, t) \in SUBSET Nat /\ Bounded(After(S, t)) /\ \A y \in After(S, t) : y \in S /\ y > t
  BY DEF After, Bounded

LEMMA PastIs ==
  ASSUME NEW usage, Legible(usage.windows), NEW t \in Nat
  PROVE  /\ Past(t, usage) \in Nat /\ t <= Past(t, usage)
         /\ Past(t, usage) = t \/ Past(t, usage) - Margin \in Nat
         /\ \A w \in Blockers(usage) : w.reset <= Past(t, usage)
<1> DEFINE Beyond(at, kind) == After(Resets(Full(usage, {kind})), at)
           Push(at, kind) == IF Beyond(at, kind) = {} THEN at ELSE Max(Beyond(at, kind)) + Margin
<1>1. ASSUME NEW at \in Nat, NEW kind
      PROVE  /\ Push(at, kind) \in Nat /\ at <= Push(at, kind)
             /\ Push(at, kind) = at \/ Push(at, kind) - Margin \in Nat
             /\ \A w \in Full(usage, {kind}) : w.reset \in Nat /\ w.reset <= Push(at, kind)
  <2>1. Full(usage, {kind}) \in SUBSET usage.windows
    BY DEF Full
  <2>2. Resets(Full(usage, {kind})) \in SUBSET Nat /\ Bounded(Resets(Full(usage, {kind})))
    BY <2>1, ResetsAreTimes
  <2>3. /\ Beyond(at, kind) \in SUBSET Nat /\ Bounded(Beyond(at, kind))
        /\ \A y \in Beyond(at, kind) : y > at
    BY <2>2, AfterIs
  <2>4. ASSUME NEW w \in Full(usage, {kind})
        PROVE  w.reset \in Nat /\ (w.reset <= at \/ w.reset \in Beyond(at, kind))
    <3>1. w.reset \in Resets(Full(usage, {kind}))
      BY DEF Resets
    <3> QED BY <2>2, <3>1 DEF After
  <2>5. CASE Beyond(at, kind) = {}
    BY <2>4, <2>5
  <2>6. CASE Beyond(at, kind) # {}
    <3>1. Max(Beyond(at, kind)) \in Beyond(at, kind) /\ \A y \in Beyond(at, kind) : y <= Max(Beyond(at, kind))
      BY <2>3, <2>6, GreatestIs
    <3>2. Margin \in Nat
      BY FiringAssumption
    <3>3. Push(at, kind) = Max(Beyond(at, kind)) + Margin
      BY <2>6
    <3>4. Max(Beyond(at, kind)) \in Nat /\ Max(Beyond(at, kind)) > at
      BY <2>3, <3>1
    <3>5. ASSUME NEW w \in Full(usage, {kind}) PROVE w.reset \in Nat /\ w.reset <= Max(Beyond(at, kind))
      <4>1. w.reset \in Nat /\ (w.reset <= at \/ w.reset \in Beyond(at, kind))
        BY <2>4
      <4> HIDE DEF Beyond
      <4> QED BY <3>1, <3>4, <4>1
    <3> HIDE DEF Beyond, Push
    <3>6. Push(at, kind) - Margin \in Nat
      BY <3>2, <3>3, <3>4
    <3>7. Push(at, kind) \in Nat /\ at <= Push(at, kind) /\ Max(Beyond(at, kind)) <= Push(at, kind)
      BY <3>2, <3>3, <3>4
    <3>8. ASSUME NEW w \in Full(usage, {kind}) PROVE w.reset \in Nat /\ w.reset <= Push(at, kind)
      BY <3>4, <3>5, <3>7
    <3> QED BY <3>6, <3>7, <3>8
  <2> QED BY <2>5, <2>6
<1>2. PICK first : first = Push(t, "weekly")
  OBVIOUS
<1>3. first = t \/ first - Margin \in Nat
  BY <1>1, <1>2
<1>4. first \in Nat /\ t <= first /\ \A w \in Full(usage, {"weekly"}) : w.reset \in Nat /\ w.reset <= first
  BY <1>1, <1>2
<1>5. Past(t, usage) = Push(first, "model_weekly")
  BY <1>2 DEF Past
<1>6. /\ Push(first, "model_weekly") \in Nat /\ first <= Push(first, "model_weekly")
      /\ \A w \in Full(usage, {"model_weekly"}) : w.reset \in Nat /\ w.reset <= Push(first, "model_weekly")
  BY <1>1, <1>4
<1>7. Past(t, usage) = t \/ Past(t, usage) - Margin \in Nat
  <2>1. Past(t, usage) = first \/ Past(t, usage) - Margin \in Nat
    BY <1>1, <1>4, <1>5
  <2> QED BY <1>3, <2>1
<1>8. Blockers(usage) = Full(usage, {"weekly"}) \cup Full(usage, {"model_weekly"})
  BY DEF Blockers, Full
<1> HIDE DEF Push, Beyond
<1>9. /\ Past(t, usage) \in Nat /\ first <= Past(t, usage)
      /\ \A w \in Full(usage, {"model_weekly"}) : w.reset <= Past(t, usage)
  BY <1>5, <1>6
<1>10. t <= Past(t, usage)
  <2>1. first \in Nat /\ t <= first
    BY <1>4
  <2>2. Past(t, usage) \in Nat /\ first <= Past(t, usage)
    BY <1>9
  <2> QED BY <2>1, <2>2
<1>11. ASSUME NEW w \in Blockers(usage) PROVE w.reset <= Past(t, usage)
  <2>1. CASE w \in Full(usage, {"weekly"})
    <3>1. w.reset \in Nat /\ w.reset <= first
      BY <1>4, <2>1
    <3>2. Past(t, usage) \in Nat /\ first \in Nat /\ first <= Past(t, usage)
      BY <1>4, <1>9
    <3> QED BY <3>1, <3>2
  <2>2. CASE w \in Full(usage, {"model_weekly"})
    BY <1>9, <2>2
  <2> QED BY <1>8, <2>1, <2>2
<1> QED BY <1>7, <1>9, <1>10, <1>11
-----------------------------------------------------------------------------
(* The world: every record and every reset an agent names is legible. *)
LEMMA ReadingsAreLegible ==
  ASSUME NEW k \in Kinds, NEW t \in Nat, NEW usage \in Readings(k, t) PROVE Legible(usage.windows)
<1>1. PICK far \in Nat : \A a \in Ahead : a \in Nat /\ a <= far
  BY FiniteIsBounded, AttemptsAssumption DEF Bounded
<1>2. Max(Ahead) \in Ahead
  BY GreatestIs, FiniteIsBounded, AttemptsAssumption
<1> DEFINE Near(w) == w.reset \in Nat /\ w.reset <= t + far
<1>3. ASSUME NEW r, r \in Coming(t) \/ r \in Farthest(t) \/ r \in Never PROVE r \in Nat /\ r <= t + far
  BY <1>1, <1>2, <1>3 DEF Coming, Farthest, Never, NoTime
<1>4. ASSUME NEW kind, NEW resets, resets \in {Coming(t), Farthest(t), Never},
             NEW some, some \in OneOf(Windows(kind, resets)) \/ some \in OneOf(Used(kind, resets)),
             NEW w \in some
      PROVE  Near(w)
  <2>1. w.reset \in resets
    BY <1>4 DEF OneOf, Windows, Used
  <2> QED BY <1>3, <1>4, <2>1
<1>5. ASSUME NEW shown \in Shown(k, t), NEW w \in shown PROVE Near(w)
  <2>1. CASE k.agent = "claude"
    <3>1. k.agent \notin {"codex", "pi", "cursor"} /\ k.billing # "go"
      BY <2>1, AttemptsAssumption DEF None
    <3>2. PICK a \in OneOf(Windows("session", Coming(t))), b \in OneOf(Used("weekly", Coming(t))),
               c \in OneOf(Windows("model_weekly", Coming(t))),
               d \in OneOf(Used("other_model_weekly", Farthest(t))) : shown = a \cup b \cup c \cup d
      <4>1. Shown(k, t) = {a \cup b \cup c \cup d : a \in OneOf(Windows("session", Coming(t))),
                b \in OneOf(Used("weekly", Coming(t))), c \in OneOf(Windows("model_weekly", Coming(t))),
                d \in OneOf(Used("other_model_weekly", Farthest(t)))}
        BY <2>1, <3>1 DEF Shown
      <4> QED BY <1>5, <4>1
    <3>3. w \in a \/ w \in b \/ w \in c \/ w \in d
      BY <3>2
    <3> QED BY <1>4, <3>3
  <2>2. CASE k.agent \in {"codex", "pi"} \/ k.billing = "go"
    <3>1. k.agent # "claude" /\ k.agent # "cursor"
      BY <2>2, AttemptsAssumption DEF None
    <3>2. PICK a \in OneOf(Windows("session", Coming(t))), b \in OneOf(Windows("weekly", Coming(t))) :
            shown = a \cup b
      BY <2>2, <3>1 DEF Shown
    <3>3. w \in a \/ w \in b
      BY <3>2
    <3> QED BY <1>4, <3>3
  <2>3. CASE k.agent = "cursor"
    <3>1. k.agent \notin {"claude", "codex", "pi"} /\ k.billing # "go"
      BY <2>3, AttemptsAssumption DEF None
    <3>2. PICK a \in OneOf(Used("billing_total", Coming(t))), b \in OneOf(Used("billing_pool", Never)) :
            shown = a \cup b
      <4>1. Shown(k, t) = {a \cup b : a \in OneOf(Used("billing_total", Coming(t))), b \in OneOf(Used("billing_pool", Never))}
        BY <2>3, <3>1 DEF Shown
      <4> QED BY <1>5, <4>1
    <3>3. w \in a \/ w \in b
      BY <3>2
    <3> QED BY <1>4, <3>3
  <2>4. CASE k.agent \notin {"claude", "codex", "pi", "cursor"} /\ k.billing # "go"
    <3>1. Shown(k, t) = {{}}
      BY <2>4 DEF Shown
    <3> QED BY <3>1
  <2> QED BY <2>1, <2>2, <2>3, <2>4
<1>6. usage.windows = {} \/ usage.windows \in Shown(k, t)
  BY DEF Readings, NoReading
<1>7. ASSUME NEW w \in usage.windows PROVE Near(w)
  BY <1>5, <1>6
<1>8. t + far \in Nat
  BY <1>1
<1> QED BY <1>7, <1>8 DEF Legible

LEMMA DawnIs == ASSUME NEW t \in Nat PROVE Dawn(t) \in Nat
  BY DEF Dawn, Day

LEMMA SkewIs == ASSUME NEW extra \in Skews PROVE extra \in Nat
  BY FiringAssumption DEF Skews

LEMMA ClosedIs ==
  ASSUME now \in Nat, NEW all, Legible(all), NEW some \in SUBSET all
  PROVE  /\ Closed(some) \in Nat
         /\ \A n \in Nat : (\A w \in some : w.reset <= n) => Closed(some) <= n
<1> DEFINE coming == After(Resets(some), now)
<1>1. Resets(some) \in SUBSET Nat /\ Bounded(Resets(some))
  BY ResetsAreTimes
<1>2. coming \in SUBSET Nat /\ Bounded(coming) /\ \A y \in coming : y \in Resets(some)
  BY <1>1, AfterIs
<1>3. Closed(some) = Latest(coming)
  BY DEF Closed
<1> HIDE DEF coming
<1>4. Latest(coming) \in Nat /\ (Latest(coming) # NoTime => Latest(coming) \in coming)
  BY <1>2, LatestIs
<1>5. ASSUME NEW n \in Nat, \A w \in some : w.reset <= n PROVE Latest(coming) <= n
  <2>1. CASE Latest(coming) = NoTime
    BY <2>1 DEF NoTime
  <2>2. CASE Latest(coming) # NoTime
    <3>1. PICK w \in some : Latest(coming) = w.reset
      BY <1>2, <1>4, <2>2 DEF Resets
    <3> QED BY <1>5, <3>1
  <2> QED BY <2>1, <2>2
<1> QED BY <1>3, <1>4, <1>5

LEMMA SoonestIs ==
  ASSUME NEW all, Legible(all), NEW some \in SUBSET all, some # {}
  PROVE  Min(Resets(some)) \in Nat /\ Max(Resets(some)) \in Nat /\ \A w \in some : w.reset <= Max(Resets(some))
<1>1. Resets(some) \in SUBSET Nat /\ Bounded(Resets(some))
  BY ResetsAreTimes
<1>2. Resets(some) # {} /\ \A w \in some : w.reset \in Resets(some)
  BY DEF Resets
<1> QED BY <1>1, <1>2, LeastIs, GreatestIs

LEMMA ResetWindowIs ==
  ASSUME NEW usage, Legible(usage.windows), NEW t \in Nat PROVE ResetWindow(usage, t) \in Nat
<1> DEFINE open == {w \in usage.windows : w.reset > t /\ w.reset <= t + Horizon}
           full == {w \in open : w.full}
<1>1. open \in SUBSET usage.windows /\ full \in SUBSET usage.windows
  OBVIOUS
<1>2. full # {} => Max(Resets(full)) \in Nat
  BY <1>1, SoonestIs
<1>3. open # {} => Min(Resets(open)) \in Nat
  BY <1>1, SoonestIs
<1>4. ResetWindow(usage, t) = IF full # {} THEN Max(Resets(full)) ELSE IF open # {} THEN Min(Resets(open)) ELSE NoTime
  BY DEF ResetWindow
<1> HIDE DEF open, full
<1> QED BY <1>2, <1>3, <1>4 DEF NoTime

LEMMA ModelResetIs ==
  ASSUME NEW usage, Legible(usage.windows), NEW t \in Nat PROVE ModelReset(usage, t) \in Nat
<1> DEFINE some == {w \in usage.windows : w.kind = "model_weekly"} \cup Full(usage, {"other_model_weekly"})
           resets == After(Resets(some), t)
<1>1. some \in SUBSET usage.windows
  BY DEF Full
<1>2. Resets(some) \in SUBSET Nat /\ Bounded(Resets(some))
  BY <1>1, ResetsAreTimes
<1>3. resets \in SUBSET Nat
  BY <1>2 DEF After
<1>4. ModelReset(usage, t) = IF resets = {} THEN NoTime ELSE Min(resets)
  BY DEF ModelReset
<1>5. CASE resets = {}
  BY <1>4, <1>5 DEF NoTime
<1>6. CASE resets # {}
  <2>1. Min(resets) \in resets
    BY <1>3, <1>6, LeastIs
  <2> QED BY <1>3, <1>4, <1>6, <2>1
<1> QED BY <1>5, <1>6

-----------------------------------------------------------------------------
(* When a decision makes a job run: never before the resets it looked at. *)
LEMMA FireAtIs ==
  ASSUME job \in Kinds, now \in Nat, NEW extra \in Skews,
         NEW usage \in IF job.onReset THEN Readings(job, now) ELSE {NoReading},
         FireAt(job, usage, now, Dawn(now), extra) # Refused
  PROVE  LET plan == FireAt(job, usage, now, Dawn(now), extra)
             blocked == IF job.agent = "claude" THEN Closed(Blockers(usage)) ELSE NoTime
         IN plan.at \in Nat /\ plan.basis \in Nat /\ blocked \in Nat /\ plan.basis <= plan.at /\ blocked <= plan.at
<1> DEFINE plan == FireAt(job, usage, now, Dawn(now), extra)
           sessions == After(Resets({w \in usage.windows : w.kind = "session"}), now)
           reset == CASE job.agent = "claude" -> Latest(sessions)
                      [] job.billing = "zen_free" -> Dawn(now)
                      [] job.agent = "gemini" -> Dawn(now)
                      [] OTHER -> ResetWindow(usage, now)
           t == IF job.agent = "claude" THEN Past(reset + Margin, usage) ELSE reset + Margin
<1>1. extra \in Nat /\ Margin \in Nat
  BY SkewIs, FiringAssumption
<1>2. Legible(usage.windows)
  <2>1. CASE job.onReset
    BY <2>1, ReadingsAreLegible
  <2>2. CASE ~job.onReset
    BY <2>2 DEF NoReading, Legible
  <2> QED BY <2>1, <2>2
<1>3. CASE ~job.onReset
  <2>1. plan = [at |-> now + extra, basis |-> NoTime]
    BY <1>3 DEF FireAt
  <2>2. Blockers(usage) = {}
    BY <1>3 DEF Blockers, Full, NoReading
  <2>3. Blockers(usage) \in SUBSET usage.windows
    BY <2>2
  <2>4. Closed(Blockers(usage)) \in Nat /\ Closed(Blockers(usage)) <= now + extra
    BY <1>1, <1>2, <2>2, <2>3, ClosedIs
  <2> QED BY <1>1, <2>1, <2>4 DEF NoTime
<1>4. CASE job.onReset
  <2>1. reset \in Nat
    <3>1. {w \in usage.windows : w.kind = "session"} \in SUBSET usage.windows
      OBVIOUS
    <3>2. /\ Resets({w \in usage.windows : w.kind = "session"}) \in SUBSET Nat
          /\ Bounded(Resets({w \in usage.windows : w.kind = "session"}))
      BY <1>2, <3>1, ResetsAreTimes
    <3>3. sessions \in SUBSET Nat /\ Bounded(sessions)
      BY <3>2, AfterIs
    <3>4. Latest(sessions) \in Nat
      BY <3>3, LatestIs
    <3>5. Dawn(now) \in Nat /\ ResetWindow(usage, now) \in Nat
      BY <1>2, DawnIs, ResetWindowIs
    <3> HIDE DEF sessions
    <3> QED BY <3>4, <3>5
  <2>2. plan = [at |-> t + extra, basis |-> reset]
    BY <1>4 DEF FireAt
  <2> HIDE DEF reset
  <2>3. /\ t \in Nat /\ reset <= t
        /\ job.agent = "claude" => \A w \in Blockers(usage) : w.reset <= t
    <3>1. reset + Margin \in Nat /\ reset <= reset + Margin
      BY <1>1, <2>1
    <3>2. /\ Past(reset + Margin, usage) \in Nat /\ reset + Margin <= Past(reset + Margin, usage)
          /\ \A w \in Blockers(usage) : w.reset <= Past(reset + Margin, usage)
      BY <1>2, <3>1, PastIs
    <3>3. reset <= Past(reset + Margin, usage)
      BY <2>1, <3>1, <3>2
    <3>4. CASE job.agent = "claude"
      BY <3>2, <3>3, <3>4
    <3>5. CASE job.agent # "claude"
      BY <3>1, <3>5
    <3> QED BY <3>4, <3>5
  <2> HIDE DEF t
  <2>4. Blockers(usage) \in SUBSET usage.windows
    BY DEF Blockers, Full
  <2>5. Closed(Blockers(usage)) \in Nat /\ (job.agent = "claude" => Closed(Blockers(usage)) <= t)
    BY <1>2, <2>3, <2>4, ClosedIs
  <2>6. t + extra \in Nat /\ t <= t + extra
    BY <1>1, <2>3
  <2>7. plan.at = t + extra /\ plan.basis = reset
    BY <2>2
  <2>8. t \in Nat /\ reset \in Nat /\ reset <= t + extra
    BY <2>1, <2>3, <2>6
  <2>9. CASE job.agent = "claude"
    <3>1. Closed(Blockers(usage)) <= t + extra
      BY <2>5, <2>6, <2>8, <2>9
    <3> QED BY <2>5, <2>6, <2>7, <2>8, <2>9, <3>1
  <2>10. CASE job.agent # "claude"
    BY <2>6, <2>7, <2>8, <2>10 DEF NoTime
  <2> QED BY <2>9, <2>10
<1> QED BY <1>3, <1>4

(* _rearm_or_give_up *)
LEMMA RearmIs ==
  ASSUME NEW st, NEW t, NEW reset, NEW extra
  PROVE  LET verdict == RearmOrGiveUp(st, t, reset, extra) IN
         /\ verdict.action \in {"gave_up", "rearm"}
         /\ verdict.action = "rearm" => verdict.at = t + extra /\ verdict.reset = reset
         /\ verdict.action # "rearm" => verdict.reset = NoTime
  BY DEF RearmOrGiveUp, Verdict

LEMMA PrefireIs ==
  ASSUME now \in Nat, NEW usage, Legible(usage.windows), NEW extra \in Skews
  PROVE  LET verdict == Prefire(job, state, usage, now, extra) IN
         /\ verdict.action \in {"fire", "missed", "skip", "gave_up", "rearm"}
         /\ verdict.action = "fire" => verdict = Fire
         /\ verdict.reset \in Nat
         /\ verdict.action = "rearm" => /\ verdict.at \in Nat /\ now <= verdict.at
                                        /\ verdict.reset <= verdict.at
<1> DEFINE session == {w \in usage.windows : w.kind = "session" /\ w.reset > now}
           later == {w \in session : w.reset - FiveHours < state.basis \/ w.full}
           reset == Max(Resets(later))
           t == Past(now, usage)
           verdict == Prefire(job, state, usage, now, extra)
<1>1. extra \in Nat /\ Margin \in Nat \ {0}
  BY SkewIs, FiringAssumption
<1>2. \/ verdict \in {Verdict("missed", NoTime, NoTime), Fire, Skip}
      \/ later # {} /\ verdict = RearmOrGiveUp(state, reset + Margin, reset, extra)
      \/ t > now /\ verdict = RearmOrGiveUp(state, t, t - Margin, extra)
  BY DEF Prefire
<1>3. CASE verdict \in {Verdict("missed", NoTime, NoTime), Fire, Skip}
  <2>1. verdict.reset = 0 /\ verdict.action \in {"missed", "fire", "skip"}
    BY <1>3 DEF Verdict, Fire, Skip, NoTime
  <2>2. verdict.action = "fire" => verdict = Fire
    BY <1>3 DEF Verdict, Skip
  <2> QED BY <2>1, <2>2
<1>4. CASE later # {} /\ verdict = RearmOrGiveUp(state, reset + Margin, reset, extra)
  <2>1. later \in SUBSET usage.windows /\ \A w \in later : w.reset > now
    OBVIOUS
  <2>2. Resets(later) \in SUBSET Nat /\ Bounded(Resets(later))
    BY <2>1, ResetsAreTimes
  <2>3. Resets(later) # {} /\ \A r \in Resets(later) : r > now
    BY <1>4, <2>1 DEF Resets
  <2>4. reset \in Nat /\ reset > now
    BY <2>2, <2>3, GreatestIs
  <2> HIDE DEF reset
  <2>5. reset + Margin + extra \in Nat /\ now <= reset + Margin + extra /\ reset <= reset + Margin + extra
    BY <1>1, <2>4
  <2> QED BY <1>4, <2>4, <2>5, RearmIs DEF NoTime
<1>5. CASE t > now /\ verdict = RearmOrGiveUp(state, t, t - Margin, extra)
  <2>1. t \in Nat
    BY PastIs
  <2>2. t - Margin \in Nat
    BY <1>5, PastIs
  <2> HIDE DEF t
  <2>3. t + extra \in Nat /\ now <= t + extra /\ t - Margin <= t + extra
    BY <1>1, <1>5, <2>1
  <2> QED BY <1>5, <2>2, <2>3, RearmIs DEF NoTime
<1> QED BY <1>2, <1>3, <1>4, <1>5

LEMMA ExhaustedIs == ASSUME NEW usage PROVE Exhausted(job, usage, now) \in SUBSET usage.windows
  BY DEF Exhausted, Full

LEMMA ZenIs == ASSUME seen \in SUBSET Nat, now \in Nat PROVE Zen(now) \in Nat /\ (Zen(now) # NoTime => Zen(now) > now)
<1>1. After(seen, now) \in SUBSET Nat /\ \A y \in After(seen, now) : y > now
  BY DEF After
<1>2. CASE After(seen, now) = {}
  BY <1>2 DEF Zen, NoTime
<1>3. CASE After(seen, now) # {}
  <2>1. Min(After(seen, now)) \in After(seen, now)
    BY <1>1, <1>3, LeastIs
  <2> QED BY <1>1, <1>3, <2>1 DEF Zen
<1> QED BY <1>2, <1>3

(* With paid usage off, the gate defers past every window it looked at. *)
LEMMA PaidDeferIs ==
  ASSUME job \in Kinds, now \in Nat, seen \in SUBSET Nat, NEW usage, Legible(usage.windows)
  PROVE  LET defer == PaidDefer(job, usage, now, Zen(now)) IN
         \/ defer = Fire \/ defer = Skip
         \/ /\ defer.action = "rearm" /\ defer.at \in Nat /\ defer.reset \in Nat /\ defer.reset <= defer.at
            /\ \A w \in Exhausted(job, usage, now) : w.reset <= defer.at
<1> DEFINE zen == Zen(now)
           all == Exhausted(job, usage, now)
           hits == Resets(all)
           defer == PaidDefer(job, usage, now, zen)
<1>1. Margin \in Nat
  BY FiringAssumption
<1>2. zen \in Nat
  BY ZenIs
<1>3. \/ defer = Fire \/ defer = Skip
      \/ job.billing = "zen_free" /\ defer = Verdict("rearm", zen + Margin, zen)
      \/ job.billing # "zen_free" /\ hits # {} /\ defer = Verdict("rearm", Max({Max(hits), now}) + Margin, Max(hits))
  BY DEF PaidDefer
<1>4. CASE job.billing = "zen_free" /\ defer = Verdict("rearm", zen + Margin, zen)
  <2>1. job.agent = "opencode"
    BY <1>4, AttemptsAssumption DEF None
  <2>2. all = {}
    BY <1>4, <2>1 DEF Exhausted
  <2>3. defer.action = "rearm" /\ defer.at = zen + Margin /\ defer.reset = zen
    BY <1>4 DEF Verdict
  <2>4. zen + Margin \in Nat /\ zen <= zen + Margin
    BY <1>1, <1>2
  <2> QED BY <1>2, <2>2, <2>3, <2>4
<1>5. CASE hits # {} /\ defer = Verdict("rearm", Max({Max(hits), now}) + Margin, Max(hits))
  <2>1. all # {}
    BY <1>5 DEF Resets
  <2>2. Max(hits) \in Nat /\ \A w \in all : w.reset \in Nat /\ w.reset <= Max(hits)
    <3>1. all \in SUBSET usage.windows
      BY ExhaustedIs
    <3>2. \A w \in all : w.reset \in Nat
      BY <3>1 DEF Legible
    <3> HIDE DEF all
    <3> QED BY <2>1, <3>1, <3>2, SoonestIs
  <2> HIDE DEF hits, all
  <2>3. /\ Max({Max(hits), now}) \in Nat /\ Max(hits) <= Max({Max(hits), now})
    BY <2>2, MaxOfTwo
  <2>4. defer.action = "rearm" /\ defer.at = Max({Max(hits), now}) + Margin /\ defer.reset = Max(hits)
    BY <1>5 DEF Verdict
  <2> HIDE DEF defer
  <2>5. defer.at \in Nat /\ Max(hits) <= defer.at
    <3>1. Max(hits) \in Nat
      BY <2>2
    <3> QED BY <1>1, <2>3, <2>4, <3>1
  <2>6. ASSUME NEW w \in all PROVE w.reset <= defer.at
    <3>1. w.reset \in Nat /\ w.reset <= Max(hits) /\ Max(hits) \in Nat
      BY <2>2
    <3> QED BY <2>5, <3>1
  <2>7. \A w \in Exhausted(job, usage, now) : w.reset <= defer.at
    BY <2>6 DEF all
  <2> QED BY <2>2, <2>4, <2>5, <2>7 DEF defer
<1> QED BY <1>3, <1>4, <1>5

LEMMA DeferVerdictIs ==
  ASSUME job \in Kinds, now \in Nat, seen \in SUBSET Nat, NEW usage, Legible(usage.windows), NEW extra \in Skews,
         PaidDefer(job, usage, now, Zen(now)) # Fire
  PROVE  LET verdict == DeferVerdict(state, PaidDefer(job, usage, now, Zen(now)), now, extra)
             closed == Closed(Exhausted(job, usage, now))
         IN /\ verdict.action \in {"skip", "gave_up", "rearm"}
            /\ verdict.reset \in Nat /\ closed \in Nat
            /\ verdict.action = "rearm" => verdict.at \in Nat /\ now <= verdict.at /\ closed <= verdict.at
<1>1. PICK defer, closed, t :
        defer = PaidDefer(job, usage, now, Zen(now)) /\ closed = Closed(Exhausted(job, usage, now))
        /\ t = Max({defer.at, now + Lead})
  OBVIOUS
<1>2. extra \in Nat /\ Lead \in Nat
  BY SkewIs, FiringAssumption
<1>3. \/ defer = Skip
      \/ /\ defer.action = "rearm" /\ defer.at \in Nat /\ defer.reset \in Nat
         /\ \A w \in Exhausted(job, usage, now) : w.reset <= defer.at
  BY <1>1, PaidDeferIs
<1>4. Exhausted(job, usage, now) \in SUBSET usage.windows
  BY ExhaustedIs
<1>5. closed \in Nat /\ \A n \in Nat : (\A w \in Exhausted(job, usage, now) : w.reset <= n) => closed <= n
  BY <1>1, <1>4, ClosedIs
<1>6. SUFFICES ASSUME NEW verdict, verdict = DeferVerdict(state, defer, now, extra)
               PROVE  /\ verdict.action \in {"skip", "gave_up", "rearm"} /\ verdict.reset \in Nat
                      /\ verdict.action = "rearm" => verdict.at \in Nat /\ now <= verdict.at /\ closed <= verdict.at
  BY <1>1, <1>5
<1>7. CASE verdict = Skip
  BY <1>7 DEF Skip, Verdict, NoTime
<1>8. CASE defer = Skip
  <2>1. verdict = Skip
    BY <1>6, <1>8 DEF DeferVerdict, Skip, Verdict
  <2> QED BY <1>7, <2>1
<1>9. CASE /\ defer.action = "rearm" /\ defer.at \in Nat /\ defer.reset \in Nat
           /\ \A w \in Exhausted(job, usage, now) : w.reset <= defer.at
  <2>1. closed <= defer.at
    BY <1>5, <1>9
  <2>2. now + Lead \in Nat /\ now <= now + Lead
    BY <1>2
  <2>3. t \in Nat /\ defer.at <= t /\ now + Lead <= t
    BY <1>1, <1>9, <2>2, MaxOfTwo
  <2>4. t + extra \in Nat /\ now <= t + extra /\ closed <= t + extra
    BY <1>2, <1>5, <1>9, <2>1, <2>2, <2>3
  <2>5. verdict = Skip \/ verdict = RearmOrGiveUp(state, t, defer.reset, extra)
    BY <1>1, <1>6, <1>9 DEF DeferVerdict
  <2>6. CASE verdict = RearmOrGiveUp(state, t, defer.reset, extra)
    BY <1>9, <2>4, <2>6, RearmIs DEF NoTime
  <2> QED BY <1>7, <2>5, <2>6
<1> QED BY <1>3, <1>8, <1>9

(* postrun, after a limit: past the reset the agent named and past every window of its account. *)
LEMMA LimitRetryIs ==
  ASSUME now \in Nat, state.limitRetries \in Nat, NEW usage, Legible(usage.windows), NEW result, NEW epoch \in Nat
  PROVE  LET t == LimitRetryAt(job, state, result, epoch, usage, now, Dawn(now)) IN
         t \in Nat /\ epoch <= t
<1>1. Margin \in Nat /\ Backoff \in Nat
  BY FiringAssumption
<1>2. Dawn(now) \in Nat /\ ResetWindow(usage, now) \in Nat /\ ModelReset(usage, now) \in Nat
  BY DawnIs, ResetWindowIs, ModelResetIs
<1>3. LimitBackoff(state) \in Nat
  <2>1. state.limitRetries + 1 \in Nat
    OBVIOUS
  <2>2. \A a \in Nat, b \in Nat : a * b \in Nat
    OBVIOUS
  <2> QED BY <1>1, <2>1, <2>2 DEF LimitBackoff
<1>4. CASE epoch # NoTime
  <2>1. LimitRetryAt(job, state, result, epoch, usage, now, Dawn(now)) = epoch + Margin
    BY <1>4 DEF LimitRetryAt
  <2> QED BY <1>1, <2>1
<1>5. CASE epoch = NoTime
  <2> DEFINE t == LimitRetryAt(job, state, result, epoch, usage, now, Dawn(now))
  <2>1. \/ t = ResetWindow(usage, now) + Margin \/ t = now + Backoff \/ t = Dawn(now) + Margin
        \/ t = ModelReset(usage, now) + Margin \/ t = now + LimitBackoff(state)
    BY <1>5 DEF LimitRetryAt
  <2>2. t \in Nat
    <3> HIDE DEF t
    <3> QED BY <1>1, <1>2, <1>3, <2>1
  <2>3. 0 <= t
    BY <2>2
  <2> QED BY <1>5, <2>2, <2>3 DEF NoTime
<1> QED BY <1>4, <1>5

LEMMA PostLimitIs ==
  ASSUME now \in Nat, state.limitRetries \in Nat, NEW usage, Legible(usage.windows), NEW result, NEW epoch \in Nat
  PROVE  LET act == PostLimit(job, state, result, epoch, usage, now, Dawn(now)) IN
         \/ act \in {Become("limit"), Become("skipped"), Become("gave_up")}
         \/ \E t \in Nat : /\ act = Retry(t, "limit", "limitRetries")
                           /\ now <= t /\ epoch <= t
                           /\ job.agent = "claude" => \A w \in Blockers(usage) : w.reset <= t
<1> DEFINE t0 == LimitRetryAt(job, state, result, epoch, usage, now, Dawn(now))
           past == IF job.agent = "claude" THEN Past(t0, usage) ELSE t0
           t == Max({past, now + Lead})
           act == PostLimit(job, state, result, epoch, usage, now, Dawn(now))
<1>1. t0 \in Nat /\ epoch <= t0
  BY LimitRetryIs
<1>2. act \in {Become("limit"), Become("skipped"), Become("gave_up"), Retry(t, "limit", "limitRetries")}
  BY DEF PostLimit
<1> HIDE DEF t0
<1>3. /\ past \in Nat /\ t0 <= past
      /\ job.agent = "claude" => \A w \in Blockers(usage) : w.reset <= past
  BY <1>1, PastIs
<1> HIDE DEF past
<1>4. now + Lead \in Nat /\ now <= now + Lead
  BY FiringAssumption
<1>5. t \in Nat /\ past <= t /\ now + Lead <= t
  BY <1>3, <1>4, MaxOfTwo
<1> HIDE DEF t
<1>6. past \in Nat /\ t0 <= past
  BY <1>3
<1>7. now <= t /\ epoch <= t
  BY <1>1, <1>4, <1>5, <1>6
<1>8. ASSUME job.agent = "claude", NEW w \in Blockers(usage) PROVE w.reset <= t
  <2>1. w.reset \in Nat
    BY DEF Legible, Blockers, Full
  <2>2. w.reset <= past
    BY <1>3, <1>8
  <2> QED BY <1>5, <1>6, <2>1, <2>2
<1> QED BY <1>2, <1>5, <1>7, <1>8

(* Every other retry is a backoff from now. *)
LEMMA PostrunIs ==
  ASSUME now \in Nat, state.limitRetries \in Nat, NEW usage, Legible(usage.windows), NEW result, NEW epoch \in Nat
  PROVE  LET act == Postrun(job, state, result, epoch, usage, now, Dawn(now)) IN
         \/ \E status \in {"done", "interrupted", "limit", "skipped", "gave_up", "busy", "failed"} :
              act = Become(status)
         \/ \E wait \in {"transient", "busy"}, counter \in {"transientRetries", "busyDefers", "unknownRetries"} :
              act = Retry(now + Backoff, wait, counter)
         \/ \E t \in Nat : /\ act = Retry(t, "limit", "limitRetries")
                           /\ now <= t /\ epoch <= t
                           /\ job.agent = "claude" => \A w \in Blockers(usage) : w.reset <= t
<1> DEFINE act == Postrun(job, state, result, epoch, usage, now, Dawn(now))
<1>1. \/ act \in {Become("done"), Become("interrupted"), Become("gave_up"), Become("busy"), Become("failed")}
      \/ act = Retry(now + Backoff, "transient", "transientRetries")
      \/ act = Retry(now + Backoff, "busy", "busyDefers")
      \/ act = Retry(now + Backoff, "transient", "unknownRetries")
      \/ act = PostLimit(job, state, result, epoch, usage, now, Dawn(now))
  BY DEF Postrun, PostBusy
<1> HIDE DEF act
<1>2. CASE act = PostLimit(job, state, result, epoch, usage, now, Dawn(now))
  BY <1>2, PostLimitIs DEF act
<1>3. CASE act \in {Become("done"), Become("interrupted"), Become("gave_up"), Become("busy"), Become("failed")}
  BY <1>3 DEF act
<1>4. CASE \/ act = Retry(now + Backoff, "transient", "transientRetries")
           \/ act = Retry(now + Backoff, "busy", "busyDefers")
           \/ act = Retry(now + Backoff, "transient", "unknownRetries")
  BY <1>4 DEF act
<1> QED BY <1>1, <1>2, <1>3, <1>4

-----------------------------------------------------------------------------
(* The streams.  A guard never names what stopped the agent a signal of the runner. *)
Honest(s) == "detail" \in DOMAIN s /\ s.detail # "sigterm"
With(s, field, v) == [s EXCEPT ![field] = v]

LEMMA WithKeeps ==
  ASSUME NEW s, Honest(s), NEW field, field # "detail", NEW v PROVE Honest(With(s, field, v))
  BY DEF Honest, With

LEMMA SaysKeeps == ASSUME NEW s, Honest(s), NEW sign PROVE Honest(Says(s, sign))
  BY DEF Honest, Says

LEMMA KillKeeps ==
  ASSUME NEW s, Honest(s), NEW detail, detail # "sigterm", NEW verdict PROVE Honest(Kill(s, detail, verdict))
  BY DEF Honest, Kill

LEMMA ClaudeHonest == ASSUME NEW c, NEW s, Honest(s), NEW r \in FeedClaude(c, s) PROVE Honest(r)
<1>1. CASE r \in ClaudeInit(c, s)
  <2>1. \/ \E v : \E d \in {"api_key_source", "auto_off", "init_mode", "init_tools"} : \E w :
               r = Kill(With(s, "init", v), d, w)
        \/ r = With(s, "init", "as_told")
    BY <1>1, ZenonT(30) DEF ClaudeInit, With
  <2>2. \A d \in {"api_key_source", "auto_off", "init_mode", "init_tools"} : d # "sigterm"
    OBVIOUS
  <2> QED BY <2>1, <2>2, WithKeeps, KillKeeps
<1>2. CASE r \in ClaudeRate(c, s)
  <2>1. \/ \E v, w : r = Kill(With(s, "rate", v), "overage_blocked", w)
        \/ \E v : r = With(s, "rate", v)
        \/ r = s
    BY <1>2, ZenonT(30) DEF ClaudeRate, KeepRate, With
  <2> QED BY <2>1, WithKeeps, KillKeeps
<1>3. CASE r \in ClaudeAssistant(s)
  <2>1. \/ \E v : r = With(s, "error", v)
        \/ \E v, t : r = Says(With(s, "error", v), t)
        \/ \E w : r = Kill(s, "init_missing", w)
        \/ r = s
    BY <1>3, ZenonT(30) DEF ClaudeAssistant, With
  <2> QED BY <2>1, WithKeeps, KillKeeps, SaysKeeps
<1>4. CASE r \in ClaudeResult(s)
  <2>1. \/ \E v : r = With(s, "end", v)
        \/ \E v, t : r = Says(With(s, "end", v), t)
    BY <1>4, ZenonT(30) DEF ClaudeResult, With
  <2> QED BY <2>1, WithKeeps, SaysKeeps
<1> QED BY <1>1, <1>2, <1>3, <1>4 DEF FeedClaude

LEMMA CodexHonest == ASSUME NEW s, Honest(s), NEW r \in FeedCodex(s) PROVE Honest(r)
<1>1. \/ \E t : r = Says(s, t)
      \/ \E t : r = Says(With(s, "failed", TRUE), t)
      \/ r = With(s, "end", "completed")
  BY ZenonT(30) DEF FeedCodex, With
<1> QED BY <1>1, WithKeeps, SaysKeeps

LEMMA OpenCodeHonest == ASSUME NEW s, Honest(s), NEW r \in FeedOpenCode(s) PROVE Honest(r)
<1>1. \/ \E t : r = Says(With(s, "failed", TRUE), t)
      \/ \E a : r = With(With(s, "failed", TRUE), "api", a)
      \/ r = With(s, "content", TRUE)
      \/ r = With(With(s, "content", TRUE), "calls", TRUE)
  BY ZenonT(30) DEF FeedOpenCode, With
<1> QED BY <1>1, WithKeeps, SaysKeeps

LEMMA CursorHonest == ASSUME NEW s, Honest(s), NEW r \in FeedCursor(s) PROVE Honest(r)
<1>1. \/ \E field \in {"init", "calls", "end"} : \E v : r = With(s, field, v)
      \/ r = Kill(With(s, "init", "key"), "api_key_source", "boundary")
  BY ZenonT(30) DEF FeedCursor, With
<1> QED BY <1>1, WithKeeps, KillKeeps

LEMMA PiHonest == ASSUME NEW s, Honest(s), NEW r \in FeedPi(s) PROVE Honest(r)
<1>1. \/ \E field \in {"init", "failed"} : \E v : r = With(s, field, v)
      \/ \E v, w : r = With(With(s, "end", v), "texts", w)
      \/ \E d \in {"no_header", "provider_mismatch", "tool_violation"} : r = Kill(s, d, "boundary")
  BY ZenonT(30) DEF FeedPi, With
<1>2. \A d \in {"no_header", "provider_mismatch", "tool_violation"} : d # "sigterm"
  OBVIOUS
<1> QED BY <1>1, <1>2, WithKeeps, KillKeeps

LEMMA GeminiHonest == ASSUME NEW s, Honest(s), NEW r \in FeedGemini(s) PROVE Honest(r)
<1>1. \/ r = With(s, "end", "response")
      \/ \E t : r = Says(With(With(s, "end", "response"), "failed", TRUE), t)
      \/ \E t : r = Says(With(s, "failed", TRUE), t)
  BY ZenonT(30) DEF FeedGemini, With
<1> QED BY <1>1, WithKeeps, SaysKeeps

LEMMA LineHonest ==
  ASSUME NEW c, c.agent \in {"claude", "codex", "opencode", "cursor", "pi", "gemini"},
         NEW s, Honest(s), NEW r \in Lines(c, s)
  PROVE  Honest(r)
<1>1. CASE c.agent = "claude"
  BY <1>1, ClaudeHonest DEF Lines
<1>2. CASE c.agent = "codex"
  BY <1>2, CodexHonest DEF Lines
<1>3. CASE c.agent = "opencode"
  BY <1>3, OpenCodeHonest DEF Lines
<1>4. CASE c.agent = "cursor"
  BY <1>4, CursorHonest DEF Lines
<1>5. CASE c.agent = "pi"
  BY <1>5, PiHonest DEF Lines
<1>6. CASE c.agent = "gemini"
  BY <1>6, GeminiHonest DEF Lines
<1> QED BY <1>1, <1>2, <1>3, <1>4, <1>5, <1>6

(* Lines never leave a stream whose guard would pass for a signal, however many there are. *)
LEMMA HeardHonest ==
  ASSUME NEW c, c.agent \in {"claude", "codex", "opencode", "cursor", "pi", "gemini"}, NEW s \in Heard(c)
  PROVE  Honest(s)
<1> DEFINE Grow(T) == T \cup {[r EXCEPT !.lines = TRUE] : r \in UNION {Lines(c, t) : t \in T}}
           Grown(g, k) == g = [n \in 0..k |-> IF n = 0 THEN {Silent} ELSE Grow(g[n - 1])]
           none == {k \in Nat : ~\E g : Grown(g, k)}
           upTo == CHOOSE g : Grown(g, MaxLines)
<1>1. \A k \in Nat : \E g : Grown(g, k)
  <2>1. SUFFICES ASSUME none # {} PROVE FALSE
    OBVIOUS
  <2>2. PICK k \in none : \A y \in none : k <= y
    <3>1. none \in SUBSET Nat
      OBVIOUS
    <3> QED BY <2>1, <3>1, LeastIs
  <2>3. CASE k = 0
    <3> DEFINE g == [n \in 0..0 |-> {Silent}]
    <3>1. g = [n \in 0..0 |-> IF n = 0 THEN {Silent} ELSE Grow(g[n - 1])]
      <4> HIDE DEF Grow
      <4> QED OBVIOUS
    <3>2. Grown(g, 0)
      BY <3>1
    <3> QED BY <2>2, <2>3, <3>2
  <2>4. CASE k # 0
    <3>1. k - 1 \in Nat /\ k - 1 \notin none
      <4>1. k \in Nat
        BY <2>2
      <4>2. k - 1 \in Nat /\ ~(k <= k - 1)
        BY <2>4, <4>1
      <4> HIDE DEF none
      <4> QED BY <2>2, <4>2
    <3>2. PICK g : Grown(g, k - 1)
      BY <3>1
    <3> DEFINE h == [n \in 0..k |-> IF n = k THEN Grow(g[k - 1]) ELSE g[n]]
    <3> HIDE DEF Grow
    <3>3. h = [n \in 0..k |-> IF n = 0 THEN {Silent} ELSE Grow(h[n - 1])]
      <4>1. \A n \in 0..k : n # 0 => n - 1 \in 0..k /\ n - 1 # k
        BY <2>2
      <4>2. \A n \in 0..(k - 1) : n \in 0..k /\ n # k /\ g[n] = IF n = 0 THEN {Silent} ELSE Grow(g[n - 1])
        <5>1. \A n \in 0..(k - 1) : g[n] = IF n = 0 THEN {Silent} ELSE Grow(g[n - 1])
          BY <3>2
        <5>2. k \in Nat
          BY <2>2
        <5>3. \A n \in 0..(k - 1) : n \in 0..k /\ n # k
          BY <5>2
        <5> QED BY <5>1, <5>3
      <4>3. \A n \in 0..k : n = k \/ n \in 0..(k - 1)
        BY <2>2
      <4>4. ASSUME NEW n \in 0..k PROVE h[n] = IF n = 0 THEN {Silent} ELSE Grow(h[n - 1])
        <5>1. CASE n = k
          BY <2>4, <4>1, <5>1
        <5>2. CASE n # k
          BY <4>1, <4>2, <4>3, <5>2
        <5> QED BY <5>1, <5>2
      <4>5. h = [n \in 0..k |-> h[n]]
        OBVIOUS
      <4> HIDE DEF h
      <4> QED BY <4>4, <4>5
    <3>4. Grown(h, k)
      BY <3>3
    <3> QED BY <2>2, <3>4
  <2> QED BY <2>3, <2>4
<1>2. Grown(upTo, MaxLines)
  BY <1>1, OutcomeAssumption
<1>3. Heard(c) = upTo[MaxLines]
  BY DEF Heard
<1> HIDE DEF upTo
<1> DEFINE bad == {n \in 0..MaxLines : \E r \in upTo[n] : ~Honest(r)}
<1>4. \A n \in 0..MaxLines : upTo[n] = IF n = 0 THEN {Silent} ELSE Grow(upTo[n - 1])
  <2> HIDE DEF Grow
  <2> QED BY <1>2
<1>5. ASSUME bad # {} PROVE FALSE
  <2>1. PICK n \in bad : \A y \in bad : n <= y
    <3>1. bad \in SUBSET Nat
      OBVIOUS
    <3> QED BY <1>5, <3>1, LeastIs
  <2>2. CASE n = 0
    <3>1. Honest(Silent)
      BY DEF Honest, Silent, None
    <3>2. upTo[n] = {Silent}
      BY <1>4, <2>1, <2>2
    <3> QED BY <2>1, <3>1, <3>2
  <2>3. CASE n # 0
    <3>1. n - 1 \in 0..MaxLines /\ ~(n <= n - 1)
      BY <2>1, <2>3, OutcomeAssumption
    <3>2. \A r \in upTo[n - 1] : Honest(r)
      BY <2>1, <3>1
    <3>3. PICK r \in upTo[n] : ~Honest(r)
      BY <2>1
    <3>4. r \in Grow(upTo[n - 1])
      BY <1>4, <2>1, <2>3, <3>3
    <3>5. PICK t \in upTo[n - 1] : \E q \in Lines(c, t) : r = [q EXCEPT !.lines = TRUE]
      BY <3>2, <3>3, <3>4
    <3>6. PICK q \in Lines(c, t) : r = [q EXCEPT !.lines = TRUE]
      BY <3>5
    <3>7. Honest(q)
      BY <3>2, <3>6, LineHonest
    <3>8. Honest([q EXCEPT !.lines = TRUE])
      BY <3>7, WithKeeps DEF With
    <3> QED BY <3>3, <3>6, <3>8
  <2> QED BY <2>2, <2>3
<1>6. MaxLines \in 0..MaxLines
  BY OutcomeAssumption
<1> QED BY <1>3, <1>5, <1>6

-----------------------------------------------------------------------------
(* The rules of classify: the first that applies answers. *)
Applies(rule) == rule[1]
Answer(rule) == rule[2]

LEMMA FirstIs ==
  ASSUME NEW rules, NEW n \in Nat, DOMAIN rules = 1..n, NEW k \in 1..n, Applies(rules[k]),
         \A i \in 1..n : i < k => ~Applies(rules[i])
  PROVE  First(rules) = Answer(rules[k])
<1> DEFINE fit == {i \in DOMAIN rules : Applies(rules[i])}
<1>1. fit \in SUBSET Nat /\ k \in fit
  OBVIOUS
<1>2. Min(fit) \in fit /\ Min(fit) <= k
  BY <1>1, LeastIs
<1>3. Min(fit) = k
  <2> HIDE DEF fit
  <2>1. Min(fit) \in 1..n /\ Applies(rules[Min(fit)])
    BY <1>2 DEF fit
  <2> QED BY <1>2, <2>1
<1>4. First(rules) = rules[Min(fit)][2]
  BY DEF First, Applies
<1> QED BY <1>3, <1>4 DEF Answer

LEMMA StoppedIs ==
  ASSUME NEW s, NEW run, run.spawned
  PROVE  \E a, b, d, e, f :
           /\ Stopped(s, run) = <<a, b, d, e, f>>
           /\ ~Applies(a)
           /\ Applies(b) <=> run.killed = "paid"
           /\ Answer(b) = Is("failed", s.detail, "paid_blocked")
           /\ Applies(d) <=> run.killed = "overage"
           /\ Applies(e) <=> (run.killed = "boundary" /\ s.detail = "auto_off")
           /\ Answer(e) = Is("failed", "auto_off", "claude_auto_model")
           /\ Applies(f) <=> run.killed = "boundary"
           /\ Answer(f) = Is("boundary_mismatch", s.detail, None)
<1> DEFINE A == <<~run.spawned, Is("failed", "spawn_failed", None)>>
           B == <<run.killed = "paid", Is("failed", s.detail, "paid_blocked")>>
           D == <<run.killed = "overage",
                  [Overage(Limit("overage_blocked", "other", s.rate.reset, "event")) EXCEPT !.reason = "overage_blocked"]>>
           E == <<run.killed = "boundary" /\ s.detail = "auto_off", Is("failed", "auto_off", "claude_auto_model")>>
           F == <<run.killed = "boundary", Is("boundary_mismatch", s.detail, None)>>
<1>1. Stopped(s, run) = <<A, B, D, E, F>>
  BY Zenon DEF Stopped
<1>2. ~Applies(A)
  BY Zenon DEF Applies
<1>3. (Applies(B) <=> run.killed = "paid") /\ Answer(B) = Is("failed", s.detail, "paid_blocked")
  BY Zenon DEF Applies, Answer
<1>4. Applies(D) <=> run.killed = "overage"
  BY Zenon DEF Applies
<1>5. /\ Applies(E) <=> (run.killed = "boundary" /\ s.detail = "auto_off")
      /\ Answer(E) = Is("failed", "auto_off", "claude_auto_model")
  BY Zenon DEF Applies, Answer
<1>6. (Applies(F) <=> run.killed = "boundary") /\ Answer(F) = Is("boundary_mismatch", s.detail, None)
  BY Zenon DEF Applies, Answer
<1> HIDE DEF A, B, D, E, F
<1> QED BY <1>1, <1>2, <1>3, <1>4, <1>5, <1>6, Zenon

LEMMA ClassifyIs ==
  ASSUME NEW c, NEW s, NEW run, run.spawned
  PROVE  /\ run.killed = "paid" => Classify(c, s, run) = Is("failed", s.detail, "paid_blocked")
         /\ run.killed = "boundary" =>
              Classify(c, s, run) \in {Is("failed", "auto_off", "claude_auto_model"), Is("boundary_mismatch", s.detail, None)}
         /\ (run.killed \notin {"paid", "overage", "boundary"} /\ ~Crossed(c, s, run) /\ Success(c, s, run))
              => Classify(c, s, run) = Is("done", "success", None)
<1>1. PICK a, b, d, e, f :
           /\ Stopped(s, run) = <<a, b, d, e, f>>
           /\ ~Applies(a)
           /\ Applies(b) <=> run.killed = "paid"
           /\ Answer(b) = Is("failed", s.detail, "paid_blocked")
           /\ Applies(d) <=> run.killed = "overage"
           /\ Applies(e) <=> (run.killed = "boundary" /\ s.detail = "auto_off")
           /\ Answer(e) = Is("failed", "auto_off", "claude_auto_model")
           /\ Applies(f) <=> run.killed = "boundary"
           /\ Answer(f) = Is("boundary_mismatch", s.detail, None)
  BY StoppedIs
<1> DEFINE G == <<Crossed(c, s, run), Is("boundary_mismatch", "tool_violation", None)>>
           H == <<Success(c, s, run), Is("done", "success", None)>>
           I == <<run.killed = "sigterm", Is("timeout", "sigterm", None)>>
           J == <<run.killed = "first_line", FirstLine(c)>>
           K == <<TRUE, ByAgent(c, s, run)>>
           rules == <<a, b, d, e, f>> \o <<G, H, I, J, K>>
<1>2. Classify(c, s, run) = First(rules)
  BY <1>1, Zenon DEF Classify
<1>3. Applies(G) <=> Crossed(c, s, run)
  BY Zenon DEF Applies
<1>4. (Applies(H) <=> Success(c, s, run)) /\ Answer(H) = Is("done", "success", None)
  BY Zenon DEF Applies, Answer
<1> HIDE DEF G, H, I, J, K
<1>5. /\ DOMAIN rules = 1..10
      /\ rules[1] = a /\ rules[2] = b /\ rules[3] = d /\ rules[4] = e /\ rules[5] = f /\ rules[6] = G /\ rules[7] = H
  OBVIOUS
<1> HIDE DEF rules
<1>6. ASSUME NEW k \in 1..10, Applies(rules[k]), \A i \in 1..10 : i < k => ~Applies(rules[i])
      PROVE  First(rules) = Answer(rules[k])
  BY <1>5, <1>6, FirstIs
<1>7. ASSUME run.killed = "paid" PROVE Classify(c, s, run) = Is("failed", s.detail, "paid_blocked")
  <2>1. \A i \in 1..10 : i < 2 => i = 1
    OBVIOUS
  <2>2. \A i \in 1..10 : i < 2 => ~Applies(rules[i])
    BY <1>1, <1>5, <2>1
  <2>3. 2 \in 1..10 /\ Applies(rules[2])
    BY <1>1, <1>5, <1>7
  <2> QED BY <1>1, <1>2, <1>5, <1>6, <2>2, <2>3
<1>8. ASSUME run.killed = "boundary"
      PROVE  Classify(c, s, run) \in {Is("failed", "auto_off", "claude_auto_model"), Is("boundary_mismatch", s.detail, None)}
  <2>1. ~Applies(a) /\ ~Applies(b) /\ ~Applies(d) /\ Applies(f)
    BY <1>1, <1>8
  <2>2. CASE s.detail = "auto_off"
    <3>1. \A i \in 1..10 : i < 4 => i = 1 \/ i = 2 \/ i = 3
      OBVIOUS
    <3>2. \A i \in 1..10 : i < 4 => ~Applies(rules[i])
      BY <1>5, <2>1, <3>1
    <3>3. 4 \in 1..10 /\ Applies(rules[4])
      BY <1>1, <1>5, <1>8, <2>2
    <3> QED BY <1>1, <1>2, <1>5, <1>6, <3>2, <3>3
  <2>3. CASE s.detail # "auto_off"
    <3>1. \A i \in 1..10 : i < 5 => i = 1 \/ i = 2 \/ i = 3 \/ i = 4
      OBVIOUS
    <3>2. ~Applies(e)
      BY <1>1, <2>3
    <3>3. \A i \in 1..10 : i < 5 => ~Applies(rules[i])
      BY <1>5, <2>1, <3>1, <3>2
    <3>4. 5 \in 1..10 /\ Applies(rules[5])
      BY <1>5, <2>1
    <3> QED BY <1>1, <1>2, <1>5, <1>6, <3>3, <3>4
  <2> QED BY <2>2, <2>3
<1>9. ASSUME run.killed \notin {"paid", "overage", "boundary"}, ~Crossed(c, s, run), Success(c, s, run)
      PROVE  Classify(c, s, run) = Is("done", "success", None)
  <2>1. ~Applies(a) /\ ~Applies(b) /\ ~Applies(d) /\ ~Applies(e) /\ ~Applies(f) /\ ~Applies(G) /\ Applies(H)
    BY <1>1, <1>3, <1>4, <1>9
  <2>2. \A i \in 1..10 : i < 7 => i = 1 \/ i = 2 \/ i = 3 \/ i = 4 \/ i = 5 \/ i = 6
    OBVIOUS
  <2>3. \A i \in 1..10 : i < 7 => ~Applies(rules[i])
    BY <1>5, <2>1, <2>2
  <2>4. 7 \in 1..10 /\ Applies(rules[7])
    BY <1>5, <2>1
  <2> QED BY <1>2, <1>4, <1>5, <1>6, <2>3, <2>4
<1> QED BY <1>7, <1>8, <1>9, Zenon

LEMMA RereadIs ==
  ASSUME NEW c, NEW result, DOMAIN result = {"outcome", "detail", "reason", "limit"}, result.outcome # "limit",
         NEW r \in Reread(c, result)
  PROVE  r.outcome = result.outcome /\ r.detail = result.detail /\ r.reason = result.reason
<1>1. \/ r = result
      \/ r = [result EXCEPT !.limit.reset = TRUE, !.limit.source = "record"]
  BY ZenonT(30) DEF Reread
<1> QED BY <1>1

LEMMA OverIsFinal ==
  ASSUME NEW c, c.agent \in {"claude", "codex", "opencode", "cursor", "pi", "gemini"},
         NEW end \in Ends(c), end.clean \/ end.stopped, NEW epoch, NEW usage, NEW dawn
  PROVE  Postrun(job, state, end.result, epoch, usage, now, dawn) \in {Become("done"), Become("failed")}
<1> DEFINE Of(s, run, r) ==
             [result |-> r,
              clean |-> run.spawned /\ s.verdict = None /\ Success(c, s, run) /\ ~Crossed(c, s, run),
              stopped |-> run.killed \in {"paid", "boundary"}]
<1>1. Ends(c) =
        UNION {UNION {{Of(s, run, r) : r \in Reread(c, Classify(c, s, run))} : run \in Runs(c, s) \cup {NotSpawned}} :
          s \in Heard(c)}
  BY Zenon DEF Ends
<1>2. \A s, run, r :
        /\ Of(s, run, r).result = r
        /\ Of(s, run, r).clean => run.spawned /\ s.verdict = None /\ Success(c, s, run) /\ ~Crossed(c, s, run)
        /\ Of(s, run, r).stopped => run.killed \in {"paid", "boundary"}
  BY ZenonT(30)
<1> HIDE DEF Of
<1>3. PICK s \in Heard(c) :
        \E run \in Runs(c, s) \cup {NotSpawned} : \E r \in Reread(c, Classify(c, s, run)) : end = Of(s, run, r)
  BY <1>1
<1>4. PICK run \in Runs(c, s) \cup {NotSpawned} : \E r \in Reread(c, Classify(c, s, run)) : end = Of(s, run, r)
  BY <1>3
<1>5. PICK r \in Reread(c, Classify(c, s, run)) : end = Of(s, run, r)
  BY <1>4
<1>6. /\ end.result = r
      /\ end.clean => run.spawned /\ s.verdict = None /\ Success(c, s, run) /\ ~Crossed(c, s, run)
      /\ end.stopped => run.killed \in {"paid", "boundary"}
  BY <1>2, <1>5
<1>7. \A outcome, detail, reason :
        /\ DOMAIN Is(outcome, detail, reason) = {"outcome", "detail", "reason", "limit"}
        /\ Is(outcome, detail, reason).outcome = outcome
        /\ Is(outcome, detail, reason).detail = detail
        /\ Is(outcome, detail, reason).reason = reason
  BY DEF Is
<1>8. CASE end.clean
  <2>1. run.killed \notin {"paid", "overage", "boundary"}
    <3>1. CASE run \in Runs(c, s)
      <4>1. run.killed \in Killers(c, s)
        BY <3>1 DEF Runs
      <4> QED BY <1>6, <1>8, <4>1 DEF Killers, None
    <3> QED BY <3>1 DEF NotSpawned, None
  <2>2. Classify(c, s, run) = Is("done", "success", None)
    BY <1>6, <1>8, <2>1, ClassifyIs
  <2>3. r.outcome = "done" /\ r.detail = "success"
    BY <1>7, <2>2, RereadIs
  <2>4. Postrun(job, state, r, epoch, usage, now, dawn) = Become("done")
    BY <2>3 DEF Postrun
  <2>5. end.result = r
    BY <1>6
  <2> QED BY <2>4, <2>5, Zenon
<1>9. CASE end.stopped
  <2>1. run.spawned /\ run.killed \in {"paid", "boundary"}
    <3>1. CASE run \in Runs(c, s)
      BY <1>6, <1>9, <3>1 DEF Runs
    <3>2. CASE run = NotSpawned
      BY <1>6, <1>9, <3>2 DEF NotSpawned, None
    <3> QED BY <3>1, <3>2
  <2>2. s.detail # "sigterm"
    BY HeardHonest DEF Honest
  <2>3. Classify(c, s, run) \in {Is("failed", s.detail, "paid_blocked"), Is("failed", "auto_off", "claude_auto_model"),
                                 Is("boundary_mismatch", s.detail, None)}
    BY <2>1, ClassifyIs
  <2>4. /\ r.outcome \in {"failed", "boundary_mismatch"} /\ r.detail # "sigterm"
        /\ r.outcome = "failed" => r.reason # "none"
    <3>1. CASE Classify(c, s, run) = Is("failed", s.detail, "paid_blocked")
      BY <1>7, <2>2, <3>1, RereadIs
    <3>2. CASE Classify(c, s, run) = Is("failed", "auto_off", "claude_auto_model")
      BY <1>7, <3>2, RereadIs
    <3>3. CASE Classify(c, s, run) = Is("boundary_mismatch", s.detail, None)
      BY <1>7, <2>2, <3>3, RereadIs
    <3> QED BY <2>3, <3>1, <3>2, <3>3
  <2>5. end.result = r
    BY <1>6
  <2>6. ~(r.outcome = "failed" /\ r.reason = "none" /\ r.detail = "unclassified" /\ state.unknownRetries = 0)
    BY <2>4
  <2>7. r.outcome \notin {"done", "interrupted", "limit", "transient", "busy"} /\ r.detail # "sigterm"
    BY <2>4
  <2> DEFINE act == Postrun(job, state, r, epoch, usage, now, dawn)
  <2>8. act = Become("failed")
    <3>1. /\ r.outcome # "done" /\ r.outcome # "interrupted" /\ r.outcome # "limit" /\ r.outcome # "transient"
          /\ r.outcome # "busy" /\ r.detail # "sigterm"
      BY <2>7
    <3> QED BY <2>6, <3>1 DEF Postrun
  <2> QED BY <2>5, <2>8, Zenon
<1> QED BY <1>8, <1>9

-----------------------------------------------------------------------------
(* The inductive invariant.  A job that waits fires no earlier than the latest reset it has to wait
   for, so that reset has passed once it runs; what is over stays done or failed. *)
StateFields == {"status", "wait", "fireAt", "basis"} \cup Counters
Shaped(st) ==
  /\ st = [x \in StateFields |-> st[x]]
  /\ st.fireAt \in Nat /\ \A c \in Counters : st[c] \in Nat
Waiting ==
  /\ awaited \in Nat
  /\ state.status = "armed" => awaited <= state.fireAt
  /\ state.status = "running" => awaited <= now
Ended == over => state.status \in {"done", "failed"}
AttemptsInv == job \in Kinds /\ now \in Nat /\ seen \in SUBSET Nat /\ Shaped(state) /\ Waiting /\ Ended

LEMMA ArmedIs ==
  ASSUME NEW wait, NEW at \in Nat, NEW basis
  PROVE  /\ Shaped(Armed(wait, at, basis))
         /\ Armed(wait, at, basis).status = "armed" /\ Armed(wait, at, basis).fireAt = at
<1>1. PICK st : st = Armed(wait, at, basis)
  OBVIOUS
<1>2. /\ st = [status |-> "armed", wait |-> wait, fireAt |-> at, basis |-> basis, defers |-> 0,
               limitRetries |-> 0, transientRetries |-> 0, busyDefers |-> 0, unknownRetries |-> 0]
  BY <1>1 DEF Armed, NewState
<1>3. st.status = "armed" /\ st.fireAt = at /\ \A c \in Counters : st[c] = 0
  BY <1>2 DEF Counters
<1>4. st = [x \in StateFields |-> st[x]]
  BY <1>2 DEF StateFields, Counters
<1> QED BY <1>1, <1>3, <1>4 DEF Shaped

LEMMA SettledIs ==
  ASSUME Shaped(state), NEW act, NEW basis, act.counter \in Counters \cup {"none"},
         act.status = "armed" => act.at \in Nat
  PROVE  /\ Shaped(Settled(act, basis))
         /\ Settled(act, basis).status = act.status
         /\ act.status = "armed" => Settled(act, basis).fireAt = act.at
<1> DEFINE counted == IF act.counter = "none" THEN state ELSE [state EXCEPT ![act.counter] = @ + 1]
<1>1. /\ counted = [x \in StateFields |-> counted[x]]
      /\ counted.fireAt = state.fireAt /\ \A c \in Counters : counted[c] \in Nat
  <2>1. CASE act.counter = "none"
    BY <2>1 DEF Shaped
  <2>2. CASE act.counter \in Counters
    <3>1. act.counter # "none" /\ act.counter \in StateFields /\ act.counter # "fireAt"
      BY <2>2 DEF Counters, StateFields
    <3>2. counted = [x \in StateFields |-> IF x = act.counter THEN state[x] + 1 ELSE state[x]]
      BY <3>1 DEF Shaped
    <3>3. \A x \in StateFields : counted[x] = IF x = act.counter THEN state[x] + 1 ELSE state[x]
      BY <3>2
    <3>4. Counters \subseteq StateFields /\ "fireAt" \in StateFields
      BY DEF StateFields
    <3> HIDE DEF counted
    <3> QED BY <3>1, <3>2, <3>3, <3>4 DEF Shaped
  <2> QED BY <2>1, <2>2
<1>2. Settled(act, basis) =
        [counted EXCEPT !.status = act.status, !.wait = act.wait, !.basis = basis,
                        !.fireAt = IF act.status = "armed" THEN act.at ELSE @]
  BY DEF Settled
<1> HIDE DEF counted
<1>3. PICK st : st = Settled(act, basis)
  OBVIOUS
<1>4. st = [x \in StateFields |-> CASE x = "status" -> act.status [] x = "wait" -> act.wait
              [] x = "basis" -> basis
              [] x = "fireAt" -> (IF act.status = "armed" THEN act.at ELSE counted.fireAt)
              [] OTHER -> counted[x]]
  BY <1>1, <1>2, <1>3 DEF StateFields
<1>5. /\ st.status = act.status
      /\ st.fireAt = IF act.status = "armed" THEN act.at ELSE counted.fireAt
  BY <1>4 DEF StateFields
<1>6. ASSUME NEW c \in Counters PROVE st[c] = counted[c]
  BY <1>4 DEF StateFields, Counters
<1>7. st = [x \in StateFields |-> st[x]]
  BY <1>4
<1> QED BY <1>1, <1>3, <1>5, <1>6, <1>7 DEF Shaped

LEMMA AppliedIs ==
  ASSUME Shaped(state), NEW verdict, verdict.action \in {"missed", "skip", "gave_up", "rearm"},
         verdict.action = "rearm" => verdict.at \in Nat
  PROVE  /\ Shaped(Applied(verdict))
         /\ Applied(verdict).status \in {"missed", "skipped", "gave_up", "armed"}
         /\ Applied(verdict).status = "armed" => verdict.action = "rearm" /\ Applied(verdict).fireAt = verdict.at
<1>1. CASE verdict.action = "rearm"
  <2>1. PICK act : act = Retry(verdict.at, "deferred", "defers")
    OBVIOUS
  <2>2. act.status = "armed" /\ act.counter \in Counters \cup {"none"} /\ act.at = verdict.at /\ act.at \in Nat
    BY <1>1, <2>1 DEF Retry, Counters
  <2>3. Applied(verdict) = Settled(act, verdict.reset)
    BY <1>1, <2>1 DEF Applied
  <2> QED BY <1>1, <2>2, <2>3, SettledIs
<1>2. CASE verdict.action # "rearm"
  <2>1. PICK act : act = Become(CASE verdict.action = "missed" -> "missed"
                                  [] verdict.action = "skip" -> "skipped"
                                  [] verdict.action = "gave_up" -> "gave_up")
    OBVIOUS
  <2>2. act.status \in {"missed", "skipped", "gave_up"} /\ act.counter = "none"
    BY <1>2, <2>1 DEF Become
  <2>3. Applied(verdict) = Settled(act, state.basis)
    BY <1>2, <2>1 DEF Applied
  <2> QED BY <2>2, <2>3, SettledIs
<1> QED BY <1>1, <1>2

LEMMA DueIs == ASSUME AttemptsInv, Due PROVE state.status = "armed" /\ awaited \in Nat /\ awaited <= now /\ ~over
<1>1. state.status = "armed" /\ awaited \in Nat /\ awaited <= state.fireAt
  BY DEF Due, AttemptsInv, Waiting
<1>2. state.fireAt \in Nat /\ now \in Nat /\ state.fireAt <= now
  BY DEF Due, AttemptsInv, Shaped
<1> QED BY <1>1, <1>2 DEF AttemptsInv, Ended

LEMMA ArmKeeps == ASSUME AttemptsInv, Arm PROVE AttemptsInv'
<1>1. PICK usage \in IF job.onReset THEN Readings(job, now) ELSE {NoReading}, extra \in Skews :
        LET plan == FireAt(job, usage, now, Dawn(now), extra) IN
        /\ plan # Refused
        /\ state' = Armed(IF job.onReset THEN "reset" ELSE "none", plan.at, plan.basis)
        /\ awaited' = Later(plan.basis, IF job.agent = "claude" THEN Closed(Blockers(usage)) ELSE NoTime)
  BY DEF Arm
<1>2. PICK plan, blocked : /\ plan = FireAt(job, usage, now, Dawn(now), extra)
                           /\ blocked = IF job.agent = "claude" THEN Closed(Blockers(usage)) ELSE NoTime
  OBVIOUS
<1>3. /\ plan.at \in Nat /\ plan.basis \in Nat /\ blocked \in Nat
      /\ plan.basis <= plan.at /\ blocked <= plan.at
  BY <1>1, <1>2, FireAtIs DEF AttemptsInv
<1>4. awaited' \in Nat /\ awaited' <= plan.at
  BY <1>1, <1>2, <1>3, LaterIs
<1>5. Shaped(state') /\ state'.status = "armed" /\ state'.fireAt = plan.at
  BY <1>1, <1>2, <1>3, ArmedIs
<1>6. ~over /\ UNCHANGED <<job, now, seen, over>>
  BY DEF Arm, AttemptsInv, Ended, Armable
<1> QED BY <1>4, <1>5, <1>6 DEF AttemptsInv, Waiting, Ended

LEMMA RunNowKeeps == ASSUME AttemptsInv, RunNow PROVE AttemptsInv'
<1>1. UNCHANGED <<job, now, seen, over>> /\ state' = Armed("none", now, NoTime) /\ awaited' = 0 /\ now \in Nat
  BY DEF RunNow, NoTime, AttemptsInv
<1>2. Shaped(state') /\ state'.status = "armed" /\ state'.fireAt = now
  BY <1>1, ArmedIs
<1>3. ~over
  BY DEF RunNow, AttemptsInv, Ended, Armable
<1> QED BY <1>1, <1>2, <1>3 DEF AttemptsInv, Waiting, Ended

LEMMA RescheduleKeeps == ASSUME AttemptsInv, Reschedule PROVE AttemptsInv'
<1>1. PICK at \in Coming(now) : state' = [state EXCEPT !.wait = "none", !.fireAt = at, !.basis = NoTime]
  BY DEF Reschedule
<1>2. /\ state.status = "armed" /\ job' = Unbound(job) /\ awaited' = 0 /\ now \in Nat
      /\ UNCHANGED <<now, seen, over>> /\ Shaped(state) /\ job \in Kinds
  BY DEF Reschedule, NoTime, AttemptsInv
<1>3. at \in Nat
  BY <1>1, <1>2, AttemptsAssumption DEF Coming
<1>4. Shaped(state') /\ state'.status = "armed" /\ state'.fireAt = at
  BY <1>1, <1>2, <1>3 DEF Shaped, StateFields, Counters, NoTime
<1>5. ~over /\ job' \in Kinds
  BY <1>2, AttemptsAssumption DEF AttemptsInv, Ended
<1> QED BY <1>2, <1>3, <1>4, <1>5 DEF AttemptsInv, Waiting, Ended

LEMMA PrefireKeeps == ASSUME AttemptsInv, PrefireEnds PROVE AttemptsInv'
<1>1. PICK usage, extra, verdict :
        /\ usage \in Readings(job, now) /\ extra \in Skews
        /\ verdict = Prefire(job, state, usage, now, extra)
        /\ verdict # Fire /\ state' = Applied(verdict) /\ awaited' = Later(awaited, verdict.reset)
  BY DEF PrefireEnds
<1>2. UNCHANGED <<job, now, seen, over>> /\ Due
  BY DEF PrefireEnds
<1>3. awaited \in Nat /\ awaited <= now /\ ~over /\ now \in Nat /\ job \in Kinds /\ Shaped(state)
  BY <1>2, DueIs DEF AttemptsInv
<1>4. Legible(usage.windows)
  BY <1>1, <1>3, ReadingsAreLegible
<1>5. /\ verdict.action \in {"fire", "missed", "skip", "gave_up", "rearm"}
      /\ verdict.reset \in Nat
      /\ verdict.action = "rearm" => verdict.at \in Nat /\ now <= verdict.at /\ verdict.reset <= verdict.at
  BY <1>1, <1>3, <1>4, PrefireIs
<1>6. verdict.action # "fire"
  BY <1>1, <1>3, <1>4, PrefireIs
<1>7. /\ Shaped(state') /\ state'.status \in {"missed", "skipped", "gave_up", "armed"}
      /\ state'.status = "armed" => verdict.action = "rearm" /\ state'.fireAt = verdict.at
  BY <1>1, <1>3, <1>5, <1>6, AppliedIs
<1>8. awaited' \in Nat /\ awaited' \in {awaited, verdict.reset}
  BY <1>1, <1>3, <1>5, LaterIs
<1>9. state'.status = "armed" => awaited' <= state'.fireAt
  BY <1>3, <1>5, <1>7, <1>8
<1> QED BY <1>2, <1>3, <1>7, <1>8, <1>9 DEF AttemptsInv, Waiting, Ended

LEMMA GateKeeps == ASSUME AttemptsInv, GateDefers PROVE AttemptsInv'
<1>1. PICK usage, extra, verdict, closed :
        /\ usage \in Readings(job, now) /\ extra \in Skews
        /\ verdict = DeferVerdict(state, PaidDefer(job, usage, now, Zen(now)), now, extra)
        /\ closed = Closed(Exhausted(job, usage, now))
        /\ PaidDefer(job, usage, now, Zen(now)) # Fire
        /\ state' = Applied(verdict) /\ awaited' = Later(awaited, closed)
  BY DEF GateDefers
<1>2. UNCHANGED <<job, now, seen, over>> /\ Due
  BY DEF GateDefers
<1>3. /\ awaited \in Nat /\ awaited <= now /\ ~over /\ now \in Nat /\ job \in Kinds
      /\ Shaped(state) /\ seen \in SUBSET Nat
  BY <1>2, DueIs DEF AttemptsInv
<1>4. Legible(usage.windows)
  BY <1>1, <1>3, ReadingsAreLegible
<1>5. /\ verdict.action \in {"skip", "gave_up", "rearm"} /\ closed \in Nat
      /\ verdict.action = "rearm" => verdict.at \in Nat /\ now <= verdict.at /\ closed <= verdict.at
  BY <1>1, <1>3, <1>4, DeferVerdictIs
<1>6. /\ Shaped(state') /\ state'.status \in {"missed", "skipped", "gave_up", "armed"}
      /\ state'.status = "armed" => verdict.action = "rearm" /\ state'.fireAt = verdict.at
  BY <1>1, <1>3, <1>5, AppliedIs
<1>7. awaited' \in Nat /\ awaited' \in {awaited, closed}
  BY <1>1, <1>3, <1>5, LaterIs
<1>8. state'.status = "armed" => awaited' <= state'.fireAt
  BY <1>3, <1>5, <1>6, <1>7
<1> QED BY <1>2, <1>3, <1>6, <1>7, <1>8 DEF AttemptsInv, Waiting, Ended

LEMMA BusyKeeps == ASSUME AttemptsInv, SessionBusy PROVE AttemptsInv'
<1>1. PICK act : act = PostBusy(state, now)
  OBVIOUS
<1>2. UNCHANGED <<job, now, seen, awaited, over>> /\ state' = Settled(act, state.basis) /\ Due
  BY <1>1 DEF SessionBusy
<1>3. awaited \in Nat /\ awaited <= now /\ ~over /\ now \in Nat /\ Shaped(state)
  BY <1>2, DueIs DEF AttemptsInv
<1>4. now + Backoff \in Nat /\ now <= now + Backoff
  BY <1>3, FiringAssumption
<1>5. /\ act.status \in {"busy", "armed"} /\ act.counter \in Counters \cup {"none"}
      /\ act.status = "armed" => act.at = now + Backoff
  BY <1>1 DEF PostBusy, Become, Retry, Counters
<1>6. /\ Shaped(state') /\ state'.status = act.status
      /\ act.status = "armed" => state'.fireAt = now + Backoff
  BY <1>2, <1>3, <1>4, <1>5, SettledIs
<1>7. state'.status = "armed" => awaited <= state'.fireAt
  BY <1>3, <1>4, <1>6
<1> QED BY <1>2, <1>3, <1>5, <1>6, <1>7 DEF AttemptsInv, Waiting, Ended

LEMMA StartKeeps == ASSUME AttemptsInv, Start PROVE AttemptsInv'
<1>1. /\ UNCHANGED <<job, now, seen, awaited, over>> /\ Due
      /\ state' = [state EXCEPT !.status = "running", !.wait = "none"]
  BY DEF Start
<1>2. awaited \in Nat /\ awaited <= now /\ ~over /\ Shaped(state)
  BY <1>1, DueIs DEF AttemptsInv
<1>3. Shaped(state') /\ state'.status = "running"
  BY <1>1, <1>2 DEF Shaped, StateFields, Counters
<1> QED BY <1>1, <1>2, <1>3 DEF AttemptsInv, Waiting, Ended

LEMMA EpochIs == ASSUME now \in Nat, NEW result, NEW epoch \in Epochs(result) PROVE epoch \in Nat
<1>1. Ahead \subseteq Nat /\ Horizon \in Nat /\ Dawn(now) \in Nat
  BY DawnIs, AttemptsAssumption, FiringAssumption
<1> QED BY <1>1 DEF Epochs, NoTime

LEMMA ObservedIs ==
  ASSUME seen \in SUBSET Nat, NEW result, NEW epoch \in Nat, NEW after \in Observed(result, epoch)
  PROVE  after \in SUBSET Nat
  BY DEF Observed, Kept

(* What the end of a run leaves: it stays over, or waits for what it met. *)
LEMMA AgentEndsKeeps ==
  ASSUME AttemptsInv, AgentEnds
  PROVE  AttemptsInv'
<1>1. state.status = "running" /\ UNCHANGED <<job, now>>
  BY DEF AgentEnds
<1>2. PICK end \in EndsOf[Unbound(job)] :
        /\ \E usage \in Consulted(end.result) :
           \E epoch \in Epochs(end.result) :
             LET act == Postrun(job, state, end.result, epoch, usage, now, Dawn(now)) IN
             /\ state' = Settled(act, IF act.wait = "limit" THEN epoch ELSE state.basis)
             /\ awaited' = IF act.wait # "limit" THEN awaited
                           ELSE Later(Later(awaited, epoch),
                                      IF job.agent = "claude" THEN Closed(Blockers(usage)) ELSE NoTime)
             /\ seen' \in Observed(end.result, epoch)
        /\ over' = (over \/ end.clean \/ end.stopped)
  BY DEF AgentEnds
<1>3. PICK usage, epoch, act :
        /\ usage \in Readings(job, now) \cup {NoReading} /\ epoch \in Epochs(end.result)
        /\ act = Postrun(job, state, end.result, epoch, usage, now, Dawn(now))
        /\ state' = Settled(act, IF act.wait = "limit" THEN epoch ELSE state.basis)
        /\ awaited' = IF act.wait # "limit" THEN awaited
                      ELSE Later(Later(awaited, epoch),
                                 IF job.agent = "claude" THEN Closed(Blockers(usage)) ELSE NoTime)
        /\ seen' \in Observed(end.result, epoch)
  BY <1>2 DEF Consulted
<1>4. /\ job \in Kinds /\ now \in Nat /\ Shaped(state) /\ ~over
      /\ awaited \in Nat /\ awaited <= now /\ seen \in SUBSET Nat
  BY <1>1 DEF AttemptsInv, Waiting, Ended
<1>5. state.limitRetries \in Nat
  BY <1>4 DEF Shaped, Counters
<1>6. Legible(usage.windows)
  <2>1. CASE usage = NoReading
    BY <2>1 DEF NoReading, Legible
  <2> QED BY <1>3, <1>4, <2>1, ReadingsAreLegible
<1>7. epoch \in Nat /\ seen' \in SUBSET Nat
  BY <1>3, <1>4, EpochIs, ObservedIs
<1>8. now + Backoff \in Nat /\ now <= now + Backoff
  BY <1>4, FiringAssumption
<1>9. \/ \E status \in {"done", "interrupted", "limit", "skipped", "gave_up", "busy", "failed"} :
           act = Become(status)
      \/ \E wait \in {"transient", "busy"}, counter \in {"transientRetries", "busyDefers", "unknownRetries"} :
           act = Retry(now + Backoff, wait, counter)
      \/ \E t \in Nat : /\ act = Retry(t, "limit", "limitRetries")
                        /\ now <= t /\ epoch <= t
                        /\ job.agent = "claude" => \A w \in Blockers(usage) : w.reset <= t
  BY <1>3, <1>4, <1>5, <1>6, <1>7, PostrunIs
<1>10. /\ act.counter \in Counters \cup {"none"} /\ act.status # "running"
       /\ act.status = "armed" => act.at \in Nat
  BY <1>8, <1>9 DEF Become, Retry, Counters
<1>11. /\ Shaped(state') /\ state'.status = act.status
       /\ act.status = "armed" => state'.fireAt = act.at
  BY <1>3, <1>4, <1>10, SettledIs
<1>12. awaited' \in Nat /\ (act.status = "armed" => awaited' <= act.at)
  <2>1. CASE act.wait # "limit"
    <3>1. awaited' = awaited
      BY <1>3, <2>1
    <3>2. act.status = "armed" => act.at = now + Backoff
      BY <1>9, <2>1 DEF Become, Retry
    <3> QED BY <1>4, <1>8, <3>1, <3>2
  <2>2. CASE act.wait = "limit"
    <3>1. PICK t \in Nat : /\ act = Retry(t, "limit", "limitRetries")
                           /\ now <= t /\ epoch <= t
                           /\ job.agent = "claude" => \A w \in Blockers(usage) : w.reset <= t
      BY <1>9, <2>2 DEF Become, Retry
    <3>2. PICK blocked : blocked = IF job.agent = "claude" THEN Closed(Blockers(usage)) ELSE NoTime
      OBVIOUS
    <3>3. blocked \in Nat /\ blocked <= t
      <4>1. Blockers(usage) \in SUBSET usage.windows
        BY DEF Blockers, Full
      <4>2. /\ Closed(Blockers(usage)) \in Nat
            /\ job.agent = "claude" => Closed(Blockers(usage)) <= t
        BY <1>4, <1>6, <3>1, <4>1, ClosedIs
      <4> QED BY <3>2, <4>2 DEF NoTime
    <3>4. Later(awaited, epoch) \in Nat /\ Later(awaited, epoch) \in {awaited, epoch}
      BY <1>4, <1>7, LaterIs
    <3>5. awaited' = Later(Later(awaited, epoch), blocked)
      BY <1>3, <2>2, <3>2
    <3>6. awaited' \in Nat /\ awaited' \in {awaited, epoch, blocked}
      BY <3>3, <3>4, <3>5, LaterIs
    <3>7. awaited <= t
      BY <1>4, <3>1
    <3>8. act.at = t
      BY <3>1 DEF Retry
    <3> QED BY <3>1, <3>3, <3>6, <3>7, <3>8
  <2> QED BY <2>1, <2>2
<1>13. over' => state'.status \in {"done", "failed"}
  <2>1. end \in Ends(Unbound(job))
    BY <1>2, <1>4 DEF EndsOf
  <2>2. Unbound(job) \in Kinds
    BY <1>4, AttemptsAssumption
  <2>5. Unbound(job).agent \in {"claude", "codex", "opencode", "cursor", "pi", "gemini"}
    BY <2>2, AttemptsAssumption
  <2>3. end.clean \/ end.stopped => act \in {Become("done"), Become("failed")}
    BY <1>3, <2>1, <2>5, OverIsFinal
  <2>4. over' => end.clean \/ end.stopped
    BY <1>2, <1>4
  <2> QED BY <1>11, <2>3, <2>4 DEF Become
<1>14. Waiting'
  BY <1>10, <1>11, <1>12 DEF Waiting
<1> QED BY <1>1, <1>4, <1>7, <1>11, <1>13, <1>14 DEF AttemptsInv, Ended

LEMMA AttemptsInvStart == Init => AttemptsInv
<1>1. ASSUME Init PROVE AttemptsInv
  <2>1. Shaped(state)
    BY <1>1 DEF Init, NewState, Shaped, StateFields, Counters, NoTime
  <2> QED BY <1>1, <2>1 DEF Init, AttemptsInv, Waiting, Ended, NewState, NoTime
<1> QED BY <1>1

LEMMA AttemptsInvStep == AttemptsInv /\ [Next]_vars => AttemptsInv'
<1> SUFFICES ASSUME AttemptsInv, [Next]_vars PROVE AttemptsInv'
  OBVIOUS
<1>1. CASE Tick
  <2>1. now' \in Nat /\ now <= now'
    BY <1>1 DEF Tick, AttemptsInv
  <2> QED BY <1>1, <2>1 DEF Tick, AttemptsInv, Waiting, Ended, Shaped
<1>2. CASE Arm
  BY <1>2, ArmKeeps
<1>3. CASE RunNow
  BY <1>3, RunNowKeeps
<1>4. CASE PrefireEnds
  BY <1>4, PrefireKeeps
<1>5. CASE GateDefers
  BY <1>5, GateKeeps
<1>6. CASE SessionBusy
  BY <1>6, BusyKeeps
<1>7. CASE Start
  BY <1>7, StartKeeps
<1>8. CASE AgentEnds
  BY <1>8, AgentEndsKeeps
<1>9. CASE UNCHANGED vars
  BY <1>9 DEF vars, AttemptsInv, Waiting, Ended, Shaped
<1>10. CASE Reschedule
  BY <1>10, RescheduleKeeps
<1> QED BY <1>1, <1>2, <1>3, <1>4, <1>5, <1>6, <1>7, <1>8, <1>9, <1>10 DEF Next

LEMMA AttemptsInvHolds == Spec => []AttemptsInv
  BY AttemptsInvStart, AttemptsInvStep, PTL DEF Spec

(* Only a claim that passes launches the agent, and it only looks at a job that is due. *)
LEMMA LaunchIsDue == ASSUME Next, Launches PROVE Due
<1>1. CASE Tick
  BY <1>1 DEF Tick, Launches
<1>2. ASSUME NEW wait, NEW at, NEW basis, state' = Armed(wait, at, basis) PROVE FALSE
  BY <1>2 DEF Launches, Armed, NewState
<1>3. CASE Arm
  BY <1>2, <1>3 DEF Arm
<1>4. CASE RunNow
  BY <1>2, <1>4 DEF RunNow
<1>5. CASE PrefireEnds \/ GateDefers \/ SessionBusy \/ Start
  BY <1>5 DEF PrefireEnds, GateDefers, SessionBusy, Start
<1>6. CASE AgentEnds
  BY <1>6 DEF AgentEnds, Launches
<1>7. CASE Reschedule
  BY <1>7 DEF Reschedule, Launches
<1> QED BY <1>1, <1>3, <1>4, <1>5, <1>6, <1>7 DEF Next

(* A job that waits is launched only after every reset that it was known to have to wait for, over
   all of its deferrals and retries, unless the user chose the time: whatever the records showed
   and whatever the agents reported (WaitsForReset). *)
THEOREM StartsAfterResets == Spec => WaitsForReset
<1>1. AttemptsInv /\ [Next]_vars => [Launches /\ ~asked => now >= awaited]_vars
  <2>1. ASSUME AttemptsInv, Next, Launches PROVE now >= awaited
    <3>1. awaited \in Nat /\ awaited <= now /\ now \in Nat
      BY <2>1, DueIs, LaunchIsDue DEF AttemptsInv
    <3> QED BY <3>1
  <2> QED BY <2>1
<1> QED BY <1>1, AttemptsInvHolds, PTL DEF Spec, WaitsForReset

(* A run that finished its turn, or that a guard stopped, is the job's last: no line the agent wrote,
   no exit code and no record makes the runner send the prompt again (NeverSentAgain). *)
THEOREM EndsOnce == Spec => NeverSentAgain
<1>1. AttemptsInv /\ [Next]_vars => [Launches => ~over]_vars
  BY DueIs, LaunchIsDue
<1> QED BY <1>1, AttemptsInvHolds, PTL DEF Spec, NeverSentAgain
=============================================================================
