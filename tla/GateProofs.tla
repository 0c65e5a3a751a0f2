--------------------------- MODULE GateProofs ---------------------------
(***************************************************************************)
(* The gate, for any jobs, any depth of folders and any age of the caches:   *)
(* no job that may not spend runs on what costs, OpenCode and Codex do not   *)
(* start where a folder brings code, and a preview says what arming says.    *)
(***************************************************************************)
EXTENDS Gate, TLAPS

(* Max of the community modules, on the sets of settings files. *)
LEMMA GreatestFileIs == ASSUME NEW S \in SUBSET GeminiFiles, S # {} PROVE Max(S) \in S
<1>0. \A y \in S : y \in Int /\ 1 <= y /\ y <= 4
  BY DEF GeminiFiles
<1>1. \E x \in S : \A y \in S : x >= y
  <2>1. CASE 4 \in S
    BY <1>0, <2>1
  <2>2. CASE 4 \notin S /\ 3 \in S
    BY <1>0, <2>2
  <2>3. CASE 4 \notin S /\ 3 \notin S /\ 2 \in S
    BY <1>0, <2>3
  <2>4. CASE 4 \notin S /\ 3 \notin S /\ 2 \notin S
    BY <1>0, <2>4
  <2> QED BY <2>1, <2>2, <2>3, <2>4
<1> QED BY <1>1 DEF Max

-----------------------------------------------------------------------------
(* What the gate asks of a sign-in. *)
LEMMA GeminiRefusesWhatPays ==
  ASSUME NEW types \in GeminiTypes, GeminiCode(types) = None PROVE ~GeminiPays(types)
<1>1. Named(types) # {} /\ \A i \in Named(types) : types[i] = "google"
  BY DEF GeminiCode, None
<1>2. ASSUME NEW inForce \in SUBSET Named(types), inForce # {} PROVE types[Max(inForce)] = "google"
  BY <1>1, <1>2, GreatestFileIs DEF Named
<1> QED BY <1>1, <1>2 DEF GeminiPays

LEMMA SignInRefusesWhatPays ==
  ASSUME NEW j \in Jobs, ~j.allowPaid, NEW sign \in SignIns(j), SignInCode(j, "prefire", sign) = None
  PROVE  ~sign.pays
<1>1. CASE j.agent = "gemini"
  BY <1>1, GeminiRefusesWhatPays DEF SignIns, SignInCode, None
<1>2. CASE j.agent # "gemini"
  <2>1. PICK c \in Probes(j), k \in Kinds(j) :
          sign = [clear |-> c, kind |-> k, code |-> None, pays |-> Costly(k)]
    BY <1>2 DEF SignIns
  <2>2. sign.kind \in Kinds(j) /\ sign.pays = Costly(sign.kind)
    BY <2>1
  <2>3. CASE j.agent = "codex"
    BY <2>2, <2>3 DEF SignInCode, Kinds, CodexCode, Costly, None
  <2>4. CASE j.agent = "pi"
    BY <2>2, <2>4 DEF SignInCode, Kinds, PiCode, Costly, None
  <2>5. CASE j.agent \notin {"codex", "pi"}
    BY <2>2, <2>5 DEF Kinds, Costly, None
  <2> QED BY <2>3, <2>4, <2>5
<1> QED BY <1>1, <1>2

LEMMA CheckPasses ==
  ASSUME NEW phase, NEW f, Check(phase, f).code = None
  PROVE  /\ Preflights(job, f) = None
         /\ SignInCode(job, phase, f.sign) = None
         /\ job.agent = "opencode" => BillingCode(Billing(phase, f).class) = None
  BY DEF Check, None

(* The walk of OpenCode's and Codex's preflights goes to /, and so past every folder they read. *)
LEMMA WalksReachFarEnough ==
  ASSUME NEW agent \in FolderReaders, NEW t \in Trees, ~Refused(agent, t)
  PROVE  ~ReadsFolderCode(agent, t)
<1>1. ~\E f \in Folders \ {t.home} : f \in t.code
  BY DEF Refused, CodeAbove, WalkToRoot, FolderReaders
<1>2. t.code \subseteq Folders
  BY DEF Trees
<1> QED BY <1>1, <1>2 DEF ReadsFolderCode

LEMMA PreflightsRefuseCode ==
  ASSUME NEW j \in Jobs, NEW f \in Findings(j), Preflights(j, f) = None,
         j.agent \in FolderReaders
  PROVE  ~f.place.readsCode
<1>1. ~Guarded(j)
  BY DEF Guarded, FolderReaders
<1>2. ASSUME j.agent = "opencode" PROVE ~f.place.refused
  <2>1. Preflights(j, f) = If(f.place.refused, "opencode_plugin_code", Sandbox(j, f))
    BY <1>1, <1>2 DEF Preflights, AutoMode
  <2> QED BY <2>1 DEF If, None
<1>3. ~f.place.refused
  <2>1. CASE j.agent = "codex"
    BY <1>1, <2>1 DEF Preflights, AutoMode, If, None
  <2> QED BY <1>2, <2>1 DEF FolderReaders
<1>4. j.agent \in Agents
  BY DEF FolderReaders, Agents
<1>5. PICK t \in Trees :
        /\ f.place.refused = Refused(j.agent, t)
        /\ f.place.readsCode = ReadsFolderCode(j.agent, t)
  BY <1>4 DEF Findings, Places
<1> QED BY <1>3, <1>5, WalksReachFarEnough

-----------------------------------------------------------------------------
(* What is known of the price.  An answer that found the model free, or could not tell, dates from
   before the model was sold: whoever asked asked no later than that. *)
Tells(class) == class \notin {None, "asked", "zen_paid"}
Answer(a) ==
  /\ a.at \in Nat /\ a.at <= now
  /\ Tells(a.class) /\ price.live = "paid" => price.since >= a.at
Clock == now \in Nat /\ price.since \in Nat /\ price.since <= now
Answers ==
  /\ \A d \in detects : Answer(d)
  /\ Answer(cache) /\ cache.class # "asked"
Cleared ==
  /\ ~job.allowPaid =>
       /\ ~gate.pays
       /\ gate.model # "anthropic"
       /\ gate.model = "zen" /\ price.live = "paid" => Unsure \/ price.since >= gate.at - Ttl
  /\ job.agent \in FolderReaders => ~gate.readsCode
GateHolds ==
  /\ gate.at \in Nat /\ gate.at <= now
  /\ stage \in {"gated", "ran"} => Cleared
GInv == job \in Jobs /\ Clock /\ Answers /\ GateHolds

LEMMA InitCleared == Init => GInv
  BY GateAssumption DEF Init, GInv, Clock, Answers, Answer, GateHolds, NoGate, Tells, None

(* The billing of a run that may not spend: never Claude by the token, and Zen only when the
   newest answer it could rest on is older than the price. *)
LEMMA BillingRefuses ==
  ASSUME GInv, ~job.allowPaid, job.agent = "opencode", NEW f,
         BillingCode(Billing("prefire", f).class) = None
  PROVE  /\ Provider(f) # "anthropic"
         /\ Provider(f) = "zen" /\ price.live = "paid" => ~f.sign.clear \/ price.since >= now - Ttl
<1> DEFINE class == Billing("prefire", f).class
<1>1. class # "zen_paid" /\ class # "anthropic"
  BY DEF BillingCode, None
<1>2. Provider(f) # "anthropic"
  BY <1>1 DEF Billing, None
<1>3. SUFFICES ASSUME Provider(f) = "zen", price.live = "paid", f.sign.clear
               PROVE  price.since >= now - Ttl
  BY <1>2
<1>4. CASE CachedBilling(f, now) = None
  <2>1. class = ClassifyZen(price.live, catalogue.listed, catalogue.mtime, now)
    BY <1>3, <1>4 DEF Billing, None
  <2> QED BY <1>1, <1>3, <2>1 DEF ClassifyZen
<1>5. CASE CachedBilling(f, now) # None
  <2>1. class = CachedBilling(f, now)
    BY <1>3, <1>5 DEF Billing, None
  <2>2. now - cache.at <= Ttl /\ class = cache.class
    BY <1>5, <2>1 DEF CachedBilling
  <2>3. Tells(cache.class)
    BY <1>1, <1>5, <2>1, <2>2 DEF Tells, GInv, Answers
  <2>4. price.since >= cache.at /\ cache.at \in Nat /\ now \in Nat /\ price.since \in Nat
    BY <1>3, <2>3 DEF GInv, Answers, Answer, Clock
  <2> QED BY <2>2, <2>4, GateAssumption
<1> QED BY <1>4, <1>5

LEMMA ArmKeeps == ASSUME GInv, Arm PROVE GInv'
<1>1. stage' \notin {"gated", "ran"}
  BY DEF Arm
<1>2. UNCHANGED <<job, now, price, cache, detects, gate>>
  BY DEF Arm
<1> QED BY <1>1, <1>2 DEF GInv, Clock, Answers, Answer, GateHolds

LEMMA PrefireKeeps == ASSUME GInv, PrefireGate PROVE GInv'
<1>1. UNCHANGED <<job, now, price, cache, detects>>
  BY DEF PrefireGate
<1>2. (job \in Jobs)' /\ Clock' /\ Answers'
  BY <1>1 DEF GInv, Clock, Answers, Answer
<1>3. CASE stage' = "refused" /\ UNCHANGED gate
  BY <1>1, <1>2, <1>3 DEF GInv, GateHolds
<1>4. ASSUME NEW f \in Findings(job), Check("prefire", f).code = None,
             gate' = [at |-> now, model |-> Provider(f), clear |-> f.sign.clear,
                      pays |-> f.sign.pays, readsCode |-> f.place.readsCode]
      PROVE  GInv'
  <2>1. /\ Preflights(job, f) = None
        /\ SignInCode(job, "prefire", f.sign) = None
        /\ job.agent = "opencode" => BillingCode(Billing("prefire", f).class) = None
    BY <1>4, CheckPasses
  <2>2. job \in Jobs /\ f.sign \in SignIns(job)
    BY DEF GInv, Findings
  <2>3. ASSUME job.agent \in FolderReaders PROVE ~gate'.readsCode
    BY <1>4, <2>1, <2>2, <2>3, PreflightsRefuseCode
  <2>4. ASSUME ~job.allowPaid
        PROVE  /\ ~gate'.pays
               /\ gate'.model # "anthropic"
               /\ gate'.model = "zen" /\ price'.live = "paid" =>
                    ~gate'.clear \/ price'.since >= gate'.at - Ttl
    <3>1. ~gate'.pays
      BY <1>4, <2>1, <2>2, <2>4, SignInRefusesWhatPays
    <3>2. CASE job.agent = "opencode"
      BY <1>1, <1>4, <2>1, <2>4, <3>1, <3>2, BillingRefuses
    <3>3. CASE job.agent # "opencode"
      <4>1. Provider(f) = None
        BY <2>2, <3>3, GateAssumption DEF Provider, None
      <4> QED BY <1>4, <3>1, <4>1 DEF None
    <3> QED BY <3>2, <3>3
  <2>5. Cleared'
    BY <1>1, <2>3, <2>4 DEF Cleared, Unsure
  <2>6. gate'.at = now /\ now \in Nat
    BY <1>4 DEF GInv, Clock
  <2> QED BY <1>1, <1>2, <2>5, <2>6 DEF GInv, GateHolds
<1> QED BY <1>3, <1>4 DEF PrefireGate

LEMMA StartKeeps == ASSUME GInv, Start PROVE GInv'
<1>1. stage = "gated" /\ UNCHANGED <<job, now, price, cache, detects, gate>>
  BY DEF Start
<1> QED BY <1>1 DEF GInv, Clock, Answers, Answer, GateHolds, Cleared, Unsure

LEMMA DetectBeginsKeeps == ASSUME GInv, DetectBegins PROVE GInv'
<1>1. detects' = detects \cup {[at |-> now, class |-> "asked"]}
  BY DEF DetectBegins
<1>2. UNCHANGED <<job, now, price, cache, stage, gate>>
  BY DEF DetectBegins
<1>3. \A d \in detects' : Answer(d)
  BY <1>1 DEF GInv, Answers, Answer, Clock, Tells
<1>4. Answers'
  BY <1>2, <1>3 DEF GInv, Answers, Answer
<1> QED BY <1>2, <1>4 DEF GInv, Clock, GateHolds, Cleared, Unsure

LEMMA DetectReadsKeeps ==
  ASSUME GInv, NEW d \in detects, NEW complete \in BOOLEAN, DetectReads(d, complete) PROVE GInv'
<1> DEFINE found == [at |-> d.at, class |-> DetectedClass(d.at)]
<1>1. UNCHANGED <<job, now, price, cache, stage, gate>>
  BY DEF DetectReads
<1>2. detects' \subseteq detects \cup {found}
  BY DEF DetectReads
<1>3. price.live = "paid" => ~Tells(DetectedClass(d.at))
  BY DEF DetectedClass, ClassifyZen, Tells
<1>4. Answer(found)
  <2>1. found.at = d.at /\ found.class = DetectedClass(d.at)
    OBVIOUS
  <2> HIDE DEF found
  <2>2. Answer(d)
    BY DEF GInv, Answers
  <2> QED BY <1>3, <2>1, <2>2 DEF Answer
<1> HIDE DEF found
<1>5. Answers'
  BY <1>1, <1>2, <1>4 DEF GInv, Answers, Answer
<1> QED BY <1>1, <1>5 DEF GInv, Clock, GateHolds, Cleared, Unsure

LEMMA DetectSavesKeeps == ASSUME GInv, NEW d \in detects, DetectSaves(d) PROVE GInv'
<1>1. UNCHANGED <<job, now, price, stage, gate>>
  BY DEF DetectSaves
<1>2. detects' \subseteq detects /\ d.class # "asked" /\ (cache' = cache \/ cache' = d)
  BY DEF DetectSaves, Dated
<1>3. Answer(d) /\ Answers
  BY DEF GInv, Answers
<1>4. Answers'
  BY <1>1, <1>2, <1>3 DEF Answers, Answer
<1> QED BY <1>1, <1>4 DEF GInv, Clock, GateHolds, Cleared, Unsure

LEMMA PriceChangesKeeps == ASSUME GInv, PriceChanges PROVE GInv'
<1>1. UNCHANGED <<job, now, cache, detects, stage, gate>>
  BY DEF PriceChanges
<1>2. price'.since = now
  BY DEF PriceChanges
<1>3. now \in Nat /\ gate.at \in Nat /\ gate.at <= now /\ now >= gate.at - Ttl
  BY GateAssumption DEF GInv, Clock, GateHolds
<1>4. Clock'
  BY <1>1, <1>2, <1>3 DEF Clock
<1>5. Answers'
  BY <1>1, <1>2 DEF GInv, Answers, Answer
<1>6. Cleared => Cleared'
  BY <1>1, <1>2, <1>3 DEF Cleared, Unsure
<1> QED BY <1>1, <1>4, <1>5, <1>6 DEF GInv, GateHolds

LEMMA CatalogueKeeps == ASSUME GInv, CatalogueFetched PROVE GInv'
<1>1. UNCHANGED <<job, now, price, cache, detects, stage, gate>>
  BY DEF CatalogueFetched
<1> QED BY <1>1 DEF GInv, Clock, Answers, Answer, GateHolds, Cleared, Unsure

LEMMA TickKeeps == ASSUME GInv, Tick PROVE GInv'
<1>1. UNCHANGED <<job, price, cache, detects, stage, gate>> /\ now' = now + 1
  BY DEF Tick
<1>2. now \in Nat /\ now' \in Nat /\ now <= now'
  BY <1>1 DEF GInv, Clock
<1>3. \A n \in Nat : n <= now => n <= now'
  BY <1>2
<1>4. Clock'
  BY <1>1, <1>2, <1>3 DEF GInv, Clock
<1>5. Answers'
  BY <1>1, <1>3 DEF GInv, Answers, Answer
<1>6. GateHolds'
  BY <1>1, <1>3 DEF GInv, GateHolds, Cleared, Unsure
<1> QED BY <1>1, <1>4, <1>5, <1>6 DEF GInv

LEMMA GateInductive == GInv /\ [Next]_vars => GInv'
<1> SUFFICES ASSUME GInv, [Next]_vars PROVE GInv'
  OBVIOUS
<1>1. CASE UNCHANGED vars
  BY <1>1 DEF vars, GInv, Clock, Answers, Answer, GateHolds, Cleared, Unsure
<1>2. CASE Arm
  BY <1>2, ArmKeeps
<1>3. CASE PrefireGate
  BY <1>3, PrefireKeeps
<1>4. CASE Start
  BY <1>4, StartKeeps
<1>5. CASE PriceChanges
  BY <1>5, PriceChangesKeeps
<1>6. CASE CatalogueFetched
  BY <1>6, CatalogueKeeps
<1>7. CASE Tick
  BY <1>7, TickKeeps
<1>8. CASE DetectBegins
  BY <1>8, DetectBeginsKeeps
<1>9. ASSUME NEW d \in detects, DetectSaves(d) \/ \E complete \in BOOLEAN : DetectReads(d, complete)
      PROVE  GInv'
  BY <1>9, DetectSavesKeeps, DetectReadsKeeps
<1> QED BY <1>1, <1>2, <1>3, <1>4, <1>5, <1>6, <1>7, <1>8, <1>9 DEF Next, Done

LEMMA AlwaysCleared == Spec => []GInv
  BY InitCleared, GateInductive, PTL DEF Spec

(* A job that may not spend runs on no sign-in that pays and on no model that was paid when the
   last answer the gate could rest on was asked for: check_job right before the run, with the
   cache of models.py under it. *)
THEOREM NothingIsSpent == Spec => []NeverSpends
<1>1. GInv => NeverSpends
  BY DEF GInv, GateHolds, Cleared, NeverSpends
<1> QED BY <1>1, AlwaysCleared, PTL

(* OpenCode and Codex start at no level where a folder they read brings code: their preflights
   walk to /, so at any depth and wherever the repository, a stray .git and the home folder are. *)
THEOREM NoFolderCodeRuns == Spec => []NoProjectCode
<1>1. GInv => NoProjectCode
  BY DEF GInv, GateHolds, Cleared, NoProjectCode, FolderReaders
<1> QED BY <1>1, AlwaysCleared, PTL
-----------------------------------------------------------------------------
(* What a preview may leave open: only the answer of an agent it does not ask. *)
LEMMA UnaskedIsPending ==
  ASSUME NEW j, NEW sign, SignInCode(j, "preview", sign) # SignInCode(j, "arm", sign)
  PROVE  /\ Pending(j, "preview", sign) /\ j.agent # "opencode"
         /\ SignInCode(j, "preview", sign) = None
<1>1. CASE j.agent = "codex"
  <2>1. SignInCode(j, "preview", sign) = CodexCode(j, "preview", sign)
        /\ SignInCode(j, "arm", sign) = CodexCode(j, "arm", sign)
    BY <1>1 DEF SignInCode
  <2>2. ~sign.clear
    <3>1. sign.clear => CodexCode(j, "preview", sign) = CodexCode(j, "arm", sign)
      BY ZenonT(30) DEF CodexCode
    <3> QED BY <2>1, <3>1
  <2>3. SignInCode(j, "preview", sign) = None
    BY <2>1, <2>2 DEF CodexCode
  <2>4. Pending(j, "preview", sign) /\ j.agent # "opencode"
    BY <1>1, <2>2 DEF Pending
  <2> QED BY <2>3, <2>4
<1>2. CASE j.agent = "pi"
  <2>1. SignInCode(j, "preview", sign) = PiCode(j, "preview", sign)
        /\ SignInCode(j, "arm", sign) = PiCode(j, "arm", sign)
    BY <1>2 DEF SignInCode
  <2>2. ~sign.clear /\ sign.kind # "no provider"
    BY <2>1 DEF PiCode
  <2>3. SignInCode(j, "preview", sign) = None
    BY <2>1, <2>2 DEF PiCode
  <2>4. Pending(j, "preview", sign) /\ j.agent # "opencode"
    BY <1>2, <2>2 DEF Pending
  <2> QED BY <2>3, <2>4
<1>3. CASE j.agent \notin {"codex", "pi"}
  <2>1. SignInCode(j, "preview", sign) = SignInCode(j, "arm", sign)
    BY <1>3 DEF SignInCode
  <2> QED BY <2>1
<1> QED BY <1>1, <1>2, <1>3

LEMMA UnaskedBilling ==
  ASSUME NEW f, Billing("preview", f) # Billing("arm", f)
  PROVE  Billing("preview", f) = Unasked
<1>1. /\ Provider(f) = "zen" /\ CachedBilling(f, now) = None
  BY DEF Billing
<1> QED BY <1>1 DEF Billing, None

LEMMA CodeOf ==
  ASSUME NEW phase, NEW f
  PROVE  LET open == Preflights(job, f)
             asked == SignInCode(job, phase, f.sign)
             class == IF job.agent = "opencode" THEN Billing(phase, f).class ELSE None
         IN /\ open # None => Check(phase, f).code = open
            /\ open = None /\ asked # None => Check(phase, f).code = asked
            /\ open = None /\ asked = None => Check(phase, f).code = BillingCode(class)
            /\ open = None /\ Pending(job, phase, f.sign) => Check(phase, f).pending
            /\ job.agent = "opencode" /\ Billing(phase, f).pending => Check(phase, f).pending
  BY DEF Check

LEMMA PreviewTells == ASSUME NEW f PROVE
  LET shown == Check("preview", f) IN
  shown.code # None \/ ~shown.pending => shown.code = Check("arm", f).code
<1> SUFFICES ASSUME Check("preview", f).code # Check("arm", f).code
             PROVE  Check("preview", f).code = None /\ Check("preview", f).pending
  OBVIOUS
<1>1. Preflights(job, f) = None
  BY CodeOf
<1>2. CASE SignInCode(job, "preview", f.sign) # SignInCode(job, "arm", f.sign)
  <2>1. /\ Pending(job, "preview", f.sign) /\ job.agent # "opencode"
        /\ SignInCode(job, "preview", f.sign) = None
    BY <1>2, UnaskedIsPending
  <2>2. Check("preview", f).code = BillingCode(None)
    BY <1>1, <2>1, CodeOf
  <2> QED BY <1>1, <2>1, <2>2, CodeOf DEF BillingCode, None
<1>3. CASE SignInCode(job, "preview", f.sign) = SignInCode(job, "arm", f.sign)
  <2>1. SignInCode(job, "preview", f.sign) = None /\ job.agent = "opencode"
    BY <1>1, <1>3, CodeOf
  <2>2. Check("preview", f).code = BillingCode(Billing("preview", f).class)
        /\ Check("arm", f).code = BillingCode(Billing("arm", f).class)
    BY <1>1, <1>3, <2>1, CodeOf
  <2>3. Billing("preview", f) = Unasked
    BY <2>2, UnaskedBilling
  <2>4. Billing("preview", f).class = "unknown" /\ Billing("preview", f).pending
    BY <2>3 DEF Unasked
  <2> QED BY <2>1, <2>2, <2>4, CodeOf DEF BillingCode, None
<1> QED BY <1>2, <1>3

(* What the panel shows of a job before it is armed is what arming will say, whatever the machine
   holds: check_job leaves a preview open only where it did not ask an agent that arming asks. *)
THEOREM PreviewsAreKept == Spec => []PreviewAgrees
<1>1. PreviewAgrees
  BY PreviewTells DEF PreviewAgrees
<1> QED BY <1>1, PTL
=============================================================================
