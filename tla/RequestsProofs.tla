------------------------ MODULE RequestsProofs ------------------------
(***************************************************************************)
(* The requests of the panel, for any reads, askers, limits and crowds.      *)
(* What one request does to a lane (Takes, Gains), then what taking up those *)
(* that wait does (Redistributes); what a read, an answer or an asker does   *)
(* to the invariants of the lane; the same for the changes; at the end the   *)
(* inductive invariant RequestsInv, one step per action.                     *)
(***************************************************************************)
EXTENDS Requests, FiniteSetTheorems, WellFoundedInduction, TLAPS

LEMMA LeastIs == ASSUME NEW S \in SUBSET Nat, S # {} PROVE \E x \in S : \A y \in S : x <= y
<1> DEFINE R == OpToRel(<, Nat)
<1>1. IsWellFoundedOn(R, Nat)
  BY NatLessThanWellFounded
<1>2. \A x \in Nat, y \in Nat : x < y => <<x, y>> \in R
  BY DEF OpToRel
<1> HIDE DEF R
<1>3. PICK x \in S : \A y \in S : <<y, x>> \notin R
  BY <1>1, WFMin
<1>4. \A y \in S : ~(y < x)
  BY <1>2, <1>3
<1> QED BY <1>4

-----------------------------------------------------------------------------
(* A lane by its parts, and what a request does to them. *)
Lane(f, p, w, t) == [inflight |-> f, pending |-> p, wait |-> w, later |-> t]
Whole(l) == l = Lane(l.inflight, l.pending, l.wait, l.later)
Asked(k, who) == [key |-> k, askers |-> who]
Started(who) == [askers |-> who, saw |-> Unseen]
Superseded(k, old) == IF k \in LatestKeys THEN {Asked(k, old)} ELSE {}

Starts(l, k, who, m) ==
  k \notin Running(l) /\ m = Lane(With(l.inflight, k, Started(who)), l.pending, l.wait, l.later)
RunsAgain(l, k, who, m) ==
  k \notin DOMAIN l.pending /\ m = Lane(l.inflight, With(l.pending, k, who), l.wait, l.later)
JoinsAgain(l, k, who, m) ==
  /\ k \in DOMAIN l.pending
  /\ m = Lane(l.inflight, [l.pending EXCEPT ![k] = MergedAskers(k, l.pending[k], who)], l.wait,
              l.later \cup Superseded(k, l.pending[k]))
Waits(l, k, who, m) ==
  k \notin Running(l) /\ m = Lane(l.inflight, l.pending, Append(l.wait, Asked(k, who)), l.later)
JoinsWaiting(l, k, who, m) ==
  k \notin Running(l) /\ \E i \in DOMAIN l.wait :
    /\ l.wait[i].key = k
    /\ m = Lane(l.inflight, l.pending,
                [l.wait EXCEPT ![i].askers = MergedAskers(k, l.wait[i].askers, who)],
                l.later \cup Superseded(k, l.wait[i].askers))
Dismisses(l, k, who, m) ==
  k \notin Running(l) /\ m = Lane(l.inflight, l.pending, l.wait, l.later \cup {Asked(k, who)})

LEMMA LaneParts ==
  ASSUME NEW f, NEW p, NEW w, NEW t
  PROVE  LET l == Lane(f, p, w, t) IN
         /\ Whole(l) /\ l.inflight = f /\ l.pending = p /\ l.wait = w /\ l.later = t
BY DEF Lane, Whole

LEMMA LaneEdits ==
  ASSUME NEW l, Whole(l), NEW x
  PROVE  /\ [l EXCEPT !.inflight = x] = Lane(x, l.pending, l.wait, l.later)
         /\ [l EXCEPT !.pending = x] = Lane(l.inflight, x, l.wait, l.later)
         /\ [l EXCEPT !.wait = x] = Lane(l.inflight, l.pending, x, l.later)
         /\ [l EXCEPT !.later = x] = Lane(l.inflight, l.pending, l.wait, x)
<1>1. l = [inflight |-> l.inflight, pending |-> l.pending, wait |-> l.wait, later |-> l.later]
  BY DEF Whole, Lane
<1> QED BY <1>1 DEF Lane

LEMMA StartReadIs ==
  ASSUME NEW l, Whole(l), NEW k, k \notin Running(l), NEW who
  PROVE  Starts(l, k, who, StartRead(l, k, who))
BY LaneEdits DEF StartRead, Starts, Started

LEMMA RequestReadIs ==
  ASSUME NEW l, Whole(l), NEW k, NEW who
  PROVE  LET m == RequestRead(l, k, who) IN
         \/ Starts(l, k, who, m) /\ Cardinality(Running(l)) < ReadMax
         \/ RunsAgain(l, k, who, m) \/ JoinsAgain(l, k, who, m) \/ JoinsWaiting(l, k, who, m)
         \/ Waits(l, k, who, m) /\ Len(l.wait) < WaitMax
         \/ Dismisses(l, k, who, m)
<1> DEFINE m == RequestRead(l, k, who)
           place == {i \in DOMAIN l.wait : l.wait[i].key = k}
<1>1. ASSUME NEW old
      PROVE  TellLater(l, k, old) = Lane(l.inflight, l.pending, l.wait, l.later \cup {Asked(k, old)})
  <2> DEFINE more == l.later \cup {Asked(k, old)}
  <2>1. TellLater(l, k, old) = [l EXCEPT !.later = more]
    BY DEF TellLater, Asked
  <2> HIDE DEF more
  <2>2. TellLater(l, k, old) = Lane(l.inflight, l.pending, l.wait, more)
    BY <2>1, LaneEdits
  <2> QED BY <2>2 DEF more
<1>2. ASSUME NEW old
      PROVE  Told(l, k, old) = Lane(l.inflight, l.pending, l.wait, l.later \cup Superseded(k, old))
  <2>1. CASE k \in LatestKeys
    BY <2>1, <1>1 DEF Told, Superseded
  <2>2. CASE k \notin LatestKeys
    BY <2>2 DEF Told, Superseded, Whole, Lane
  <2> QED BY <2>1, <2>2
<1>3. CASE k \in Running(l) /\ k \in DOMAIN l.pending
  <2>1. m = [Told(l, k, l.pending[k]) EXCEPT !.pending[k] = MergedAskers(k, @, who)]
    BY <1>3 DEF RequestRead
  <2>2. m = [Lane(l.inflight, l.pending, l.wait, l.later \cup Superseded(k, l.pending[k]))
               EXCEPT !.pending[k] = MergedAskers(k, @, who)]
    BY <2>1, <1>2
  <2>3. JoinsAgain(l, k, who, m)
    BY <2>2, <1>3 DEF JoinsAgain, Lane
  <2> QED BY <2>3
<1>4. CASE k \in Running(l) /\ k \notin DOMAIN l.pending
  <2>1. m = [l EXCEPT !.pending = With(@, k, who)]
    BY <1>4 DEF RequestRead
  <2> QED BY <2>1, <1>4, LaneEdits DEF RunsAgain
<1>5. CASE k \notin Running(l) /\ place # {}
  <2> DEFINE i == CHOOSE i \in place : TRUE
  <2>1. m = [Told(l, k, l.wait[i].askers) EXCEPT !.wait[i].askers = MergedAskers(k, @, who)]
    BY <1>5 DEF RequestRead
  <2>2. i \in place
    BY <1>5
  <2> HIDE DEF i, m
  <2>3. m = [Lane(l.inflight, l.pending, l.wait, l.later \cup Superseded(k, l.wait[i].askers))
               EXCEPT !.wait[i].askers = MergedAskers(k, @, who)]
    BY <2>1, <1>2
  <2>4. m = Lane(l.inflight, l.pending, [l.wait EXCEPT ![i].askers = MergedAskers(k, @, who)],
                 l.later \cup Superseded(k, l.wait[i].askers))
    BY <2>3 DEF Lane
  <2>5. [l.wait EXCEPT ![i].askers = MergedAskers(k, @, who)]
          = [l.wait EXCEPT ![i].askers = MergedAskers(k, l.wait[i].askers, who)]
    OBVIOUS
  <2>6. JoinsWaiting(l, k, who, m)
    BY <1>5, <2>2, <2>4, <2>5 DEF JoinsWaiting
  <2> QED BY <2>6 DEF m
<1>6. CASE k \notin Running(l) /\ place = {}
  <2>1. m = StartOrWait(l, k, who)
    BY <1>6 DEF RequestRead
  <2>2. CASE Cardinality(Running(l)) < ReadMax
    BY <2>1, <2>2, <1>6, StartReadIs DEF StartOrWait
  <2>3. CASE ~(Cardinality(Running(l)) < ReadMax) /\ Len(l.wait) < WaitMax
    BY <2>1, <2>3, <1>6, LaneEdits DEF StartOrWait, Waits, Asked
  <2>4. CASE ~(Cardinality(Running(l)) < ReadMax) /\ ~(Len(l.wait) < WaitMax)
    BY <2>1, <2>4, <1>6, <1>1 DEF StartOrWait, Dismisses
  <2> QED BY <2>2, <2>3, <2>4
<1> QED BY <1>3, <1>4, <1>5, <1>6

-----------------------------------------------------------------------------
Entries == [key : ReadKeys, askers : SUBSET Askers]
Flights == [askers : SUBSET Askers, saw : Nat]
AreFlights(f) == f \in [DOMAIN f -> Flights] /\ DOMAIN f \subseteq ReadKeys
ArePending(p) == p \in [DOMAIN p -> SUBSET Askers] /\ DOMAIN p \subseteq ReadKeys
LaneType(l) ==
  /\ Whole(l) /\ AreFlights(l.inflight) /\ ArePending(l.pending)
  /\ l.wait \in Seq(Entries)
  /\ l.later \in SUBSET Entries

LEMMA EntriesAre ==
  ASSUME NEW k \in ReadKeys, NEW who \in SUBSET Askers
  PROVE  /\ Asked(k, who) \in Entries /\ Asked(k, who).key = k /\ Asked(k, who).askers = who
         /\ Started(who) \in Flights /\ Started(who).askers = who /\ Started(who).saw = Unseen
BY DEF Asked, Started, Entries, Flights, Unseen

LEMMA EntriesHave ==
  ASSUME NEW e \in Entries
  PROVE  e.key \in ReadKeys /\ e.askers \in SUBSET Askers /\ e = Asked(e.key, e.askers)
BY DEF Asked, Entries

LEMMA SupersededIs ==
  ASSUME NEW k \in ReadKeys, NEW old \in SUBSET Askers, NEW who \in SUBSET Askers
  PROVE  /\ Superseded(k, old) \in SUBSET Entries
         /\ MergedAskers(k, old, who) \in SUBSET Askers
BY EntriesAre DEF Superseded, MergedAskers

LEMMA WithFlight ==
  ASSUME NEW f, AreFlights(f), NEW k \in ReadKeys, NEW who \in SUBSET Askers
  PROVE  LET g == With(f, k, Started(who)) IN
         /\ AreFlights(g) /\ DOMAIN g = DOMAIN f \cup {k} /\ g[k] = Started(who)
         /\ \A x \in DOMAIN f : x # k => g[x] = f[x]
BY EntriesAre DEF AreFlights, With

LEMMA WithoutFlight ==
  ASSUME NEW f, AreFlights(f), NEW k
  PROVE  LET g == Without(f, k) IN
         AreFlights(g) /\ DOMAIN g = DOMAIN f \ {k} /\ \A x \in DOMAIN g : g[x] = f[x]
BY DEF AreFlights, Without, Restrict

LEMMA WithPending ==
  ASSUME NEW p, ArePending(p), NEW k \in ReadKeys, NEW who \in SUBSET Askers
  PROVE  ArePending(With(p, k, who)) /\ DOMAIN With(p, k, who) = DOMAIN p \cup {k}
BY DEF ArePending, With

LEMMA WithoutPending ==
  ASSUME NEW p, ArePending(p), NEW k
  PROVE  ArePending(Without(p, k)) /\ DOMAIN Without(p, k) = DOMAIN p \ {k}
BY DEF ArePending, Without, Restrict

LEMMA PendingAt ==
  ASSUME NEW p, ArePending(p), NEW k \in DOMAIN p
  PROVE  /\ k \in ReadKeys /\ p[k] \in SUBSET Askers
         /\ \A who \in SUBSET Askers :
              ArePending([p EXCEPT ![k] = who]) /\ DOMAIN [p EXCEPT ![k] = who] = DOMAIN p
BY DEF ArePending

LEMMA WaitAt ==
  ASSUME NEW w \in Seq(Entries), NEW i \in DOMAIN w, NEW who \in SUBSET Askers
  PROVE  LET v == [w EXCEPT ![i].askers = who] IN
         v \in Seq(Entries) /\ Len(v) = Len(w) /\ \A j \in DOMAIN w : j \in DOMAIN v /\ v[j].key = w[j].key
<1> DEFINE e == [w[i] EXCEPT !.askers = who]
           v == [w EXCEPT ![i] = e]
<1>1. w[i] \in Entries
  OBVIOUS
<1>2. e \in Entries /\ e.key = w[i].key
  BY <1>1 DEF Entries
<1> HIDE DEF e
<1>3. v \in Seq(Entries) /\ Len(v) = Len(w) /\ DOMAIN v = DOMAIN w
  BY <1>2
<1>4. \A j \in DOMAIN w : v[j].key = w[j].key
  BY <1>2
<1> QED BY <1>3, <1>4 DEF e

LEMMA LaneMade ==
  ASSUME NEW f, AreFlights(f), NEW p, ArePending(p), NEW w \in Seq(Entries), NEW t \in SUBSET Entries
  PROVE  LET m == Lane(f, p, w, t) IN
         /\ LaneType(m) /\ Running(m) = DOMAIN f
         /\ m.inflight = f /\ m.pending = p /\ m.wait = w /\ m.later = t
BY LaneParts DEF LaneType, Running

LEMMA StartsType ==
  ASSUME NEW l, LaneType(l), NEW k \in ReadKeys, NEW who \in SUBSET Askers, NEW m, Starts(l, k, who, m)
  PROVE  /\ LaneType(m) /\ Running(m) = Running(l) \cup {k} /\ m.inflight[k].saw = Unseen
         /\ \A x \in Running(l) : m.inflight[x] = l.inflight[x]
<1> DEFINE f == With(l.inflight, k, Started(who))
<1>1. AreFlights(f) /\ DOMAIN f = Running(l) \cup {k} /\ f[k] = Started(who)
      /\ \A x \in Running(l) : x # k => f[x] = l.inflight[x]
  BY WithFlight DEF LaneType, Running
<1> HIDE DEF f
<1>2. m = Lane(f, l.pending, l.wait, l.later) /\ k \notin Running(l)
  BY DEF Starts, f
<1>3. LaneType(m) /\ Running(m) = DOMAIN f /\ m.inflight = f
  BY <1>1, <1>2, LaneMade DEF LaneType
<1> QED BY <1>1, <1>2, <1>3, EntriesAre

LEMMA StartReadType ==
  ASSUME NEW l, LaneType(l), NEW k \in ReadKeys, k \notin Running(l), NEW who \in SUBSET Askers
  PROVE  LET m == StartRead(l, k, who) IN
         /\ Starts(l, k, who, m) /\ LaneType(m) /\ Running(m) = Running(l) \cup {k} /\ m.inflight[k].saw = Unseen
         /\ \A x \in Running(l) : m.inflight[x] = l.inflight[x]
<1>1. PICK m : m = StartRead(l, k, who)
  OBVIOUS
<1>2. Starts(l, k, who, m)
  BY <1>1, StartReadIs DEF LaneType
<1>3. /\ LaneType(m) /\ Running(m) = Running(l) \cup {k} /\ m.inflight[k].saw = Unseen
      /\ \A x \in Running(l) : m.inflight[x] = l.inflight[x]
  BY <1>2, StartsType
<1> QED BY <1>1, <1>2, <1>3

(* No request loses what runs, what is to run again, or what is refused. *)
Carries(l, m) ==
  /\ \A k \in Running(l) : k \in Running(m) /\ m.inflight[k] = l.inflight[k]
  /\ \A k \in Running(m) : k \in Running(l) \/ m.inflight[k].saw = Unseen
  /\ DOMAIN l.pending \subseteq DOMAIN m.pending
  /\ l.later \subseteq m.later
  /\ Len(l.wait) <= Len(m.wait) /\ \A i \in DOMAIN l.wait : m.wait[i].key = l.wait[i].key

(* A read of key k is on its way and has not read the store. *)
Due(l, k) ==
  \/ k \in Running(l) /\ l.inflight[k].saw = Unseen
  \/ k \in DOMAIN l.pending
  \/ \E i \in DOMAIN l.wait : l.wait[i].key = k
  \/ \E told \in l.later : told.key = k

LEMMA CarriesOn ==
  ASSUME NEW l, LaneType(l), NEW m, LaneType(m), Carries(l, m), NEW n, LaneType(n), Carries(m, n)
  PROVE  Carries(l, n)
<1>1. Len(l.wait) \in Nat /\ Len(m.wait) \in Nat /\ Len(n.wait) \in Nat
      /\ DOMAIN l.wait = 1..Len(l.wait) /\ DOMAIN m.wait = 1..Len(m.wait)
  BY DEF LaneType
<1>2. \A i \in DOMAIN l.wait : i \in DOMAIN m.wait
  BY <1>1 DEF Carries
<1>3. Len(l.wait) <= Len(n.wait) /\ \A i \in DOMAIN l.wait : n.wait[i].key = l.wait[i].key
  BY <1>1, <1>2 DEF Carries
<1>4. \A k \in Running(l) : k \in Running(n) /\ n.inflight[k] = l.inflight[k]
  BY DEF Carries
<1>5. \A k \in Running(n) : k \in Running(l) \/ n.inflight[k].saw = Unseen
  BY DEF Carries
<1>6. DOMAIN l.pending \subseteq DOMAIN n.pending /\ l.later \subseteq n.later
  BY DEF Carries
<1> QED BY <1>3, <1>4, <1>5, <1>6 DEF Carries

LEMMA DueOn ==
  ASSUME NEW l, LaneType(l), NEW m, LaneType(m), Carries(l, m), NEW k, Due(l, k)
  PROVE  Due(m, k)
<1>1. Len(l.wait) \in Nat /\ Len(m.wait) \in Nat
      /\ DOMAIN l.wait = 1..Len(l.wait) /\ DOMAIN m.wait = 1..Len(m.wait)
  BY DEF LaneType
<1>2. \A i \in DOMAIN l.wait : i \in DOMAIN m.wait
  BY <1>1 DEF Carries
<1> QED BY <1>2 DEF Carries, Due

(* What asking for key k makes of lane l. *)
Takes(l, k, m) ==
  /\ LaneType(m) /\ Carries(l, m) /\ Running(m) \subseteq Running(l) \cup {k}
  /\ Running(m) = Running(l) \/ Cardinality(Running(l)) < ReadMax
  /\ k \in Running(l) => k \in DOMAIN m.pending
  /\ Due(m, k)
  /\ \/ Len(m.wait) = Len(l.wait)
     \/ Len(l.wait) < WaitMax /\ Len(m.wait) = Len(l.wait) + 1

LEMMA RequestCarries ==
  ASSUME NEW l, LaneType(l), NEW k \in ReadKeys, NEW who \in SUBSET Askers
  PROVE  Takes(l, k, RequestRead(l, k, who))
<1> DEFINE m == RequestRead(l, k, who)
           f == l.inflight
           p == l.pending
           w == l.wait
           t == l.later
           Kept == f = m.inflight /\ Running(m) = Running(l)
<1>1. /\ Whole(l) /\ AreFlights(f) /\ ArePending(p) /\ DOMAIN f = Running(l)
      /\ w \in Seq(Entries) /\ t \in SUBSET Entries /\ Len(w) \in Nat
  BY DEF LaneType, Running
<1>2. Len(w) <= Len(w)
  BY <1>1
<1>3. LaneType(l)
  OBVIOUS
<1> HIDE DEF m, f, p, w, t
<1>4. ASSUME Starts(l, k, who, m), Cardinality(Running(l)) < ReadMax PROVE Takes(l, k, m)
  <2>1. LaneType(m) /\ Running(m) = Running(l) \cup {k} /\ m.inflight[k].saw = Unseen
    BY <1>3, <1>4, StartsType
  <2>2. m.inflight = With(f, k, Started(who)) /\ m.pending = p /\ m.wait = w /\ m.later = t
    BY <1>4, LaneParts DEF Starts, f, p, w, t
  <2>3. \A x \in Running(l) : m.inflight[x] = f[x]
    BY <1>3, <1>4, StartsType DEF f
  <2>4. k \notin Running(l)
    BY <1>4 DEF Starts
  <2>5. Carries(l, m)
    BY <1>2, <2>1, <2>2, <2>3 DEF Carries, f, p, w, t
  <2>6. Due(m, k)
    BY <2>1 DEF Due
  <2> QED BY <1>4, <2>1, <2>2, <2>4, <2>5, <2>6 DEF Takes, w
<1>5. ASSUME RunsAgain(l, k, who, m) PROVE Takes(l, k, m)
  <2> DEFINE q == With(p, k, who)
  <2>1. m = Lane(f, q, w, t)
    BY <1>5 DEF RunsAgain, f, p, w, t
  <2>2. ArePending(q) /\ DOMAIN q = DOMAIN p \cup {k}
    BY <1>1, WithPending
  <2> HIDE DEF q
  <2>3. /\ LaneType(m) /\ Running(m) = Running(l) /\ DOMAIN m.pending = DOMAIN p \cup {k}
        /\ m.inflight = f /\ m.wait = w /\ m.later = t
    BY <1>1, <2>1, <2>2, LaneMade
  <2>4. k \in DOMAIN m.pending
    BY <2>3
  <2>5. Carries(l, m)
    BY <1>2, <2>3 DEF Carries, f, p, w, t
  <2>6. Due(m, k)
    BY <2>4 DEF Due
  <2> QED BY <2>3, <2>4, <2>5, <2>6 DEF Takes, w
<1>6. ASSUME JoinsAgain(l, k, who, m) PROVE Takes(l, k, m)
  <2> DEFINE old == p[k]
             merged == MergedAskers(k, old, who)
             q == [p EXCEPT ![k] = merged]
             u == t \cup Superseded(k, old)
  <2>1. m = Lane(f, q, w, u) /\ k \in DOMAIN p
    BY <1>6 DEF JoinsAgain, f, p, w, t
  <2>2. old \in SUBSET Askers
    BY <1>1, <2>1, PendingAt
  <2>3. Superseded(k, old) \in SUBSET Entries /\ merged \in SUBSET Askers
    BY <2>2, SupersededIs
  <2> HIDE DEF old, merged
  <2>4. ArePending(q) /\ DOMAIN q = DOMAIN p /\ u \in SUBSET Entries /\ t \subseteq u
    BY <1>1, <2>1, <2>3, PendingAt
  <2> HIDE DEF q, u
  <2>5. /\ LaneType(m) /\ Running(m) = Running(l) /\ DOMAIN m.pending = DOMAIN p
        /\ m.inflight = f /\ m.wait = w /\ m.later = u
    BY <1>1, <2>1, <2>4, LaneMade
  <2>6. k \in DOMAIN m.pending
    BY <2>1, <2>5
  <2>7. Carries(l, m)
    BY <1>2, <2>4, <2>5 DEF Carries, f, p, w, t
  <2>8. Due(m, k)
    BY <2>6 DEF Due
  <2> QED BY <2>5, <2>6, <2>7, <2>8 DEF Takes, w
<1>7. ASSUME JoinsWaiting(l, k, who, m) PROVE Takes(l, k, m)
  <2>1. PICK i \in DOMAIN w :
          /\ w[i].key = k
          /\ m = Lane(f, p, [w EXCEPT ![i].askers = MergedAskers(k, w[i].askers, who)],
                      t \cup Superseded(k, w[i].askers))
    BY <1>7 DEF JoinsWaiting, f, p, w, t
  <2> DEFINE old == w[i].askers
             merged == MergedAskers(k, old, who)
             v == [w EXCEPT ![i].askers = merged]
             u == t \cup Superseded(k, old)
  <2>2. m = Lane(f, p, v, u)
    BY <2>1
  <2>3. w[i] \in Entries
    BY <1>1
  <2>4. old \in SUBSET Askers
    BY <2>3, EntriesHave
  <2>5. Superseded(k, old) \in SUBSET Entries /\ merged \in SUBSET Askers
    BY <2>4, SupersededIs
  <2>6. u \in SUBSET Entries /\ t \subseteq u
    BY <1>1, <2>5
  <2> HIDE DEF old, merged, u
  <2>7. v \in Seq(Entries) /\ Len(v) = Len(w) /\ \A j \in DOMAIN w : j \in DOMAIN v /\ v[j].key = w[j].key
    BY <1>1, <2>5, WaitAt
  <2> HIDE DEF v
  <2>8. /\ LaneType(m) /\ Running(m) = Running(l) /\ DOMAIN m.pending = DOMAIN p
        /\ m.inflight = f /\ m.wait = v /\ m.later = u
    BY <1>1, <2>2, <2>6, <2>7, LaneMade
  <2>9. k \notin Running(l)
    BY <1>7 DEF JoinsWaiting
  <2>10. Carries(l, m)
    BY <1>2, <2>6, <2>7, <2>8 DEF Carries, f, p, w, t
  <2>11. Due(m, k)
    BY <2>1, <2>7, <2>8 DEF Due
  <2> QED BY <2>7, <2>8, <2>9, <2>10, <2>11 DEF Takes, w
<1>8. ASSUME Waits(l, k, who, m) /\ Len(w) < WaitMax PROVE Takes(l, k, m)
  <2> DEFINE v == Append(w, Asked(k, who))
  <2>1. m = Lane(f, p, v, t) /\ k \notin Running(l)
    BY <1>8 DEF Waits, f, p, w, t
  <2>2. Asked(k, who) \in Entries /\ Asked(k, who).key = k
    BY EntriesAre
  <2>3. /\ v \in Seq(Entries) /\ Len(v) = Len(w) + 1 /\ Len(w) <= Len(v)
        /\ v[Len(v)] = Asked(k, who) /\ Len(v) \in DOMAIN v
        /\ \A j \in DOMAIN w : v[j] = w[j]
    BY <1>1, <2>2
  <2> HIDE DEF v
  <2>4. /\ LaneType(m) /\ Running(m) = Running(l) /\ DOMAIN m.pending = DOMAIN p
        /\ m.inflight = f /\ m.wait = v /\ m.later = t
    BY <1>1, <2>1, <2>3, LaneMade
  <2>5. Carries(l, m)
    BY <2>3, <2>4 DEF Carries, f, p, w, t
  <2>6. Due(m, k)
    BY <2>2, <2>3, <2>4 DEF Due
  <2> QED BY <1>8, <2>1, <2>3, <2>4, <2>5, <2>6 DEF Takes, w
<1>9. ASSUME Dismisses(l, k, who, m) PROVE Takes(l, k, m)
  <2> DEFINE u == t \cup {Asked(k, who)}
  <2>1. m = Lane(f, p, w, u) /\ k \notin Running(l)
    BY <1>9 DEF Dismisses, f, p, w, t
  <2>2. Asked(k, who) \in Entries /\ Asked(k, who).key = k
    BY EntriesAre
  <2>3. u \in SUBSET Entries /\ t \subseteq u /\ Asked(k, who) \in u
    BY <1>1, <2>2
  <2> HIDE DEF u
  <2>4. /\ LaneType(m) /\ Running(m) = Running(l) /\ DOMAIN m.pending = DOMAIN p
        /\ m.inflight = f /\ m.wait = w /\ m.later = u
    BY <1>1, <2>1, <2>3, LaneMade
  <2>5. Carries(l, m)
    BY <1>2, <2>3, <2>4 DEF Carries, f, p, w, t
  <2>6. Due(m, k)
    BY <2>2, <2>3, <2>4 DEF Due
  <2> QED BY <2>1, <2>4, <2>5, <2>6 DEF Takes, w
<1> QED BY <1>1, <1>4, <1>5, <1>6, <1>7, <1>8, <1>9, RequestReadIs DEF m, w

Few(l, b) == IsFiniteSet(Running(l)) /\ Cardinality(Running(l)) <= b

LEMMA FewOn ==
  ASSUME NEW l, NEW b \in Nat, ReadMax <= b, Few(l, b), NEW m, NEW k, Running(m) \subseteq Running(l) \cup {k},
         Running(m) = Running(l) \/ Cardinality(Running(l)) < ReadMax
  PROVE  Few(m, b)
<1>1. CASE Running(m) = Running(l)
  BY <1>1 DEF Few
<1>2. CASE Cardinality(Running(l)) < ReadMax
  <2>1. IsFiniteSet(Running(l)) /\ Cardinality(Running(l)) \in Nat
    BY FS_CardinalityType DEF Few
  <2>2. IsFiniteSet(Running(l) \cup {k}) /\ Cardinality(Running(l) \cup {k}) <= Cardinality(Running(l)) + 1
        /\ Cardinality(Running(l) \cup {k}) \in Nat
    BY <2>1, FS_AddElement, FS_CardinalityType
  <2>3. IsFiniteSet(Running(m)) /\ Cardinality(Running(m)) <= Cardinality(Running(l) \cup {k})
        /\ Cardinality(Running(m)) \in Nat
    BY <2>2, FS_Subset, FS_CardinalityType
  <2>4. ReadMax \in Nat
    BY RequestsAssumption
  <2> QED BY <1>2, <2>1, <2>2, <2>3, <2>4 DEF Few
<1> QED BY <1>1, <1>2

(* What taking up one that waits for key k makes of lane l. *)
TakesUp(l, k, m) ==
  /\ LaneType(m) /\ Carries(l, m) /\ Running(m) \subseteq Running(l) \cup {k}
  /\ Running(m) = Running(l) \/ Cardinality(Running(l)) < ReadMax
  /\ Due(m, k)
  /\ Len(m.wait) = Len(l.wait) \/ Len(m.wait) = Len(l.wait) + 1

LEMMA WaitsType ==
  ASSUME NEW l, LaneType(l), NEW k \in ReadKeys, NEW who \in SUBSET Askers, NEW m,
         m = Lane(l.inflight, l.pending, Append(l.wait, Asked(k, who)), l.later)
  PROVE  /\ LaneType(m) /\ Running(m) = Running(l) /\ Carries(l, m) /\ Due(m, k)
         /\ Len(m.wait) = Len(l.wait) + 1
<1> DEFINE f == l.inflight
           p == l.pending
           w == l.wait
           t == l.later
           v == Append(w, Asked(k, who))
<1>1. /\ AreFlights(f) /\ ArePending(p) /\ DOMAIN f = Running(l)
      /\ w \in Seq(Entries) /\ t \in SUBSET Entries /\ Len(w) \in Nat
  BY DEF LaneType, Running
<1>2. m = Lane(f, p, v, t)
  OBVIOUS
<1>3. Asked(k, who) \in Entries /\ Asked(k, who).key = k
  BY EntriesAre
<1> HIDE DEF f, p, w, t
<1>4. /\ v \in Seq(Entries) /\ Len(v) = Len(w) + 1 /\ Len(w) <= Len(v)
      /\ v[Len(v)] = Asked(k, who) /\ Len(v) \in DOMAIN v
      /\ \A j \in DOMAIN w : v[j] = w[j]
  BY <1>1, <1>3
<1> HIDE DEF v
<1>5. /\ LaneType(m) /\ Running(m) = Running(l) /\ DOMAIN m.pending = DOMAIN p
      /\ m.inflight = f /\ m.wait = v /\ m.later = t
  BY <1>1, <1>2, <1>4, LaneMade
<1>6. Carries(l, m)
  BY <1>4, <1>5 DEF Carries, f, p, w, t
<1>7. Due(m, k)
  BY <1>3, <1>4, <1>5 DEF Due
<1> QED BY <1>4, <1>5, <1>6, <1>7 DEF w

LEMMA TakenUpTakes ==
  ASSUME NEW l, LaneType(l), IsFiniteSet(Running(l)), NEW e \in Entries
  PROVE  TakesUp(l, e.key, TakenUp(l, e))
<1>1. PICK m : m = TakenUp(l, e)
  OBVIOUS
<1>2. e.key \in ReadKeys /\ e.askers \in SUBSET Askers /\ e = Asked(e.key, e.askers)
  BY EntriesHave
<1>3. Len(l.wait) \in Nat /\ Whole(l)
  BY DEF LaneType
<1>4. CASE Cardinality(Running(l)) >= ReadMax
  <2>1. m = [l EXCEPT !.wait = Append(l.wait, e)]
    BY <1>1, <1>4 DEF TakenUp
  <2>2. m = Lane(l.inflight, l.pending, Append(l.wait, e), l.later)
    BY <1>3, <2>1, LaneEdits
  <2>3. m = Lane(l.inflight, l.pending, Append(l.wait, Asked(e.key, e.askers)), l.later)
    BY <1>2, <2>2
  <2>4. /\ LaneType(m) /\ Running(m) = Running(l) /\ Carries(l, m) /\ Due(m, e.key)
        /\ Len(m.wait) = Len(l.wait) + 1
    BY <1>2, <2>3, WaitsType
  <2>5. TakesUp(l, e.key, m)
    BY <2>4 DEF TakesUp
  <2> QED BY <1>1, <2>5
<1>5. CASE ~(Cardinality(Running(l)) >= ReadMax) /\ e.key \in Running(l)
  <2>1. m = RequestRead(l, e.key, e.askers)
    BY <1>1, <1>5 DEF TakenUp
  <2>2. Takes(l, e.key, m)
    BY <1>2, <2>1, RequestCarries
  <2>3. TakesUp(l, e.key, m)
    BY <2>2 DEF Takes, TakesUp
  <2> QED BY <1>1, <2>3
<1>6. CASE ~(Cardinality(Running(l)) >= ReadMax) /\ e.key \notin Running(l)
  <2>1. m = StartRead(l, e.key, e.askers)
    BY <1>1, <1>6 DEF TakenUp
  <2>2. /\ Starts(l, e.key, e.askers, m) /\ LaneType(m) /\ Running(m) = Running(l) \cup {e.key}
        /\ m.inflight[e.key].saw = Unseen
        /\ \A x \in Running(l) : m.inflight[x] = l.inflight[x]
    BY <1>2, <1>6, <2>1, StartReadType
  <2>3. m.pending = l.pending /\ m.wait = l.wait /\ m.later = l.later
    BY <2>2, LaneParts DEF Starts
  <2>4. Carries(l, m)
    BY <1>3, <2>2, <2>3 DEF Carries
  <2>5. Due(m, e.key)
    BY <2>2 DEF Due
  <2>6. Cardinality(Running(l)) < ReadMax
    <3>1. Cardinality(Running(l)) \in Nat /\ ReadMax \in Nat
      BY FS_CardinalityType, RequestsAssumption
    <3> QED BY <1>6, <3>1
  <2>7. TakesUp(l, e.key, m)
    BY <2>2, <2>3, <2>4, <2>5, <2>6 DEF TakesUp
  <2> QED BY <1>1, <2>7
<1> QED BY <1>4, <1>5, <1>6

-----------------------------------------------------------------------------
(* The lane as those that wait are taken up, one after another. *)
Emptied(l) == Lane(l.inflight, l.pending, <<>>, l.later)

LEMMA DrainedIs ==
  ASSUME NEW l, LaneType(l)
  PROVE  \E g : /\ g[0] = Emptied(l)
                /\ \A n \in 1..Len(l.wait) : g[n] = TakenUp(g[n - 1], l.wait[n])
                /\ Drained(l) = g[Len(l.wait)]
<1> DEFINE last == Len(l.wait)
           first == [l EXCEPT !.wait = <<>>]
           Up(g, n) == TakenUp(g[n - 1], l.wait[n])
           Grown(g, k) == g = [n \in 0..k |-> IF n = 0 THEN first ELSE Up(g, n)]
           none == {k \in Nat : ~\E g : Grown(g, k)}
           after == CHOOSE g : Grown(g, last)
<1>1. last \in Nat /\ first = Emptied(l)
  <2>1. Whole(l) /\ last \in Nat
    BY DEF LaneType
  <2>2. first = Lane(l.inflight, l.pending, <<>>, l.later)
    BY <2>1, LaneEdits
  <2> QED BY <2>1, <2>2 DEF Emptied
<1>2. \A k \in Nat : \E g : Grown(g, k)
  <2>1. SUFFICES ASSUME none # {} PROVE FALSE
    OBVIOUS
  <2>2. PICK k \in none : \A y \in none : k <= y
    <3>1. none \in SUBSET Nat
      OBVIOUS
    <3> QED BY <2>1, <3>1, LeastIs
  <2>3. CASE k = 0
    <3> DEFINE g == [n \in 0..0 |-> first]
    <3>1. g = [n \in 0..0 |-> IF n = 0 THEN first ELSE Up(g, n)]
      <4> HIDE DEF Up, first
      <4> QED OBVIOUS
    <3>2. Grown(g, 0)
      BY <3>1
    <3> QED BY <2>2, <2>3, <3>2
  <2>4. CASE k # 0
    <3>1. k - 1 \in Nat /\ k - 1 \notin none
      <4>1. k \in Nat
        BY <2>2
      <4>2. k - 1 \in Nat /\ ~(k <= k - 1)
        BY <2>4, <4>1
      <4> HIDE DEF none
      <4> QED BY <2>2, <4>2
    <3>2. PICK g : Grown(g, k - 1)
      BY <3>1
    <3> DEFINE h == [n \in 0..k |-> IF n = k THEN TakenUp(g[k - 1], l.wait[k]) ELSE g[n]]
    <3> HIDE DEF first
    <3>3. h = [n \in 0..k |-> IF n = 0 THEN first ELSE TakenUp(h[n - 1], l.wait[n])]
      <4>1. \A n \in 0..k : n # 0 => n - 1 \in 0..k /\ n - 1 # k
        BY <2>2
      <4>2. \A n \in 0..(k - 1) :
              n \in 0..k /\ n # k /\ g[n] = IF n = 0 THEN first ELSE TakenUp(g[n - 1], l.wait[n])
        <5>1. \A n \in 0..(k - 1) : g[n] = IF n = 0 THEN first ELSE TakenUp(g[n - 1], l.wait[n])
          BY <3>2
        <5>2. k \in Nat
          BY <2>2
        <5>3. \A n \in 0..(k - 1) : n \in 0..k /\ n # k
          BY <5>2
        <5> QED BY <5>1, <5>3
      <4>3. \A n \in 0..k : n = k \/ n \in 0..(k - 1)
        BY <2>2
      <4>4. ASSUME NEW n \in 0..k PROVE h[n] = IF n = 0 THEN first ELSE TakenUp(h[n - 1], l.wait[n])
        <5>1. CASE n = k
          BY <2>4, <4>1, <5>1
        <5>2. CASE n # k
          BY <4>1, <4>2, <4>3, <5>2
        <5> QED BY <5>1, <5>2
      <4>5. h = [n \in 0..k |-> h[n]]
        OBVIOUS
      <4> HIDE DEF h
      <4> QED BY <4>4, <4>5
    <3>4. Grown(h, k)
      BY <3>3
    <3> QED BY <2>2, <3>4
  <2> QED BY <2>3, <2>4
<1>3. Grown(after, last)
  <2> HIDE DEF Grown, last
  <2> QED BY <1>1, <1>2
<1>4. Drained(l) = after[last]
  BY DEF Drained
<1> HIDE DEF after, first
<1>5. after = [n \in 0..last |-> IF n = 0 THEN first ELSE TakenUp(after[n - 1], l.wait[n])]
  BY <1>3
<1>6. after[0] = first
  BY <1>1, <1>5
<1>7. \A n \in 1..last : after[n] = TakenUp(after[n - 1], l.wait[n])
  BY <1>1, <1>5
<1> QED BY <1>1, <1>4, <1>6, <1>7

Drains(l, n, b, m) ==
  /\ LaneType(m) /\ Few(m, b) /\ Carries(Emptied(l), m)
  /\ Len(m.wait) <= n
  /\ \A i \in 1..n : Due(m, l.wait[i].key)

LEMMA DrainsOn ==
  ASSUME NEW l, LaneType(l), NEW b \in Nat, ReadMax <= b, NEW n \in Nat, n < Len(l.wait), NEW m, Drains(l, n, b, m)
  PROVE  Drains(l, n + 1, b, TakenUp(m, l.wait[n + 1]))
<1> DEFINE e == l.wait[n + 1]
<1>1. PICK u : u = TakenUp(m, e)
  OBVIOUS
<1>2. n + 1 \in DOMAIN l.wait /\ e \in Entries /\ LaneType(Emptied(l))
  <2>1. n + 1 \in DOMAIN l.wait /\ e \in Entries /\ <<>> \in Seq(Entries)
    BY DEF LaneType
  <2>2. LaneType(Emptied(l))
    BY <2>1, LaneMade DEF LaneType, Emptied
  <2> QED BY <2>1, <2>2
<1> HIDE DEF e
<1>3. TakesUp(m, e.key, u) /\ LaneType(m)
  BY <1>1, <1>2, TakenUpTakes DEF Drains, Few
<1>4. Carries(Emptied(l), u) /\ LaneType(u)
  <2>1. LaneType(u) /\ Carries(m, u) /\ Carries(Emptied(l), m)
    BY <1>3 DEF TakesUp, Drains
  <2> QED BY <1>2, <1>3, <2>1, CarriesOn
<1>5. Few(u, b)
  BY <1>3, FewOn DEF TakesUp, Drains
<1>6. Len(u.wait) <= n + 1
  <2>1. Len(m.wait) \in Nat /\ Len(u.wait) \in Nat /\ Len(m.wait) <= n
    BY <1>3, <1>4 DEF LaneType, Drains
  <2> QED BY <1>3, <2>1 DEF TakesUp
<1>7. ASSUME NEW i \in 1..(n + 1) PROVE Due(u, l.wait[i].key)
  <2>1. CASE i = n + 1
    BY <1>3, <2>1 DEF TakesUp, e
  <2>2. CASE i # n + 1
    <3>1. i \in 1..n
      BY <2>2
    <3>2. Due(m, l.wait[i].key)
      BY <3>1 DEF Drains
    <3> QED BY <1>3, <3>2, DueOn DEF TakesUp
  <2> QED BY <2>1, <2>2
<1>8. Drains(l, n + 1, b, u)
  BY <1>4, <1>5, <1>6, <1>7 DEF Drains
<1> QED BY <1>1, <1>8 DEF e

-----------------------------------------------------------------------------
(* Where the callback of an asker can be: with a read that runs, with one that is to run again,
   with one that waits, with one refused or superseded. *)
Reading(f, a)   == {<<"read", k>> : k \in {k \in DOMAIN f : a \in f[k].askers}}
Again(p, a)     == {<<"pending", k>> : k \in {k \in DOMAIN p : a \in p[k]}}
Queued(w, a)    == {<<"wait", i>> : i \in {i \in DOMAIN w : a \in w[i].askers}}
Dismissed(t, a) == {<<"later", told>> : told \in {told \in t : a \in told.askers}}
LanePlaces(l, a) ==
  Reading(l.inflight, a) \cup Again(l.pending, a) \cup Queued(l.wait, a) \cup Dismissed(l.later, a)

LEMMA PlacesApart ==
  ASSUME NEW f, NEW p, NEW w, NEW t, NEW a, NEW x
  PROVE  /\ <<"pending", x>> \notin Reading(f, a) \cup Queued(w, a) \cup Dismissed(t, a)
         /\ <<"wait", x>> \notin Reading(f, a) \cup Again(p, a) \cup Dismissed(t, a)
         /\ <<"read", x>> \notin Again(p, a) \cup Queued(w, a) \cup Dismissed(t, a)
         /\ <<"later", x>> \notin Reading(f, a) \cup Again(p, a) \cup Queued(w, a)
BY DEF Reading, Again, Queued, Dismissed

(* One place at most. *)
Single(S) == \A x, y \in S : x = y
Here(place, a, who) == IF a \in who THEN {place} ELSE {}

(* Asking for a with the callbacks who, none of which was held, keeps every one in one place. *)
Gains(S, T, a, who) ==
  Single(S) /\ (a \in who => S = {}) => Single(T) /\ (T # {} <=> S # {} \/ a \in who)

LEMMA Arrives ==
  ASSUME NEW S, NEW place, NEW a, NEW who, NEW T, T = S \cup Here(place, a, who)
  PROVE  Gains(S, T, a, who)
BY DEF Gains, Single, Here

LEMMA Moves ==
  ASSUME NEW S, NEW here, NEW there, NEW a, NEW who, NEW old, NEW kept, NEW gone, NEW T,
         T = (S \ {here}) \cup Here(here, a, kept) \cup Here(there, a, gone),
         here \in S <=> a \in old,
         a \in kept \/ a \in gone <=> a \in old \/ a \in who,
         a \in kept /\ a \in gone => a \in old /\ a \in who
  PROVE  Gains(S, T, a, who)
<1>1. SUFFICES ASSUME Single(S), a \in who => S = {} PROVE Single(T) /\ (T # {} <=> S # {} \/ a \in who)
  BY DEF Gains
<1>2. CASE a \in old
  <2>1. S = {here} /\ a \notin who
    BY <1>1, <1>2 DEF Single
  <2>2. S \ {here} = {}
    BY <2>1
  <2>3. T = Here(here, a, kept) \cup Here(there, a, gone)
    BY <2>2
  <2> QED BY <1>2, <2>1, <2>3 DEF Single, Here
<1>3. CASE a \notin old
  <2>1. S \ {here} = S
    BY <1>3
  <2>2. CASE a \in who
    BY <1>1, <1>3, <2>1, <2>2 DEF Single, Here
  <2>3. CASE a \notin who
    BY <1>1, <1>3, <2>1, <2>3 DEF Single, Here
  <2> QED BY <2>2, <2>3
<1> QED BY <1>2, <1>3

LEMMA ReadingStarts ==
  ASSUME NEW f, NEW k, k \notin DOMAIN f, NEW who, NEW a
  PROVE  Reading(With(f, k, Started(who)), a) = Reading(f, a) \cup Here(<<"read", k>>, a, who)
<1> DEFINE g == With(f, k, Started(who))
<1>1. DOMAIN g = DOMAIN f \cup {k} /\ g[k].askers = who /\ \A x \in DOMAIN f : g[x] = f[x]
  BY DEF With, Started
<1> HIDE DEF g
<1>2. ASSUME a \in who PROVE Reading(g, a) = Reading(f, a) \cup {<<"read", k>>}
  BY <1>1, <1>2 DEF Reading
<1>3. ASSUME a \notin who PROVE Reading(g, a) = Reading(f, a)
  BY <1>1, <1>3 DEF Reading
<1> QED BY <1>2, <1>3 DEF Here, g

LEMMA ReadingEnds ==
  ASSUME NEW f, NEW k, NEW a
  PROVE  Reading(Without(f, k), a) = Reading(f, a) \ {<<"read", k>>}
<1>1. DOMAIN Without(f, k) = DOMAIN f \ {k} /\ \A x \in DOMAIN f \ {k} : Without(f, k)[x] = f[x]
  BY DEF Without, Restrict
<1> QED BY <1>1 DEF Reading

LEMMA AgainNew ==
  ASSUME NEW p, NEW k, k \notin DOMAIN p, NEW who, NEW a
  PROVE  Again(With(p, k, who), a) = Again(p, a) \cup Here(<<"pending", k>>, a, who)
<1> DEFINE q == With(p, k, who)
<1>1. DOMAIN q = DOMAIN p \cup {k} /\ q[k] = who /\ \A x \in DOMAIN p : q[x] = p[x]
  BY DEF With
<1> HIDE DEF q
<1>2. ASSUME a \in who PROVE Again(q, a) = Again(p, a) \cup {<<"pending", k>>}
  BY <1>1, <1>2 DEF Again
<1>3. ASSUME a \notin who PROVE Again(q, a) = Again(p, a)
  BY <1>1, <1>3 DEF Again
<1> QED BY <1>2, <1>3 DEF Here, q

LEMMA AgainMerged ==
  ASSUME NEW p, NEW k \in DOMAIN p, NEW who, NEW a, ArePending(p)
  PROVE  /\ Again([p EXCEPT ![k] = who], a) = (Again(p, a) \ {<<"pending", k>>}) \cup Here(<<"pending", k>>, a, who)
         /\ <<"pending", k>> \in Again(p, a) <=> a \in p[k]
<1> DEFINE q == [p EXCEPT ![k] = who]
<1>1. DOMAIN q = DOMAIN p /\ q[k] = who /\ \A x \in DOMAIN p : x # k => q[x] = p[x]
  BY DEF ArePending
<1> HIDE DEF q
<1>2. ASSUME a \in who PROVE Again(q, a) = (Again(p, a) \ {<<"pending", k>>}) \cup {<<"pending", k>>}
  BY <1>1, <1>2 DEF Again
<1>3. ASSUME a \notin who PROVE Again(q, a) = Again(p, a) \ {<<"pending", k>>}
  BY <1>1, <1>3 DEF Again
<1>4. <<"pending", k>> \in Again(p, a) <=> a \in p[k]
  BY DEF Again
<1> QED BY <1>2, <1>3, <1>4 DEF Here, q

LEMMA AgainEnds ==
  ASSUME NEW p, NEW k, NEW a
  PROVE  Again(Without(p, k), a) = Again(p, a) \ {<<"pending", k>>}
<1>1. DOMAIN Without(p, k) = DOMAIN p \ {k} /\ \A x \in DOMAIN p \ {k} : Without(p, k)[x] = p[x]
  BY DEF Without, Restrict
<1> QED BY <1>1 DEF Again

LEMMA QueuedAtEnd ==
  ASSUME NEW w \in Seq(Entries), NEW k \in ReadKeys, NEW who \in SUBSET Askers, NEW a
  PROVE  Queued(Append(w, Asked(k, who)), a) = Queued(w, a) \cup Here(<<"wait", Len(w) + 1>>, a, who)
<1> DEFINE v == Append(w, Asked(k, who))
           n == Len(w) + 1
<1>1. Asked(k, who) \in Entries /\ Asked(k, who).askers = who
  BY EntriesAre
<1>2. v[n].askers = who /\ DOMAIN v = DOMAIN w \cup {n} /\ \A i \in DOMAIN w : v[i] = w[i]
  BY <1>1
<1> HIDE DEF v, n
<1>3. ASSUME a \in who PROVE Queued(v, a) = Queued(w, a) \cup {<<"wait", n>>}
  BY <1>2, <1>3 DEF Queued
<1>4. ASSUME a \notin who PROVE Queued(v, a) = Queued(w, a)
  BY <1>2, <1>4 DEF Queued
<1> QED BY <1>3, <1>4 DEF Here, v, n

AskersAt(w, i, who) == [w EXCEPT ![i].askers = who]

LEMMA QueuedMerged ==
  ASSUME NEW w \in Seq(Entries), NEW i \in DOMAIN w, NEW who, NEW a,
         NEW v, v = AskersAt(w, i, who)
  PROVE  /\ Queued(v, a) = (Queued(w, a) \ {<<"wait", i>>}) \cup Here(<<"wait", i>>, a, who)
         /\ <<"wait", i>> \in Queued(w, a) <=> a \in w[i].askers
<1> DEFINE e == [w[i] EXCEPT !.askers = who]
<1>1. w[i] \in Entries
  OBVIOUS
<1>2. e.askers = who
  BY <1>1 DEF Entries
<1>3. v = [w EXCEPT ![i] = e]
  BY DEF AskersAt
<1> HIDE DEF e
<1>4. DOMAIN v = DOMAIN w /\ v[i] = e /\ \A j \in DOMAIN w : j # i => v[j] = w[j]
  BY <1>3
<1>5. ASSUME a \in who PROVE Queued(v, a) = (Queued(w, a) \ {<<"wait", i>>}) \cup {<<"wait", i>>}
  BY <1>2, <1>4, <1>5 DEF Queued
<1>6. ASSUME a \notin who PROVE Queued(v, a) = Queued(w, a) \ {<<"wait", i>>}
  BY <1>2, <1>4, <1>6 DEF Queued
<1>7. <<"wait", i>> \in Queued(w, a) <=> a \in w[i].askers
  BY DEF Queued
<1> QED BY <1>5, <1>6, <1>7 DEF Here, e

LEMMA DismissedMore ==
  ASSUME NEW t, NEW k, NEW who, NEW a
  PROVE  Dismissed(t \cup {Asked(k, who)}, a) = Dismissed(t, a) \cup Here(<<"later", Asked(k, who)>>, a, who)
<1>1. Asked(k, who).askers = who
  BY DEF Asked
<1>2. ASSUME a \in who
      PROVE  Dismissed(t \cup {Asked(k, who)}, a) = Dismissed(t, a) \cup {<<"later", Asked(k, who)>>}
  BY <1>1, <1>2 DEF Dismissed
<1>3. ASSUME a \notin who PROVE Dismissed(t \cup {Asked(k, who)}, a) = Dismissed(t, a)
  BY <1>1, <1>3 DEF Dismissed
<1> QED BY <1>2, <1>3 DEF Here

LEMMA DismissedLess ==
  ASSUME NEW t, NEW told, NEW a
  PROVE  Dismissed(t \ {told}, a) = Dismissed(t, a) \ {<<"later", told>>}
BY DEF Dismissed

Replaced(k, old) == IF k \in LatestKeys THEN old ELSE {}

LEMMA SupersededGoes ==
  ASSUME NEW t, NEW k, NEW old, NEW a
  PROVE  Dismissed(t \cup Superseded(k, old), a)
           = Dismissed(t, a) \cup Here(<<"later", Asked(k, old)>>, a, Replaced(k, old))
<1>1. CASE k \in LatestKeys
  BY <1>1, DismissedMore DEF Superseded, Replaced
<1>2. CASE k \notin LatestKeys
  BY <1>2 DEF Superseded, Replaced, Here
<1> QED BY <1>1, <1>2

LEMMA MergedHolds ==
  ASSUME NEW k, NEW old, NEW who, NEW a
  PROVE  LET kept == MergedAskers(k, old, who)
             gone == Replaced(k, old) IN
         /\ a \in kept \/ a \in gone <=> a \in old \/ a \in who
         /\ a \in kept /\ a \in gone => a \in old /\ a \in who
BY DEF MergedAskers, Replaced

LEMMA StartsGains ==
  ASSUME NEW l, LaneType(l), NEW k \in ReadKeys, NEW who \in SUBSET Askers, NEW m, Starts(l, k, who, m), NEW a
  PROVE  Gains(LanePlaces(l, a), LanePlaces(m, a), a, who)
<1>1. /\ m.inflight = With(l.inflight, k, Started(who)) /\ m.pending = l.pending /\ m.wait = l.wait /\ m.later = l.later
      /\ k \notin DOMAIN l.inflight
  BY LaneParts DEF Starts, Running
<1>2. Reading(m.inflight, a) = Reading(l.inflight, a) \cup Here(<<"read", k>>, a, who)
  BY <1>1, ReadingStarts
<1>3. LanePlaces(m, a) = LanePlaces(l, a) \cup Here(<<"read", k>>, a, who)
  BY <1>1, <1>2 DEF LanePlaces
<1> QED BY <1>3, Arrives

LEMMA WaitsGains ==
  ASSUME NEW l, LaneType(l), NEW k \in ReadKeys, NEW who \in SUBSET Askers, NEW m,
         m = Lane(l.inflight, l.pending, Append(l.wait, Asked(k, who)), l.later), NEW a
  PROVE  Gains(LanePlaces(l, a), LanePlaces(m, a), a, who)
<1>1. PICK w : w = Append(l.wait, Asked(k, who))
  OBVIOUS
<1>2. m.inflight = l.inflight /\ m.pending = l.pending /\ m.wait = w /\ m.later = l.later
  <2>1. m = Lane(l.inflight, l.pending, w, l.later)
    BY <1>1
  <2> QED BY <2>1 DEF Lane
<1>3. Queued(m.wait, a) = Queued(l.wait, a) \cup Here(<<"wait", Len(l.wait) + 1>>, a, who)
  <2>1. l.wait \in Seq(Entries)
    BY DEF LaneType
  <2>2. Queued(w, a) = Queued(l.wait, a) \cup Here(<<"wait", Len(l.wait) + 1>>, a, who)
    BY <1>1, <2>1, QueuedAtEnd
  <2> QED BY <1>2, <2>2
<1>4. LanePlaces(m, a) = LanePlaces(l, a) \cup Here(<<"wait", Len(l.wait) + 1>>, a, who)
  BY <1>2, <1>3 DEF LanePlaces
<1> QED BY <1>4, Arrives

LEMMA RequestGains ==
  ASSUME NEW l, LaneType(l), NEW k \in ReadKeys, NEW who \in SUBSET Askers, NEW a
  PROVE  Gains(LanePlaces(l, a), LanePlaces(RequestRead(l, k, who), a), a, who)
<1>1. PICK m : m = RequestRead(l, k, who)
  OBVIOUS
<1> DEFINE S == LanePlaces(l, a)
           T == LanePlaces(m, a)
           R == Reading(l.inflight, a)
           A == Again(l.pending, a)
           Q == Queued(l.wait, a)
           D == Dismissed(l.later, a)
<1>2. Whole(l) /\ l.wait \in Seq(Entries) /\ ArePending(l.pending) /\ S = R \cup A \cup Q \cup D
  BY DEF LaneType, LanePlaces
<1>3. ASSUME Starts(l, k, who, m) PROVE Gains(S, T, a, who)
  BY <1>3, StartsGains
<1>4. ASSUME RunsAgain(l, k, who, m) PROVE Gains(S, T, a, who)
  <2>1. /\ m.inflight = l.inflight /\ m.pending = With(l.pending, k, who) /\ m.wait = l.wait /\ m.later = l.later
        /\ k \notin DOMAIN l.pending
    BY <1>4, LaneParts DEF RunsAgain
  <2>2. Again(m.pending, a) = A \cup Here(<<"pending", k>>, a, who)
    BY <2>1, AgainNew
  <2>3. T = S \cup Here(<<"pending", k>>, a, who)
    BY <2>1, <2>2 DEF LanePlaces
  <2> QED BY <2>3, Arrives
<1>5. ASSUME JoinsAgain(l, k, who, m) PROVE Gains(S, T, a, who)
  <2> DEFINE old == l.pending[k]
             kept == MergedAskers(k, old, who)
             gone == Replaced(k, old)
             here == <<"pending", k>>
             there == <<"later", Asked(k, old)>>
  <2>1. /\ m.inflight = l.inflight /\ m.pending = [l.pending EXCEPT ![k] = kept] /\ m.wait = l.wait
        /\ m.later = l.later \cup Superseded(k, old) /\ k \in DOMAIN l.pending
    BY <1>5, LaneParts DEF JoinsAgain
  <2> HIDE DEF old
  <2>2. Dismissed(m.later, a) = D \cup Here(there, a, gone)
    BY <2>1, SupersededGoes
  <2>3. a \in kept \/ a \in gone <=> a \in old \/ a \in who
    BY MergedHolds
  <2>4. a \in kept /\ a \in gone => a \in old /\ a \in who
    BY MergedHolds
  <2> HIDE DEF kept, gone
  <2>5. Again(m.pending, a) = (A \ {here}) \cup Here(here, a, kept)
    BY <1>2, <2>1, AgainMerged
  <2>6. here \in A <=> a \in old
    BY <1>2, <2>1, AgainMerged DEF old
  <2>7. here \notin R \cup Q \cup D
    BY PlacesApart
  <2> HIDE DEF here, there
  <2>8. Reading(m.inflight, a) = R /\ Queued(m.wait, a) = Q
    BY <2>1
  <2>9. T = Reading(m.inflight, a) \cup Again(m.pending, a) \cup Queued(m.wait, a) \cup Dismissed(m.later, a)
    BY DEF LanePlaces
  <2> HIDE DEF S, T, R, A, Q, D
  <2>10. T = (S \ {here}) \cup Here(here, a, kept) \cup Here(there, a, gone)
    BY <1>2, <2>2, <2>5, <2>7, <2>8, <2>9
  <2>11. here \in S <=> a \in old
    BY <1>2, <2>6, <2>7
  <2> QED BY <2>3, <2>4, <2>10, <2>11, Moves
<1>6. ASSUME JoinsWaiting(l, k, who, m) PROVE Gains(S, T, a, who)
  <2>1. PICK i \in DOMAIN l.wait :
          /\ l.wait[i].key = k
          /\ m = Lane(l.inflight, l.pending, [l.wait EXCEPT ![i].askers = MergedAskers(k, l.wait[i].askers, who)],
                      l.later \cup Superseded(k, l.wait[i].askers))
    BY <1>6 DEF JoinsWaiting
  <2> DEFINE old == l.wait[i].askers
             kept == MergedAskers(k, old, who)
             gone == Replaced(k, old)
             here == <<"wait", i>>
             there == <<"later", Asked(k, old)>>
  <2>2. /\ m.inflight = l.inflight /\ m.pending = l.pending /\ m.wait = [l.wait EXCEPT ![i].askers = kept]
        /\ m.later = l.later \cup Superseded(k, old)
    BY <2>1, LaneParts
  <2> HIDE DEF old
  <2>3. Dismissed(m.later, a) = D \cup Here(there, a, gone)
    BY <2>2, SupersededGoes
  <2>4. a \in kept \/ a \in gone <=> a \in old \/ a \in who
    BY MergedHolds
  <2>5. a \in kept /\ a \in gone => a \in old /\ a \in who
    BY MergedHolds
  <2> HIDE DEF kept, gone
  <2>6. Queued(m.wait, a) = (Q \ {here}) \cup Here(here, a, kept)
    <3>1. PICK v : v = AskersAt(l.wait, i, kept)
      OBVIOUS
    <3>2. Queued(v, a) = (Q \ {here}) \cup Here(here, a, kept)
      BY <1>2, <3>1, QueuedMerged
    <3> QED BY <2>2, <3>1, <3>2 DEF AskersAt
  <2>7. here \in Q <=> a \in old
    BY <1>2, QueuedMerged DEF old
  <2>8. here \notin R \cup A \cup D
    BY PlacesApart
  <2> HIDE DEF here, there
  <2>9. Reading(m.inflight, a) = R /\ Again(m.pending, a) = A
    BY <2>2
  <2>10. T = Reading(m.inflight, a) \cup Again(m.pending, a) \cup Queued(m.wait, a) \cup Dismissed(m.later, a)
    BY DEF LanePlaces
  <2> HIDE DEF S, T, R, A, Q, D
  <2>11. T = (S \ {here}) \cup Here(here, a, kept) \cup Here(there, a, gone)
    BY <1>2, <2>3, <2>6, <2>8, <2>9, <2>10
  <2>12. here \in S <=> a \in old
    BY <1>2, <2>7, <2>8
  <2> QED BY <2>4, <2>5, <2>11, <2>12, Moves
<1>7. ASSUME Waits(l, k, who, m) PROVE Gains(S, T, a, who)
  BY <1>7, WaitsGains DEF Waits
<1>8. ASSUME Dismisses(l, k, who, m) PROVE Gains(S, T, a, who)
  <2>1. /\ m.inflight = l.inflight /\ m.pending = l.pending /\ m.wait = l.wait
        /\ m.later = l.later \cup {Asked(k, who)}
    BY <1>8, LaneParts DEF Dismisses
  <2>2. Dismissed(m.later, a) = D \cup Here(<<"later", Asked(k, who)>>, a, who)
    BY <2>1, DismissedMore
  <2>3. T = S \cup Here(<<"later", Asked(k, who)>>, a, who)
    BY <2>1, <2>2 DEF LanePlaces
  <2> QED BY <2>3, Arrives
<1>9. Gains(S, T, a, who)
  BY <1>1, <1>2, <1>3, <1>4, <1>5, <1>6, <1>7, <1>8, RequestReadIs
<1> QED BY <1>1, <1>9

LEMMA TakenUpGains ==
  ASSUME NEW l, LaneType(l), NEW e \in Entries, NEW a
  PROVE  Gains(LanePlaces(l, a), LanePlaces(TakenUp(l, e), a), a, e.askers)
<1>1. PICK m : m = TakenUp(l, e)
  OBVIOUS
<1>2. e.key \in ReadKeys /\ e.askers \in SUBSET Askers /\ e = Asked(e.key, e.askers)
  BY EntriesHave
<1>3. Whole(l)
  BY DEF LaneType
<1>4. CASE Cardinality(Running(l)) >= ReadMax
  <2>1. m = [l EXCEPT !.wait = Append(l.wait, e)]
    BY <1>1, <1>4 DEF TakenUp
  <2>2. m = Lane(l.inflight, l.pending, Append(l.wait, e), l.later)
    BY <1>3, <2>1, LaneEdits
  <2>3. m = Lane(l.inflight, l.pending, Append(l.wait, Asked(e.key, e.askers)), l.later)
    BY <1>2, <2>2
  <2> QED BY <1>1, <1>2, <2>3, WaitsGains
<1>5. CASE ~(Cardinality(Running(l)) >= ReadMax) /\ e.key \in Running(l)
  BY <1>2, <1>5, RequestGains DEF TakenUp
<1>6. CASE ~(Cardinality(Running(l)) >= ReadMax) /\ e.key \notin Running(l)
  <2>1. m = StartRead(l, e.key, e.askers)
    BY <1>1, <1>6 DEF TakenUp
  <2>2. Starts(l, e.key, e.askers, m)
    BY <1>2, <1>6, <2>1, StartReadType
  <2> QED BY <1>1, <1>2, <2>2, StartsGains
<1> QED BY <1>4, <1>5, <1>6

-----------------------------------------------------------------------------
(* While the lane is drained, a callback that has not been taken up yet is with nobody else. *)
Rest(l, n, a) == \E i \in (n + 1)..Len(l.wait) : a \in l.wait[i].askers
Filled(l, n, a, m) ==
  Single(LanePlaces(m, a)) /\ (LanePlaces(m, a) # {} <=> LanePlaces(l, a) # {} /\ ~Rest(l, n, a))

LEMMA EmptiedIs ==
  ASSUME NEW l, LaneType(l)
  PROVE  LET m == Emptied(l) IN
         /\ LaneType(m) /\ Running(m) = Running(l) /\ m.inflight = l.inflight /\ m.pending = l.pending
         /\ m.wait = <<>> /\ m.later = l.later
<1>1. <<>> \in Seq(Entries)
  OBVIOUS
<1>2. PICK w : w = <<>>
  OBVIOUS
<1>3. w \in Seq(Entries)
  BY <1>1, <1>2
<1>4. PICK m : m = Lane(l.inflight, l.pending, w, l.later)
  OBVIOUS
<1>5. AreFlights(l.inflight) /\ ArePending(l.pending) /\ l.later \in SUBSET Entries
  BY DEF LaneType
<1>6. /\ LaneType(m) /\ Running(m) = DOMAIN l.inflight /\ m.inflight = l.inflight /\ m.pending = l.pending
      /\ m.wait = w /\ m.later = l.later
  BY <1>3, <1>4, <1>5, LaneMade
<1> QED BY <1>2, <1>4, <1>6 DEF Emptied, Running

LEMMA FilledAtFirst ==
  ASSUME NEW l, LaneType(l), NEW a, Single(LanePlaces(l, a))
  PROVE  Filled(l, 0, a, Emptied(l))
<1> DEFINE S == LanePlaces(l, a)
           T == LanePlaces(Emptied(l), a)
           Q == Queued(l.wait, a)
           O == Reading(l.inflight, a) \cup Again(l.pending, a) \cup Dismissed(l.later, a)
<1>1. S = O \cup Q
  BY DEF LanePlaces
<1>2. Queued(<<>>, a) = {}
  BY DEF Queued
<1>3. T = O
  BY <1>2, EmptiedIs DEF LanePlaces
<1>4. \A x \in Q : x \notin O
  <2>1. ASSUME NEW x \in Q PROVE x \notin O
    <3>1. PICK i : x = <<"wait", i>>
      BY <2>1 DEF Queued
    <3> QED BY <3>1, PlacesApart
  <2> QED BY <2>1
<1>5. Q # {} <=> Rest(l, 0, a)
  <2>1. l.wait \in Seq(Entries)
    BY DEF LaneType
  <2>2. DOMAIN l.wait = (0 + 1)..Len(l.wait)
    BY <2>1
  <2> QED BY <2>2 DEF Queued, Rest
<1> HIDE DEF S, T, Q, O
<1>6. Single(S)
  BY DEF S
<1>7. CASE Rest(l, 0, a)
  <2>1. O = {}
    BY <1>1, <1>4, <1>5, <1>6, <1>7 DEF Single
  <2> QED BY <1>3, <1>7, <2>1 DEF Filled, Single, T
<1>8. CASE ~Rest(l, 0, a)
  <2>1. T = S
    BY <1>1, <1>3, <1>5, <1>8
  <2> QED BY <1>6, <1>8, <2>1 DEF Filled, S, T
<1> QED BY <1>7, <1>8

LEMMA RestIs ==
  ASSUME NEW l, LaneType(l), NEW n \in Nat, n < Len(l.wait), NEW a, Single(LanePlaces(l, a))
  PROVE  /\ Rest(l, n, a) <=> Rest(l, n + 1, a) \/ a \in l.wait[n + 1].askers
         /\ ~(Rest(l, n + 1, a) /\ a \in l.wait[n + 1].askers)
         /\ a \in l.wait[n + 1].askers => LanePlaces(l, a) # {}
<1>1. l.wait \in Seq(Entries) /\ Len(l.wait) \in Nat /\ DOMAIN l.wait = 1..Len(l.wait)
  BY DEF LaneType
<1>2. (n + 1)..Len(l.wait) = {n + 1} \cup ((n + 1) + 1)..Len(l.wait)
  BY <1>1
<1>3. \A i \in DOMAIN l.wait : a \in l.wait[i].askers => <<"wait", i>> \in LanePlaces(l, a)
  BY DEF LanePlaces, Queued
<1>4. n + 1 \in DOMAIN l.wait /\ \A i \in ((n + 1) + 1)..Len(l.wait) : i \in DOMAIN l.wait /\ i # n + 1
  BY <1>1
<1>5. Rest(l, n, a) <=> Rest(l, n + 1, a) \/ a \in l.wait[n + 1].askers
  BY <1>2 DEF Rest
<1>6. ASSUME Rest(l, n + 1, a), a \in l.wait[n + 1].askers PROVE FALSE
  <2>1. PICK i \in ((n + 1) + 1)..Len(l.wait) : a \in l.wait[i].askers
    BY <1>6 DEF Rest
  <2>2. <<"wait", i>> = <<"wait", n + 1>>
    BY <1>3, <1>4, <1>6, <2>1 DEF Single
  <2> QED BY <1>4, <2>2
<1> QED BY <1>3, <1>4, <1>5, <1>6

LEMMA FilledOn ==
  ASSUME NEW l, LaneType(l), NEW n \in Nat, n < Len(l.wait), NEW a, Single(LanePlaces(l, a)),
         NEW m, LaneType(m), Filled(l, n, a, m)
  PROVE  Filled(l, n + 1, a, TakenUp(m, l.wait[n + 1]))
<1> DEFINE e == l.wait[n + 1]
           u == TakenUp(m, e)
           S == LanePlaces(m, a)
           T == LanePlaces(u, a)
           O == LanePlaces(l, a)
<1>1. e \in Entries
  BY DEF LaneType
<1>2. Gains(S, T, a, e.askers)
  BY <1>1, TakenUpGains
<1>3. Single(S) /\ (S # {} <=> O # {} /\ ~Rest(l, n, a))
  BY DEF Filled
<1>4. /\ Rest(l, n, a) <=> Rest(l, n + 1, a) \/ a \in e.askers
      /\ ~(Rest(l, n + 1, a) /\ a \in e.askers)
      /\ a \in e.askers => O # {}
  BY RestIs
<1> HIDE DEF e, u, S, T, O
<1>5. Single(T) /\ (T # {} <=> S # {} \/ a \in e.askers)
  BY <1>2, <1>3, <1>4 DEF Gains
<1>6. T # {} <=> O # {} /\ ~Rest(l, n + 1, a)
  BY <1>3, <1>4, <1>5
<1>7. Filled(l, n + 1, a, u)
  BY <1>5, <1>6 DEF Filled, T, O
<1> QED BY <1>7 DEF u, e

(* What draining the lane keeps. *)
Redistributes(l, b, m) ==
  /\ LaneType(m) /\ Few(m, b) /\ Carries(Emptied(l), m)
  /\ Len(m.wait) <= Len(l.wait)
  /\ \A i \in DOMAIN l.wait : Due(m, l.wait[i].key)
  /\ \A a : Single(LanePlaces(l, a)) =>
             Single(LanePlaces(m, a)) /\ (LanePlaces(m, a) # {} <=> LanePlaces(l, a) # {})

LEMMA DrainedKeeps ==
  ASSUME NEW l, LaneType(l), NEW b \in Nat, ReadMax <= b, Few(l, b)
  PROVE  Redistributes(l, b, Drained(l))
<1> DEFINE last == Len(l.wait)
           OK(n, m) == Drains(l, n, b, m) /\ \A a : Single(LanePlaces(l, a)) => Filled(l, n, a, m)
<1>1. PICK g : /\ g[0] = Emptied(l)
               /\ \A n \in 1..last : g[n] = TakenUp(g[n - 1], l.wait[n])
               /\ Drained(l) = g[last]
  BY DrainedIs
<1>2. last \in Nat /\ DOMAIN l.wait = 1..last
  BY DEF LaneType
<1>3. OK(0, Emptied(l))
  <2>1. LaneType(Emptied(l)) /\ Few(Emptied(l), b) /\ Emptied(l).wait = <<>>
    BY EmptiedIs DEF Few
  <2>2. Carries(Emptied(l), Emptied(l))
    BY <2>1 DEF Carries
  <2>3. Drains(l, 0, b, Emptied(l))
    BY <2>1, <2>2 DEF Drains
  <2> QED BY <2>3, FilledAtFirst
<1>4. ASSUME NEW n \in Nat, n < last, NEW m, OK(n, m) PROVE OK(n + 1, TakenUp(m, l.wait[n + 1]))
  <2>1. Drains(l, n, b, m) /\ \A a : Single(LanePlaces(l, a)) => Filled(l, n, a, m)
    BY <1>4
  <2>2. LaneType(m)
    BY <2>1 DEF Drains
  <2>3. Drains(l, n + 1, b, TakenUp(m, l.wait[n + 1]))
    BY <1>4, <2>1, DrainsOn
  <2>4. ASSUME NEW a, Single(LanePlaces(l, a)) PROVE Filled(l, n + 1, a, TakenUp(m, l.wait[n + 1]))
    BY <1>4, <2>1, <2>2, <2>4, FilledOn
  <2> QED BY <2>3, <2>4
<1> HIDE DEF OK, last
<1>5. OK(last, g[last])
  <2> DEFINE bad == {n \in Nat : n <= last /\ ~OK(n, g[n])}
  <2>1. SUFFICES ASSUME bad # {} PROVE FALSE
    BY <1>2
  <2>2. PICK n \in bad : \A y \in bad : n <= y
    <3>1. bad \in SUBSET Nat
      OBVIOUS
    <3> QED BY <2>1, <3>1, LeastIs
  <2>3. n # 0
    BY <1>1, <1>3, <2>2
  <2>4. n - 1 \in Nat /\ n - 1 < last /\ n \in 1..last /\ (n - 1) + 1 = n /\ ~(n <= n - 1)
    BY <1>2, <2>2, <2>3
  <2>5. OK(n - 1, g[n - 1])
    <3>1. n - 1 \notin bad
      <4> HIDE DEF bad
      <4> QED BY <2>2, <2>4
    <3>2. n - 1 <= last
      BY <1>2, <2>4
    <3> QED BY <2>4, <3>1, <3>2
  <2>6. OK(n, TakenUp(g[n - 1], l.wait[n]))
    <3>1. OK((n - 1) + 1, TakenUp(g[n - 1], l.wait[(n - 1) + 1]))
      BY <1>4, <2>4, <2>5
    <3> QED BY <2>4, <3>1
  <2>7. OK(n, g[n])
    BY <1>1, <2>4, <2>6
  <2> QED BY <2>2, <2>7
<1>6. PICK m : m = Drained(l)
  OBVIOUS
<1>7. Drains(l, last, b, m) /\ \A a : Single(LanePlaces(l, a)) => Filled(l, last, a, m)
  BY <1>1, <1>5, <1>6 DEF OK
<1>8. \A a : ~Rest(l, last, a)
  BY <1>2 DEF Rest, last
<1>9. Redistributes(l, b, m)
  BY <1>2, <1>7, <1>8 DEF Drains, Filled, Redistributes, last
<1> QED BY <1>6, <1>9

-----------------------------------------------------------------------------
(* The invariants of the lane, for askers A, a store at version v and a panel that shows mir. *)
Records == [state : {"absent", "idle", "waiting", "answered"}, since : Nat, saw : Nat]

LaneOK(l) == LaneType(l) /\ Few(l, ReadMax + 1) /\ Len(l.wait) <= WaitMax

Readers(l, A) ==
  \A a \in Askers :
    Single(LanePlaces(l, a)) /\ (LanePlaces(l, a) # {} <=> A[a].state = "waiting" /\ Change[a] = "read")

(* What an asker is told was read since it asked, and so is what a read in flight will tell. *)
Fresh(l, A, v) ==
  /\ \A a \in Askers : /\ A[a].since <= v
                       /\ A[a].state # "answered" => A[a].saw = Unseen
                       /\ Change[a] = "read" /\ A[a].saw # Unseen => A[a].since <= A[a].saw
  /\ \A k \in Running(l) :
       l.inflight[k].saw # Unseen =>
         l.inflight[k].saw <= v /\ \A a \in l.inflight[k].askers : A[a].since <= l.inflight[k].saw

Knows(A, a) == Change[a] \in {"save-and-arm", "disarm", "reconcile"} /\ A[a].saw # Unseen

(* A list that read before the change is not the last one. *)
Covers(l, seen) ==
  "list" \in Running(l) /\ l.inflight["list"].saw # Unseen =>
    seen <= l.inflight["list"].saw \/ "list" \in DOMAIN l.pending
ShowsUp(l, mir, seen) ==
  \/ seen <= mir.shows \/ mir.failed \/ Due(l, "list")
  \/ "list" \in Running(l) /\ seen <= l.inflight["list"].saw

Shown(l, A, mir, v) ==
  \A a \in Askers : /\ A[a].saw <= v
                    /\ Knows(A, a) => Covers(l, A[a].saw) /\ ShowsUp(l, mir, A[a].saw)

(* A step of the lane that loses nothing and adds no asker. *)
LaneKeeps(l, m) ==
  /\ LaneOK(m) /\ Carries(l, m)
  /\ \A a : Single(LanePlaces(l, a)) =>
             Single(LanePlaces(m, a)) /\ (LanePlaces(m, a) # {} <=> LanePlaces(l, a) # {})

LEMMA MaxIs == ReadMax + 1 \in Nat /\ ReadMax <= ReadMax + 1 /\ ReadMax \in Nat /\ WaitMax \in Nat
BY RequestsAssumption

LEMMA RequestOK ==
  ASSUME NEW l, LaneOK(l), NEW k \in ReadKeys, NEW who \in SUBSET Askers
  PROVE  LaneOK(RequestRead(l, k, who)) /\ Carries(l, RequestRead(l, k, who))
<1>1. PICK m : m = RequestRead(l, k, who)
  OBVIOUS
<1>2. Takes(l, k, m)
  BY <1>1, RequestCarries DEF LaneOK
<1>3. Few(m, ReadMax + 1)
  BY <1>2, FewOn, MaxIs DEF Takes, LaneOK
<1>4. Len(m.wait) <= WaitMax
  <2>1. Len(l.wait) \in Nat /\ Len(l.wait) <= WaitMax
    BY DEF LaneOK, LaneType
  <2> QED BY <1>2, <2>1, MaxIs DEF Takes
<1>5. LaneOK(m) /\ Carries(l, m)
  BY <1>2, <1>3, <1>4 DEF Takes, LaneOK
<1> QED BY <1>1, <1>5

LEMMA RefreshKeeps ==
  ASSUME NEW l, LaneOK(l), NEW k \in ReadKeys
  PROVE  LaneKeeps(l, RequestRead(l, k, {}))
<1>1. PICK m : m = RequestRead(l, k, {})
  OBVIOUS
<1>2. LaneOK(m) /\ Carries(l, m)
  BY <1>1, RequestOK
<1>3. ASSUME NEW a PROVE Gains(LanePlaces(l, a), LanePlaces(m, a), a, {})
  BY <1>1, RequestGains DEF LaneOK
<1>4. LaneKeeps(l, m)
  BY <1>2, <1>3 DEF LaneKeeps, Gains
<1> QED BY <1>1, <1>4

LEMMA CoversOn ==
  ASSUME NEW l, NEW m, Carries(l, m), NEW seen, Covers(l, seen)
  PROVE  Covers(m, seen)
BY DEF Carries, Covers

LEMMA ShowsUpOn ==
  ASSUME NEW l, LaneType(l), NEW m, LaneType(m), Carries(l, m), NEW mir, NEW seen, ShowsUp(l, mir, seen)
  PROVE  ShowsUp(m, mir, seen)
<1>1. Due(l, "list") => Due(m, "list")
  BY DueOn
<1>2. "list" \in Running(l) => "list" \in Running(m) /\ m.inflight["list"] = l.inflight["list"]
  BY DEF Carries
<1> QED BY <1>1, <1>2 DEF ShowsUp

LEMMA FreshOn ==
  ASSUME NEW l, NEW m, Carries(l, m), NEW A, NEW v, Fresh(l, A, v)
  PROVE  Fresh(m, A, v)
BY DEF Carries, Fresh

LEMMA ShownOn ==
  ASSUME NEW l, LaneType(l), NEW m, LaneType(m), Carries(l, m), NEW A, NEW mir, NEW v, Shown(l, A, mir, v)
  PROVE  Shown(m, A, mir, v)
BY CoversOn, ShowsUpOn DEF Shown

LEMMA ReadersOn ==
  ASSUME NEW l, NEW m, LaneKeeps(l, m), NEW A, Readers(l, A)
  PROVE  Readers(m, A)
BY DEF LaneKeeps, Readers

(* A refresh will show all that is known when it is asked for. *)
LEMMA RefreshShows ==
  ASSUME NEW l, LaneOK(l), NEW mir, NEW seen
  PROVE  Covers(Refreshed(l), seen) /\ ShowsUp(Refreshed(l), mir, seen)
<1>1. PICK m : m = RequestRead(l, "list", {})
  OBVIOUS
<1>2. Takes(l, "list", m)
  BY <1>1, RequestCarries, RequestsAssumption DEF LaneOK
<1>3. Due(m, "list") /\ Carries(l, m) /\ ("list" \in Running(l) => "list" \in DOMAIN m.pending)
  BY <1>2 DEF Takes
<1>4. Covers(m, seen)
  BY <1>3 DEF Carries, Covers
<1>5. ShowsUp(m, mir, seen)
  BY <1>3 DEF ShowsUp
<1> QED BY <1>1, <1>4, <1>5 DEF Refreshed

(* Those a read or a refusal answers wait for a read, each nowhere else. *)
LEMMA FlightHolds ==
  ASSUME NEW l, NEW A, Readers(l, A), NEW k \in Running(l), NEW a \in l.inflight[k].askers, a \in Askers
  PROVE  LanePlaces(l, a) = {<<"read", k>>} /\ A[a].state = "waiting" /\ Change[a] = "read"
<1>1. <<"read", k>> \in LanePlaces(l, a)
  BY DEF LanePlaces, Reading, Running
<1> QED BY <1>1 DEF Readers, Single

LEMMA PendingHolds ==
  ASSUME NEW l, NEW A, Readers(l, A), NEW k \in DOMAIN l.pending, NEW a \in l.pending[k], a \in Askers
  PROVE  LanePlaces(l, a) = {<<"pending", k>>} /\ A[a].state = "waiting" /\ Change[a] = "read"
<1>1. <<"pending", k>> \in LanePlaces(l, a)
  BY DEF LanePlaces, Again
<1> QED BY <1>1 DEF Readers, Single

LEMMA LaterHolds ==
  ASSUME NEW l, NEW A, Readers(l, A), NEW told \in l.later, NEW a \in told.askers, a \in Askers
  PROVE  LanePlaces(l, a) = {<<"later", told>>} /\ A[a].state = "waiting" /\ Change[a] = "read"
<1>1. <<"later", told>> \in LanePlaces(l, a)
  BY DEF LanePlaces, Dismissed
<1> QED BY <1>1 DEF Readers, Single

-----------------------------------------------------------------------------
(* A read that ended: the lane before its callbacks and after them. *)
Ended(l, k) == [l EXCEPT !.inflight = Without(@, k), !.pending = Without(@, k)]

LEMMA EndedIs ==
  ASSUME NEW l, LaneOK(l), NEW k \in Running(l)
  PROVE  LET m == Ended(l, k) IN
         /\ LaneOK(m) /\ Few(m, ReadMax) /\ Running(m) = Running(l) \ {k} /\ DOMAIN m.pending = DOMAIN l.pending \ {k}
         /\ \A x \in Running(m) : m.inflight[x] = l.inflight[x]
         /\ m.wait = l.wait /\ m.later = l.later
         /\ \A a : LanePlaces(m, a) = LanePlaces(l, a) \ {<<"read", k>>, <<"pending", k>>}
<1> DEFINE f == Without(l.inflight, k)
           p == Without(l.pending, k)
<1>1. Whole(l) /\ AreFlights(l.inflight) /\ ArePending(l.pending) /\ l.wait \in Seq(Entries) /\ l.later \in SUBSET Entries
  BY DEF LaneOK, LaneType
<1>2. PICK m : m = Lane(f, p, l.wait, l.later)
  OBVIOUS
<1>3. Ended(l, k) = m
  <2>1. l = [inflight |-> l.inflight, pending |-> l.pending, wait |-> l.wait, later |-> l.later]
    BY <1>1 DEF Whole, Lane
  <2>2. Ended(l, k) = [l EXCEPT !.inflight = f, !.pending = p]
    BY DEF Ended
  <2> HIDE DEF f, p
  <2> QED BY <1>2, <2>1, <2>2 DEF Lane
<1>4. AreFlights(f) /\ DOMAIN f = Running(l) \ {k} /\ \A x \in DOMAIN f : f[x] = l.inflight[x]
  BY <1>1, WithoutFlight DEF Running
<1>5. ArePending(p) /\ DOMAIN p = DOMAIN l.pending \ {k}
  BY <1>1, WithoutPending
<1>6. \A a : Reading(f, a) = Reading(l.inflight, a) \ {<<"read", k>>}
  BY ReadingEnds
<1>7. \A a : Again(p, a) = Again(l.pending, a) \ {<<"pending", k>>}
  BY AgainEnds
<1> HIDE DEF f, p
<1>8. /\ LaneType(m) /\ Running(m) = DOMAIN f
      /\ m.inflight = f /\ m.pending = p /\ m.wait = l.wait /\ m.later = l.later
  BY <1>1, <1>2, <1>4, <1>5, LaneMade
<1>9. Few(m, ReadMax) /\ Few(m, ReadMax + 1)
  <2>1. IsFiniteSet(Running(l)) /\ Cardinality(Running(l)) <= ReadMax + 1 /\ Cardinality(Running(l)) \in Nat
    BY FS_CardinalityType DEF LaneOK, Few
  <2>2. IsFiniteSet(Running(m)) /\ Cardinality(Running(m)) = Cardinality(Running(l)) - 1
    BY <1>4, <1>8, <2>1, FS_RemoveElement
  <2> QED BY <2>1, <2>2, MaxIs DEF Few
<1>10. ASSUME NEW a PROVE LanePlaces(m, a) = LanePlaces(l, a) \ {<<"read", k>>, <<"pending", k>>}
  <2>1. <<"read", k>> \notin Again(l.pending, a) \cup Queued(l.wait, a) \cup Dismissed(l.later, a)
    BY PlacesApart
  <2>2. <<"pending", k>> \notin Reading(l.inflight, a) \cup Queued(l.wait, a) \cup Dismissed(l.later, a)
    BY PlacesApart
  <2> QED BY <1>6, <1>7, <1>8, <2>1, <2>2 DEF LanePlaces
<1>11. LaneOK(m)
  BY <1>8, <1>9 DEF LaneOK
<1> QED BY <1>3, <1>4, <1>5, <1>8, <1>9, <1>10, <1>11

(* The lane when the callbacks of the read have run: what they asked for is under way. *)
CalledBack(l, k, x) ==
  /\ LaneOK(x) /\ Few(x, ReadMax) /\ k \notin Running(x)
  /\ Carries(Ended(l, k), x)
  /\ \A a : Single(LanePlaces(Ended(l, k), a)) =>
             Single(LanePlaces(x, a)) /\ (LanePlaces(x, a) # {} <=> LanePlaces(Ended(l, k), a) # {})

LEMMA CallbacksKeep ==
  ASSUME NEW l, LaneOK(l), NEW k \in Running(l), NEW saw, NEW next,
         NEW x \in {Ended(l, k)} \cup {RequestRead(Ended(l, k), f, {}) : f \in Follows(k, saw, next)}
  PROVE  CalledBack(l, k, x)
<1>1. PICK e : e = Ended(l, k)
  OBVIOUS
<1>2. LaneOK(e) /\ Few(e, ReadMax) /\ k \notin Running(e)
  BY <1>1, EndedIs
<1>3. CASE x = e
  <2>1. Len(e.wait) \in Nat
    BY <1>2 DEF LaneOK, LaneType
  <2>2. Carries(e, e)
    BY <2>1 DEF Carries
  <2> QED BY <1>1, <1>2, <1>3, <2>2 DEF CalledBack
<1>4. CASE x # e
  <2>1. PICK f \in Follows(k, saw, next) : x = RequestRead(e, f, {})
    BY <1>1, <1>4
  <2>2. f \in ReadKeys /\ f # k
    BY <2>1 DEF Follows
  <2>3. LaneKeeps(e, x)
    BY <1>2, <2>1, <2>2, RefreshKeeps
  <2>4. Takes(e, f, x)
    BY <1>2, <2>1, <2>2, RequestCarries DEF LaneOK
  <2>5. k \notin Running(x)
    BY <1>2, <2>2, <2>4 DEF Takes
  <2>6. Few(x, ReadMax)
    <3>1. ReadMax \in Nat /\ ReadMax <= ReadMax
      BY MaxIs
    <3> QED BY <1>2, <2>4, <3>1, FewOn DEF Takes
  <2> QED BY <1>1, <2>3, <2>5, <2>6 DEF CalledBack, LaneKeeps
<1> QED BY <1>3, <1>4

(* One place less for those it answers; those of the next read are with it now. *)
Answers(l, k, m) ==
  \A a \in Askers :
    Single(LanePlaces(m, a)) /\ (LanePlaces(m, a) # {} <=> LanePlaces(l, a) # {} /\ a \notin l.inflight[k].askers)

LEMMA EndedAnswers ==
  ASSUME NEW l, LaneOK(l), NEW A, Readers(l, A), NEW k \in Running(l), NEW a \in Askers
  PROVE  LET S == LanePlaces(Ended(l, k), a) IN
         /\ Single(S)
         /\ k \in DOMAIN l.pending /\ a \in l.pending[k] =>
              S = {} /\ LanePlaces(l, a) # {} /\ a \notin l.inflight[k].askers
         /\ ~(k \in DOMAIN l.pending /\ a \in l.pending[k]) =>
              (S # {} <=> LanePlaces(l, a) # {} /\ a \notin l.inflight[k].askers)
<1> DEFINE S == LanePlaces(Ended(l, k), a)
           T == LanePlaces(l, a)
<1>1. S = T \ {<<"read", k>>, <<"pending", k>>} /\ Single(T)
  BY EndedIs DEF Readers
<1>2. Single(S)
  BY <1>1 DEF Single
<1>3. a \in l.inflight[k].askers => T = {<<"read", k>>}
  BY FlightHolds
<1>4. k \in DOMAIN l.pending /\ a \in l.pending[k] => T = {<<"pending", k>>}
  BY PendingHolds
<1>5. <<"read", k>> \in T => a \in l.inflight[k].askers
  BY DEF LanePlaces, Reading, Again, Queued, Dismissed
<1>6. <<"pending", k>> \in T => k \in DOMAIN l.pending /\ a \in l.pending[k]
  BY DEF LanePlaces, Reading, Again, Queued, Dismissed
<1>7. <<"read", k>> # <<"pending", k>>
  OBVIOUS
<1> HIDE DEF S, T
<1>8. k \in DOMAIN l.pending /\ a \in l.pending[k] => S = {} /\ T # {} /\ a \notin l.inflight[k].askers
  BY <1>1, <1>3, <1>4, <1>7
<1>9. ASSUME ~(k \in DOMAIN l.pending /\ a \in l.pending[k]) PROVE S # {} <=> T # {} /\ a \notin l.inflight[k].askers
  <2>1. CASE a \in l.inflight[k].askers
    BY <1>1, <1>3, <2>1
  <2>2. CASE a \notin l.inflight[k].askers
    BY <1>1, <1>5, <1>6, <1>9, <2>2
  <2> QED BY <2>1, <2>2
<1> QED BY <1>2, <1>8, <1>9 DEF S, T

LEMMA AnswersAgain ==
  ASSUME NEW l, LaneOK(l), NEW A, Readers(l, A), NEW k \in Running(l), k \in DOMAIN l.pending,
         NEW x, CalledBack(l, k, x)
  PROVE  LET m == StartRead(x, k, l.pending[k]) IN
         /\ LaneOK(m) /\ Answers(l, k, m) /\ Carries(Ended(l, k), m)
         /\ k \in Running(m) /\ m.inflight[k].saw = Unseen
<1>1. PICK m : m = StartRead(x, k, l.pending[k])
  OBVIOUS
<1>2. k \in ReadKeys /\ l.pending[k] \in SUBSET Askers
  BY PendingAt DEF LaneOK, LaneType
<1>3. LaneOK(x) /\ LaneType(x) /\ Few(x, ReadMax) /\ k \notin Running(x) /\ Carries(Ended(l, k), x)
  BY DEF CalledBack, LaneOK
<1>4. /\ Starts(x, k, l.pending[k], m) /\ LaneType(m) /\ Running(m) = Running(x) \cup {k} /\ m.inflight[k].saw = Unseen
      /\ \A y \in Running(x) : m.inflight[y] = x.inflight[y]
  BY <1>1, <1>2, <1>3, StartReadType
<1>5. m.pending = x.pending /\ m.wait = x.wait /\ m.later = x.later
  BY <1>4, LaneParts DEF Starts
<1>6. Len(x.wait) \in Nat /\ Len(x.wait) <= WaitMax
  BY <1>3 DEF LaneOK, LaneType
<1>7. Carries(x, m)
  BY <1>4, <1>5, <1>6 DEF Carries
<1>8. Few(m, ReadMax + 1)
  <2>1. IsFiniteSet(Running(x)) /\ Cardinality(Running(x)) <= ReadMax /\ Cardinality(Running(x)) \in Nat
    BY <1>3, FS_CardinalityType DEF Few
  <2>2. IsFiniteSet(Running(m)) /\ Cardinality(Running(m)) = Cardinality(Running(x)) + 1
    BY <1>3, <1>4, <2>1, FS_AddElement
  <2> QED BY <2>1, <2>2, MaxIs DEF Few
<1>9. LaneOK(m)
  BY <1>4, <1>5, <1>6, <1>8 DEF LaneOK
<1>10. Carries(Ended(l, k), m)
  <2>1. LaneType(Ended(l, k))
    BY EndedIs DEF LaneOK
  <2> QED BY <1>3, <1>4, <1>7, <2>1, CarriesOn
<1>11. ASSUME NEW a \in Askers
       PROVE  /\ Single(LanePlaces(m, a))
              /\ LanePlaces(m, a) # {} <=> LanePlaces(l, a) # {} /\ a \notin l.inflight[k].askers
  <2> DEFINE S == LanePlaces(Ended(l, k), a)
             T == LanePlaces(m, a)
             U == LanePlaces(x, a)
             O == LanePlaces(l, a)
             who == l.pending[k]
  <2>1. /\ Single(S)
        /\ a \in who => S = {} /\ O # {} /\ a \notin l.inflight[k].askers
        /\ a \notin who => (S # {} <=> O # {} /\ a \notin l.inflight[k].askers)
    BY EndedAnswers
  <2>2. Gains(U, T, a, who)
    BY <1>2, <1>3, <1>4, StartsGains
  <2>3. Single(U) /\ (U # {} <=> S # {})
    BY <2>1 DEF CalledBack
  <2> HIDE DEF S, T, U, O, who
  <2>4. Single(T) /\ (T # {} <=> S # {} \/ a \in who)
    BY <2>1, <2>2, <2>3 DEF Gains
  <2>5. T # {} <=> O # {} /\ a \notin l.inflight[k].askers
    BY <2>1, <2>4
  <2> QED BY <2>4, <2>5 DEF T, O
<1> QED BY <1>1, <1>4, <1>9, <1>10, <1>11 DEF Answers

LEMMA AnswersDrained ==
  ASSUME NEW l, LaneOK(l), NEW A, Readers(l, A), NEW k \in Running(l), k \notin DOMAIN l.pending,
         NEW x, CalledBack(l, k, x)
  PROVE  LET m == Drained(x) IN
         /\ LaneOK(m) /\ Answers(l, k, m) /\ Redistributes(x, ReadMax + 1, m)
<1>1. PICK m : m = Drained(x)
  OBVIOUS
<1>2. LaneOK(x) /\ LaneType(x) /\ Few(x, ReadMax + 1)
  BY DEF CalledBack, LaneOK
<1>3. Redistributes(x, ReadMax + 1, m)
  BY <1>1, <1>2, DrainedKeeps, MaxIs
<1>4. LaneOK(m)
  <2>1. Len(m.wait) \in Nat /\ Len(x.wait) \in Nat /\ Len(m.wait) <= Len(x.wait) /\ Len(x.wait) <= WaitMax
    BY <1>2, <1>3 DEF Redistributes, LaneOK, LaneType
  <2>2. Len(m.wait) <= WaitMax
    BY <2>1, MaxIs
  <2> QED BY <1>3, <2>2 DEF Redistributes, LaneOK
<1>5. ASSUME NEW a \in Askers
      PROVE  /\ Single(LanePlaces(m, a))
             /\ LanePlaces(m, a) # {} <=> LanePlaces(l, a) # {} /\ a \notin l.inflight[k].askers
  <2> DEFINE S == LanePlaces(Ended(l, k), a)
             T == LanePlaces(m, a)
             U == LanePlaces(x, a)
             O == LanePlaces(l, a)
  <2>1. Single(S) /\ (S # {} <=> O # {} /\ a \notin l.inflight[k].askers)
    BY EndedAnswers
  <2>2. Single(U) /\ (U # {} <=> S # {})
    BY <2>1 DEF CalledBack
  <2>3. Single(T) /\ (T # {} <=> U # {})
    BY <1>3, <2>2 DEF Redistributes
  <2> HIDE DEF S, T, U, O
  <2>4. T # {} <=> O # {} /\ a \notin l.inflight[k].askers
    BY <2>1, <2>2, <2>3
  <2> QED BY <2>3, <2>4 DEF T, O
<1> QED BY <1>1, <1>3, <1>4, <1>5 DEF Answers

(* What is due stays due when the lane is drained, and what runs runs on. *)
LEMMA DrainedCarries ==
  ASSUME NEW l, LaneType(l), NEW b, NEW m, Redistributes(l, b, m)
  PROVE  /\ \A k \in Running(l) : k \in Running(m) /\ m.inflight[k] = l.inflight[k]
         /\ \A k \in Running(m) : k \in Running(l) \/ m.inflight[k].saw = Unseen
         /\ DOMAIN l.pending \subseteq DOMAIN m.pending
         /\ \A k : Due(l, k) => Due(m, k)
<1>1. Carries(Emptied(l), m) /\ \A i \in DOMAIN l.wait : Due(m, l.wait[i].key)
  BY DEF Redistributes
<1>2. PICK e : e = Emptied(l)
  OBVIOUS
<1>3. Running(e) = Running(l) /\ e.inflight = l.inflight /\ e.pending = l.pending /\ e.later = l.later
  BY <1>2, EmptiedIs
<1>4. /\ \A k \in Running(l) : k \in Running(m) /\ m.inflight[k] = l.inflight[k]
      /\ \A k \in Running(m) : k \in Running(l) \/ m.inflight[k].saw = Unseen
      /\ DOMAIN l.pending \subseteq DOMAIN m.pending /\ l.later \subseteq m.later
  BY <1>1, <1>2, <1>3 DEF Carries
<1>5. ASSUME NEW k, Due(l, k) PROVE Due(m, k)
  BY <1>1, <1>4, <1>5 DEF Due
<1> QED BY <1>4, <1>5

-----------------------------------------------------------------------------
(* The askers when some of them are answered. *)
Delivered(A, who, saw) == [a \in Askers |-> IF a \in who THEN Answered(A[a], saw) ELSE A[a]]

LEMMA DeliveredIs ==
  ASSUME NEW A \in [Askers -> Records], NEW who, NEW saw \in Nat
  PROVE  LET B == Delivered(A, who, saw) IN
         /\ B \in [Askers -> Records]
         /\ \A a \in Askers : a \in who => B[a].state = "answered" /\ B[a].saw = saw /\ B[a].since = A[a].since
         /\ \A a \in Askers : a \notin who => B[a] = A[a]
<1>1. \A a \in Askers : A[a] \in Records
  OBVIOUS
<1>2. ASSUME NEW r \in Records
      PROVE  /\ Answered(r, saw) \in Records
             /\ Answered(r, saw).state = "answered" /\ Answered(r, saw).saw = saw /\ Answered(r, saw).since = r.since
  BY DEF Answered, Records
<1> QED BY <1>1, <1>2 DEF Delivered

(* Those in who have left the lane, and nobody else. *)
Leaves(l, who, m) ==
  \A a \in Askers :
    /\ a \in who => LanePlaces(l, a) # {}
    /\ Single(LanePlaces(m, a)) /\ (LanePlaces(m, a) # {} <=> LanePlaces(l, a) # {} /\ a \notin who)

(* Askers who wait for the lane: none other is answered by it. *)
LEMMA LaneAnswers ==
  ASSUME NEW l, LaneOK(l), NEW A \in [Askers -> Records], Readers(l, A),
         NEW m, NEW who, NEW saw \in Nat, NEW B, B = Delivered(A, who, saw), Leaves(l, who, m)
  PROVE  /\ Readers(m, B)
         /\ \A a \in Askers : a \in who => Change[a] = "read"
         /\ \A a \in Askers : Change[a] # "read" => B[a] = A[a]
<1>1. ASSUME NEW a \in Askers, a \in who PROVE Change[a] = "read"
  BY <1>1 DEF Readers, Leaves
<1>2. /\ \A a \in Askers : a \in who => B[a].state = "answered"
      /\ \A a \in Askers : a \notin who => B[a] = A[a]
  BY DeliveredIs
<1>3. ASSUME NEW a \in Askers
      PROVE  LanePlaces(m, a) # {} <=> B[a].state = "waiting" /\ Change[a] = "read"
  <2>1. CASE a \in who
    BY <1>2, <2>1 DEF Leaves
  <2>2. CASE a \notin who
    BY <1>2, <2>2 DEF Readers, Leaves
  <2> QED BY <2>1, <2>2
<1> QED BY <1>1, <1>2, <1>3 DEF Readers, Leaves

LEMMA LaneInflight ==
  ASSUME NEW l, LaneOK(l), NEW k \in Running(l)
  PROVE  k \in ReadKeys /\ l.inflight[k] \in Flights /\ l.inflight[k].askers \in SUBSET Askers /\ l.inflight[k].saw \in Nat
BY DEF LaneOK, LaneType, AreFlights, Running, Flights

(* What became of the lane when the read of key k ended. *)
Goes(l, k, m) ==
  /\ \A y \in Running(l) : y # k => y \in Running(m) /\ m.inflight[y] = l.inflight[y]
  /\ \A y \in Running(m) :
       (y # k /\ y \in Running(l) /\ m.inflight[y] = l.inflight[y]) \/ m.inflight[y].saw = Unseen
  /\ \A y \in DOMAIN l.pending : y # k => y \in DOMAIN m.pending
  /\ \A y : y # k /\ Due(l, y) => Due(m, y)
  /\ k \in DOMAIN l.pending => Due(m, k)

LEMMA EndedGoes ==
  ASSUME NEW l, LaneOK(l), NEW k \in Running(l), NEW y, y # k, Due(l, y)
  PROVE  Due(Ended(l, k), y)
<1>1. PICK e : e = Ended(l, k)
  OBVIOUS
<1>2. /\ Running(e) = Running(l) \ {k} /\ DOMAIN e.pending = DOMAIN l.pending \ {k}
      /\ \A x \in Running(e) : e.inflight[x] = l.inflight[x]
      /\ e.wait = l.wait /\ e.later = l.later
  BY <1>1, EndedIs
<1>3. Due(e, y)
  BY <1>2 DEF Due
<1> QED BY <1>1, <1>3

LEMMA AgainGoes ==
  ASSUME NEW l, LaneOK(l), NEW k \in Running(l), NEW m, LaneOK(m), Carries(Ended(l, k), m),
         k \in Running(m), m.inflight[k].saw = Unseen
  PROVE  Goes(l, k, m)
<1>1. PICK e : e = Ended(l, k)
  OBVIOUS
<1>2. /\ Running(e) = Running(l) \ {k} /\ DOMAIN e.pending = DOMAIN l.pending \ {k}
      /\ \A x \in Running(e) : e.inflight[x] = l.inflight[x]
      /\ LaneType(e) /\ Carries(e, m)
  BY <1>1, EndedIs DEF LaneOK
<1>3. ASSUME NEW y, y # k, Due(l, y) PROVE Due(m, y)
  <2>1. Due(e, y)
    BY <1>1, <1>3, EndedGoes
  <2> QED BY <1>2, <2>1, DueOn DEF LaneOK
<1>4. Due(m, k)
  BY DEF Due
<1>5. \A y \in Running(l) : y # k => y \in Running(m) /\ m.inflight[y] = l.inflight[y]
  BY <1>2 DEF Carries
<1>6. \A y \in Running(m) :
        (y # k /\ y \in Running(l) /\ m.inflight[y] = l.inflight[y]) \/ m.inflight[y].saw = Unseen
  BY <1>2 DEF Carries
<1>7. \A y \in DOMAIN l.pending : y # k => y \in DOMAIN m.pending
  BY <1>2 DEF Carries
<1> QED BY <1>3, <1>4, <1>5, <1>6, <1>7 DEF Goes

LEMMA DrainedGoes ==
  ASSUME NEW l, LaneOK(l), NEW k \in Running(l), k \notin DOMAIN l.pending, NEW x, CalledBack(l, k, x),
         NEW m, Redistributes(x, ReadMax + 1, m)
  PROVE  Goes(l, k, m)
<1>1. PICK e : e = Ended(l, k)
  OBVIOUS
<1>2. /\ Running(e) = Running(l) \ {k} /\ DOMAIN e.pending = DOMAIN l.pending \ {k}
      /\ \A y \in Running(e) : e.inflight[y] = l.inflight[y]
      /\ LaneType(e)
  BY <1>1, EndedIs DEF LaneOK
<1>3. Carries(e, x) /\ LaneType(x)
  BY <1>1 DEF CalledBack, LaneOK
<1>4. /\ \A y \in Running(x) : y \in Running(m) /\ m.inflight[y] = x.inflight[y]
      /\ \A y \in Running(m) : y \in Running(x) \/ m.inflight[y].saw = Unseen
      /\ DOMAIN x.pending \subseteq DOMAIN m.pending
      /\ \A y : Due(x, y) => Due(m, y)
  BY <1>3, DrainedCarries
<1>5. ASSUME NEW y, y # k, Due(l, y) PROVE Due(m, y)
  <2>1. Due(e, y)
    BY <1>1, <1>5, EndedGoes
  <2>2. Due(x, y)
    BY <1>2, <1>3, <2>1, DueOn
  <2> QED BY <1>4, <2>2
<1>6. \A y \in Running(l) : y # k => y \in Running(m) /\ m.inflight[y] = l.inflight[y]
  BY <1>2, <1>3, <1>4 DEF Carries
<1>7. \A y \in Running(m) :
        (y # k /\ y \in Running(l) /\ m.inflight[y] = l.inflight[y]) \/ m.inflight[y].saw = Unseen
  BY <1>2, <1>3, <1>4 DEF Carries
<1>8. \A y \in DOMAIN l.pending : y # k => y \in DOMAIN m.pending
  BY <1>2, <1>3, <1>4 DEF Carries
<1> QED BY <1>5, <1>6, <1>7, <1>8 DEF Goes

LEMMA FreshAnswered ==
  ASSUME NEW l, NEW m, NEW A \in [Askers -> Records], NEW v, Fresh(l, A, v),
         \A y \in Running(m) : (y \in Running(l) /\ m.inflight[y] = l.inflight[y]) \/ m.inflight[y].saw = Unseen,
         LaneOK(l), NEW who, NEW saw \in Nat, saw # Unseen => \A a \in Askers : a \in who /\ Change[a] = "read" => A[a].since <= saw,
         NEW B, B = Delivered(A, who, saw)
  PROVE  Fresh(m, B, v)
<1>1. /\ \A a \in Askers : a \in who => B[a].state = "answered" /\ B[a].saw = saw /\ B[a].since = A[a].since
      /\ \A a \in Askers : a \notin who => B[a] = A[a]
  BY DeliveredIs
<1>2. \A a \in Askers : B[a].since = A[a].since
  BY <1>1
<1>3. ASSUME NEW a \in Askers
      PROVE  /\ B[a].since <= v
             /\ B[a].state # "answered" => B[a].saw = Unseen
             /\ Change[a] = "read" /\ B[a].saw # Unseen => B[a].since <= B[a].saw
  <2>1. CASE a \in who
    BY <1>1, <1>2, <2>1 DEF Fresh
  <2>2. CASE a \notin who
    BY <1>1, <2>2 DEF Fresh
  <2> QED BY <2>1, <2>2
<1>4. ASSUME NEW k \in Running(m), m.inflight[k].saw # Unseen
      PROVE  m.inflight[k].saw <= v /\ \A a \in m.inflight[k].askers : B[a].since <= m.inflight[k].saw
  <2>1. k \in Running(l) /\ m.inflight[k] = l.inflight[k]
    BY <1>4
  <2>2. l.inflight[k].askers \in SUBSET Askers
    BY <2>1, LaneInflight
  <2>3. l.inflight[k].saw <= v /\ \A a \in l.inflight[k].askers : A[a].since <= l.inflight[k].saw
    BY <1>4, <2>1 DEF Fresh
  <2> QED BY <1>2, <2>1, <2>2, <2>3
<1> QED BY <1>3, <1>4 DEF Fresh

LEMMA ShownAnswered ==
  ASSUME NEW A \in [Askers -> Records], NEW v, NEW who, NEW saw \in Nat, saw <= v,
         \A a \in Askers : a \in who => Change[a] = "read", \A a \in Askers : A[a].saw <= v,
         NEW m, NEW mir, \A a \in Askers : Knows(A, a) => Covers(m, A[a].saw) /\ ShowsUp(m, mir, A[a].saw),
         NEW B, B = Delivered(A, who, saw)
  PROVE  Shown(m, B, mir, v)
<1>1. /\ \A a \in Askers : a \in who => B[a].saw = saw
      /\ \A a \in Askers : a \notin who => B[a] = A[a]
  BY DeliveredIs
<1>2. ASSUME NEW a \in Askers, Knows(B, a) PROVE B[a] = A[a] /\ Knows(A, a)
  <2>1. a \notin who
    BY <1>2 DEF Knows
  <2> QED BY <1>1, <1>2, <2>1 DEF Knows
<1>3. \A a \in Askers : B[a].saw <= v
  BY <1>1
<1> QED BY <1>2, <1>3 DEF Shown

(* What the panel shows when a read ended. *)
Mirrors(k, saw, mir) ==
  IF k # "list" THEN mir
  ELSE IF saw = Unseen THEN [mir EXCEPT !.failed = TRUE] ELSE [shows |-> saw, failed |-> FALSE]

Mirrorings == [shows : Nat, failed : BOOLEAN]

LEMMA MirrorsIs ==
  ASSUME NEW mir \in Mirrorings, NEW saw \in Nat, NEW k
  PROVE  LET new == Mirrors(k, saw, mir) IN
         /\ new \in Mirrorings
         /\ k # "list" => new = mir
         /\ k = "list" /\ saw = Unseen => new.failed
         /\ k = "list" /\ saw # Unseen => new.shows = saw
BY DEF Mirrors, Mirrorings

LEMMA GoesShows ==
  ASSUME NEW l, LaneOK(l), NEW k \in Running(l), NEW m, Goes(l, k, m),
         NEW mir \in Mirrorings, NEW saw \in {Unseen, l.inflight[k].saw},
         NEW seen \in Nat, Covers(l, seen), ShowsUp(l, mir, seen)
  PROVE  Covers(m, seen) /\ ShowsUp(m, Mirrors(k, saw, mir), seen)
<1> DEFINE new == Mirrors(k, saw, mir)
<1>1. saw \in Nat
  BY LaneInflight DEF Unseen
<1>2. /\ k # "list" => new = mir
      /\ k = "list" /\ saw = Unseen => new.failed
      /\ k = "list" /\ saw # Unseen => new.shows = saw
  BY <1>1, MirrorsIs
<1> HIDE DEF new
<1>3. CASE k # "list"
  <2>1. Covers(m, seen)
    BY <1>3 DEF Covers, Goes
  <2>2. Due(l, "list") => Due(m, "list")
    BY <1>3 DEF Goes
  <2>3. "list" \in Running(l) => "list" \in Running(m) /\ m.inflight["list"] = l.inflight["list"]
    BY <1>3 DEF Goes
  <2>4. ShowsUp(m, new, seen)
    BY <1>2, <1>3, <2>2, <2>3 DEF ShowsUp
  <2> QED BY <2>1, <2>4 DEF new
<1>4. CASE k = "list"
  <2>1. "list" \in Running(m) => m.inflight["list"].saw = Unseen
    BY <1>4 DEF Goes
  <2>2. Covers(m, seen)
    BY <2>1 DEF Covers
  <2>3. CASE "list" \in DOMAIN l.pending
    BY <1>4, <2>2, <2>3 DEF Goes, ShowsUp, new
  <2>4. CASE "list" \notin DOMAIN l.pending /\ saw = Unseen
    BY <1>2, <1>4, <2>2, <2>4 DEF ShowsUp, new
  <2>5. CASE "list" \notin DOMAIN l.pending /\ saw # Unseen
    <3>1. saw = l.inflight["list"].saw
      BY <1>4, <2>5
    <3>2. seen <= saw
      BY <1>4, <2>5, <3>1 DEF Covers
    <3> QED BY <1>2, <1>4, <2>2, <2>5, <3>2 DEF ShowsUp, new
  <2> QED BY <2>3, <2>4, <2>5
<1> QED BY <1>3, <1>4

LEMMA ReadEndsKeeps ==
  ASSUME NEW l, LaneOK(l), NEW A \in [Askers -> Records], Readers(l, A), NEW v \in Nat, Fresh(l, A, v),
         NEW mir \in Mirrorings, Shown(l, A, mir, v),
         NEW k \in Running(l), NEW saw \in {Unseen, l.inflight[k].saw}, NEW told \in {Unseen, saw},
         NEW next, NEW x \in {Ended(l, k)} \cup {RequestRead(Ended(l, k), f, {}) : f \in Follows(k, saw, next)},
         NEW m, m = IF k \in DOMAIN l.pending THEN StartRead(x, k, l.pending[k]) ELSE Drained(x),
         NEW B, B = Delivered(A, l.inflight[k].askers, told)
  PROVE  LaneOK(m) /\ Readers(m, B) /\ Fresh(m, B, v) /\ Shown(m, B, Mirrors(k, saw, mir), v)
<1>1. PICK who : who = l.inflight[k].askers
  OBVIOUS
<1>2. CalledBack(l, k, x)
  BY CallbacksKeep
<1>3. LaneOK(m) /\ Answers(l, k, m) /\ Goes(l, k, m)
  <2>1. CASE k \in DOMAIN l.pending
    <3>1. /\ LaneOK(m) /\ Answers(l, k, m) /\ Carries(Ended(l, k), m)
          /\ k \in Running(m) /\ m.inflight[k].saw = Unseen
      BY <1>2, <2>1, AnswersAgain
    <3> QED BY <3>1, AgainGoes
  <2>2. CASE k \notin DOMAIN l.pending
    <3>1. LaneOK(m) /\ Answers(l, k, m) /\ Redistributes(x, ReadMax + 1, m)
      BY <1>2, <2>2, AnswersDrained
    <3> QED BY <1>2, <2>2, <3>1, DrainedGoes
  <2> QED BY <2>1, <2>2
<1>4. saw \in Nat /\ told \in Nat /\ l.inflight[k].saw \in Nat /\ who \in SUBSET Askers /\ Unseen \in Nat
  BY <1>1, LaneInflight DEF Unseen
<1>5. ASSUME NEW a \in Askers, a \in who PROVE LanePlaces(l, a) # {}
  <2>1. LanePlaces(l, a) = {<<"read", k>>}
    BY <1>1, <1>5, FlightHolds
  <2> QED BY <2>1
<1>6. \A a \in Askers :
        Single(LanePlaces(m, a)) /\ (LanePlaces(m, a) # {} <=> LanePlaces(l, a) # {} /\ a \notin who)
  BY <1>1, <1>3 DEF Answers
<1>7. B = Delivered(A, who, told)
  BY <1>1
<1>8. Readers(m, B) /\ \A a \in Askers : a \in who => Change[a] = "read"
  <2>1. Leaves(l, who, m)
    BY <1>5, <1>6 DEF Leaves
  <2>2. Readers(m, B)
    BY <1>4, <1>7, <2>1, LaneAnswers
  <2>3. \A a \in Askers : a \in who => Change[a] = "read"
    BY <1>5 DEF Readers
  <2> QED BY <2>2, <2>3
<1>9. \A y \in Running(m) : (y \in Running(l) /\ m.inflight[y] = l.inflight[y]) \/ m.inflight[y].saw = Unseen
  BY <1>3 DEF Goes
<1>10. told # Unseen => told <= v /\ \A a \in Askers : a \in who => A[a].since <= told
  BY <1>1, <1>4 DEF Fresh
<1>11. Fresh(m, B, v)
  BY <1>4, <1>9, <1>10, <1>7, FreshAnswered
<1>12. told <= v
  BY <1>4, <1>10 DEF Unseen
<1>13. ASSUME NEW a \in Askers PROVE A[a].saw <= v /\ A[a].saw \in Nat
  <2>1. A[a] \in Records
    OBVIOUS
  <2> QED BY <2>1 DEF Shown, Records
<1>14. ASSUME NEW a \in Askers, Knows(A, a)
       PROVE  Covers(m, A[a].saw) /\ ShowsUp(m, Mirrors(k, saw, mir), A[a].saw)
  <2>1. Covers(l, A[a].saw) /\ ShowsUp(l, mir, A[a].saw)
    BY <1>14, Zenon DEF Shown
  <2> QED BY <1>3, <1>13, <2>1, GoesShows
<1>15. Shown(m, B, Mirrors(k, saw, mir), v)
  BY <1>4, <1>8, <1>12, <1>13, <1>14, <1>7, ShownAnswered
<1> QED BY <1>3, <1>8, <1>11, <1>15

-----------------------------------------------------------------------------
(* An asker asks. *)
Asking(A, a, since) == [A EXCEPT ![a].state = "waiting", ![a].since = since]

LEMMA AskingIs ==
  ASSUME NEW A \in [Askers -> Records], NEW a \in Askers, NEW since \in Nat
  PROVE  LET B == Asking(A, a, since) IN
         /\ B \in [Askers -> Records]
         /\ B[a].state = "waiting" /\ B[a].since = since /\ B[a].saw = A[a].saw
         /\ \A b \in Askers : b # a => B[b] = A[b]
<1> DEFINE r == [[A[a] EXCEPT !.state = "waiting"] EXCEPT !.since = since]
           B == Asking(A, a, since)
<1>1. A[a] \in Records
  OBVIOUS
<1>2. r \in Records /\ r.state = "waiting" /\ r.since = since /\ r.saw = A[a].saw
  BY <1>1 DEF Records
<1>3. B = [A EXCEPT ![a] = r]
  BY DEF Asking
<1> HIDE DEF r, B
<1>4. B \in [Askers -> Records] /\ B[a] = r /\ \A b \in Askers : b # a => B[b] = A[b]
  BY <1>2, <1>3
<1> QED BY <1>2, <1>4 DEF B

LEMMA AsksShown ==
  ASSUME NEW A \in [Askers -> Records], NEW a \in Askers, NEW since \in Nat, NEW B, B = Asking(A, a, since),
         NEW l, NEW mir, NEW v, Shown(l, A, mir, v)
  PROVE  Shown(l, B, mir, v)
<1>1. \A b \in Askers : B[b].saw = A[b].saw
  <2>1. B[a].saw = A[a].saw /\ \A b \in Askers : b # a => B[b] = A[b]
    BY AskingIs
  <2> QED BY <2>1
<1>2. \A b \in Askers : Knows(B, b) => Knows(A, b)
  BY <1>1 DEF Knows
<1> QED BY <1>1, <1>2 DEF Shown

LEMMA AsksFresh ==
  ASSUME NEW A \in [Askers -> Records], NEW a \in Askers, A[a].state = "idle",
         NEW l, LaneOK(l), Readers(l, A), NEW v \in Nat, Fresh(l, A, v),
         NEW since \in Nat, since <= v, NEW B, B = Asking(A, a, since)
  PROVE  Fresh(l, B, v)
<1>1. /\ B[a].state = "waiting" /\ B[a].since = since /\ B[a].saw = A[a].saw
      /\ \A b \in Askers : b # a => B[b] = A[b]
  BY AskingIs
<1>2. A[a].saw = Unseen
  BY DEF Fresh
<1>3. ASSUME NEW b \in Askers
      PROVE  /\ B[b].since <= v
             /\ B[b].state # "answered" => B[b].saw = Unseen
             /\ Change[b] = "read" /\ B[b].saw # Unseen => B[b].since <= B[b].saw
  <2>1. CASE b = a
    BY <1>1, <1>2, <2>1
  <2>2. CASE b # a
    BY <1>1, <2>2 DEF Fresh
  <2> QED BY <2>1, <2>2
<1>4. ASSUME NEW k \in Running(l), l.inflight[k].saw # Unseen
      PROVE  l.inflight[k].saw <= v /\ \A b \in l.inflight[k].askers : B[b].since <= l.inflight[k].saw
  <2>1. l.inflight[k].askers \in SUBSET Askers
    BY LaneInflight
  <2>2. l.inflight[k].saw <= v /\ \A b \in l.inflight[k].askers : A[b].since <= l.inflight[k].saw
    BY <1>4 DEF Fresh
  <2>3. ASSUME a \in l.inflight[k].askers PROVE FALSE
    BY <2>3, FlightHolds
  <2> QED BY <1>1, <2>1, <2>2, <2>3
<1> QED BY <1>3, <1>4 DEF Fresh

LEMMA AsksReadKeeps ==
  ASSUME NEW l, LaneOK(l), NEW A \in [Askers -> Records], Readers(l, A), NEW v \in Nat, Fresh(l, A, v),
         NEW mir, Shown(l, A, mir, v),
         NEW a \in Askers, A[a].state = "idle", Change[a] = "read", NEW k \in ReadKeys,
         NEW m, m = RequestRead(l, k, {a}), NEW B, B = Asking(A, a, v)
  PROVE  LaneOK(m) /\ Readers(m, B) /\ Fresh(m, B, v) /\ Shown(m, B, mir, v)
<1>1. LaneOK(m) /\ Carries(l, m) /\ LaneType(l) /\ LaneType(m)
  BY RequestOK DEF LaneOK
<1>2. v <= v
  OBVIOUS
<1>3. Fresh(m, B, v)
  <2>1. Fresh(l, B, v)
    BY <1>2, AsksFresh
  <2> QED BY <1>1, <2>1, FreshOn
<1>4. Shown(m, B, mir, v)
  <2>1. Shown(l, B, mir, v)
    BY AsksShown
  <2> QED BY <1>1, <2>1, ShownOn
<1>5. B[a].state = "waiting" /\ \A b \in Askers : b # a => B[b] = A[b]
  BY AskingIs
<1>6. ASSUME NEW b \in Askers
      PROVE  Single(LanePlaces(m, b)) /\ (LanePlaces(m, b) # {} <=> B[b].state = "waiting" /\ Change[b] = "read")
  <2>1. Gains(LanePlaces(l, b), LanePlaces(m, b), b, {a})
    BY RequestGains DEF LaneOK
  <2>2. Single(LanePlaces(l, b)) /\ (LanePlaces(l, b) # {} <=> A[b].state = "waiting" /\ Change[b] = "read")
    BY DEF Readers
  <2>3. CASE b = a
    BY <1>5, <2>1, <2>2, <2>3 DEF Gains
  <2>4. CASE b # a
    BY <1>5, <2>1, <2>2, <2>4 DEF Gains
  <2> QED BY <2>3, <2>4
<1> QED BY <1>1, <1>3, <1>4, <1>6 DEF Readers

LEMMA AsksChangeReaders ==
  ASSUME NEW l, NEW A \in [Askers -> Records], Readers(l, A), NEW a \in Askers, A[a].state = "idle", Change[a] # "read",
         NEW since \in Nat, NEW B, B = Asking(A, a, since)
  PROVE  Readers(l, B)
<1>1. B[a].state = "waiting" /\ \A b \in Askers : b # a => B[b] = A[b]
  BY AskingIs
<1> QED BY <1>1 DEF Readers

-----------------------------------------------------------------------------
(* The helper of a read reads the store. *)
ReadNow(l, k, v) == [l EXCEPT !.inflight[k].saw = v]

LEMMA ReadNowIs ==
  ASSUME NEW l, LaneOK(l), NEW k \in Running(l), NEW v \in Nat
  PROVE  LET m == ReadNow(l, k, v) IN
         /\ LaneOK(m) /\ Running(m) = Running(l) /\ m.pending = l.pending /\ m.wait = l.wait /\ m.later = l.later
         /\ m.inflight[k].saw = v /\ m.inflight[k].askers = l.inflight[k].askers
         /\ \A x \in Running(l) : x # k => m.inflight[x] = l.inflight[x]
         /\ \A a : LanePlaces(m, a) = LanePlaces(l, a)
<1> DEFINE r == [l.inflight[k] EXCEPT !.saw = v]
           f == [l.inflight EXCEPT ![k] = r]
<1>1. Whole(l) /\ AreFlights(l.inflight) /\ ArePending(l.pending) /\ l.wait \in Seq(Entries) /\ l.later \in SUBSET Entries
  BY DEF LaneOK, LaneType
<1>2. l.inflight[k] \in Flights
  BY LaneInflight
<1>3. r \in Flights /\ r.saw = v /\ r.askers = l.inflight[k].askers
  BY <1>2 DEF Flights
<1>4. ReadNow(l, k, v) = [l EXCEPT !.inflight = f]
  BY DEF ReadNow
<1> HIDE DEF r
<1>5. f \in [DOMAIN l.inflight -> Flights] /\ DOMAIN f = DOMAIN l.inflight
      /\ f[k] = r /\ \A x \in DOMAIN l.inflight : x # k => f[x] = l.inflight[x]
  BY <1>1, <1>3 DEF AreFlights, Running
<1> HIDE DEF f
<1>6. AreFlights(f) /\ DOMAIN f = Running(l)
  BY <1>1, <1>5 DEF AreFlights, Running
<1>7. PICK m : m = Lane(f, l.pending, l.wait, l.later)
  OBVIOUS
<1>8. m = ReadNow(l, k, v)
  BY <1>1, <1>4, <1>7, LaneEdits
<1>9. /\ LaneType(m) /\ Running(m) = DOMAIN f
      /\ m.inflight = f /\ m.pending = l.pending /\ m.wait = l.wait /\ m.later = l.later
  BY <1>1, <1>6, <1>7, LaneMade
<1>10. ASSUME NEW a PROVE Reading(f, a) = Reading(l.inflight, a)
  <2>1. \A x \in DOMAIN f : f[x].askers = l.inflight[x].askers
    BY <1>3, <1>5
  <2> QED BY <1>5, <2>1 DEF Reading
<1>11. LaneOK(m)
  BY <1>6, <1>9 DEF LaneOK, Few
<1>12. \A a : LanePlaces(m, a) = LanePlaces(l, a)
  BY <1>9, <1>10 DEF LanePlaces
<1> QED BY <1>3, <1>5, <1>6, <1>8, <1>9, <1>11, <1>12 DEF Running

LEMMA HelperReadsKeeps ==
  ASSUME NEW l, LaneOK(l), NEW A \in [Askers -> Records], Readers(l, A), NEW v \in Nat, Fresh(l, A, v),
         NEW mir, Shown(l, A, mir, v), NEW k \in Running(l), l.inflight[k].saw = Unseen,
         NEW m, m = ReadNow(l, k, v)
  PROVE  LaneOK(m) /\ Readers(m, A) /\ Fresh(m, A, v) /\ Shown(m, A, mir, v)
<1>1. /\ LaneOK(m) /\ Running(m) = Running(l) /\ m.pending = l.pending /\ m.wait = l.wait /\ m.later = l.later
      /\ m.inflight[k].saw = v /\ m.inflight[k].askers = l.inflight[k].askers
      /\ \A x \in Running(l) : x # k => m.inflight[x] = l.inflight[x]
      /\ \A a : LanePlaces(m, a) = LanePlaces(l, a)
  BY ReadNowIs
<1>2. Readers(m, A)
  BY <1>1 DEF Readers
<1>3. ASSUME NEW x \in Running(m), m.inflight[x].saw # Unseen
      PROVE  m.inflight[x].saw <= v /\ \A a \in m.inflight[x].askers : A[a].since <= m.inflight[x].saw
  <2>1. CASE x = k
    <3>1. l.inflight[k].askers \in SUBSET Askers
      BY LaneInflight
    <3> QED BY <1>1, <2>1, <3>1 DEF Fresh
  <2>2. CASE x # k
    BY <1>1, <1>3, <2>2 DEF Fresh
  <2> QED BY <2>1, <2>2
<1>4. Fresh(m, A, v)
  BY <1>3 DEF Fresh
<1>5. ASSUME NEW a \in Askers, Knows(A, a) PROVE Covers(m, A[a].saw) /\ ShowsUp(m, mir, A[a].saw)
  <2>1. Covers(l, A[a].saw) /\ ShowsUp(l, mir, A[a].saw) /\ A[a].saw <= v
    BY <1>5 DEF Shown
  <2>2. CASE k = "list"
    BY <1>1, <2>1, <2>2 DEF Covers, ShowsUp
  <2>3. CASE k # "list"
    BY <1>1, <2>1, <2>3 DEF Covers, ShowsUp, Due
  <2> QED BY <2>2, <2>3
<1>6. Shown(m, A, mir, v)
  BY <1>5 DEF Shown
<1> QED BY <1>1, <1>2, <1>4, <1>6

-----------------------------------------------------------------------------
(* A request refused or superseded is answered. *)
LEMMA AnswersLaterKeeps ==
  ASSUME NEW l, LaneOK(l), NEW A \in [Askers -> Records], Readers(l, A), NEW v \in Nat, Fresh(l, A, v),
         NEW mir \in Mirrorings, Shown(l, A, mir, v), NEW told \in l.later,
         NEW m, m = [l EXCEPT !.later = l.later \ {told}],
         NEW B, B = Delivered(A, told.askers, Unseen)
  PROVE  LaneOK(m) /\ Readers(m, B) /\ Fresh(m, B, v) /\ Shown(m, B, Mirrors(told.key, Unseen, mir), v)
<1>1. /\ Whole(l) /\ AreFlights(l.inflight) /\ ArePending(l.pending) /\ l.wait \in Seq(Entries) /\ l.later \in SUBSET Entries
      /\ Len(l.wait) <= WaitMax /\ Few(l, ReadMax + 1)
  BY DEF LaneOK, LaneType
<1>2. PICK t : t = l.later \ {told}
  OBVIOUS
<1>3. t \in SUBSET Entries /\ m = Lane(l.inflight, l.pending, l.wait, t)
  <2>1. m = [l EXCEPT !.later = t]
    BY <1>2
  <2> QED BY <1>1, <1>2, <2>1, LaneEdits
<1>4. /\ LaneType(m) /\ Running(m) = Running(l) /\ m.inflight = l.inflight /\ m.pending = l.pending
      /\ m.wait = l.wait /\ m.later = t
  <2>1. t \in SUBSET Entries
    BY <1>3
  <2>2. PICK n : n = Lane(l.inflight, l.pending, l.wait, t)
    OBVIOUS
  <2>3. /\ LaneType(n) /\ Running(n) = DOMAIN l.inflight /\ n.inflight = l.inflight /\ n.pending = l.pending
        /\ n.wait = l.wait /\ n.later = t
    BY <1>1, <2>1, <2>2, LaneMade
  <2>4. m = n
    BY <1>3, <2>2
  <2> QED BY <2>3, <2>4 DEF Running
<1>5. LaneOK(m)
  BY <1>1, <1>4 DEF LaneOK, Few
<1>6. PICK who : who = told.askers
  OBVIOUS
<1>7. Unseen \in Nat /\ Unseen <= v /\ who \in SUBSET Askers
  BY <1>1, <1>6, EntriesHave DEF Unseen
<1>8. Leaves(l, who, m)
  <2>1. ASSUME NEW a \in Askers
        PROVE  /\ a \in who => LanePlaces(l, a) # {}
               /\ Single(LanePlaces(m, a)) /\ (LanePlaces(m, a) # {} <=> LanePlaces(l, a) # {} /\ a \notin who)
    <3> DEFINE S == LanePlaces(l, a)
               T == LanePlaces(m, a)
               here == <<"later", told>>
    <3>1. here \notin Reading(l.inflight, a) \cup Again(l.pending, a) \cup Queued(l.wait, a)
      BY PlacesApart
    <3>2. Dismissed(t, a) = Dismissed(l.later, a) \ {here}
      BY <1>2, DismissedLess
    <3>3. T = S \ {here}
      BY <1>4, <3>1, <3>2 DEF LanePlaces
    <3>4. Single(S)
      BY DEF Readers
    <3>5. a \in who => S = {here}
      BY <1>6, LaterHolds
    <3>6. here \in S => a \in who
      BY <1>6, <3>1 DEF LanePlaces, Dismissed
    <3> HIDE DEF S, T, here
    <3>7. Single(T)
      BY <3>3, <3>4 DEF Single
    <3>8. T # {} <=> S # {} /\ a \notin who
      BY <3>3, <3>5, <3>6
    <3> QED BY <3>5, <3>7, <3>8 DEF S, T
  <2> QED BY <2>1 DEF Leaves
<1>9. Readers(m, B)
  BY <1>6, <1>7, <1>8, LaneAnswers
<1>10. \A a \in Askers : a \in who => Change[a] = "read"
  BY <1>8 DEF Leaves, Readers
<1>11. Fresh(m, B, v)
  <2>1. \A y \in Running(m) : (y \in Running(l) /\ m.inflight[y] = l.inflight[y]) \/ m.inflight[y].saw = Unseen
    BY <1>4
  <2> QED BY <1>6, <1>7, <2>1, FreshAnswered
<1>12. PICK new : new = Mirrors(told.key, Unseen, mir)
  OBVIOUS
<1>13. (told.key # "list" => new = mir) /\ (told.key = "list" => new.failed)
  BY <1>7, <1>12, MirrorsIs
<1>14. ASSUME NEW a \in Askers, Knows(A, a) PROVE Covers(m, A[a].saw) /\ ShowsUp(m, new, A[a].saw)
  <2>1. Covers(l, A[a].saw) /\ ShowsUp(l, mir, A[a].saw)
    BY <1>14 DEF Shown
  <2>2. Covers(m, A[a].saw)
    BY <1>4, <2>1 DEF Covers
  <2>3. CASE told.key = "list"
    BY <1>13, <2>2, <2>3 DEF ShowsUp
  <2>4. CASE told.key # "list"
    <3>1. Due(l, "list") => Due(m, "list")
      BY <1>2, <1>4, <2>4 DEF Due
    <3> QED BY <1>4, <1>13, <2>1, <2>2, <2>4, <3>1 DEF ShowsUp
  <2> QED BY <2>3, <2>4
<1>15. \A a \in Askers : A[a].saw <= v
  BY DEF Shown
<1>16. Shown(m, B, new, v)
  BY <1>6, <1>7, <1>10, <1>14, <1>15, ShownAnswered
<1> QED BY <1>5, <1>9, <1>11, <1>12, <1>16

-----------------------------------------------------------------------------
(* The changes: the one at the helper, those in line, those refused.  An arm is never in line. *)
Desk(i, q, t) == [inflight |-> i, queue |-> q, later |-> t]
Verbs == {"save", "arm", "disarm", "reconcile", "settings-set"}
Requested ==
  {req \in [verb : Verbs, asker : Askers, applied : Nat] :
     Change[req.asker] # "read" /\ req.verb \in {FirstVerb(Change[req.asker]), "arm"}}
Queueable == {req \in Requested : req.verb # "arm" /\ req.applied = Unseen}

WriteOK(w) ==
  /\ w = Desk(w.inflight, w.queue, w.later)
  /\ w.inflight = Nobody \/ w.inflight \in Requested
  /\ w.queue \in Seq(Queueable) /\ Len(w.queue) <= WriteMax
  /\ w.later \in SUBSET Requested

AtHelper(i, a) == IF i.asker = a THEN {<<"flight", "helper">>} ELSE {}
InLine(q, a)   == {<<"queue", i>> : i \in {i \in DOMAIN q : q[i].asker = a}}
Turned(t, a)   == {<<"refused", req>> : req \in {req \in t : req.asker = a}}
Joined(J, a)   == {<<"joined", x>> : x \in J \cap {a}}
WritePlaces(w, J, a) == AtHelper(w.inflight, a) \cup InLine(w.queue, a) \cup Turned(w.later, a) \cup Joined(J, a)

LEMMA DeskParts ==
  ASSUME NEW i, NEW q, NEW t
  PROVE  LET w == Desk(i, q, t) IN
         w.inflight = i /\ w.queue = q /\ w.later = t /\ w = Desk(w.inflight, w.queue, w.later)
BY DEF Desk

LEMMA DeskEdits ==
  ASSUME NEW w, WriteOK(w), NEW x
  PROVE  /\ [w EXCEPT !.inflight = x] = Desk(x, w.queue, w.later)
         /\ [w EXCEPT !.queue = x] = Desk(w.inflight, x, w.later)
         /\ [w EXCEPT !.later = x] = Desk(w.inflight, w.queue, x)
<1>1. w = [inflight |-> w.inflight, queue |-> w.queue, later |-> w.later]
  BY DEF WriteOK, Desk
<1> QED BY <1>1 DEF Desk

LEMMA DeskMade ==
  ASSUME NEW i, i = Nobody \/ i \in Requested, NEW q \in Seq(Queueable), Len(q) <= WriteMax, NEW t \in SUBSET Requested,
         NEW w, w = Desk(i, q, t)
  PROVE  WriteOK(w) /\ w.inflight = i /\ w.queue = q /\ w.later = t
<1>1. w.inflight = i /\ w.queue = q /\ w.later = t /\ w = Desk(w.inflight, w.queue, w.later)
  BY DeskParts
<1> QED BY <1>1 DEF WriteOK

LEMMA RequestedIs ==
  ASSUME NEW req \in Requested
  PROVE  /\ req \in [verb : Verbs, asker : Askers, applied : Nat]
         /\ req.asker \in Askers /\ req.asker # "none" /\ req # Nobody /\ req.applied \in Nat
         /\ Change[req.asker] # "read" /\ req.verb \in {FirstVerb(Change[req.asker]), "arm"}
<1>1. req \in [verb : Verbs, asker : Askers, applied : Nat]
      /\ Change[req.asker] # "read" /\ req.verb \in {FirstVerb(Change[req.asker]), "arm"}
  BY DEF Requested
<1>2. req.asker \in Askers /\ req.applied \in Nat
  BY <1>1
<1>3. req.asker # "none"
  BY <1>2, RequestsAssumption
<1>4. Nobody.asker = "none"
  BY DEF Nobody
<1> QED BY <1>1, <1>2, <1>3, <1>4

LEMMA RequestIs ==
  ASSUME NEW a \in Askers, Change[a] # "read"
  PROVE  /\ Request("arm", a) \in Requested /\ Request("arm", a).asker = a /\ Request("arm", a).applied = Unseen
         /\ Request(FirstVerb(Change[a]), a) \in Queueable /\ Request(FirstVerb(Change[a]), a).asker = a
<1>1. Change[a] \in Changes
  BY RequestsAssumption
<1>2. FirstVerb(Change[a]) \in Verbs /\ FirstVerb(Change[a]) # "arm"
  BY <1>1 DEF FirstVerb, Changes, Verbs
<1>3. \A verb \in Verbs :
        /\ Request(verb, a) \in [verb : Verbs, asker : Askers, applied : Nat]
        /\ Request(verb, a).asker = a /\ Request(verb, a).verb = verb /\ Request(verb, a).applied = Unseen
  BY DEF Request, Unseen
<1>4. "arm" \in Verbs
  BY DEF Verbs
<1> QED BY <1>2, <1>3, <1>4 DEF Requested, Queueable

LEMMA WritePlacesApart ==
  ASSUME NEW i, NEW q, NEW t, NEW J, NEW a, NEW x
  PROVE  /\ <<"flight", x>> \notin InLine(q, a) \cup Turned(t, a) \cup Joined(J, a)
         /\ <<"queue", x>> \notin AtHelper(i, a) \cup Turned(t, a) \cup Joined(J, a)
         /\ <<"refused", x>> \notin AtHelper(i, a) \cup InLine(q, a) \cup Joined(J, a)
         /\ <<"joined", x>> \notin AtHelper(i, a) \cup InLine(q, a) \cup Turned(t, a)
BY DEF AtHelper, InLine, Turned, Joined

LEMMA HelperIs ==
  ASSUME NEW a \in Askers, NEW req
  PROVE  /\ AtHelper(Nobody, a) = {}
         /\ AtHelper(req, a) = Here(<<"flight", "helper">>, a, {req.asker})
<1>1. Nobody.asker # a
  BY RequestsAssumption DEF Nobody
<1> QED BY <1>1 DEF AtHelper, Here

LEMMA InLineMore ==
  ASSUME NEW q \in Seq(Queueable), NEW req \in Queueable, NEW a
  PROVE  InLine(Append(q, req), a) = InLine(q, a) \cup Here(<<"queue", Len(q) + 1>>, a, {req.asker})
<1> DEFINE r == Append(q, req)
           n == Len(q) + 1
<1>1. r[n] = req /\ DOMAIN r = DOMAIN q \cup {n} /\ \A i \in DOMAIN q : r[i] = q[i]
  OBVIOUS
<1> HIDE DEF r, n
<1>2. ASSUME a = req.asker PROVE InLine(r, a) = InLine(q, a) \cup {<<"queue", n>>}
  BY <1>1, <1>2 DEF InLine
<1>3. ASSUME a # req.asker PROVE InLine(r, a) = InLine(q, a)
  BY <1>1, <1>3 DEF InLine
<1> QED BY <1>2, <1>3 DEF Here, r, n

LEMMA TurnedMore ==
  ASSUME NEW t, NEW req, NEW a
  PROVE  Turned(t \cup {req}, a) = Turned(t, a) \cup Here(<<"refused", req>>, a, {req.asker})
<1>1. ASSUME a = req.asker PROVE Turned(t \cup {req}, a) = Turned(t, a) \cup {<<"refused", req>>}
  BY <1>1 DEF Turned
<1>2. ASSUME a # req.asker PROVE Turned(t \cup {req}, a) = Turned(t, a)
  BY <1>2 DEF Turned
<1> QED BY <1>1, <1>2 DEF Here

LEMMA TurnedLess ==
  ASSUME NEW t, NEW req, NEW a
  PROVE  Turned(t \ {req}, a) = Turned(t, a) \ {<<"refused", req>>}
BY DEF Turned

LEMMA JoinedMore ==
  ASSUME NEW J, NEW x, NEW a
  PROVE  Joined(J \cup {x}, a) = Joined(J, a) \cup Here(<<"joined", x>>, a, {x})
<1>1. ASSUME a = x PROVE Joined(J \cup {x}, a) = Joined(J, a) \cup {<<"joined", x>>}
  BY <1>1 DEF Joined
<1>2. ASSUME a # x PROVE Joined(J \cup {x}, a) = Joined(J, a)
  BY <1>2 DEF Joined
<1> QED BY <1>1, <1>2 DEF Here

-----------------------------------------------------------------------------
LEMMA RefusedGains ==
  ASSUME NEW w, WriteOK(w), NEW req \in Requested, NEW J, NEW a, NEW m, m = Refused(w, req)
  PROVE  WriteOK(m) /\ m.inflight = w.inflight /\ m.queue = w.queue
         /\ Gains(WritePlaces(w, J, a), WritePlaces(m, J, a), a, {req.asker})
<1>1. PICK t : t = w.later \cup {req}
  OBVIOUS
<1>2. m = [w EXCEPT !.later = t]
  BY <1>1 DEF Refused
<1>3. m = Desk(w.inflight, w.queue, t)
  BY <1>2, DeskEdits
<1>4. /\ w.inflight = Nobody \/ w.inflight \in Requested
      /\ w.queue \in Seq(Queueable) /\ Len(w.queue) <= WriteMax /\ t \in SUBSET Requested
  BY <1>1 DEF WriteOK
<1>5. WriteOK(m) /\ m.inflight = w.inflight /\ m.queue = w.queue /\ m.later = t
  BY <1>3, <1>4, DeskMade
<1>6. Turned(t, a) = Turned(w.later, a) \cup Here(<<"refused", req>>, a, {req.asker})
  BY <1>1, TurnedMore
<1>7. WritePlaces(m, J, a) = WritePlaces(w, J, a) \cup Here(<<"refused", req>>, a, {req.asker})
  BY <1>5, <1>6 DEF WritePlaces
<1> QED BY <1>5, <1>7, Arrives

(* A change that has just been sent has changed nothing. *)
SentNow(w, m) == m.inflight = w.inflight \/ m.inflight.applied = Unseen

LEMMA SentGains ==
  ASSUME NEW w, WriteOK(w), w.inflight = Nobody, NEW req \in Requested, req.applied = Unseen, NEW J, NEW a \in Askers,
         NEW m, m = Desk(req, w.queue, w.later)
  PROVE  WriteOK(m) /\ SentNow(w, m) /\ Gains(WritePlaces(w, J, a), WritePlaces(m, J, a), a, {req.asker})
<1>1. w.queue \in Seq(Queueable) /\ Len(w.queue) <= WriteMax /\ w.later \in SUBSET Requested
  BY DEF WriteOK
<1>2. WriteOK(m) /\ m.inflight = req /\ m.queue = w.queue /\ m.later = w.later
  BY <1>1, DeskMade
<1>3. AtHelper(w.inflight, a) = {} /\ AtHelper(m.inflight, a) = Here(<<"flight", "helper">>, a, {req.asker})
  BY <1>2, HelperIs
<1>4. WritePlaces(m, J, a) = WritePlaces(w, J, a) \cup Here(<<"flight", "helper">>, a, {req.asker})
  BY <1>2, <1>3 DEF WritePlaces
<1> QED BY <1>2, <1>4, Arrives DEF SentNow

AtEnd(w, req) == RequestWrite(w, req, FALSE)

LEMMA RequestWriteGains ==
  ASSUME NEW w, WriteOK(w), NEW req \in Queueable, NEW J, NEW a \in Askers, NEW m, m = AtEnd(w, req)
  PROVE  WriteOK(m) /\ SentNow(w, m) /\ Gains(WritePlaces(w, J, a), WritePlaces(m, J, a), a, {req.asker})
<1>1. req \in Requested /\ req.applied = Unseen
  BY DEF Queueable
<1>2. CASE w.inflight = Nobody /\ w.queue = <<>>
  <2>1. m = [w EXCEPT !.inflight = req]
    BY <1>2 DEF AtEnd, RequestWrite
  <2>2. m = Desk(req, w.queue, w.later)
    BY <2>1, DeskEdits
  <2> QED BY <1>1, <1>2, <2>2, SentGains
<1>3. CASE ~(w.inflight = Nobody /\ w.queue = <<>>) /\ Len(w.queue) >= WriteMax
  <2>1. m = Refused(w, req)
    BY <1>3 DEF AtEnd, RequestWrite
  <2> QED BY <1>1, <2>1, RefusedGains DEF SentNow
<1>4. CASE ~(w.inflight = Nobody /\ w.queue = <<>>) /\ ~(Len(w.queue) >= WriteMax)
  <2>1. PICK q : q = Append(w.queue, req)
    OBVIOUS
  <2>2. m = [w EXCEPT !.queue = q]
    BY <1>4, <2>1 DEF AtEnd, RequestWrite
  <2>3. m = Desk(w.inflight, q, w.later)
    BY <2>2, DeskEdits
  <2>4. (w.inflight = Nobody \/ w.inflight \in Requested) /\ w.later \in SUBSET Requested /\ w.queue \in Seq(Queueable)
    BY DEF WriteOK
  <2>5. q \in Seq(Queueable) /\ Len(q) <= WriteMax
    BY <1>4, <2>1, <2>4, RequestsAssumption
  <2>6. WriteOK(m) /\ m.inflight = w.inflight /\ m.queue = q /\ m.later = w.later
    <3>1. m.inflight = w.inflight /\ m.queue = q /\ m.later = w.later /\ m = Desk(m.inflight, m.queue, m.later)
      BY <2>3, DeskParts
    <3>2. m.queue \in Seq(Queueable) /\ Len(m.queue) <= WriteMax
      BY <2>5, <3>1
    <3>3. (m.inflight = Nobody \/ m.inflight \in Requested) /\ m.later \in SUBSET Requested
      BY <2>4, <3>1
    <3>4. WriteOK(m)
      BY <3>1, <3>2, <3>3 DEF WriteOK
    <3> QED BY <3>1, <3>4
  <2>7. InLine(q, a) = InLine(w.queue, a) \cup Here(<<"queue", Len(w.queue) + 1>>, a, {req.asker})
    BY <2>1, <2>4, InLineMore
  <2>8. WritePlaces(m, J, a) = WritePlaces(w, J, a) \cup Here(<<"queue", Len(w.queue) + 1>>, a, {req.asker})
    BY <2>6, <2>7 DEF WritePlaces
  <2> QED BY <2>6, <2>8, Arrives DEF SentNow
<1> QED BY <1>2, <1>3, <1>4

LEMMA NextWriteGains ==
  ASSUME NEW w, WriteOK(w), NEW J, NEW a \in Askers, NEW m, m = NextWrite(w)
  PROVE  WriteOK(m) /\ SentNow(w, m) /\ Gains(WritePlaces(w, J, a), WritePlaces(m, J, a), a, {})
<1>1. CASE ~(w.inflight = Nobody /\ w.queue # <<>>)
  <2>1. m = w
    BY <1>1 DEF NextWrite
  <2> QED BY <2>1 DEF Gains, SentNow
<1>2. CASE w.inflight = Nobody /\ w.queue # <<>>
  <2>1. PICK h : h = Head(w.queue)
    OBVIOUS
  <2>2. PICK q : q = Tail(w.queue)
    OBVIOUS
  <2>3. m = [w EXCEPT !.inflight = h, !.queue = q]
    BY <1>2, <2>1, <2>2 DEF NextWrite
  <2>4. w = [inflight |-> w.inflight, queue |-> w.queue, later |-> w.later] /\ w.queue \in Seq(Queueable)
        /\ Len(w.queue) <= WriteMax /\ w.later \in SUBSET Requested
    BY DEF WriteOK, Desk
  <2>5. m = Desk(h, q, w.later)
    BY <2>3, <2>4 DEF Desk
  <2>6. h \in Requested /\ h.applied = Unseen /\ h = w.queue[1] /\ 1 \in DOMAIN w.queue
    BY <1>2, <2>1, <2>4 DEF Queueable
  <2>7. /\ q \in Seq(Queueable) /\ Len(q) <= WriteMax
        /\ \A i \in DOMAIN q : i \in Nat /\ i > 0 /\ i + 1 \in DOMAIN w.queue /\ q[i] = w.queue[i + 1]
        /\ \A i \in DOMAIN w.queue : i \in Nat /\ (i # 1 => i - 1 \in DOMAIN q /\ q[i - 1] = w.queue[i])
    BY <1>2, <2>2, <2>4, RequestsAssumption
  <2>8. WriteOK(m) /\ m.inflight = h /\ m.queue = q /\ m.later = w.later
    BY <2>4, <2>5, <2>6, <2>7, DeskMade
  <2> DEFINE S == WritePlaces(w, J, a)
             T == WritePlaces(m, J, a)
             O == Turned(w.later, a) \cup Joined(J, a)
  <2>9. S = InLine(w.queue, a) \cup O /\ T = AtHelper(h, a) \cup InLine(q, a) \cup O
    BY <1>2, <2>8, HelperIs DEF WritePlaces
  <2>10. AtHelper(h, a) # {} <=> <<"queue", 1>> \in InLine(w.queue, a)
    BY <2>6 DEF AtHelper, InLine
  <2>11. \A x \in AtHelper(h, a) : x = <<"flight", "helper">>
    BY DEF AtHelper
  <2>12. \A i : <<"queue", i>> \in InLine(q, a) => i \in Nat /\ i > 0 /\ <<"queue", i + 1>> \in InLine(w.queue, a)
    BY <2>7 DEF InLine
  <2>13. \A i : <<"queue", i>> \in InLine(w.queue, a) => i = 1 \/ <<"queue", i - 1>> \in InLine(q, a)
    BY <2>7 DEF InLine
  <2>14. /\ \A x \in InLine(q, a) : \E i : x = <<"queue", i>>
         /\ \A x \in InLine(w.queue, a) : \E i : x = <<"queue", i>>
    BY DEF InLine
  <2>15. \A i : <<"queue", i>> \notin O
    BY WritePlacesApart
  <2> HIDE DEF S, T, O
  <2>16. SUFFICES ASSUME Single(S) PROVE Single(T) /\ (T # {} <=> S # {})
    BY <2>6, <2>8 DEF Gains, SentNow, S, T
  <2>17. T # {} <=> S # {}
    <3>1. ASSUME T # {} PROVE S # {}
      BY <2>9, <2>10, <2>12, <2>14, <3>1
    <3>2. ASSUME S # {} PROVE T # {}
      BY <2>9, <2>10, <2>13, <2>14, <3>2
    <3> QED BY <3>1, <3>2
  <2>18. ASSUME NEW x \in T, NEW y \in T PROVE x = y
    <3>1. ASSUME NEW z \in AtHelper(h, a), NEW u \in T PROVE u = z
      <4>1. S = {<<"queue", 1>>}
        BY <2>9, <2>10, <2>16, <3>1 DEF Single
      <4>2. O = {}
        BY <2>9, <2>15, <4>1
      <4>3. InLine(q, a) = {}
        <5>1. ASSUME NEW v \in InLine(q, a) PROVE FALSE
          <6>1. PICK i : v = <<"queue", i>>
            BY <2>14
          <6>2. i \in Nat /\ i > 0 /\ <<"queue", i + 1>> \in S
            BY <2>9, <2>12, <6>1
          <6>3. i + 1 = 1
            BY <4>1, <6>2
          <6> QED BY <6>2, <6>3
        <5> QED BY <5>1
      <4> QED BY <2>9, <2>11, <3>1, <4>2, <4>3
    <3>2. ASSUME NEW i, NEW j, <<"queue", i>> \in InLine(q, a), <<"queue", j>> \in InLine(q, a) PROVE i = j
      <4>1. i \in Nat /\ j \in Nat /\ <<"queue", i + 1>> \in S /\ <<"queue", j + 1>> \in S
        BY <2>9, <2>12, <3>2
      <4>2. i + 1 = j + 1
        BY <2>16, <4>1 DEF Single
      <4> QED BY <4>1, <4>2
    <3>3. ASSUME NEW z \in InLine(q, a), NEW u \in O PROVE FALSE
      <4>1. PICK i : z = <<"queue", i>>
        BY <2>14
      <4>2. <<"queue", i + 1>> \in S /\ u \in S
        BY <2>9, <2>12, <3>3, <4>1
      <4>3. u = <<"queue", i + 1>>
        BY <2>16, <4>2 DEF Single
      <4> QED BY <2>15, <3>3, <4>3
    <3>4. CASE x \in AtHelper(h, a) \/ y \in AtHelper(h, a)
      BY <2>18, <3>1, <3>4
    <3>5. CASE x \in InLine(q, a) /\ y \in InLine(q, a)
      BY <2>14, <3>2, <3>5
    <3>6. CASE x \in O /\ y \in O
      BY <2>9, <2>16, <3>6 DEF Single
    <3> QED BY <2>9, <2>18, <3>3, <3>4, <3>5, <3>6
  <2> QED BY <2>17, <2>18 DEF Single
<1> QED BY <1>1, <1>2

(* The arm that follows a save starts, or is refused. *)
LEMMA ArmGains ==
  ASSUME NEW w, WriteOK(w), w.inflight = Nobody, NEW req \in Requested, req.applied = Unseen, NEW J, NEW a \in Askers,
         NEW m, m = NextWrite(RequestWrite(w, req, TRUE))
  PROVE  WriteOK(m) /\ SentNow(w, m) /\ Gains(WritePlaces(w, J, a), WritePlaces(m, J, a), a, {req.asker})
<1>1. PICK n : n = RequestWrite(w, req, TRUE)
  OBVIOUS
<1>2. req # Nobody
  BY RequestedIs
<1>3. CASE w.queue = <<>>
  <2>1. n = [w EXCEPT !.inflight = req]
    BY <1>1, <1>3 DEF RequestWrite
  <2>2. n = Desk(req, w.queue, w.later)
    BY <2>1, DeskEdits
  <2>3. n.inflight = req
    BY <2>2, DeskParts
  <2>4. m = n
    BY <1>1, <1>2, <2>3 DEF NextWrite
  <2> QED BY <2>2, <2>4, SentGains
<1>4. CASE w.queue # <<>> /\ Len(w.queue) >= WriteMax
  <2>1. n = Refused(w, req)
    BY <1>1, <1>4 DEF RequestWrite
  <2>2. WriteOK(n) /\ n.inflight = w.inflight /\ Gains(WritePlaces(w, J, a), WritePlaces(n, J, a), a, {req.asker})
    BY <2>1, RefusedGains
  <2>3. WriteOK(m) /\ SentNow(n, m) /\ Gains(WritePlaces(n, J, a), WritePlaces(m, J, a), a, {})
    BY <1>1, <2>2, NextWriteGains
  <2> QED BY <2>2, <2>3 DEF Gains, SentNow
<1>5. CASE w.queue # <<>> /\ ~(Len(w.queue) >= WriteMax)
  <2>1. PICK q : q = <<req>> \o w.queue
    OBVIOUS
  <2>2. n = [w EXCEPT !.queue = q]
    BY <1>1, <1>5, <2>1 DEF RequestWrite
  <2>3. n = Desk(w.inflight, q, w.later)
    BY <2>2, DeskEdits
  <2>4. n.inflight = Nobody /\ n.queue = q /\ n.later = w.later
    BY <2>3, DeskParts
  <2>5. w.queue \in Seq(Queueable)
    BY DEF WriteOK
  <2>6. q # <<>> /\ Head(q) = req /\ Tail(q) = w.queue
    BY <2>1, <2>5
  <2>7. m = [n EXCEPT !.inflight = req, !.queue = w.queue]
    BY <1>1, <2>4, <2>6 DEF NextWrite
  <2>8. m = Desk(req, w.queue, w.later)
    BY <2>3, <2>4, <2>7 DEF Desk
  <2> QED BY <2>8, SentGains
<1> QED BY <1>3, <1>4, <1>5

-----------------------------------------------------------------------------
(* The invariants of the changes, for joiners J and askers A. *)
Holding(w, J, A, a, gone) ==
  /\ Single(WritePlaces(w, J, a))
  /\ WritePlaces(w, J, a) # {} <=> A[a].state = "waiting" /\ Change[a] # "read" /\ a \notin gone
Writers(w, J, A) == \A a \in Askers : Holding(w, J, A, a, {})

(* All but the asker of a request that is being answered. *)
Yields(w, J, A, req) == \A a \in Askers : Holding(w, J, A, a, {req.asker})

Reconcilers == {a \in Askers : Change[a] = "reconcile"}

LEMMA WaitsToChange ==
  ASSUME NEW w, NEW J \in SUBSET Reconcilers, NEW A, Writers(w, J, A), NEW a \in Askers, NEW x \in WritePlaces(w, J, a)
  PROVE  A[a].state = "waiting" /\ Change[a] # "read" /\ WritePlaces(w, J, a) = {x}
<1>1. Single(WritePlaces(w, J, a)) /\ A[a].state = "waiting" /\ Change[a] # "read"
  BY DEF Writers, Holding
<1>2. WritePlaces(w, J, a) = {x}
  BY <1>1 DEF Single
<1> QED BY <1>1, <1>2

(* A request has left its place at the desk. *)
Frees(w, w2, J, req, here) ==
  \A a \in Askers : /\ here \in WritePlaces(w, J, a) <=> a = req.asker
                    /\ WritePlaces(w2, J, a) = WritePlaces(w, J, a) \ {here}

LEMMA PlaceLeft ==
  ASSUME NEW w, NEW w2, NEW J \in SUBSET Reconcilers, NEW A, Writers(w, J, A), NEW req \in Requested, NEW here,
         Frees(w, w2, J, req, here)
  PROVE  Yields(w2, J, A, req) /\ A[req.asker].state = "waiting"
<1>1. req.asker \in Askers
  BY RequestedIs
<1>2. \A a \in Askers : /\ here \in WritePlaces(w, J, a) <=> a = req.asker
                        /\ WritePlaces(w2, J, a) = WritePlaces(w, J, a) \ {here}
  BY DEF Frees
<1>3. ASSUME NEW a \in Askers PROVE Holding(w2, J, A, a, {req.asker})
  <2>1. Single(WritePlaces(w, J, a)) /\ (WritePlaces(w, J, a) # {} <=> A[a].state = "waiting" /\ Change[a] # "read")
    BY DEF Writers, Holding
  <2>2. CASE a = req.asker
    <3>1. WritePlaces(w, J, a) = {here}
      BY <1>2, <2>2, WaitsToChange
    <3>2. WritePlaces(w2, J, a) = {}
      BY <1>2, <3>1
    <3> QED BY <2>2, <3>2 DEF Holding, Single
  <2>3. CASE a # req.asker
    <3>1. WritePlaces(w2, J, a) = WritePlaces(w, J, a)
      BY <1>2, <2>3
    <3> QED BY <2>1, <2>3, <3>1 DEF Holding
  <2> QED BY <2>2, <2>3
<1>4. A[req.asker].state = "waiting"
  BY <1>2, <1>1, WaitsToChange
<1> QED BY <1>3, <1>4 DEF Yields

LEMMA HelperLeft ==
  ASSUME NEW w, WriteOK(w), w.inflight # Nobody, NEW J \in SUBSET Reconcilers, NEW A, Writers(w, J, A),
         NEW m, m = Desk(Nobody, w.queue, w.later)
  PROVE  /\ WriteOK(m) /\ m.inflight = Nobody /\ w.inflight \in Requested
         /\ Yields(m, J, A, w.inflight) /\ A[w.inflight.asker].state = "waiting"
<1> DEFINE here == <<"flight", "helper">>
<1>1. /\ w.inflight \in Requested /\ w.queue \in Seq(Queueable) /\ Len(w.queue) <= WriteMax
      /\ w.later \in SUBSET Requested
  BY DEF WriteOK
<1>2. WriteOK(m) /\ m.inflight = Nobody /\ m.queue = w.queue /\ m.later = w.later
  BY <1>1, DeskMade
<1>3. ASSUME NEW a \in Askers
      PROVE  /\ here \in WritePlaces(w, J, a) <=> a = w.inflight.asker
             /\ WritePlaces(m, J, a) = WritePlaces(w, J, a) \ {here}
  <2> DEFINE O == InLine(w.queue, a) \cup Turned(w.later, a) \cup Joined(J, a)
  <2>1. here \notin O
    BY WritePlacesApart
  <2>2. WritePlaces(m, J, a) = O
    BY <1>2, HelperIs DEF WritePlaces
  <2>3. WritePlaces(w, J, a) = AtHelper(w.inflight, a) \cup O
    BY DEF WritePlaces
  <2> HIDE DEF O
  <2> QED BY <2>1, <2>2, <2>3 DEF AtHelper
<1> HIDE DEF here
<1>4. Yields(m, J, A, w.inflight) /\ A[w.inflight.asker].state = "waiting"
  <2>1. PICK req : req = w.inflight
    OBVIOUS
  <2>2. Frees(w, m, J, req, here)
    BY <1>3, <2>1 DEF Frees
  <2> QED BY <1>1, <2>1, <2>2, PlaceLeft
<1> QED BY <1>1, <1>2, <1>4

LEMMA RefusalLeft ==
  ASSUME NEW w, WriteOK(w), NEW J \in SUBSET Reconcilers, NEW A, Writers(w, J, A), NEW req \in w.later,
         NEW m, m = Desk(w.inflight, w.queue, w.later \ {req})
  PROVE  WriteOK(m) /\ req \in Requested /\ Yields(m, J, A, req) /\ A[req.asker].state = "waiting"
<1> DEFINE here == <<"refused", req>>
<1>1. /\ w.inflight = Nobody \/ w.inflight \in Requested
      /\ w.queue \in Seq(Queueable) /\ Len(w.queue) <= WriteMax
      /\ w.later \in SUBSET Requested /\ w.later \ {req} \in SUBSET Requested
  BY DEF WriteOK
<1>2. WriteOK(m) /\ m.inflight = w.inflight /\ m.queue = w.queue /\ m.later = w.later \ {req}
  <2>1. PICK t : t = w.later \ {req}
    OBVIOUS
  <2>2. t \in SUBSET Requested /\ m = Desk(w.inflight, w.queue, t)
    BY <1>1, <2>1
  <2>3. WriteOK(m) /\ m.inflight = w.inflight /\ m.queue = w.queue /\ m.later = t
    BY <1>1, <2>2, DeskMade
  <2> QED BY <2>1, <2>3
<1>3. req \in Requested
  BY <1>1
<1>4. ASSUME NEW a \in Askers
      PROVE  /\ here \in WritePlaces(w, J, a) <=> a = req.asker
             /\ WritePlaces(m, J, a) = WritePlaces(w, J, a) \ {here}
  <2> DEFINE O == AtHelper(w.inflight, a) \cup InLine(w.queue, a) \cup Joined(J, a)
  <2>1. here \notin O
    BY WritePlacesApart
  <2>2. WritePlaces(m, J, a) = O \cup (Turned(w.later, a) \ {here})
    <3>1. Turned(m.later, a) = Turned(w.later, a) \ {here}
      BY <1>2, TurnedLess
    <3> QED BY <1>2, <3>1 DEF WritePlaces
  <2>3. WritePlaces(w, J, a) = O \cup Turned(w.later, a)
    BY DEF WritePlaces
  <2>4. here \in Turned(w.later, a) <=> a = req.asker
    BY DEF Turned
  <2> HIDE DEF O, here
  <2> QED BY <2>1, <2>2, <2>3, <2>4
<1> HIDE DEF here
<1>5. Yields(m, J, A, req) /\ A[req.asker].state = "waiting"
  <2>1. Frees(w, m, J, req, here)
    BY <1>4 DEF Frees
  <2> QED BY <1>3, <2>1, PlaceLeft
<1> QED BY <1>2, <1>3, <1>5

NoneOrAll(J, all) == all = {} \/ all = J

LEMMA JoinersLeft ==
  ASSUME NEW w, NEW J, NEW A, NEW req, Yields(w, J, A, req), NEW all, NoneOrAll(J, all), NEW a \in Askers,
         NEW K, K = J \ all
  PROVE  /\ Single(WritePlaces(w, K, a))
         /\ WritePlaces(w, K, a) # {} <=> A[a].state = "waiting" /\ Change[a] # "read" /\ a # req.asker /\ a \notin all
         /\ a \in all => a # req.asker /\ A[a].state = "waiting"
<1>1. Holding(w, J, A, a, {req.asker})
  BY DEF Yields
<1> DEFINE O == AtHelper(w.inflight, a) \cup InLine(w.queue, a) \cup Turned(w.later, a)
           here == <<"joined", a>>
<1>2. here \notin O
  BY WritePlacesApart
<1>3. WritePlaces(w, J, a) = O \cup Joined(J, a) /\ WritePlaces(w, K, a) = O \cup Joined(K, a)
  BY DEF WritePlaces
<1>4. \A L : (a \in L => Joined(L, a) = {here}) /\ (a \notin L => Joined(L, a) = {})
  BY DEF Joined
<1> HIDE DEF O, here
<1>5. CASE a \notin all
  <2>1. a \in K <=> a \in J
    BY <1>5 DEF NoneOrAll
  <2>2. WritePlaces(w, K, a) = WritePlaces(w, J, a)
    BY <1>3, <1>4, <2>1
  <2> QED BY <1>1, <1>5, <2>2 DEF Holding
<1>6. CASE a \in all
  <2>1. a \in J /\ a \notin K
    BY <1>6 DEF NoneOrAll
  <2>2. here \in WritePlaces(w, J, a)
    BY <1>3, <1>4, <2>1
  <2>3. O = {}
    BY <1>1, <1>2, <1>3, <2>2 DEF Holding, Single
  <2>4. WritePlaces(w, K, a) = {}
    BY <1>3, <1>4, <2>1, <2>3
  <2>5. a # req.asker /\ A[a].state = "waiting"
    BY <1>1, <2>2 DEF Holding
  <2> QED BY <1>6, <2>4, <2>5 DEF Holding, Single
<1> QED BY <1>5, <1>6

(* The changes of w become those of m: the asker of more, if any, gets a place. *)
Passes(w, K, m, more) == \A a \in Askers : Gains(WritePlaces(w, K, a), WritePlaces(m, K, a), a, more)
Changers(who) == who \in SUBSET Askers /\ \A a \in who : Change[a] # "read"

Addressed(all, req, more) == all \cup ({req.asker} \ more)
AskerOrNone(req, more) == more = {} \/ more = {req.asker}
Left(J, all) == J \ all

LEMMA WritersAnswered ==
  ASSUME NEW w, NEW J \in SUBSET Reconcilers, NEW A \in [Askers -> Records], NEW req \in Requested, Yields(w, J, A, req),
         A[req.asker].state = "waiting", NEW all, NoneOrAll(J, all), NEW K, K = Left(J, all), NEW more, AskerOrNone(req, more),
         NEW w2, Passes(w, K, w2, more),
         NEW saw \in Nat, NEW who, who = Addressed(all, req, more), NEW B, B = Delivered(A, who, saw)
  PROVE  Writers(w2, K, B) /\ Changers(who)
<1>1. K = J \ all /\ who = all \cup ({req.asker} \ more) /\ (more = {} \/ more = {req.asker})
  BY DEF Left, Addressed, AskerOrNone
<1>2. /\ \A a \in Askers : a \in who => B[a].state = "answered"
      /\ \A a \in Askers : a \notin who => B[a] = A[a]
  BY DeliveredIs
<1>3. req.asker \in Askers /\ Change[req.asker] # "read"
  BY RequestedIs
<1>4. ASSUME NEW a \in Askers PROVE Holding(w2, K, B, a, {})
  <2> DEFINE S == WritePlaces(w, K, a)
             T == WritePlaces(w2, K, a)
  <2>1. /\ Single(S) /\ (S # {} <=> A[a].state = "waiting" /\ Change[a] # "read" /\ a # req.asker /\ a \notin all)
        /\ a \in all => a # req.asker
    BY <1>1, JoinersLeft
  <2>2. Gains(S, T, a, more)
    BY DEF Passes
  <2> HIDE DEF S, T
  <2>3. Single(T) /\ (T # {} <=> S # {} \/ a \in more)
    BY <1>1, <2>1, <2>2 DEF Gains
  <2>4. Single(T) /\ (T # {} <=> B[a].state = "waiting" /\ Change[a] # "read")
    <3>1. CASE a \in who
      BY <1>1, <1>2, <2>1, <2>3, <3>1
    <3>2. CASE a \notin who
      BY <1>1, <1>2, <1>3, <2>1, <2>3, <3>2
    <3> QED BY <3>1, <3>2
  <2> QED BY <2>4 DEF Holding, T
<1>5. who \in SUBSET Askers /\ \A a \in who : Change[a] # "read"
  BY <1>1, <1>3 DEF Reconcilers, NoneOrAll
<1> QED BY <1>4, <1>5 DEF Writers, Changers

(* What a change that is answered does to the lane: nothing, or the list is read once more. *)
Rereads(l, m, saw, who) ==
  \/ m = Refreshed(l)
  \/ m = l /\ (saw = Unseen \/ \A a \in who : Change[a] = "settings-set")

LEMMA ChangeAnswered ==
  ASSUME NEW l, LaneOK(l), NEW A \in [Askers -> Records], Readers(l, A), NEW v \in Nat, Fresh(l, A, v),
         NEW mir \in Mirrorings, Shown(l, A, mir, v),
         NEW who, Changers(who), NEW saw \in Nat, saw <= v,
         NEW m, Rereads(l, m, saw, who),
         NEW B, B = Delivered(A, who, saw)
  PROVE  LaneOK(m) /\ Readers(m, B) /\ Fresh(m, B, v) /\ Shown(m, B, mir, v)
<1>1. who \in SUBSET Askers /\ (\A a \in who : Change[a] # "read") /\ (m = l \/ m = Refreshed(l))
  BY DEF Changers, Rereads
<1>2. /\ \A a \in Askers : a \in who => B[a].saw = saw
      /\ \A a \in Askers : a \notin who => B[a] = A[a]
  BY DeliveredIs
<1>3. Readers(l, B)
  <2>1. /\ \A a \in Askers : a \in who => B[a].state = "answered"
        /\ \A a \in Askers : a \notin who => B[a] = A[a]
    BY DeliveredIs
  <2> QED BY <1>1, <2>1 DEF Readers
<1>4. Fresh(l, B, v)
  <2>1. \A y \in Running(l) : (y \in Running(l) /\ l.inflight[y] = l.inflight[y]) \/ l.inflight[y].saw = Unseen
    OBVIOUS
  <2>2. saw # Unseen => \A a \in Askers : a \in who /\ Change[a] = "read" => A[a].since <= saw
    BY <1>1
  <2> QED BY <2>1, <2>2, FreshAnswered
<1>5. m # l => LaneOK(m) /\ LaneKeeps(l, m) /\ Carries(l, m)
  <2>1. "list" \in ReadKeys
    BY RequestsAssumption
  <2> QED BY <1>1, <2>1, RefreshKeeps DEF Refreshed, LaneKeeps
<1>6. LaneOK(m) /\ Readers(m, B) /\ Fresh(m, B, v)
  <2>1. CASE m = l
    BY <1>3, <1>4, <2>1
  <2>2. CASE m # l
    BY <1>3, <1>4, <1>5, <2>2, ReadersOn, FreshOn
  <2> QED BY <2>1, <2>2
<1>7. Shown(m, A, mir, v)
  <2>1. CASE m = l
    BY <2>1
  <2>2. CASE m # l
    BY <1>5, <2>2, ShownOn DEF LaneOK
  <2> QED BY <2>1, <2>2
<1>8. ASSUME NEW a \in Askers PROVE B[a].saw <= v /\ (Knows(B, a) => Covers(m, B[a].saw) /\ ShowsUp(m, mir, B[a].saw))
  <2>1. CASE a \notin who
    <3>1. B[a] = A[a]
      BY <1>2, <2>1
    <3> QED BY <1>7, <3>1 DEF Shown, Knows
  <2>2. CASE a \in who
    <3>1. B[a].saw = saw
      BY <1>2, <2>2
    <3>2. ASSUME Knows(B, a) PROVE Covers(m, B[a].saw) /\ ShowsUp(m, mir, B[a].saw)
      <4>1. m = Refreshed(l)
        BY <2>2, <3>1, <3>2 DEF Knows, Rereads
      <4> QED BY <4>1, RefreshShows
    <3> QED BY <3>1, <3>2
  <2> QED BY <2>1, <2>2
<1>9. Shown(m, B, mir, v)
  BY <1>8 DEF Shown
<1> QED BY <1>6, <1>9

(* Who is told that a change ended may see it on the list that is read once more. *)
LEMMA ToldIsSeen ==
  ASSUME NEW req \in Requested, NEW J \in SUBSET Reconcilers, NEW all, all = (IF req.verb = "reconcile" THEN J ELSE {}),
         NEW who, who \subseteq all \cup {req.asker}
  PROVE  Mutates(req.verb) \/ \A a \in who : Change[a] = "settings-set"
<1>1. SUFFICES ASSUME ~Mutates(req.verb) PROVE \A a \in who : Change[a] = "settings-set"
  OBVIOUS
<1>2. req.verb = "settings-set"
  BY <1>1 DEF Mutates
<1>3. all = {}
  BY <1>2
<1>4. req.verb \in {FirstVerb(Change[req.asker]), "arm"} /\ req.asker \in Askers
  BY RequestedIs
<1>5. FirstVerb(Change[req.asker]) = "settings-set"
  BY <1>2, <1>4
<1>6. Change[req.asker] = "settings-set"
  BY <1>5 DEF FirstVerb
<1> QED BY <1>3, <1>6

-----------------------------------------------------------------------------
(* The inductive invariant. *)
RequestsInv ==
  /\ version \in Nat \ {0}
  /\ LaneOK(lane)
  /\ WriteOK(write) /\ write.inflight.applied \in Nat /\ write.inflight.applied <= version
  /\ joiners \in SUBSET Reconcilers
  /\ mirror \in Mirrorings
  /\ asks \in [Askers -> Records]
  /\ budget \in [Bounds -> Nat]
  /\ Readers(lane, asks)
  /\ Writers(write, joiners, asks)
  /\ Fresh(lane, asks, version)
  /\ Shown(lane, asks, mirror, version)

LEMMA RequestsInvHoldsAtFirst == Init => RequestsInv
<1>1. SUFFICES ASSUME Init PROVE RequestsInv
  OBVIOUS
<1>2. PICK crowd \in Crowds :
        /\ asks = [a \in Askers |-> [state |-> IF a \in crowd THEN "idle" ELSE "absent",
                                    since |-> Unseen, saw |-> Unseen]]
        /\ budget = Budget[crowd]
  BY <1>1 DEF Init
<1>3. version = 1 /\ joiners = {} /\ mirror = [shows |-> Unseen, failed |-> FALSE]
  BY <1>1 DEF Init
<1>4. asks \in [Askers -> Records] /\ \A a \in Askers : asks[a].state # "waiting" /\ asks[a].since = Unseen /\ asks[a].saw = Unseen
  BY <1>2 DEF Records, Unseen
<1>5. lane.inflight = <<>> /\ lane.pending = <<>> /\ lane.wait = <<>> /\ lane.later = {} /\ Whole(lane)
  BY <1>1 DEF Init, Whole, Lane
<1>6. DOMAIN <<>> = {} /\ <<>> \in Seq(Entries) /\ Len(<<>>) = 0 /\ \A S : <<>> \in [{} -> S]
  OBVIOUS
<1>7. LaneOK(lane) /\ Running(lane) = {}
  <2>1. AreFlights(<<>>) /\ ArePending(<<>>)
    BY <1>6 DEF AreFlights, ArePending
  <2>2. LaneType(lane)
    BY <1>5, <1>6, <2>1 DEF LaneType
  <2>3. Running(lane) = {}
    BY <1>5, <1>6 DEF Running
  <2>4. Few(lane, ReadMax + 1)
    BY <2>3, FS_EmptySet, MaxIs DEF Few
  <2> QED BY <1>5, <1>6, <2>2, <2>3, <2>4, MaxIs DEF LaneOK
<1>8. write.inflight = Nobody /\ write.queue = <<>> /\ write.later = {} /\ write = Desk(Nobody, <<>>, {})
  BY <1>1 DEF Init, Desk
<1>9. WriteOK(write)
  <2>1. <<>> \in Seq(Queueable) /\ Len(<<>>) <= WriteMax
    BY RequestsAssumption
  <2> QED BY <1>8, <2>1 DEF WriteOK
<1>10. write.inflight.applied = Unseen
  BY <1>8 DEF Nobody
<1>11. Readers(lane, asks)
  <2>1. \A a : LanePlaces(lane, a) = {}
    BY <1>5, <1>6 DEF LanePlaces, Reading, Again, Queued, Dismissed
  <2> QED BY <1>4, <2>1 DEF Readers, Single
<1>12. Writers(write, joiners, asks)
  <2>1. ASSUME NEW a \in Askers PROVE WritePlaces(write, joiners, a) = {}
    <3>1. AtHelper(write.inflight, a) = {}
      BY <1>8, HelperIs
    <3>2. InLine(write.queue, a) = {} /\ Turned(write.later, a) = {} /\ Joined(joiners, a) = {}
      BY <1>3, <1>6, <1>8 DEF InLine, Turned, Joined
    <3> QED BY <3>1, <3>2 DEF WritePlaces
  <2> QED BY <1>4, <2>1 DEF Writers, Holding, Single
<1>13. Fresh(lane, asks, version)
  BY <1>3, <1>4, <1>7 DEF Fresh, Unseen
<1>14. Shown(lane, asks, mirror, version)
  BY <1>3, <1>4 DEF Shown, Knows, Unseen
<1>15. budget \in [Bounds -> Nat]
  BY <1>2, RequestsAssumption
<1>16. version \in Nat \ {0} /\ joiners \in SUBSET Reconcilers /\ mirror \in Mirrorings
       /\ write.inflight.applied \in Nat /\ write.inflight.applied <= version
  BY <1>3, <1>10 DEF Mirrorings, Unseen
<1> QED BY <1>4, <1>7, <1>9, <1>11, <1>12, <1>13, <1>14, <1>15, <1>16 DEF RequestsInv

Parts(v, l, w, J, mir, A, left) ==
  /\ v \in Nat \ {0} /\ LaneOK(l)
  /\ WriteOK(w) /\ w.inflight.applied \in Nat /\ w.inflight.applied <= v
  /\ J \in SUBSET Reconcilers /\ mir \in Mirrorings
  /\ A \in [Askers -> Records] /\ left \in [Bounds -> Nat]
Meets(v, l, w, J, mir, A) ==
  Readers(l, A) /\ Writers(w, J, A) /\ Fresh(l, A, v) /\ Shown(l, A, mir, v)

LEMMA InvNext ==
  ASSUME Parts(version', lane', write', joiners', mirror', asks', budget'),
         Meets(version', lane', write', joiners', mirror', asks')
  PROVE  RequestsInv'
BY DEF Parts, Meets, RequestsInv

LEMMA Spent ==
  ASSUME NEW b \in Bounds, budget \in [Bounds -> Nat], Spend(b)
  PROVE  budget' \in [Bounds -> Nat]
BY DEF Spend

LEMMA AsksReadStep == ASSUME RequestsInv, NEW a \in Askers, NEW k \in ReadKeys, AsksRead(a, k) PROVE RequestsInv'
<1>1. /\ Parts(version, lane, write, joiners, mirror, asks, budget)
      /\ Meets(version, lane, write, joiners, mirror, asks)
  BY DEF RequestsInv, Parts, Meets
<1>2. /\ Change[a] = "read" /\ asks[a].state = "idle"
      /\ asks' = Asking(asks, a, version)
      /\ lane' = RequestRead(lane, k, {a})
      /\ UNCHANGED <<version, write, joiners, mirror, budget>>
  BY DEF AsksRead, Asks, Asking
<1>3. LaneOK(lane') /\ Readers(lane', asks') /\ Fresh(lane', asks', version) /\ Shown(lane', asks', mirror, version)
  BY <1>1, <1>2, AsksReadKeeps DEF Parts, Meets
<1>4. asks' \in [Askers -> Records] /\ asks'[a].state = "waiting" /\ \A b \in Askers : b # a => asks'[b] = asks[b]
  BY <1>1, <1>2, AskingIs DEF Parts
<1>5. Writers(write, joiners, asks')
  BY <1>1, <1>2, <1>4 DEF Meets, Writers, Holding
<1>6. Parts(version', lane', write', joiners', mirror', asks', budget')
  BY <1>1, <1>2, <1>3, <1>4 DEF Parts
<1>7. Meets(version', lane', write', joiners', mirror', asks')
  BY <1>2, <1>3, <1>5 DEF Meets
<1> QED BY <1>6, <1>7, InvNext

LEMMA RefreshesStep == ASSUME RequestsInv, Refreshes PROVE RequestsInv'
<1>1. /\ Parts(version, lane, write, joiners, mirror, asks, budget)
      /\ Meets(version, lane, write, joiners, mirror, asks)
  BY DEF RequestsInv, Parts, Meets
<1>2. lane' = RequestRead(lane, "list", {}) /\ UNCHANGED <<version, write, joiners, mirror, asks>>
  BY DEF Refreshes, Refreshed
<1>3. budget' \in [Bounds -> Nat]
  BY <1>1, Spent DEF Refreshes, Parts, Bounds
<1>4. LaneKeeps(lane, lane')
  BY <1>1, <1>2, RefreshKeeps, RequestsAssumption DEF Parts
<1>5. LaneOK(lane) /\ LaneOK(lane') /\ LaneType(lane) /\ LaneType(lane') /\ Carries(lane, lane')
  BY <1>1, <1>4 DEF Parts, LaneKeeps, LaneOK
<1>6. Readers(lane', asks) /\ Fresh(lane', asks, version) /\ Shown(lane', asks, mirror, version)
  BY <1>1, <1>4, <1>5, ReadersOn, FreshOn, ShownOn DEF Meets
<1>7. Parts(version', lane', write', joiners', mirror', asks', budget')
  BY <1>1, <1>2, <1>3, <1>5 DEF Parts
<1>8. Meets(version', lane', write', joiners', mirror', asks')
  BY <1>1, <1>2, <1>6 DEF Meets
<1> QED BY <1>7, <1>8, InvNext

LEMMA HelperReadsStep == ASSUME RequestsInv, NEW k \in ReadKeys, HelperReads(k) PROVE RequestsInv'
<1>1. /\ Parts(version, lane, write, joiners, mirror, asks, budget)
      /\ Meets(version, lane, write, joiners, mirror, asks)
  BY DEF RequestsInv, Parts, Meets
<1>2. /\ k \in Running(lane) /\ lane.inflight[k].saw = Unseen
      /\ lane' = ReadNow(lane, k, version)
      /\ UNCHANGED <<version, write, joiners, mirror, asks, budget>>
  BY DEF HelperReads, ReadNow
<1>3. LaneOK(lane') /\ Readers(lane', asks) /\ Fresh(lane', asks, version) /\ Shown(lane', asks, mirror, version)
  BY <1>1, <1>2, HelperReadsKeeps DEF Parts, Meets
<1>4. Parts(version', lane', write', joiners', mirror', asks', budget')
  BY <1>1, <1>2, <1>3 DEF Parts
<1>5. Meets(version', lane', write', joiners', mirror', asks')
  BY <1>1, <1>2, <1>3 DEF Meets
<1> QED BY <1>4, <1>5, InvNext

LEMMA WritersReadOn ==
  ASSUME NEW w, NEW J, NEW A \in [Askers -> Records], Writers(w, J, A),
         NEW who, \A a \in who : Change[a] = "read", NEW saw \in Nat, NEW B, B = Delivered(A, who, saw)
  PROVE  Writers(w, J, B)
<1>1. \A a \in Askers : a \notin who => B[a] = A[a]
  BY DeliveredIs
<1>2. ASSUME NEW a \in Askers PROVE Holding(w, J, B, a, {})
  <2>1. Holding(w, J, A, a, {})
    BY DEF Writers
  <2>2. CASE a \in who
    BY <2>1, <2>2 DEF Holding
  <2>3. CASE a \notin who
    BY <1>1, <2>1, <2>3 DEF Holding
  <2> QED BY <2>2, <2>3
<1> QED BY <1>2 DEF Writers

LEMMA AnswersLaterStep == ASSUME RequestsInv, NEW told, AnswersLater(told) PROVE RequestsInv'
<1>1. /\ Parts(version, lane, write, joiners, mirror, asks, budget)
      /\ Meets(version, lane, write, joiners, mirror, asks)
  BY DEF RequestsInv, Parts, Meets
<1>2. /\ told \in lane.later
      /\ lane' = [lane EXCEPT !.later = lane.later \ {told}]
      /\ asks' = Delivered(asks, told.askers, Unseen)
      /\ mirror' = Mirrors(told.key, Unseen, mirror)
      /\ UNCHANGED <<version, write, joiners, budget>>
  BY DEF AnswersLater, Deliver, Delivered, Mirrored, Mirrors
<1>3. LaneOK(lane') /\ Readers(lane', asks') /\ Fresh(lane', asks', version) /\ Shown(lane', asks', mirror', version)
  BY <1>1, <1>2, AnswersLaterKeeps DEF Parts, Meets
<1>4. Unseen \in Nat
  BY DEF Unseen
<1>5. asks' \in [Askers -> Records] /\ mirror' \in Mirrorings
  BY <1>1, <1>2, <1>4, DeliveredIs, MirrorsIs DEF Parts
<1>6. told.askers \in SUBSET Askers
  <2>1. told \in Entries
    BY <1>1, <1>2 DEF Parts, LaneOK, LaneType
  <2> QED BY <2>1, EntriesHave
<1>7. ASSUME NEW a \in told.askers PROVE Change[a] = "read"
  <2>1. a \in Askers /\ told \in lane.later /\ Readers(lane, asks)
    BY <1>1, <1>2, <1>6 DEF Meets
  <2>2. <<"later", told>> \in LanePlaces(lane, a)
    BY <2>1 DEF LanePlaces, Dismissed
  <2> QED BY <2>1, <2>2 DEF Readers
<1>8. Writers(write, joiners, asks')
  BY <1>1, <1>2, <1>4, <1>7, WritersReadOn DEF Parts, Meets
<1>9. Parts(version', lane', write', joiners', mirror', asks', budget')
  BY <1>1, <1>2, <1>3, <1>5 DEF Parts
<1>10. Meets(version', lane', write', joiners', mirror', asks')
  BY <1>2, <1>3, <1>8 DEF Meets
<1> QED BY <1>9, <1>10, InvNext

LEMMA ReadAnswersStep == ASSUME RequestsInv, NEW k \in ReadKeys, ReadAnswers(k) PROVE RequestsInv'
<1>1. /\ Parts(version, lane, write, joiners, mirror, asks, budget)
      /\ Meets(version, lane, write, joiners, mirror, asks)
  BY DEF RequestsInv, Parts, Meets
<1>2. k \in Running(lane) /\ UNCHANGED <<version, write, joiners>>
  BY DEF ReadAnswers
<1>3. PICK saw \in {Unseen, lane.inflight[k].saw} : ReadEnds(k, saw) /\ (UNCHANGED budget \/ Spend("failures"))
  BY DEF ReadAnswers
<1>4. PICK told \in {Unseen, saw} : asks' = Delivered(asks, lane.inflight[k].askers, told)
  BY <1>3 DEF ReadEnds, Deliver, Delivered
<1>5. mirror' = Mirrors(k, saw, mirror)
  BY <1>3 DEF ReadEnds, Mirrored, Mirrors
<1>6. PICK next : next = (k \in DOMAIN lane.pending)
  OBVIOUS
<1>7. PICK x \in {Ended(lane, k)} \cup {RequestRead(Ended(lane, k), f, {}) : f \in Follows(k, saw, next)} :
        lane' = IF k \in DOMAIN lane.pending THEN StartRead(x, k, lane.pending[k]) ELSE Drained(x)
  BY <1>3, <1>6 DEF ReadEnds, Ended
<1>8. LaneOK(lane') /\ Readers(lane', asks') /\ Fresh(lane', asks', version) /\ Shown(lane', asks', mirror', version)
  BY <1>1, <1>2, <1>4, <1>5, <1>7, ReadEndsKeeps DEF Parts, Meets
<1>9. saw \in Nat /\ told \in Nat /\ lane.inflight[k].askers \in SUBSET Askers
  <2>1. lane.inflight[k].saw \in Nat /\ lane.inflight[k].askers \in SUBSET Askers
    BY <1>1, <1>2, LaneInflight DEF Parts
  <2> QED BY <2>1 DEF Unseen
<1>10. asks' \in [Askers -> Records] /\ mirror' \in Mirrorings
  BY <1>1, <1>4, <1>5, <1>9, DeliveredIs, MirrorsIs DEF Parts
<1>11. ASSUME NEW a \in lane.inflight[k].askers PROVE Change[a] = "read"
  <2>1. a \in Askers /\ k \in Running(lane) /\ Readers(lane, asks)
    BY <1>1, <1>2, <1>9 DEF Meets
  <2>2. <<"read", k>> \in LanePlaces(lane, a)
    BY <2>1 DEF LanePlaces, Reading, Running
  <2> QED BY <2>1, <2>2 DEF Readers
<1>12. Writers(write, joiners, asks')
  BY <1>1, <1>4, <1>9, <1>11, WritersReadOn DEF Parts, Meets
<1>13. budget' \in [Bounds -> Nat]
  BY <1>1, <1>3, Spent DEF Parts, Bounds
<1>14. Parts(version', lane', write', joiners', mirror', asks', budget')
  BY <1>1, <1>2, <1>8, <1>10, <1>13 DEF Parts
<1>15. Meets(version', lane', write', joiners', mirror', asks')
  BY <1>2, <1>8, <1>12 DEF Meets
<1> QED BY <1>14, <1>15, InvNext

LEMMA WritersAsking ==
  ASSUME NEW w, NEW J, NEW A \in [Askers -> Records], Writers(w, J, A),
         NEW a \in Askers, A[a].state = "idle", Change[a] # "read",
         NEW m, NEW K, \A b \in Askers : Gains(WritePlaces(w, J, b), WritePlaces(m, K, b), b, {a}),
         NEW B, B = Asking(A, a, Unseen)
  PROVE  Writers(m, K, B)
<1>1. B[a].state = "waiting" /\ \A b \in Askers : b # a => B[b] = A[b]
  BY AskingIs DEF Unseen
<1>2. ASSUME NEW b \in Askers PROVE Holding(m, K, B, b, {})
  <2>1. Single(WritePlaces(w, J, b)) /\ (WritePlaces(w, J, b) # {} <=> A[b].state = "waiting" /\ Change[b] # "read")
    BY DEF Writers, Holding
  <2>2. b \in {a} => WritePlaces(w, J, b) = {}
    BY <2>1
  <2>3. Single(WritePlaces(m, K, b)) /\ (WritePlaces(m, K, b) # {} <=> WritePlaces(w, J, b) # {} \/ b \in {a})
    BY <2>1, <2>2 DEF Gains
  <2>4. CASE b = a
    BY <1>1, <2>3, <2>4 DEF Holding
  <2>5. CASE b # a
    BY <1>1, <2>1, <2>3, <2>5 DEF Holding
  <2> QED BY <2>4, <2>5
<1> QED BY <1>2 DEF Writers

LEMMA AsksChangeStep == ASSUME RequestsInv, NEW a \in Askers, AsksChange(a) PROVE RequestsInv'
<1>1. /\ Parts(version, lane, write, joiners, mirror, asks, budget)
      /\ Meets(version, lane, write, joiners, mirror, asks)
  BY DEF RequestsInv, Parts, Meets
<1>2. /\ Change[a] # "read" /\ asks[a].state = "idle"
      /\ asks' = Asking(asks, a, Unseen)
      /\ UNCHANGED <<version, lane, mirror, budget>>
  BY DEF AsksChange, Asks, Asking
<1>3. \/ Change[a] = "reconcile" /\ joiners' = joiners \cup {a} /\ write' = write
      \/ write' = AtEnd(write, Request(FirstVerb(Change[a]), a)) /\ joiners' = joiners
  BY DEF AsksChange, AtEnd
<1>4. /\ WriteOK(write') /\ SentNow(write, write') /\ joiners' \in SUBSET Reconcilers
      /\ \A b \in Askers : Gains(WritePlaces(write, joiners, b), WritePlaces(write', joiners', b), b, {a})
  <2>1. CASE Change[a] = "reconcile" /\ joiners' = joiners \cup {a} /\ write' = write
    <3>1. ASSUME NEW b \in Askers
          PROVE  Gains(WritePlaces(write, joiners, b), WritePlaces(write', joiners', b), b, {a})
      <4>1. Joined(joiners', b) = Joined(joiners, b) \cup Here(<<"joined", a>>, b, {a})
        BY <2>1, JoinedMore
      <4>2. WritePlaces(write', joiners', b) = WritePlaces(write, joiners, b) \cup Here(<<"joined", a>>, b, {a})
        BY <2>1, <4>1 DEF WritePlaces
      <4> QED BY <4>2, Arrives
    <3>2. joiners' \in SUBSET Reconcilers
      BY <1>1, <2>1 DEF Parts, Reconcilers
    <3> QED BY <1>1, <2>1, <3>1, <3>2 DEF Parts, SentNow
  <2>2. CASE write' = AtEnd(write, Request(FirstVerb(Change[a]), a)) /\ joiners' = joiners
    <3>1. PICK req : req = Request(FirstVerb(Change[a]), a)
      OBVIOUS
    <3>2. req \in Queueable /\ req.asker = a
      BY <1>2, <3>1, RequestIs
    <3>3. ASSUME NEW b \in Askers
          PROVE  /\ WriteOK(write') /\ SentNow(write, write')
                 /\ Gains(WritePlaces(write, joiners, b), WritePlaces(write', joiners, b), b, {a})
      BY <1>1, <2>2, <3>1, <3>2, RequestWriteGains DEF Parts
    <3> QED BY <1>1, <2>2, <3>3 DEF Parts
  <2> QED BY <1>3, <2>1, <2>2
<1>5. Unseen \in Nat /\ Unseen <= version /\ version \in Nat
  BY <1>1 DEF Unseen, Parts
<1>6. asks' \in [Askers -> Records]
  BY <1>1, <1>2, <1>5, AskingIs DEF Parts
<1>7. Readers(lane, asks')
  BY <1>1, <1>2, <1>5, AsksChangeReaders DEF Parts, Meets
<1>8. Fresh(lane, asks', version) /\ Shown(lane, asks', mirror, version)
  BY <1>1, <1>2, <1>5, AsksFresh, AsksShown DEF Parts, Meets
<1>9. Writers(write', joiners', asks')
  BY <1>1, <1>2, <1>4, WritersAsking DEF Parts, Meets
<1>10. write'.inflight.applied \in Nat /\ write'.inflight.applied <= version
  BY <1>1, <1>4, <1>5 DEF Parts, SentNow
<1>11. Parts(version', lane', write', joiners', mirror', asks', budget')
  BY <1>1, <1>2, <1>4, <1>6, <1>10 DEF Parts
<1>12. Meets(version', lane', write', joiners', mirror', asks')
  BY <1>2, <1>7, <1>8, <1>9 DEF Meets
<1> QED BY <1>11, <1>12, InvNext

LEMMA VersionOn ==
  ASSUME NEW l, LaneOK(l), NEW A \in [Askers -> Records], NEW mir, NEW v \in Nat, NEW u \in Nat, v <= u
  PROVE  Fresh(l, A, v) /\ Shown(l, A, mir, v) => Fresh(l, A, u) /\ Shown(l, A, mir, u)
<1>1. SUFFICES ASSUME Fresh(l, A, v), Shown(l, A, mir, v) PROVE Fresh(l, A, u) /\ Shown(l, A, mir, u)
  OBVIOUS
<1>2. \A a \in Askers : A[a].since \in Nat /\ A[a].saw \in Nat
  <2>1. \A a \in Askers : A[a] \in Records
    OBVIOUS
  <2> QED BY <2>1 DEF Records
<1>3. \A k \in Running(l) : l.inflight[k].saw \in Nat
  BY LaneInflight
<1>4. Fresh(l, A, u)
  BY <1>1, <1>2, <1>3 DEF Fresh
<1>5. Shown(l, A, mir, u)
  BY <1>1, <1>2 DEF Shown
<1> QED BY <1>4, <1>5

LEMMA ChangesElsewhereStep == ASSUME RequestsInv, ChangesElsewhere PROVE RequestsInv'
<1>1. /\ Parts(version, lane, write, joiners, mirror, asks, budget)
      /\ Meets(version, lane, write, joiners, mirror, asks)
  BY DEF RequestsInv, Parts, Meets
<1>2. version' = version + 1 /\ UNCHANGED <<lane, write, joiners, mirror, asks>>
  BY DEF ChangesElsewhere
<1>3. budget' \in [Bounds -> Nat]
  BY <1>1, Spent DEF ChangesElsewhere, Parts, Bounds
<1>4. version \in Nat /\ version' \in Nat \ {0} /\ version <= version'
  BY <1>1, <1>2 DEF Parts
<1>5. Fresh(lane, asks, version') /\ Shown(lane, asks, mirror, version')
  BY <1>1, <1>4, VersionOn DEF Parts, Meets
<1>6. Parts(version', lane', write', joiners', mirror', asks', budget')
  BY <1>1, <1>2, <1>3, <1>4 DEF Parts
<1>7. Meets(version', lane', write', joiners', mirror', asks')
  BY <1>1, <1>2, <1>5 DEF Meets
<1> QED BY <1>6, <1>7, InvNext

Applied(w, v) == [w EXCEPT !.inflight.applied = v]

LEMMA AppliedIs ==
  ASSUME NEW w, WriteOK(w), w.inflight # Nobody, NEW v \in Nat, NEW J, NEW m, m = Applied(w, v)
  PROVE  /\ WriteOK(m) /\ m.inflight.applied = v
         /\ \A a : WritePlaces(m, J, a) = WritePlaces(w, J, a)
<1>1. PICK req : req = [w.inflight EXCEPT !.applied = v]
  OBVIOUS
<1>2. m = [w EXCEPT !.inflight = req]
  BY <1>1 DEF Applied
<1>3. w.inflight \in Requested /\ w.queue \in Seq(Queueable) /\ Len(w.queue) <= WriteMax /\ w.later \in SUBSET Requested
  BY DEF WriteOK
<1>4. req \in Requested /\ req.asker = w.inflight.asker /\ req.applied = v
  <2>1. w.inflight \in [verb : Verbs, asker : Askers, applied : Nat]
    BY <1>3, RequestedIs
  <2>2. /\ req \in [verb : Verbs, asker : Askers, applied : Nat]
        /\ req.asker = w.inflight.asker /\ req.verb = w.inflight.verb /\ req.applied = v
    BY <1>1, <2>1
  <2> QED BY <1>3, <2>2 DEF Requested
<1>5. m = Desk(req, w.queue, w.later)
  BY <1>2, DeskEdits
<1>6. WriteOK(m) /\ m.inflight = req /\ m.queue = w.queue /\ m.later = w.later
  BY <1>3, <1>4, <1>5, DeskMade
<1>7. ASSUME NEW a PROVE WritePlaces(m, J, a) = WritePlaces(w, J, a)
  BY <1>4, <1>6 DEF WritePlaces, AtHelper
<1> QED BY <1>4, <1>6, <1>7

LEMMA HelperChangesStep == ASSUME RequestsInv, HelperChanges PROVE RequestsInv'
<1>1. /\ Parts(version, lane, write, joiners, mirror, asks, budget)
      /\ Meets(version, lane, write, joiners, mirror, asks)
  BY DEF RequestsInv, Parts, Meets
<1>2. /\ write.inflight # Nobody /\ (version' = version \/ version' = version + 1)
      /\ write' = Applied(write, version')
      /\ UNCHANGED <<lane, joiners, mirror, asks, budget>>
  BY <1>1 DEF HelperChanges, Applied, Parts
<1>3. version \in Nat /\ version' \in Nat \ {0} /\ version <= version' /\ version' <= version'
  BY <1>1, <1>2 DEF Parts
<1>4. /\ WriteOK(write') /\ write'.inflight.applied = version'
      /\ \A a : WritePlaces(write', joiners, a) = WritePlaces(write, joiners, a)
  BY <1>1, <1>2, <1>3, AppliedIs DEF Parts
<1>5. Fresh(lane, asks, version') /\ Shown(lane, asks, mirror, version')
  BY <1>1, <1>3, VersionOn DEF Parts, Meets
<1>6. Writers(write', joiners, asks)
  BY <1>1, <1>4 DEF Meets, Writers, Holding
<1>7. Parts(version', lane', write', joiners', mirror', asks', budget')
  BY <1>1, <1>2, <1>3, <1>4 DEF Parts
<1>8. Meets(version', lane', write', joiners', mirror', asks')
  BY <1>1, <1>2, <1>5, <1>6 DEF Meets
<1> QED BY <1>7, <1>8, InvNext

AllJoiners(req) == IF req.verb = "reconcile" THEN joiners ELSE {}
Owed(req, w) ==
  /\ req \in Requested /\ WriteOK(w) /\ w.inflight.applied \in Nat /\ w.inflight.applied <= version
  /\ Yields(w, joiners, asks, req) /\ asks[req.asker].state = "waiting"
Keeps == UNCHANGED <<version, mirror>> /\ budget' \in [Bounds -> Nat]
(* Those in who are told that a change ended: what it did is to be read, unless it did nothing
   that the list shows. *)
Tells(req, who, saw) ==
  /\ saw \in Nat /\ saw <= version /\ asks' = Delivered(asks, who, saw)
  /\ \/ lane' = Refreshed(lane)
     \/ lane' = lane /\ (saw = Unseen \/ ~Mutates(req.verb))
(* The desk after it: more is the asker of a save, whose arm takes its place, or nobody. *)
Passed(w, more) ==
  /\ WriteOK(write') /\ write'.inflight.applied \in Nat /\ write'.inflight.applied <= version
  /\ Passes(w, joiners', write', more)

(* A change ended: the askers in who are told of it, and those in more wait on. *)
LEMMA ChangeEndsStep ==
  ASSUME RequestsInv, NEW req, NEW w, Owed(req, w),
         NEW all, all = AllJoiners(req), joiners' = Left(joiners, all),
         NEW more, AskerOrNone(req, more), Passed(w, more),
         NEW who, who = Addressed(all, req, more), NEW saw, Tells(req, who, saw), Keeps
  PROVE  RequestsInv'
<1>1. /\ Parts(version, lane, write, joiners, mirror, asks, budget)
      /\ Meets(version, lane, write, joiners, mirror, asks)
  BY DEF RequestsInv, Parts, Meets
<1>2. NoneOrAll(joiners, all) /\ joiners' \in SUBSET Reconcilers
  BY <1>1 DEF NoneOrAll, Parts, AllJoiners, Left
<1>3. Writers(write', joiners', asks') /\ Changers(who)
  <2>1. joiners \in SUBSET Reconcilers /\ asks \in [Askers -> Records] /\ Passes(w, joiners', write', more)
    BY <1>1 DEF Parts, Passed
  <2>2. req \in Requested /\ Yields(w, joiners, asks, req) /\ asks[req.asker].state = "waiting"
    BY DEF Owed
  <2>3. saw \in Nat /\ asks' = Delivered(asks, who, saw)
    BY DEF Tells
  <2> QED BY <1>2, <2>1, <2>2, <2>3, WritersAnswered
<1>4. Rereads(lane, lane', saw, who)
  <2>1. who \subseteq all \cup {req.asker}
    BY DEF Addressed
  <2>2. Mutates(req.verb) \/ \A a \in who : Change[a] = "settings-set"
    BY <1>1, <2>1, ToldIsSeen DEF Parts, Owed, AllJoiners
  <2> QED BY <2>2 DEF Rereads, Tells
<1>5. saw \in Nat /\ saw <= version /\ asks' = Delivered(asks, who, saw)
  BY DEF Tells
<1>6. /\ LaneOK(lane') /\ Readers(lane', asks') /\ Fresh(lane', asks', version)
      /\ Shown(lane', asks', mirror, version)
  BY <1>1, <1>3, <1>4, <1>5, ChangeAnswered DEF Parts, Meets
<1>7. asks' \in [Askers -> Records]
  BY <1>1, <1>5, DeliveredIs DEF Parts
<1>8. version' = version /\ mirror' = mirror /\ budget' \in [Bounds -> Nat]
  BY DEF Keeps
<1>9. WriteOK(write') /\ write'.inflight.applied \in Nat /\ write'.inflight.applied <= version
  BY DEF Passed
<1>10. Parts(version', lane', write', joiners', mirror', asks', budget')
  BY <1>1, <1>2, <1>6, <1>7, <1>8, <1>9 DEF Parts
<1>11. Meets(version', lane', write', joiners', mirror', asks')
  BY <1>3, <1>6, <1>8 DEF Meets
<1> QED BY <1>10, <1>11, InvNext

(* Without an arm to follow, the next change in line is sent. *)
LEMMA EndsWithoutArm ==
  ASSUME RequestsInv, NEW req, NEW w, Owed(req, w), NEW all, all = AllJoiners(req), joiners' = Left(joiners, all),
         write' = NextWrite(w), NEW saw, Tells(req, all \cup {req.asker}, saw), Keeps
  PROVE  RequestsInv'
<1>1. req.asker \in Askers /\ version \in Nat /\ WriteOK(w) /\ w.inflight.applied \in Nat /\ w.inflight.applied <= version
  BY RequestedIs DEF RequestsInv, Owed
<1>2. ASSUME NEW a \in Askers
      PROVE  /\ WriteOK(write') /\ SentNow(w, write')
             /\ Gains(WritePlaces(w, joiners', a), WritePlaces(write', joiners', a), a, {})
  BY <1>1, NextWriteGains
<1>3. WriteOK(write') /\ write'.inflight.applied \in Nat /\ write'.inflight.applied <= version
  BY <1>1, <1>2 DEF SentNow, Unseen
<1>4. PICK more : more = {}
  OBVIOUS
<1>5. Passed(w, more)
  BY <1>2, <1>3, <1>4 DEF Passed, Passes
<1>6. PICK who : who = Addressed(all, req, more)
  OBVIOUS
<1>7. Tells(req, who, saw)
  <2>1. who = all \cup {req.asker}
    BY <1>4, <1>6 DEF Addressed
  <2> QED BY <2>1
<1>8. AskerOrNone(req, more)
  BY <1>4 DEF AskerOrNone
<1> QED BY <1>5, <1>6, <1>7, <1>8, ChangeEndsStep

(* The arm that follows a save takes its place. *)
AtFront(w, req) == RequestWrite(w, req, TRUE)

LEMMA EndsWithArm ==
  ASSUME RequestsInv, NEW req, req.verb = "save", NEW w, Owed(req, w), w.inflight = Nobody,
         joiners' = joiners, write' = NextWrite(AtFront(w, Request("arm", req.asker))),
         asks' = asks, lane' = Refreshed(lane), Keeps
  PROVE  RequestsInv'
<1>1. req.asker \in Askers /\ Change[req.asker] # "read" /\ version \in Nat /\ WriteOK(w)
  BY RequestedIs DEF RequestsInv, Owed
<1>2. PICK arm : arm = Request("arm", req.asker)
  OBVIOUS
<1>3. arm \in Requested /\ arm.asker = req.asker /\ arm.applied = Unseen
  BY <1>1, <1>2, RequestIs
<1>4. ASSUME NEW a \in Askers
      PROVE  /\ WriteOK(write') /\ SentNow(w, write')
             /\ Gains(WritePlaces(w, joiners', a), WritePlaces(write', joiners', a), a, {req.asker})
  BY <1>1, <1>2, <1>3, ArmGains DEF AtFront
<1>5. WriteOK(write') /\ write'.inflight.applied \in Nat /\ write'.inflight.applied <= version
  <2>1. WriteOK(write') /\ SentNow(w, write')
    BY <1>1, <1>4
  <2>2. Nobody.applied = Unseen
    BY DEF Nobody
  <2>3. write'.inflight.applied = Unseen
    BY <2>1, <2>2 DEF SentNow
  <2> QED BY <1>1, <2>1, <2>3 DEF Unseen
<1>6. PICK more : more = {req.asker}
  OBVIOUS
<1>7. Passed(w, more)
  BY <1>4, <1>5, <1>6 DEF Passed, Passes
<1>8. PICK all : all = AllJoiners(req)
  OBVIOUS
<1>9. all = {} /\ joiners' = Left(joiners, all)
  BY <1>8 DEF AllJoiners, Left
<1>10. PICK who : who = Addressed(all, req, more)
  OBVIOUS
<1>11. who = {}
  BY <1>6, <1>9, <1>10 DEF Addressed
<1>12. asks' = Delivered(asks, who, Unseen)
  <2>1. asks \in [Askers -> Records]
    BY DEF RequestsInv
  <2> QED BY <1>11, <2>1 DEF Delivered
<1>13. Unseen \in Nat /\ Unseen <= version
  BY <1>1 DEF Unseen
<1>14. Tells(req, who, Unseen)
  BY <1>12, <1>13 DEF Tells
<1>15. AskerOrNone(req, more)
  BY <1>6 DEF AskerOrNone
<1> QED BY <1>7, <1>8, <1>9, <1>10, <1>14, <1>15, ChangeEndsStep

LEMMA WriteAnswersStep == ASSUME RequestsInv, WriteAnswers PROVE RequestsInv'
<1>1. /\ Parts(version, lane, write, joiners, mirror, asks, budget)
      /\ Meets(version, lane, write, joiners, mirror, asks)
  BY DEF RequestsInv, Parts, Meets
<1>2. PICK req : req = write.inflight
  OBVIOUS
<1>3. PICK w : w = [write EXCEPT !.inflight = Nobody]
  OBVIOUS
<1>4. w = Desk(Nobody, write.queue, write.later)
  BY <1>1, <1>3, DeskEdits DEF Parts
<1>5. /\ write.inflight # Nobody /\ UNCHANGED <<version, mirror>>
      /\ \/ ChangeEnds(req, w, TRUE) /\ UNCHANGED budget
         \/ ChangeEnds(req, w, FALSE) /\ Spend("failures")
  BY <1>2, <1>3 DEF WriteAnswers
<1>6. /\ WriteOK(w) /\ w.inflight = Nobody /\ req \in Requested
      /\ Yields(w, joiners, asks, req) /\ asks[req.asker].state = "waiting"
  BY <1>1, <1>2, <1>4, <1>5, HelperLeft DEF Parts, Meets
<1>7. version \in Nat /\ Unseen \in Nat /\ Unseen <= version /\ req.applied \in Nat /\ req.applied <= version
      /\ Nobody.applied = Unseen
  BY <1>1, <1>2 DEF Parts, Nobody, Unseen
<1>8. Owed(req, w)
  BY <1>6, <1>7 DEF Owed
<1>9. Keeps
  <2>1. budget' \in [Bounds -> Nat]
    BY <1>1, <1>5, Spent DEF Parts, Bounds
  <2> QED BY <1>5, <2>1 DEF Keeps
<1>10. PICK all : all = AllJoiners(req)
  OBVIOUS
<1>11. CASE ChangeEnds(req, w, TRUE) /\ req.verb = "save"
  <2>1. /\ write' = NextWrite(AtFront(w, Request("arm", req.asker)))
        /\ lane' = Refreshed(lane) /\ joiners' = joiners
    BY <1>11 DEF ChangeEnds, Mutates, AtFront
  <2>2. asks' = asks
    <3>1. asks \in [Askers -> Records]
      BY <1>1 DEF Parts
    <3> QED BY <1>11, <3>1 DEF ChangeEnds, Deliver
  <2> QED BY <1>6, <1>8, <1>9, <1>11, <2>1, <2>2, EndsWithArm
<1>12. CASE ChangeEnds(req, w, TRUE) /\ req.verb # "save"
  <2>1. /\ write' = NextWrite(w) /\ joiners' = Left(joiners, all)
        /\ asks' = Delivered(asks, all \cup {req.asker}, req.applied)
        /\ lane' = Refreshed(lane) \/ (lane' = lane /\ ~Mutates(req.verb))
    BY <1>10, <1>12 DEF ChangeEnds, Deliver, Delivered, AllJoiners, Left
  <2>2. Tells(req, all \cup {req.asker}, req.applied)
    BY <1>7, <2>1 DEF Tells
  <2> QED BY <1>8, <1>9, <1>10, <2>1, <2>2, EndsWithoutArm
<1>13. CASE ChangeEnds(req, w, FALSE)
  <2>1. /\ write' = NextWrite(w) /\ joiners' = Left(joiners, all)
        /\ asks' = Delivered(asks, all \cup {req.asker}, Unseen)
        /\ lane' = Refreshed(lane) \/ lane' = lane
    BY <1>10, <1>13 DEF ChangeEnds, Deliver, Delivered, AllJoiners, Left
  <2>2. Tells(req, all \cup {req.asker}, Unseen)
    BY <1>7, <2>1 DEF Tells
  <2> QED BY <1>8, <1>9, <1>10, <2>1, <2>2, EndsWithoutArm
<1> QED BY <1>5, <1>11, <1>12, <1>13

LEMMA RefusesLaterStep == ASSUME RequestsInv, NEW req, RefusesLater(req) PROVE RequestsInv'
<1>1. /\ Parts(version, lane, write, joiners, mirror, asks, budget)
      /\ Meets(version, lane, write, joiners, mirror, asks)
  BY DEF RequestsInv, Parts, Meets
<1>2. PICK t : t = write.later \ {req}
  OBVIOUS
<1>3. PICK w : w = [write EXCEPT !.later = t]
  OBVIOUS
<1>4. req \in write.later /\ ChangeEnds(req, w, FALSE) /\ UNCHANGED <<version, mirror, budget>>
  BY <1>2, <1>3 DEF RefusesLater
<1>5. w = Desk(write.inflight, write.queue, t)
  BY <1>1, <1>3, DeskEdits DEF Parts
<1>6. WriteOK(w) /\ req \in Requested /\ Yields(w, joiners, asks, req) /\ asks[req.asker].state = "waiting"
  BY <1>1, <1>2, <1>4, <1>5, RefusalLeft DEF Parts, Meets
<1>7. w.inflight = write.inflight
  BY <1>5, DeskParts
<1>8. Owed(req, w)
  BY <1>1, <1>6, <1>7 DEF Parts, Owed
<1>9. PICK all : all = AllJoiners(req)
  OBVIOUS
<1>10. /\ write' = NextWrite(w) /\ joiners' = Left(joiners, all)
       /\ asks' = Delivered(asks, all \cup {req.asker}, Unseen)
       /\ lane' = Refreshed(lane) \/ lane' = lane
  BY <1>4, <1>9 DEF ChangeEnds, Deliver, Delivered, AllJoiners, Left
<1>11. Keeps
  BY <1>1, <1>4 DEF Parts, Keeps
<1>12. Tells(req, all \cup {req.asker}, Unseen)
  BY <1>1, <1>10 DEF Tells, Parts, Unseen
<1> QED BY <1>8, <1>9, <1>10, <1>11, <1>12, EndsWithoutArm

LEMMA RequestsInvIsKept == RequestsInv /\ [Next]_vars => RequestsInv'
<1>1. SUFFICES ASSUME RequestsInv, [Next]_vars PROVE RequestsInv'
  OBVIOUS
<1>2. CASE UNCHANGED vars
  BY <1>1, <1>2 DEF vars, RequestsInv
<1>3. CASE \E a \in Askers : AsksChange(a) \/ \E k \in ReadKeys : AsksRead(a, k)
  BY <1>1, <1>3, AsksChangeStep, AsksReadStep
<1>4. CASE Refreshes \/ ChangesElsewhere
  BY <1>1, <1>4, RefreshesStep, ChangesElsewhereStep
<1>5. CASE \E k \in ReadKeys : HelperReads(k) \/ ReadAnswers(k)
  BY <1>1, <1>5, HelperReadsStep, ReadAnswersStep
<1>6. CASE HelperChanges \/ WriteAnswers
  BY <1>1, <1>6, HelperChangesStep, WriteAnswersStep
<1>7. CASE \E told \in lane.later : AnswersLater(told)
  BY <1>1, <1>7, AnswersLaterStep
<1>8. CASE \E req \in write.later : RefusesLater(req)
  BY <1>1, <1>8, RefusesLaterStep
<1> QED BY <1>1, <1>2, <1>3, <1>4, <1>5, <1>6, <1>7, <1>8 DEF Next, Helper

LEMMA SpecKeepsRequestsInv == Spec => []RequestsInv
<1>1. RequestsInv /\ [Next]_vars => RequestsInv'
  BY RequestsInvIsKept
<1> QED BY <1>1, RequestsInvHoldsAtFirst, PTL DEF Spec

-----------------------------------------------------------------------------
(* What the invariant says of each property. *)
Sent(w, a) == {<<"change", req>> : req \in {req \in Waiting(w) : req.asker = a}}

LEMMA SentPlaces ==
  ASSUME NEW w, NEW J, NEW a \in Askers, Single(WritePlaces(w, J, a))
  PROVE  Single(Sent(w, a) \cup Joined(J, a)) /\ (Sent(w, a) \cup Joined(J, a) # {} <=> WritePlaces(w, J, a) # {})
<1> DEFINE At(req, p) ==
             \/ p = <<"flight", "helper">> /\ req = w.inflight
             \/ \E i \in DOMAIN w.queue : p = <<"queue", i>> /\ req = w.queue[i]
             \/ p = <<"refused", req>> /\ req \in w.later
<1>1. ASSUME NEW req \in Waiting(w), req.asker = a PROVE \E p \in WritePlaces(w, J, a) : At(req, p)
  <2>1. CASE req = w.inflight
    BY <1>1, <2>1 DEF WritePlaces, AtHelper
  <2>2. CASE req \in ToSet(w.queue)
    <3>1. PICK i \in DOMAIN w.queue : req = w.queue[i]
      BY <2>2 DEF ToSet
    <3>2. <<"queue", i>> \in InLine(w.queue, a)
      BY <1>1, <3>1 DEF InLine
    <3> QED BY <3>1, <3>2 DEF WritePlaces
  <2>3. CASE req \in w.later
    <3>1. <<"refused", req>> \in Turned(w.later, a)
      BY <1>1, <2>3 DEF Turned
    <3> QED BY <2>3, <3>1 DEF WritePlaces
  <2> QED BY <1>1, <2>1, <2>2, <2>3 DEF Waiting
<1>2. ASSUME NEW p, p \in WritePlaces(w, J, a)
      PROVE  p \in Joined(J, a) \/ \E req \in Waiting(w) : req.asker = a
  <2>1. CASE p \in AtHelper(w.inflight, a)
    BY <2>1 DEF AtHelper, Waiting
  <2>2. CASE p \in InLine(w.queue, a)
    <3>1. PICK i \in DOMAIN w.queue : w.queue[i].asker = a
      BY <2>2 DEF InLine
    <3> QED BY <3>1 DEF Waiting, ToSet
  <2>3. CASE p \in Turned(w.later, a)
    BY <2>3 DEF Turned, Waiting
  <2> QED BY <1>2, <2>1, <2>2, <2>3 DEF WritePlaces
<1>3. ASSUME NEW r1, NEW r2, NEW p, At(r1, p), At(r2, p) PROVE r1 = r2
  BY <1>3
<1>4. ASSUME NEW req, NEW p \in Joined(J, a), At(req, p) PROVE FALSE
  BY <1>4 DEF Joined
<1> HIDE DEF At
<1>5. \A x \in Sent(w, a) : \E req \in Waiting(w) : req.asker = a /\ x = <<"change", req>>
  BY DEF Sent
<1>6. \A x, y \in Joined(J, a) : x = y
  BY DEF Joined
<1>7. Joined(J, a) \subseteq WritePlaces(w, J, a)
  BY DEF WritePlaces
<1>8. ASSUME NEW x \in Sent(w, a) \cup Joined(J, a), NEW y \in Sent(w, a) \cup Joined(J, a) PROVE x = y
  <2>1. ASSUME NEW u \in Sent(w, a), NEW z \in Sent(w, a) PROVE u = z
    <3>1. PICK r1 \in Waiting(w) : r1.asker = a /\ u = <<"change", r1>>
      BY <1>5
    <3>2. PICK r2 \in Waiting(w) : r2.asker = a /\ z = <<"change", r2>>
      BY <1>5
    <3>3. PICK p1 \in WritePlaces(w, J, a) : At(r1, p1)
      BY <1>1, <3>1
    <3>4. PICK p2 \in WritePlaces(w, J, a) : At(r2, p2)
      BY <1>1, <3>2
    <3>5. p1 = p2
      BY DEF Single
    <3> QED BY <1>3, <3>1, <3>2, <3>3, <3>4, <3>5
  <2>2. ASSUME NEW u \in Sent(w, a), NEW z \in Joined(J, a) PROVE FALSE
    <3>1. PICK r1 \in Waiting(w) : r1.asker = a
      BY <1>5
    <3>2. PICK p1 \in WritePlaces(w, J, a) : At(r1, p1)
      BY <1>1, <3>1
    <3>3. p1 = z
      BY <1>7 DEF Single
    <3> QED BY <1>4, <3>2, <3>3
  <2> QED BY <1>6, <1>8, <2>1, <2>2
<1>9. Sent(w, a) \cup Joined(J, a) # {} <=> WritePlaces(w, J, a) # {}
  <2>1. ASSUME NEW x \in Sent(w, a) PROVE WritePlaces(w, J, a) # {}
    BY <1>1, <1>5
  <2>2. (\E req \in Waiting(w) : req.asker = a) => Sent(w, a) # {}
    BY DEF Sent
  <2> QED BY <1>2, <1>7, <2>1, <2>2
<1> QED BY <1>8, <1>9 DEF Single

LEMMA RequestsInvHoldsOnce == RequestsInv => HeldOnce
<1>1. SUFFICES ASSUME RequestsInv, NEW a \in Askers
               PROVE  Cardinality(Holders(a)) = (IF asks[a].state = "waiting" THEN 1 ELSE 0)
  BY DEF HeldOnce
<1> DEFINE L == LanePlaces(lane, a)
           W == Sent(write, a) \cup Joined(joiners, a)
<1>2. Holders(a) = L \cup W
  BY DEF Holders, LanePlaces, Reading, Again, Queued, Dismissed, Sent, Joined, Running
<1>3. Single(L) /\ (L # {} <=> asks[a].state = "waiting" /\ Change[a] = "read")
  BY <1>1 DEF RequestsInv, Readers
<1>4. Single(W) /\ (W # {} <=> asks[a].state = "waiting" /\ Change[a] # "read")
  <2>1. /\ Single(WritePlaces(write, joiners, a))
        /\ WritePlaces(write, joiners, a) # {} <=> asks[a].state = "waiting" /\ Change[a] # "read"
    BY <1>1 DEF RequestsInv, Writers, Holding
  <2> QED BY <2>1, SentPlaces
<1> HIDE DEF L, W
<1>5. CASE asks[a].state = "waiting"
  <2>1. PICK x : L \cup W = {x}
    <3>1. CASE Change[a] = "read"
      BY <1>3, <1>4, <1>5, <3>1 DEF Single
    <3>2. CASE Change[a] # "read"
      BY <1>3, <1>4, <1>5, <3>2 DEF Single
    <3> QED BY <3>1, <3>2
  <2> QED BY <1>2, <1>5, <2>1, FS_Singleton
<1>6. CASE asks[a].state # "waiting"
  <2>1. L \cup W = {}
    BY <1>3, <1>4, <1>6
  <2> QED BY <1>2, <1>6, <2>1, FS_EmptySet
<1> QED BY <1>5, <1>6

LEMMA RequestsInvReadsFresh == RequestsInv => ReadsFresh
<1>1. SUFFICES ASSUME RequestsInv, NEW a \in Askers, Change[a] = "read", asks[a].saw # Unseen
               PROVE  asks[a].saw >= asks[a].since
  BY DEF ReadsFresh
<1>2. asks[a] \in Records /\ asks[a].since <= asks[a].saw
  BY <1>1 DEF RequestsInv, Fresh
<1> QED BY <1>2 DEF Records

LEMMA RequestsInvBoundsLanes == RequestsInv => LanesBounded
BY DEF RequestsInv, LaneOK, Few, WriteOK, LanesBounded

LEMMA RequestsInvArms == RequestsInv => ArmFollowsSave
<1>1. SUFFICES ASSUME RequestsInv, NEW i \in DOMAIN write.queue PROVE write.queue[i].verb # "arm"
  BY DEF ArmFollowsSave
<1>2. write.queue \in Seq(Queueable)
  BY <1>1 DEF RequestsInv, WriteOK
<1>3. write.queue[i] \in Queueable
  BY <1>1, <1>2
<1> QED BY <1>3 DEF Queueable

LEMMA RequestsInvShows == RequestsInv => ChangesShown
<1>1. SUFFICES ASSUME RequestsInv, NEW a \in Askers, Knows(asks, a)
               PROVE  \/ mirror.shows >= asks[a].saw \/ mirror.failed
                      \/ /\ "list" \in Running(lane)
                         /\ lane.inflight["list"].saw = Unseen \/ lane.inflight["list"].saw >= asks[a].saw
                      \/ "list" \in DOMAIN lane.pending
                      \/ \E told \in ToSet(lane.wait) \cup lane.later : told.key = "list"
  BY DEF ChangesShown, Knows
<1>2. ShowsUp(lane, mirror, asks[a].saw)
  BY <1>1 DEF RequestsInv, Shown
<1>3. asks[a].saw \in Nat /\ mirror.shows \in Nat /\ ("list" \in Running(lane) => lane.inflight["list"].saw \in Nat)
  <2>1. asks[a] \in Records /\ mirror \in Mirrorings /\ LaneOK(lane)
    BY <1>1 DEF RequestsInv
  <2> QED BY <2>1, LaneInflight DEF Records, Mirrorings
<1>4. CASE Due(lane, "list")
  <2>1. (\E i \in DOMAIN lane.wait : lane.wait[i].key = "list") => \E told \in ToSet(lane.wait) : told.key = "list"
    BY DEF ToSet
  <2> QED BY <1>4, <2>1 DEF Due
<1>5. CASE ~Due(lane, "list")
  BY <1>2, <1>3, <1>5 DEF ShowsUp
<1> QED BY <1>4, <1>5

-----------------------------------------------------------------------------
(* A callback is held in one place until it has run, and nowhere after: merging and superseding
   reads, refusing a request, joining a reconcile and the arm after a save neither lose nor
   repeat it (Service.qml _mergeRead, _requestRead, _drainReadWait, _requestWrite). *)
THEOREM CallbacksHeldOnce == Spec => []HeldOnce
BY SpecKeepsRequestsInv, RequestsInvHoldsOnce, PTL

(* A read is answered from the store as it was when it was asked for, or later: one that joins
   a helper call under way waits for the call after it (_requestRead). *)
THEOREM ReadsAreFresh == Spec => []ReadsFresh
BY SpecKeepsRequestsInv, RequestsInvReadsFresh, PTL

(* At most one helper over the limit of reads, and the waits within their limits, for any limits:
   the reads that callbacks start, and those a drain takes up, included. *)
THEOREM LanesAreBounded == Spec => []LanesBounded
BY SpecKeepsRequestsInv, RequestsInvBoundsLanes, PTL

(* No arm waits in the queue: the arm of createAndArm starts where its save ended (_requestWrite). *)
THEOREM ArmsNeverWait == Spec => []ArmFollowsSave
BY SpecKeepsRequestsInv, RequestsInvArms, PTL

(* A change the panel was told of is shown, or a list that will show it is on its way, or the last
   list failed or is being refused (_refresh, _applyList). *)
THEOREM ChangesAreShown == Spec => []ChangesShown
BY SpecKeepsRequestsInv, RequestsInvShows, PTL
=======================================================================
