-------------------------- MODULE BarCollector_proofs --------------------------
(***************************************************************************)
(* What is proved of the collector's bars, for any number of series, pages *)
(* and bars, ends of connections, changes of the plan, crashes and failing *)
(* requests: the types, and that no hole is forgotten as long as no        *)
(* request has failed.                                                     *)
(***************************************************************************)
EXTENDS BarCollector, NumberFacts

(* What the types need besides: a snapshot holds bars or None, a new plan   *)
(* has the grid.                                                            *)
Valued ==
  /\ \A snap \in task \cup pending : \A s \in DOMAIN snap : snap[s] \in {None} \cup Nat
  /\ \A f \in filling : Base \subseteq f.plan
TypeInv == TypeOK /\ Valued /\ now # 0

(* The latest of a set of bars.                                             *)
Latest(S) == IF S = {} THEN None ELSE Max(S)

(* The latest of a set of closed bars is one of them, and none is later.    *)
LEMMA LatestFacts ==
  ASSUME NEW n \in Nat, NEW S \in SUBSET (0..(n - 1))
  PROVE  /\ Latest(S) \in {None} \cup 0..(n - 1)
         /\ Latest(S) = None <=> S = {}
         /\ S # {} => Latest(S) \in S
         /\ \A b \in S : b <= Latest(S)
<1>1. CASE S = {}
  BY <1>1 DEF Latest, None
<1>2. CASE S # {}
  <2>1. S \in SUBSET (0..n) /\ \A b \in S : b \in Nat
    OBVIOUS
  <2>2. Max(S) \in S /\ \A b \in S : b <= Max(S)
    BY <1>2, <2>1, MaxIsGreatest
  <2>3. Latest(S) = Max(S)
    BY <1>2 DEF Latest
  <2>4. Latest(S) \in 0..(n - 1)
    BY <2>2, <2>3
  <2> QED
    BY <1>2, <2>2, <2>3, <2>4 DEF None
<1> QED
  BY <1>1, <1>2

(* The same of the stored bars of a series (last_open_time).                *)
LEMMA LastFacts ==
  ASSUME TypeInv, NEW s \in Series
  PROVE  /\ Last(s) = Latest(stored[s])
         /\ Last(s) \in {None} \cup 0..(now - 1)
         /\ Last(s) = None <=> stored[s] = {}
         /\ stored[s] # {} => Last(s) \in stored[s]
         /\ \A b \in stored[s] : b <= Last(s)
<1>1. now \in Nat /\ stored[s] \in SUBSET (0..(now - 1))
  BY DEF TypeInv, TypeOK
<1>2. Last(s) = Latest(stored[s])
  BY DEF Last, Latest
<1> QED
  BY <1>1, <1>2, LatestFacts

(* What a fetch keeps are bars that have closed.                            *)
LEMMA GotClosed ==
  ASSUME now \in Nat, NEW f \in Fetch, NEW upto \in Int
  PROVE  Got(f, upto) \subseteq 0..(now - 1)
BY DEF Got, Fetch

(* Storing closed bars keeps the type of the store.                         *)
LEMMA StoreType ==
  ASSUME TypeInv, NEW s \in Series, NEW bars, bars \subseteq 0..(now - 1), Store(s, bars)
  PROVE  stored' \in [Series -> SUBSET (0..(now - 1))]
BY DEF TypeInv, TypeOK, Store

(* A fetch begins after a bar of the snapshot, or after the latest.         *)
LEMMA FromType ==
  ASSUME TypeInv, NEW s \in Series
  PROVE  /\ From(s) \in Nat
         /\ \A snap \in task : s \in DOMAIN snap => From(s) = snap[s] + 1
         /\ (\A snap \in task : s \notin DOMAIN snap) => From(s) = Last(s) + 1
<1> DEFINE readings == {snap[s] : snap \in {x \in task : s \in DOMAIN x}}
<1>1. CASE \E snap \in task : s \in DOMAIN snap
  <2>1. PICK snap \in task : s \in DOMAIN snap
    BY <1>1
  <2>2. \A x \in task : x = snap
    BY <2>1 DEF TypeInv, TypeOK
  <2>3. snap[s] \in {None} \cup Nat
    BY <2>1 DEF TypeInv, Valued
  <2>4. readings = {snap[s], snap[s]}
    BY <2>1, <2>2
  <2>5. Min({snap[s], snap[s]}) = snap[s]
    BY <2>3, MinOfTwo DEF None
  <2>6. From(s) = snap[s] + 1
    BY <2>4, <2>5 DEF From
  <2> QED
    BY <2>1, <2>2, <2>3, <2>6 DEF None
<1>2. CASE \A snap \in task : s \notin DOMAIN snap
  <2>1. readings = {}
    BY <1>2
  <2>2. From(s) = Last(s) + 1
    BY <2>1 DEF From
  <2>3. Last(s) \in {None} \cup 0..(now - 1)
    BY LastFacts
  <2> QED
    BY <1>2, <2>2, <2>3 DEF None
<1> QED
  BY <1>1, <1>2

(* Two snapshots merge into one, with the earlier of two readings.          *)
LEMMA MergeFacts ==
  ASSUME NEW p, NEW r,
         \A s \in DOMAIN p : p[s] \in {None} \cup Nat,
         \A s \in DOMAIN r : r[s] \in {None} \cup Nat
  PROVE  /\ DOMAIN Merge(p, r) = DOMAIN p \cup DOMAIN r
         /\ \A s \in DOMAIN p \cup DOMAIN r :
              /\ Merge(p, r)[s] \in {None} \cup Nat
              /\ s \in DOMAIN p => Merge(p, r)[s] <= p[s]
              /\ s \in DOMAIN r => Merge(p, r)[s] <= r[s]
              /\ \/ s \in DOMAIN p /\ Merge(p, r)[s] = p[s]
                 \/ s \in DOMAIN r /\ Merge(p, r)[s] = r[s]
<1> DEFINE values(s) == {snap[s] : snap \in {x \in {p, r} : s \in DOMAIN x}}
<1>1. Merge(p, r) = [s \in DOMAIN p \cup DOMAIN r |-> Min(values(s))]
  BY DEF Merge
<1>2. ASSUME NEW s \in DOMAIN p \cup DOMAIN r
      PROVE  /\ Min(values(s)) \in {None} \cup Nat
             /\ s \in DOMAIN p => Min(values(s)) <= p[s]
             /\ s \in DOMAIN r => Min(values(s)) <= r[s]
             /\ \/ s \in DOMAIN p /\ Min(values(s)) = p[s]
                \/ s \in DOMAIN r /\ Min(values(s)) = r[s]
  <2>1. CASE s \in DOMAIN p /\ s \in DOMAIN r
    <3>1. values(s) = {p[s], r[s]}
      BY <2>1
    <3>2. Min({p[s], r[s]}) = IF p[s] <= r[s] THEN p[s] ELSE r[s]
      BY <2>1, MinOfTwo DEF None
    <3>3. Min(values(s)) = IF p[s] <= r[s] THEN p[s] ELSE r[s]
      BY <3>1, <3>2
    <3> HIDE DEF values
    <3> QED
      BY <2>1, <3>3 DEF None
  <2>2. CASE s \in DOMAIN p /\ s \notin DOMAIN r
    <3>1. values(s) = {p[s], p[s]}
      BY <2>2
    <3>2. Min({p[s], p[s]}) = p[s]
      BY <2>2, MinOfTwo DEF None
    <3>3. Min(values(s)) = p[s]
      BY <3>1, <3>2
    <3> HIDE DEF values
    <3> QED
      BY <2>2, <3>3 DEF None
  <2>3. CASE s \notin DOMAIN p /\ s \in DOMAIN r
    <3>1. values(s) = {r[s], r[s]}
      BY <2>3
    <3>2. Min({r[s], r[s]}) = r[s]
      BY <2>3, MinOfTwo DEF None
    <3>3. Min(values(s)) = r[s]
      BY <3>1, <3>2
    <3> HIDE DEF values
    <3> QED
      BY <2>3, <3>3 DEF None
  <2> QED
    BY <1>2, <2>1, <2>2, <2>3
<1> HIDE DEF values
<1> QED
  BY <1>1, <1>2

(* A merged snapshot is a function again.                                   *)
LEMMA MergeIsFunction ==
  ASSUME NEW p, NEW r
  PROVE  Merge(p, r) = [s \in DOMAIN Merge(p, r) |-> Merge(p, r)[s]]
<1> DEFINE least(s) == Min({snap[s] : snap \in {x \in {p, r} : s \in DOMAIN x}})
<1>1. Merge(p, r) = [s \in DOMAIN p \cup DOMAIN r |-> least(s)]
  BY DEF Merge
<1> HIDE DEF least
<1> QED
  BY <1>1


------------------------------------------------------------------------------
(* The steps, in four groups.                                               *)
StreamSteps == Tick \/ Connect \/ Schedule \/ Drop \/ \E s \in Series : Deliver(s)

StartSteps ==
  \/ Start \/ EndBackfill \/ EndRepair \/ Crash
  \/ \E s \in Series : RefillStale(s) \/ \E upto \in 0..now : RepairSeries(s, upto)

CatcherSteps ==
  \/ EndTask
  \/ \E s \in Series : BeginFetch(s) \/ PollSeries(s)
  \/ \E f \in fetch : FetchPage(f) \/ FetchFails(f)
  \/ \E r \in request : \E upto \in 0..now : PollFetch(r, upto)

PlanSteps ==
  \/ BeginFill \/ Adopt \/ FillFails
  \/ \E arm \in SUBSET Arm : Rotate(arm)
  \/ \E s \in Series : \E upto \in 0..now : FillSeries(s, upto)

(* Every step is of one of the groups.                                      *)
LEMMA StepsOfNext ==
  ASSUME TypeInv, Next
  PROVE  StreamSteps \/ StartSteps \/ CatcherSteps \/ PlanSteps
<1>1. now \in 0..now /\ 0..(now - 1) \subseteq 0..now
  BY DEF TypeInv, TypeOK
<1>2. CASE Boot \/ CatchUp \/ Poll \/ ChangePlan
  BY <1>1, <1>2 DEF Boot, CatchUp, Poll, ChangePlan, StartSteps, CatcherSteps, PlanSteps
<1>3. CASE Fault
  BY <1>1, <1>3 DEF Fault, StreamSteps, StartSteps, CatcherSteps, PlanSteps
<1> QED
  BY <1>2, <1>3 DEF Next, StreamSteps, StartSteps, CatcherSteps, PlanSteps

------------------------------------------------------------------------------
(* The types.                                                               *)

(* A start of the model has every type.                                     *)
LEMMA TypeInit == Init => TypeInv
<1> SUFFICES ASSUME Init PROVE TypeInv
  OBVIOUS
<1>1. Base \subseteq Series /\ {} \in SUBSET (0..(now - 1))
  BY DEF Series
<1>2. stored \in [Series -> SUBSET (0..(now - 1))] /\ wire \in [Series -> SUBSET (0..(now - 1))]
  BY <1>1 DEF Init
<1>3. \A S \in {task, pending, fetch, request, filling} : \A x, y \in S : x = y
  BY DEF Init
<1>4. task \cup pending = {}
  BY DEF Init
<1>5. TypeOK
  BY <1>1, <1>2, <1>3, <1>4 DEF Init, TypeOK
<1> QED
  BY <1>4, <1>5 DEF Init, TypeInv, Valued

(* The end of the process leaves nothing but the store.                     *)
LEMMA DownType ==
  ASSUME TypeInv, Down, UNCHANGED <<now, stored, listed, lost, changes, drops>>,
         crashes' \in Nat, failures' \in Nat
  PROVE  TypeInv'
<1>1. Base \subseteq Series
  BY DEF Series
<1>2. wire' \in [Series -> SUBSET (0..(now - 1))]
  BY DEF Down
<1>3. \A S \in {task', pending', fetch', request', filling'} : \A x, y \in S : x = y
  BY DEF Down
<1> QED
  BY <1>1, <1>2, <1>3 DEF Down, TypeInv, TypeOK, Valued

(* The steps of the market and of the stream.                               *)
LEMMA StreamType ==
  ASSUME TypeInv, StreamSteps
  PROVE  TypeInv'
<1>1. CASE Tick
  <2>1. now' \in Nat /\ now' # 0 /\ \A S \in SUBSET (0..(now - 1)) : S \in SUBSET (0..(now' - 1)) /\ S \cup {now} \in SUBSET (0..(now' - 1))
    BY <1>1 DEF Tick, TypeInv, TypeOK
  <2>2. wire' \in [Series -> SUBSET (0..(now' - 1))]
    BY <1>1, <2>1 DEF Tick, TypeInv, TypeOK
  <2>3. stored' \in [Series -> SUBSET (0..(now' - 1))]
    BY <1>1, <2>1 DEF Tick, TypeInv, TypeOK
  <2> QED
    BY <1>1, <2>1, <2>2, <2>3 DEF Tick, TypeInv, TypeOK, Valued, plans, catchup
<1>2. CASE Connect
  BY <1>2 DEF Connect, TypeInv, TypeOK, Valued, plans, catchup
<1>3. CASE Schedule
  <2> DEFINE reading == [s \in plan |-> Last(s)]
  <2>1. /\ DOMAIN reading \subseteq Series /\ reading \in [DOMAIN reading -> Int]
        /\ \A s \in DOMAIN reading : reading[s] \in {None} \cup Nat
    BY LastFacts DEF TypeInv, TypeOK, None
  <2>2. CASE task = {}
    <3>1. task' = {reading} /\ todo' = plan /\ pending' = pending
      BY <1>3, <2>2 DEF Schedule
    <3> HIDE DEF reading
    <3> QED
      BY <1>3, <2>1, <3>1 DEF Schedule, TypeInv, TypeOK, Valued, plans
  <2>3. CASE task # {} /\ pending = {}
    <3>1. task' = task /\ todo' = todo /\ pending' = {reading}
      BY <1>3, <2>3 DEF Schedule
    <3> HIDE DEF reading
    <3> QED
      BY <1>3, <2>1, <3>1 DEF Schedule, TypeInv, TypeOK, Valued, plans
  <2>4. CASE task # {} /\ pending # {}
    <3>1. PICK p \in pending : \A x \in pending : x = p
      BY <2>4 DEF TypeInv, TypeOK
    <3>2. task' = task /\ todo' = todo /\ pending' = {Merge(p, reading)}
      BY <1>3, <2>4, <3>1 DEF Schedule
    <3>3. /\ DOMAIN p \subseteq Series
          /\ \A s \in DOMAIN p : p[s] \in {None} \cup Nat
      BY <3>1 DEF TypeInv, TypeOK, Valued
    <3> DEFINE m == Merge(p, reading)
    <3>4. /\ DOMAIN m = DOMAIN p \cup DOMAIN reading
          /\ m = [s \in DOMAIN m |-> m[s]]
          /\ \A s \in DOMAIN p \cup DOMAIN reading : m[s] \in {None} \cup Nat
      BY <2>1, <3>3, MergeFacts, MergeIsFunction
    <3> HIDE DEF m
    <3>5. /\ DOMAIN m \subseteq Series /\ m \in [DOMAIN m -> Int]
          /\ \A s \in DOMAIN m : m[s] \in {None} \cup Nat
      BY <2>1, <3>3, <3>4 DEF None
    <3>6. pending' = {m}
      BY <3>2 DEF m
    <3>7. /\ \A snap \in task' \cup pending' :
               /\ DOMAIN snap \subseteq Series /\ snap \in [DOMAIN snap -> Int]
               /\ \A s \in DOMAIN snap : snap[s] \in {None} \cup Nat
          /\ \A x, y \in pending' : x = y
      BY <3>2, <3>5, <3>6 DEF TypeInv, TypeOK, Valued
    <3> QED
      BY <1>3, <3>2, <3>7 DEF Schedule, TypeInv, TypeOK, Valued, plans
  <2> QED
    BY <2>2, <2>3, <2>4
<1>4. CASE Drop
  BY <1>4 DEF Drop, TypeInv, TypeOK, Valued, plans, catchup
<1>5. ASSUME NEW s \in Series, Deliver(s) PROVE TypeInv'
  <2>1. wire[s] \in SUBSET Nat /\ wire[s] # {} /\ wire[s] \subseteq 0..(now - 1)
    BY <1>5 DEF Deliver, TypeInv, TypeOK
  <2>2. Min(wire[s]) \in wire[s]
    BY <2>1, MinIsLeast
  <2>3. stored' \in [Series -> SUBSET (0..(now - 1))]
    BY <1>5, <2>1, <2>2, StoreType DEF Deliver
  <2>4. wire' \in [Series -> SUBSET (0..(now - 1))]
    BY <1>5 DEF Deliver, TypeInv, TypeOK
  <2> QED
    BY <1>5, <2>3, <2>4 DEF Deliver, TypeInv, TypeOK, Valued, plans, catchup
<1> QED
  BY <1>1, <1>2, <1>3, <1>4, <1>5 DEF StreamSteps

(* The steps of a start, and the crash.                                     *)
LEMMA StartType ==
  ASSUME TypeInv, StartSteps
  PROVE  TypeInv'
<1>1. CASE Start
  BY <1>1 DEF Start, TypeInv, TypeOK, Valued, Series, plans, catchup, stream
<1>2. CASE EndBackfill
  BY <1>2 DEF EndBackfill, TypeInv, TypeOK, Valued, Series, Wanted, catchup, stream
<1>3. CASE EndRepair
  BY <1>3 DEF EndRepair, TypeInv, TypeOK, Valued, Series, Wanted, catchup, stream
<1>4. CASE Crash
  BY <1>4, DownType DEF Crash, TypeInv, TypeOK
<1>5. ASSUME NEW s \in Series, RefillStale(s) PROVE TypeInv'
  <2>1. Last(s) + 1 \in Nat /\ now \in Nat
    BY LastFacts DEF TypeInv, TypeOK, None
  <2>2. (Last(s) + 1)..(now - 1) \subseteq 0..(now - 1)
    BY <2>1
  <2>3. stored' \in [Series -> SUBSET (0..(now - 1))]
    BY <1>5, <2>2, StoreType DEF RefillStale
  <2> QED
    BY <1>5, <2>3 DEF RefillStale, TypeInv, TypeOK, Valued, plans, catchup, stream
<1>6. ASSUME NEW s \in Series, NEW upto \in 0..now, RepairSeries(s, upto) PROVE TypeInv'
  <2>1. Seen(s) \subseteq 0..(now - 1)
    <3>1. Last(s) \in {None} \cup 0..(now - 1)
      BY LastFacts
    <3>2. Holes(s) \subseteq 0..(now - 1)
      BY <3>1 DEF Holes, TypeInv, TypeOK, None
    <3> QED
      BY <3>2 DEF Seen
  <2>2. stored' \in [Series -> SUBSET (0..(now - 1))]
    BY <1>6, <2>1, StoreType DEF RepairSeries
  <2> QED
    BY <1>6, <2>2 DEF RepairSeries, Attempt, TypeInv, TypeOK, Valued, plans, catchup, stream
<1> QED
  BY <1>1, <1>2, <1>3, <1>4, <1>5, <1>6 DEF StartSteps

(* The steps of the catch-up and the poller.                                *)
LEMMA CatcherType ==
  ASSUME TypeInv, CatcherSteps
  PROVE  TypeInv'
<1>1. CASE EndTask
  BY <1>1 DEF EndTask, NextTask, TypeInv, TypeOK, Valued, plans, stream
<1>2. ASSUME NEW s \in Series, BeginFetch(s) PROVE TypeInv'
  <2>1. [series |-> s, from |-> From(s), stop |-> now] \in Fetch
    BY FromType DEF Fetch, TypeInv, TypeOK
  <2> QED
    BY <1>2, <2>1 DEF BeginFetch, TypeInv, TypeOK, Valued, plans, stream, catchup
<1>3. ASSUME NEW s \in Series, PollSeries(s) PROVE TypeInv'
  <2>1. MissingSince(s) \in Nat
    BY BoundsAssumption, LastFacts DEF MissingSince, Short, TypeInv, TypeOK, None
  <2>2. [series |-> s, from |-> MissingSince(s), stop |-> now] \in Fetch
    BY <2>1 DEF Fetch, TypeInv, TypeOK
  <2> QED
    BY <1>3, <2>2 DEF PollSeries, TypeInv, TypeOK, Valued, plans, stream, catchup
<1>4. ASSUME NEW f \in fetch, FetchPage(f) PROVE TypeInv'
  <2>1. f \in Fetch /\ fetch \subseteq Fetch
    BY DEF TypeInv, TypeOK
  <2>2. [f EXCEPT !.from = @ + PageBars] \in Fetch
    BY <2>1, BoundsAssumption DEF Fetch
  <2>3. Got(f, f.from + PageBars - 1) \subseteq 0..(now - 1)
    BY <2>1, BoundsAssumption, GotClosed DEF Fetch, TypeInv, TypeOK
  <2>4. f.series \in Series
    BY <2>1 DEF Fetch
  <2>5. stored' \in [Series -> SUBSET (0..(now - 1))]
    BY <1>4, <2>3, <2>4, StoreType DEF FetchPage
  <2>6. fetch' \subseteq Fetch /\ \A x, y \in fetch' : x = y
    BY <1>4, <2>2 DEF FetchPage
  <2> QED
    BY <1>4, <2>5, <2>6 DEF FetchPage, TypeInv, TypeOK, Valued, plans, stream, catchup
<1>5. ASSUME NEW f \in fetch, FetchFails(f) PROVE TypeInv'
  <2>1. CASE phase = "backfill" /\ Down
    BY <1>5, <2>1, DownType DEF FetchFails, Attempt, TypeInv, TypeOK
  <2>2. CASE NextTask /\ UNCHANGED <<phase, conn, wire, completed, request, plan, filling>>
    BY <1>5, <2>2 DEF FetchFails, NextTask, Attempt, TypeInv, TypeOK, Valued
  <2>3. CASE phase = "up" /\ fetch' = {} /\ UNCHANGED <<phase, conn, wire, todo, catchup, request, plan, filling>>
    BY <1>5, <2>3 DEF FetchFails, Attempt, TypeInv, TypeOK, Valued, catchup
  <2> QED
    BY <1>5, <2>1, <2>2, <2>3 DEF FetchFails
<1>6. ASSUME NEW r \in request, NEW upto \in 0..now, PollFetch(r, upto) PROVE TypeInv'
  <2>1. r \in Fetch /\ upto - 1 \in Int /\ now \in Nat
    BY DEF TypeInv, TypeOK
  <2>2. Got(r, upto - 1) \subseteq 0..(now - 1) /\ r.series \in Series
    BY <2>1, GotClosed DEF Fetch
  <2>3. stored' \in [Series -> SUBSET (0..(now - 1))]
    BY <1>6, <2>2, StoreType DEF PollFetch
  <2> QED
    BY <1>6, <2>3 DEF PollFetch, Attempt, TypeInv, TypeOK, Valued, plans, stream, catchup
<1> QED
  BY <1>1, <1>2, <1>3, <1>4, <1>5, <1>6 DEF CatcherSteps

(* The steps of a change of the plan.                                       *)
LEMMA PlanType ==
  ASSUME TypeInv, PlanSteps
  PROVE  TypeInv'
<1>1. CASE BeginFill
  <2>1. Wanted \in SUBSET Series
    BY DEF Wanted, Series, TypeInv, TypeOK
  <2>2. filling' = {[plan |-> Wanted, todo |-> Wanted \ plan]}
    BY <1>1 DEF BeginFill
  <2>3. filling' \subseteq Filling /\ \A x, y \in filling' : x = y
    BY <2>1, <2>2 DEF Filling
  <2> QED
    BY <1>1, <2>3 DEF BeginFill, Wanted, TypeInv, TypeOK, Valued, stream, catchup
<1>2. CASE Adopt
  <2>1. PICK f \in filling : f.todo = {} /\ plan' = f.plan /\ todo' = OfPlan(f.plan)
               /\ lost' = lost \cup {s \in plan \ f.plan : Holes(s) # {}}
    BY <1>2 DEF Adopt
  <2>2. f \in Filling /\ todo \subseteq Series /\ lost \subseteq Series
    BY DEF TypeInv, TypeOK
  <2>3. f.plan \subseteq Series
    BY <2>2 DEF Filling
  <2>4. todo' \subseteq Series /\ lost' \subseteq Series
    BY <2>1, <2>2, <2>3 DEF OfPlan, TypeInv, TypeOK
  <2>5. Base \subseteq f.plan
    BY <2>1 DEF TypeInv, Valued
  <2> QED
    BY <1>2, <2>1, <2>3, <2>4, <2>5 DEF Adopt, TypeInv, TypeOK, Valued, catchup
<1>3. CASE FillFails
  BY <1>3 DEF FillFails, Attempt, TypeInv, TypeOK, Valued, stream, catchup
<1>4. ASSUME NEW arm \in SUBSET Arm, Rotate(arm) PROVE TypeInv'
  BY <1>4 DEF Rotate, TypeInv, TypeOK, Valued, stream, catchup
<1>5. ASSUME NEW s \in Series, NEW upto \in 0..now, FillSeries(s, upto) PROVE TypeInv'
  <2>1. PICK f \in filling : filling' = {[f EXCEPT !.todo = @ \ {s}]}
    BY <1>5 DEF FillSeries
  <2>2. f \in Filling /\ now \in Nat
    BY DEF TypeInv, TypeOK
  <2>3. [f EXCEPT !.todo = @ \ {s}] \in Filling
    BY <2>2 DEF Filling
  <2>4. /\ filling' \subseteq Filling /\ \A x, y \in filling' : x = y
        /\ \A g \in filling' : Base \subseteq g.plan
    BY <2>1, <2>2, <2>3 DEF TypeInv, Valued, Filling
  <2>5. (Last(s) + 1)..(upto - 1) \subseteq 0..(now - 1)
    BY <2>2, LastFacts DEF None
  <2>6. stored' \in [Series -> SUBSET (0..(now - 1))]
    BY <1>5, <2>5, StoreType DEF FillSeries
  <2> QED
    BY <1>5, <2>4, <2>6 DEF FillSeries, Attempt, TypeInv, TypeOK, Valued, stream, catchup
<1> QED
  BY <1>1, <1>2, <1>3, <1>4, <1>5 DEF PlanSteps

(* Every step keeps the types.                                              *)
LEMMA TypeStep == TypeInv /\ [Next]_vars => TypeInv'
<1> SUFFICES ASSUME TypeInv, [Next]_vars PROVE TypeInv'
  OBVIOUS
<1>1. CASE Next
  BY <1>1, StepsOfNext, StreamType, StartType, CatcherType, PlanType
<1>2. CASE UNCHANGED vars
  BY <1>2 DEF vars, stream, catchup, plans, TypeInv, TypeOK, Valued
<1> QED
  BY <1>1, <1>2

(* TypeInv holds in every state, whatever fails or ends.                    *)
THEOREM TypeInvariant == Spec => []TypeInv
BY TypeInit, TypeStep, PTL DEF Spec

(* The types of all variables hold whatever fails or ends, in particular    *)
(* that only closed bars are stored and that at most one catch-up, one      *)
(* pending snapshot, one fetch and one poll request exist (TailCatchup,     *)
(* ClosedBarPoller).                                                        *)
THEOREM TypeCorrect == Spec => []TypeOK
<1>1. TypeInv => TypeOK
  BY DEF TypeInv
<1> QED
  BY <1>1, TypeInvariant, PTL

------------------------------------------------------------------------------
(* No hole is forgotten.  Where the process stands says who may be at work. *)
Placed ==
  /\ now <= MaxBar
  /\ conn # "off" \/ task # {} \/ request # {} \/ filling # {} \/ completed => phase = "up"
  /\ task = {} => pending = {} /\ (phase = "up" => todo = {} /\ fetch = {})
  /\ phase \in {"down", "repair"} => fetch = {}
  /\ \A s \in Series : wire[s] # {} => s \in plan /\ conn # "off"

(* Placed holds at the start; the steps of each group keep it.              *)
LEMMA PlacedInit == Init => Placed
<1> SUFFICES ASSUME Init PROVE Placed
  OBVIOUS
<1>1. now <= MaxBar
  BY BoundsAssumption DEF Init
<1>2. \A s \in Series : wire[s] = {}
  BY DEF Init
<1> QED
  BY <1>1, <1>2 DEF Init, Placed

(* the market and the stream,                                               *)
LEMMA PlacedStream ==
  ASSUME TypeInv, Placed, StreamSteps
  PROVE  Placed'
<1>1. CASE Tick
  <2>1. now' <= MaxBar
    BY <1>1, BoundsAssumption DEF Tick, TypeInv, TypeOK
  <2>2. \A s \in Series : wire'[s] # {} => s \in plan /\ conn # "off"
    BY <1>1 DEF Tick, Placed
  <2> QED
    BY <1>1, <2>1, <2>2 DEF Tick, Placed, plans, catchup
<1>2. CASE Connect
  BY <1>2 DEF Connect, Placed, plans, catchup
<1>3. CASE Schedule
  <2>1. CASE task = {}
    BY <1>3, <2>1 DEF Schedule, Placed, plans
  <2>2. CASE task # {}
    <3>1. task' = task /\ todo' = todo
      BY <1>3, <2>2 DEF Schedule
    <3> QED
      BY <1>3, <2>2, <3>1 DEF Schedule, Placed, plans
  <2> QED
    BY <2>1, <2>2
<1>4. CASE Drop
  BY <1>4 DEF Drop, Placed, plans, catchup
<1>5. ASSUME NEW s \in Series, Deliver(s) PROVE Placed'
  <2>1. \A r \in Series : wire'[r] # {} => wire[r] # {}
    BY <1>5 DEF Deliver, TypeInv, TypeOK
  <2> QED
    BY <1>5, <2>1 DEF Deliver, Placed, plans, catchup
<1> QED
  BY <1>1, <1>2, <1>3, <1>4, <1>5 DEF StreamSteps

(* The end of the process leaves nobody at work.                            *)
LEMMA PlacedDown ==
  ASSUME Placed, Down, now' = now
  PROVE  Placed'
<1>1. \A s \in Series : wire'[s] = {}
  BY DEF Down
<1> QED
  BY <1>1 DEF Down, Placed

(* a start,                                                                 *)
LEMMA PlacedStart ==
  ASSUME TypeInv, Placed, StartSteps
  PROVE  Placed'
<1>1. CASE Start
  BY <1>1 DEF Start, Placed, plans, catchup, stream
<1>2. CASE EndBackfill
  BY <1>2 DEF EndBackfill, Placed, catchup, stream
<1>3. CASE EndRepair
  BY <1>3 DEF EndRepair, Placed, catchup, stream
<1>4. CASE Crash
  BY <1>4, PlacedDown DEF Crash
<1>5. ASSUME NEW s \in Series, RefillStale(s) PROVE Placed'
  BY <1>5 DEF RefillStale, Placed, plans, catchup, stream
<1>6. ASSUME NEW s \in Series, NEW upto \in 0..now, RepairSeries(s, upto) PROVE Placed'
  BY <1>6 DEF RepairSeries, Placed, plans, catchup, stream
<1> QED
  BY <1>1, <1>2, <1>3, <1>4, <1>5, <1>6 DEF StartSteps

(* the catch-up and the poller,                                             *)
LEMMA PlacedCatcher ==
  ASSUME TypeInv, Placed, CatcherSteps
  PROVE  Placed'
<1>1. CASE EndTask
  BY <1>1 DEF EndTask, NextTask, Placed, plans, stream
<1>2. ASSUME NEW s \in Series, BeginFetch(s) PROVE Placed'
  BY <1>2 DEF BeginFetch, Placed, plans, stream, catchup
<1>3. ASSUME NEW s \in Series, PollSeries(s) PROVE Placed'
  BY <1>3 DEF PollSeries, Placed, plans, stream, catchup
<1>4. ASSUME NEW f \in fetch, FetchPage(f) PROVE Placed'
  <2>1. fetch # {}
    BY <1>4
  <2> QED
    BY <1>4, <2>1 DEF FetchPage, Placed, plans, stream, catchup
<1>5. ASSUME NEW f \in fetch, FetchFails(f) PROVE Placed'
  <2>1. CASE Down
    BY <1>5, <2>1, PlacedDown DEF FetchFails
  <2>2. CASE phase = "up" /\ NextTask /\ UNCHANGED <<phase, conn, wire, completed, request, plan, filling>>
    BY <1>5, <2>2 DEF FetchFails, NextTask, Placed
  <2>3. CASE fetch' = {} /\ UNCHANGED <<phase, conn, wire, todo, catchup, request, plan, filling>>
    BY <1>5, <2>3 DEF FetchFails, Placed, catchup
  <2> QED
    BY <1>5, <2>1, <2>2, <2>3 DEF FetchFails
<1>6. ASSUME NEW r \in request, NEW upto \in 0..now, PollFetch(r, upto) PROVE Placed'
  BY <1>6 DEF PollFetch, Placed, plans, stream, catchup
<1> QED
  BY <1>1, <1>2, <1>3, <1>4, <1>5, <1>6 DEF CatcherSteps

(* a change of the plan.                                                    *)
LEMMA PlacedPlan ==
  ASSUME TypeInv, Placed, PlanSteps
  PROVE  Placed'
<1>1. CASE BeginFill
  BY <1>1 DEF BeginFill, Placed, stream, catchup
<1>2. CASE Adopt
  <2>1. phase = "up"
    BY <1>2 DEF Adopt, Placed
  <2>2. task = {} => todo' = {}
    BY <1>2, <2>1 DEF Adopt, OfPlan, Placed
  <2>3. \A s \in Series : wire'[s] = {}
    BY <1>2 DEF Adopt
  <2> QED
    BY <1>2, <2>1, <2>2, <2>3 DEF Adopt, Placed, catchup
<1>3. CASE FillFails
  BY <1>3 DEF FillFails, Placed, stream, catchup
<1>4. ASSUME NEW arm \in SUBSET Arm, Rotate(arm) PROVE Placed'
  BY <1>4 DEF Rotate, Placed, stream, catchup
<1>5. ASSUME NEW s \in Series, NEW upto \in 0..now, FillSeries(s, upto) PROVE Placed'
  BY <1>5 DEF FillSeries, Placed, stream, catchup
<1> QED
  BY <1>1, <1>2, <1>3, <1>4, <1>5 DEF PlanSteps

------------------------------------------------------------------------------
(* The bars only grow in number.                                            *)
Grown == now <= now' /\ \A s \in Series : stored[s] \subseteq stored'[s]

(* Storing adds bars to one series and changes no other.                    *)
LEMMA StoreGrows ==
  ASSUME TypeInv, NEW s \in Series, NEW bars, Store(s, bars)
  PROVE  /\ \A r \in Series : stored[r] \subseteq stored'[r]
         /\ \A r \in Series \ {s} : stored'[r] = stored[r]
         /\ stored'[s] = stored[s] \cup bars
BY DEF Store, TypeInv, TypeOK

(* No step takes a stored bar away, or turns time back.                     *)
LEMMA GrownStep == TypeInv /\ [Next]_vars => Grown
<1> SUFFICES ASSUME TypeInv, [Next]_vars PROVE Grown
  OBVIOUS
<1>0. now \in Nat
  BY DEF TypeInv, TypeOK
<1>1. CASE UNCHANGED <<now, stored>>
  BY <1>0, <1>1 DEF Grown
<1>2. CASE UNCHANGED now /\ \E s \in Series, bars \in SUBSET Int : Store(s, bars)
  BY <1>0, <1>2, StoreGrows DEF Grown
<1>3. CASE StreamSteps
  <2>1. ASSUME NEW s \in Series, Deliver(s) PROVE Grown
    <3>1. wire[s] \in SUBSET Nat /\ wire[s] # {}
      BY <2>1 DEF Deliver, TypeInv, TypeOK
    <3>2. Store(s, {Min(wire[s])}) /\ UNCHANGED now
      BY <2>1 DEF Deliver
    <3> QED
      BY <1>0, <3>2, StoreGrows DEF Grown
  <2>2. CASE Tick
    BY <1>0, <2>2 DEF Tick, Grown
  <2> QED
    BY <1>1, <1>3, <2>1, <2>2 DEF StreamSteps, Connect, Schedule, Drop
<1>4. CASE StartSteps
  <2>1. ASSUME NEW s \in Series, RefillStale(s) PROVE Grown
    BY <1>0, <2>1, StoreGrows DEF RefillStale, Grown
  <2>2. ASSUME NEW s \in Series, NEW upto \in 0..now, RepairSeries(s, upto) PROVE Grown
    BY <1>0, <2>2, StoreGrows DEF RepairSeries, Grown
  <2>3. CASE Start \/ EndBackfill \/ EndRepair \/ Crash
    BY <1>1, <2>3 DEF Start, EndBackfill, EndRepair, Crash
  <2> QED
    BY <1>4, <2>1, <2>2, <2>3 DEF StartSteps
<1>5. CASE CatcherSteps
  <2>1. ASSUME NEW f \in fetch, FetchPage(f) PROVE Grown
    <3>1. f.series \in Series
      BY DEF TypeInv, TypeOK, Fetch
    <3> QED
      BY <1>0, <2>1, <3>1, StoreGrows DEF FetchPage, Grown
  <2>2. ASSUME NEW r \in request, NEW upto \in 0..now, PollFetch(r, upto) PROVE Grown
    <3>1. r.series \in Series
      BY DEF TypeInv, TypeOK, Fetch
    <3> QED
      BY <1>0, <2>2, <3>1, StoreGrows DEF PollFetch, Grown
  <2>3. ASSUME NEW s \in Series, BeginFetch(s) \/ PollSeries(s) PROVE Grown
    BY <1>1, <2>3 DEF BeginFetch, PollSeries
  <2>4. ASSUME NEW f \in fetch, FetchFails(f) PROVE Grown
    BY <1>1, <2>4 DEF FetchFails
  <2>5. CASE EndTask
    BY <1>1, <2>5 DEF EndTask
  <2> QED
    BY <1>5, <2>1, <2>2, <2>3, <2>4, <2>5 DEF CatcherSteps
<1>6. CASE PlanSteps
  <2>1. ASSUME NEW s \in Series, NEW upto \in 0..now, FillSeries(s, upto) PROVE Grown
    BY <1>0, <2>1, StoreGrows DEF FillSeries, Grown
  <2>2. CASE BeginFill \/ Adopt \/ FillFails \/ \E arm \in SUBSET Arm : Rotate(arm)
    BY <1>1, <2>2 DEF BeginFill, Adopt, FillFails, Rotate
  <2> QED
    BY <1>6, <2>1, <2>2 DEF PlanSteps
<1>7. CASE UNCHANGED vars
  BY <1>1, <1>7 DEF vars
<1> QED
  BY <1>3, <1>4, <1>5, <1>6, <1>7, StepsOfNext

(* The latest bar, after a step that only adds bars.                        *)
LEMMA LastNext ==
  ASSUME TypeInv, TypeInv', Grown, NEW s \in Series
  PROVE  /\ Last(s) <= Last(s)' /\ Last(s) \in Int /\ Last(s)' \in Int
         /\ Last(s)' \in {None} \cup 0..(now' - 1)
         /\ Last(s)' = None <=> stored'[s] = {}
         /\ stored'[s] # {} => Last(s)' \in stored'[s]
         /\ \A b \in stored'[s] : b <= Last(s)'
         /\ stored'[s] = stored[s] => Last(s)' = Last(s)
<1>1. now' \in Nat /\ stored'[s] \in SUBSET (0..(now' - 1))
  BY DEF TypeInv, TypeOK
<1>2. Last(s)' = Latest(stored'[s]) /\ Last(s) = Latest(stored[s])
  BY DEF Last, Latest
<1>3. /\ Latest(stored'[s]) \in {None} \cup 0..(now' - 1)
      /\ Latest(stored'[s]) = None <=> stored'[s] = {}
      /\ stored'[s] # {} => Latest(stored'[s]) \in stored'[s]
      /\ \A b \in stored'[s] : b <= Latest(stored'[s])
  BY <1>1, LatestFacts
<1>4. stored[s] \subseteq stored'[s]
  BY DEF Grown
<1>5. /\ Last(s) \in {None} \cup 0..(now - 1)
      /\ Last(s) = None <=> stored[s] = {}
      /\ stored[s] # {} => Last(s) \in stored[s]
  BY LastFacts
<1>6. Last(s) <= Last(s)'
  BY <1>2, <1>3, <1>4, <1>5 DEF None
<1> QED
  BY <1>2, <1>3, <1>5, <1>6 DEF None

(* The stored bars reach the poller's depth.                                *)
Near(s) == stored[s] # {} /\ Short(s, now)

(* New bars bring a series no further from the poller.                      *)
LEMMA NearGrows ==
  ASSUME TypeInv, TypeInv', Grown, now' = now, NEW s \in Series, Near(s)
  PROVE  Near(s)'
<1>1. Last(s) <= Last(s)' /\ Last(s) \in Int /\ Last(s)' \in Int /\ now \in Nat
  BY LastNext DEF TypeInv, TypeOK
<1>2. stored'[s] # {}
  BY DEF Near, Grown
<1> QED
  BY <1>1, <1>2, BoundsAssumption DEF Near, Short

------------------------------------------------------------------------------
(* Whoever fetches begins no later than after the latest bar.               *)
Behind ==
  /\ \A snap \in task \cup pending : \A s \in DOMAIN snap : snap[s] <= Last(s)
  /\ \A f \in fetch \cup request : f.from <= Last(f.series) + 1 /\ f.stop <= now

(* The poller can reach every series of the plan, once a catch-up has had   *)
(* its turn with it or it was filled.                                       *)
Keeping ==
  /\ phase = "up" => \A f \in fetch : now - f.stop <= PollDepth + 1
  /\ task # {} => \A s \in plan : s \in todo \/ (\E f \in fetch : f.series = s) \/ Near(s)
  /\ completed => \A s \in plan : Near(s)
  /\ \A f \in filling : \A s \in f.plan \ f.todo : s \in plan \/ Near(s)

(* Without a new snapshot, fetch or request, Behind is kept.                *)
LEMMA BehindKept ==
  ASSUME TypeInv, TypeInv', Grown, Behind,
         task' \cup pending' \subseteq task \cup pending,
         fetch' \cup request' \subseteq fetch \cup request
  PROVE  Behind'
<1>1. ASSUME NEW snap \in task' \cup pending', NEW s \in DOMAIN snap PROVE snap[s] <= Last(s)'
  <2>1. s \in Series /\ snap[s] \in Int
    BY <1>1 DEF TypeInv, TypeOK, Valued
  <2>2. snap[s] <= Last(s)
    BY <1>1 DEF Behind
  <2> QED
    BY <2>1, <2>2, LastNext
<1>2. ASSUME NEW f \in fetch' \cup request'
      PROVE  f.from <= Last(f.series)' + 1 /\ f.stop <= now'
  <2>1. f.series \in Series /\ f.from \in Nat /\ f.stop \in Nat /\ now \in Nat /\ now' \in Nat
    BY <1>2 DEF TypeInv, TypeOK, Fetch
  <2>2. f.from <= Last(f.series) + 1 /\ f.stop <= now /\ now <= now'
    BY <1>2 DEF Behind, Grown
  <2> QED
    BY <2>1, <2>2, LastNext
<1> QED
  BY <1>1, <1>2 DEF Behind

(* The steps of each group keep Behind.                                     *)
LEMMA BehindStream ==
  ASSUME TypeInv, TypeInv', Grown, Behind, StreamSteps
  PROVE  Behind'
<1>1. CASE UNCHANGED <<task, pending, fetch, request>>
  BY <1>1, BehindKept
<1>2. CASE Schedule
  <2> DEFINE reading == [s \in plan |-> Last(s)]
  <2>0. plan \subseteq Series /\ stored' = stored /\ fetch' = fetch /\ request' = request /\ now' = now
    BY <1>2 DEF Schedule, plans, TypeInv, TypeOK
  <2>1. \A s \in Series : Last(s)' = Last(s) /\ Last(s) \in {None} \cup Nat
    BY <2>0, LastNext, LastFacts DEF None
  <2>2. /\ DOMAIN reading = plan
        /\ \A s \in DOMAIN reading : reading[s] \in {None} \cup Nat /\ reading[s] <= Last(s)
    BY <2>0, <2>1 DEF None
  <2>3. /\ \A f \in fetch' \cup request' : f.from <= Last(f.series)' + 1 /\ f.stop <= now'
    <3>1. \A f \in fetch \cup request : f.series \in Series
      BY DEF TypeInv, TypeOK, Fetch
    <3> QED
      BY <2>0, <2>1, <3>1 DEF Behind
  <2>4. ASSUME NEW snap \in task' \cup pending', NEW s \in DOMAIN snap PROVE snap[s] <= Last(s)
    <3>1. CASE snap \in task \cup pending
      BY <2>4, <3>1 DEF Behind
    <3>2. CASE snap = reading
      BY <2>2, <2>4, <3>2
    <3>3. CASE snap \notin task \cup pending /\ snap # reading
      <4>1. task # {} /\ pending # {}
        BY <1>2, <3>3, <2>4 DEF Schedule
      <4>2. PICK p \in pending : snap = Merge(p, reading)
        BY <1>2, <3>3, <2>4, <4>1 DEF Schedule
      <4>3. \A r \in DOMAIN p : p[r] \in {None} \cup Nat /\ p[r] <= Last(r)
        BY DEF TypeInv, Valued, Behind
      <4>4. (\A r \in DOMAIN p : p[r] \in {None} \cup Nat) /\ (\A r \in DOMAIN reading : reading[r] \in {None} \cup Nat)
        BY <2>2, <4>3
      <4>5. /\ DOMAIN Merge(p, reading) = DOMAIN p \cup DOMAIN reading
            /\ \A v \in DOMAIN p \cup DOMAIN reading :
                 /\ Merge(p, reading)[v] \in {None} \cup Nat
                 /\ v \in DOMAIN p => Merge(p, reading)[v] <= p[v]
                 /\ v \in DOMAIN reading => Merge(p, reading)[v] <= reading[v]
                 /\ \/ v \in DOMAIN p /\ Merge(p, reading)[v] = p[v]
                    \/ v \in DOMAIN reading /\ Merge(p, reading)[v] = reading[v]
        <5> HIDE DEF reading
        <5> QED
          BY <4>4, MergeFacts
      <4> HIDE DEF reading
      <4>6. \/ s \in DOMAIN p /\ snap[s] = p[s]
            \/ s \in DOMAIN reading /\ snap[s] = reading[s]
        BY <2>4, <4>2, <4>5
      <4> QED
        BY <2>2, <4>3, <4>6
    <3> QED
      BY <3>1, <3>2, <3>3
  <2>5. \A snap \in task' \cup pending' : \A s \in DOMAIN snap : s \in Series
    BY DEF TypeInv, TypeOK
  <2> QED
    BY <2>1, <2>3, <2>4, <2>5 DEF Behind
<1> QED
  BY <1>1, <1>2 DEF StreamSteps, Tick, Connect, Drop, Deliver, catchup

(* A start asks for nothing.                                                *)
LEMMA BehindStart ==
  ASSUME TypeInv, TypeInv', Grown, Behind, StartSteps
  PROVE  Behind'
<1>1. CASE UNCHANGED <<task, pending, fetch, request>>
  BY <1>1, BehindKept
<1>2. CASE Down
  BY <1>2, BehindKept DEF Down
<1> QED
  BY <1>1, <1>2 DEF StartSteps, Start, EndBackfill, EndRepair, Crash, RefillStale, RepairSeries, catchup

(* The catch-up and the poller ask after the latest bar.                    *)
LEMMA BehindCatcher ==
  ASSUME TypeInv, TypeInv', Grown, Behind, Keeping, CatcherSteps, failures' = 0
  PROVE  Behind'
<1>0. now \in Nat /\ failures \in Nat /\ fetch \subseteq Fetch /\ request \subseteq Fetch
  BY DEF TypeInv, TypeOK
<1>1. CASE EndTask
  BY <1>1, BehindKept DEF EndTask, NextTask
<1>2. ASSUME NEW s \in Series, BeginFetch(s) PROVE Behind'
  <2>1. From(s) <= Last(s) + 1
    <3>1. CASE \E snap \in task : s \in DOMAIN snap
      <4>1. PICK snap \in task : s \in DOMAIN snap
        BY <3>1
      <4>2. snap[s] <= Last(s) /\ snap[s] \in Int
        BY <4>1 DEF Behind, TypeInv, Valued, None
      <4>3. Last(s) \in Int
        BY LastFacts DEF None
      <4> QED
        BY <4>1, <4>2, <4>3, FromType
    <3>2. CASE \A snap \in task : s \notin DOMAIN snap
      BY <3>2, FromType, LastFacts DEF None
    <3> QED
      BY <3>1, <3>2
  <2>2. /\ fetch' = {[series |-> s, from |-> From(s), stop |-> now]}
        /\ task' = task /\ pending' = pending /\ request' = request /\ now' = now /\ stored' = stored
    BY <1>2 DEF BeginFetch, catchup
  <2>3. \A r \in Series : Last(r)' = Last(r)
    BY <2>2, LastNext
  <2>4. \A snap \in task \cup pending : \A r \in DOMAIN snap : r \in Series
    BY DEF TypeInv, TypeOK
  <2>5. \A f \in request : f.series \in Series
    BY <1>0 DEF Fetch
  <2> QED
    BY <1>0, <2>1, <2>2, <2>3, <2>4, <2>5 DEF Behind
<1>3. ASSUME NEW s \in Series, PollSeries(s) PROVE Behind'
  <2>1. completed \/ Short(s, now)
    BY <1>3 DEF PollSeries
  <2>2. Short(s, now)
    BY <1>3, <2>1 DEF Keeping, Near, PollSeries
  <2>3. MissingSince(s) = Last(s) + 1
    BY <2>2 DEF MissingSince
  <2>4. /\ request' = {[series |-> s, from |-> MissingSince(s), stop |-> now]}
        /\ task' = task /\ pending' = pending /\ fetch' = fetch /\ now' = now /\ stored' = stored
    BY <1>3 DEF PollSeries, catchup
  <2>5. \A r \in Series : Last(r)' = Last(r) /\ Last(r) \in Int
    BY <2>4, LastNext
  <2>6. \A snap \in task \cup pending : \A r \in DOMAIN snap : r \in Series
    BY DEF TypeInv, TypeOK
  <2>7. \A f \in fetch : f.series \in Series
    BY <1>0 DEF Fetch
  <2> QED
    BY <1>0, <2>3, <2>4, <2>5, <2>6, <2>7 DEF Behind
<1>4. ASSUME NEW f \in fetch, FetchPage(f) PROVE Behind'
  <2>0. f.series \in Series /\ f.from \in Nat /\ f.stop \in Nat /\ f.stop <= now
    BY <1>0 DEF Fetch, Behind
  <2>1. CASE f.from + PageBars > f.stop
    <3>1. fetch' = {} /\ task' = task /\ pending' = pending /\ request' = request
      BY <1>4, <2>1 DEF FetchPage, catchup
    <3> QED
      BY <3>1, BehindKept
  <2>2. CASE ~ (f.from + PageBars > f.stop)
    <3>1. /\ fetch' = {[f EXCEPT !.from = @ + PageBars]}
          /\ task' = task /\ pending' = pending /\ request' = request /\ now' = now
          /\ Store(f.series, Got(f, f.from + PageBars - 1))
      BY <1>4, <2>2 DEF FetchPage, catchup
    <3> DEFINE g == [f EXCEPT !.from = @ + PageBars]
    <3>2. g.series = f.series /\ g.from = f.from + PageBars /\ g.stop = f.stop
      BY <1>0 DEF Fetch
    <3>3. f.from + PageBars - 1 \in Got(f, f.from + PageBars - 1)
      BY <1>0, <2>0, <2>2, BoundsAssumption DEF Got
    <3>4. f.from + PageBars - 1 \in stored'[f.series]
      BY <2>0, <3>1, <3>3, StoreGrows
    <3>5. f.from + PageBars - 1 <= Last(f.series)' /\ Last(f.series)' \in Int
      BY <2>0, <3>4, LastNext
    <3>6. g.from <= Last(f.series)' + 1 /\ g.stop <= now'
      BY <2>0, <3>1, <3>2, <3>5, BoundsAssumption
    <3> HIDE DEF g
    <3>7. \A snap \in task' \cup pending' : \A r \in DOMAIN snap : snap[r] <= Last(r)'
      <4> SUFFICES ASSUME NEW snap \in task \cup pending, NEW r \in DOMAIN snap
                   PROVE  snap[r] <= Last(r)'
        BY <3>1
      <4>1. r \in Series /\ snap[r] <= Last(r) /\ snap[r] \in Int
        BY DEF TypeInv, TypeOK, Valued, Behind
      <4> QED
        BY <4>1, LastNext
    <3>8. \A q \in request' : q.from <= Last(q.series)' + 1 /\ q.stop <= now'
      <4> SUFFICES ASSUME NEW q \in request
                   PROVE  q.from <= Last(q.series)' + 1 /\ q.stop <= now
        BY <3>1
      <4>1. q.series \in Series /\ q.from \in Nat /\ q.from <= Last(q.series) + 1 /\ q.stop <= now
        BY <1>0 DEF Fetch, Behind
      <4> QED
        BY <4>1, LastNext
    <3>9. fetch' = {g}
      BY <3>1 DEF g
    <3> QED
      BY <3>2, <3>6, <3>7, <3>8, <3>9 DEF Behind
  <2> QED
    BY <2>1, <2>2
<1>5. ASSUME NEW f \in fetch, FetchFails(f) PROVE Behind'
  BY <1>0, <1>5 DEF FetchFails, Attempt
<1>6. ASSUME NEW r \in request, NEW upto \in 0..now, PollFetch(r, upto) PROVE Behind'
  BY <1>6, BehindKept DEF PollFetch, catchup
<1> QED
  BY <1>1, <1>2, <1>3, <1>4, <1>5, <1>6 DEF CatcherSteps

(* A change of the plan asks for nothing yet.                               *)
LEMMA BehindPlan ==
  ASSUME TypeInv, TypeInv', Grown, Behind, PlanSteps
  PROVE  Behind'
<1>1. UNCHANGED <<task, pending, fetch, request>>
  BY DEF PlanSteps, BeginFill, Adopt, FillFails, Rotate, FillSeries, catchup
<1> QED
  BY <1>1, BehindKept

(* While nothing but bars is added, Keeping is kept.                        *)
LEMMA KeepingKept ==
  ASSUME TypeInv, TypeInv', Grown, Keeping, now' = now,
         UNCHANGED <<phase, plan, fetch, task, todo, completed, filling>>
  PROVE  Keeping'
<1>1. \A s \in Series : Near(s) => Near(s)'
  BY NearGrows
<1>2. plan \subseteq Series /\ \A f \in filling : f.plan \subseteq Series
  BY DEF TypeInv, TypeOK, Filling
<1>3. \A s \in plan : Near(s) => Near(s)'
  BY <1>1, <1>2
<1>4. \A f \in filling : \A s \in f.plan : Near(s) => Near(s)'
  BY <1>1, <1>2
<1> QED
  BY <1>3, <1>4 DEF Keeping

(* Keeping says nothing of a process that is not up.                        *)
LEMMA KeepingDown ==
  ASSUME Placed', phase' # "up"
  PROVE  Keeping'
BY DEF Placed, Keeping

(* The steps of each group keep Keeping; the market needs Punctual.         *)
LEMMA KeepingStream ==
  ASSUME Punctual, TypeInv, TypeInv', Grown, Placed, Keeping, StreamSteps
  PROVE  Keeping'
<1>1. CASE Tick
  <2>1. /\ now' = now + 1 /\ now \in Nat /\ stored' = stored
        /\ UNCHANGED <<phase, plan, fetch, task, todo, completed, filling>>
    BY <1>1 DEF Tick, plans, catchup, TypeInv, TypeOK
  <2>2. ASSUME phase = "up", NEW s \in Current, Near(s) PROVE Near(s)'
    <3>1. Short(s, now + 1)
      BY <1>1, <2>2 DEF Tick, Timely, Near
    <3>2. s \in Series
      BY <2>2 DEF Current, TypeInv, TypeOK, Filling
    <3>3. Last(s)' = Last(s)
      BY <2>1, <3>2, LastNext
    <3> QED
      BY <2>1, <2>2, <3>1, <3>3 DEF Near, Short
  <2>3. plan \subseteq Current /\ \A f \in filling : f.plan \ f.todo \subseteq Current
    BY DEF Current
  <2>4. phase = "up" => \A f \in fetch : now' - f.stop <= PollDepth + 1
    <3> SUFFICES ASSUME NEW f \in fetch PROVE now' - f.stop <= PollDepth + 1
      OBVIOUS
    <3>1. now - f.stop <= PollDepth
      BY <1>1 DEF Tick, Timely
    <3>2. f.stop \in Nat
      BY DEF TypeInv, TypeOK, Fetch
    <3> QED
      BY <2>1, <3>1, <3>2, BoundsAssumption
  <2>5. task # {} => \A s \in plan : s \in todo \/ (\E f \in fetch : f.series = s) \/ Near(s)'
    BY <2>2, <2>3 DEF Keeping, Placed
  <2>6. completed => \A s \in plan : Near(s)'
    BY <2>2, <2>3 DEF Keeping, Placed
  <2>7. \A f \in filling : \A s \in f.plan \ f.todo : s \in plan \/ Near(s)'
    BY <2>2, <2>3 DEF Keeping, Placed
  <2> QED
    BY <2>1, <2>4, <2>5, <2>6, <2>7 DEF Keeping
<1>2. CASE Schedule
  <2>1. CASE task = {}
    <3>1. UNCHANGED <<now, phase, plan, fetch, completed, filling>> /\ todo' = plan
      BY <1>2, <2>1 DEF Schedule, plans
    <3>2. \A s \in Series : Near(s) => Near(s)'
      BY <3>1, NearGrows
    <3>3. plan \subseteq Series /\ \A f \in filling : f.plan \subseteq Series
      BY DEF TypeInv, TypeOK, Filling
    <3>4. (completed => \A s \in plan : Near(s)')
      BY <3>2, <3>3 DEF Keeping
    <3>5. \A f \in filling : \A s \in f.plan \ f.todo : s \in plan \/ Near(s)'
      BY <3>2, <3>3 DEF Keeping
    <3> QED
      BY <3>1, <3>4, <3>5 DEF Keeping
  <2>2. CASE task # {}
    <3>1. UNCHANGED <<now, phase, plan, fetch, task, todo, completed, filling>>
      BY <1>2, <2>2 DEF Schedule, plans
    <3> QED
      BY <3>1, KeepingKept
  <2> QED
    BY <2>1, <2>2
<1>3. CASE Connect \/ Drop \/ \E s \in Series : Deliver(s)
  <2>1. UNCHANGED <<now, phase, plan, fetch, task, todo, completed, filling>>
    BY <1>3 DEF Connect, Drop, Deliver, plans, catchup
  <2> QED
    BY <2>1, KeepingKept
<1> QED
  BY <1>1, <1>2, <1>3 DEF StreamSteps

(* Every series is kept when a start has ended.                             *)
LEMMA KeepingStart ==
  ASSUME TypeInv, TypeInv', Grown, Placed, Placed', Keeping, StartSteps
  PROVE  Keeping'
<1>1. CASE phase' # "up"
  BY <1>1, KeepingDown
<1>2. CASE phase' = "up"
  <2>1. EndRepair
    BY <1>2 DEF StartSteps, Start, EndBackfill, Crash, Down, RefillStale, RepairSeries
  <2>2. task' = {} /\ fetch' = {} /\ ~ completed' /\ filling' = {}
    BY <2>1 DEF EndRepair, Placed, catchup
  <2> QED
    BY <2>2 DEF Keeping
<1> QED
  BY <1>1, <1>2

(* The last page of a fetch brings its series within reach of the poller.   *)
LEMMA KeepingPage ==
  ASSUME TypeInv, TypeInv', Grown, Placed, Behind, Keeping,
         phase = "up", NEW f \in fetch, FetchPage(f), f.from + PageBars > f.stop
  PROVE  Near(f.series)'
<1>1. f.series \in Series /\ f.from \in Nat /\ f.stop \in Nat /\ f.stop <= now /\ now \in Nat /\ now # 0
  BY DEF Behind, TypeInv, TypeOK, Fetch
<1>2. f.from <= Last(f.series) + 1 /\ now - f.stop <= PollDepth + 1
  BY DEF Behind, Keeping
<1>3. /\ Last(f.series) <= Last(f.series)' /\ Last(f.series) \in Int /\ Last(f.series)' \in Int
      /\ Last(f.series)' = None <=> stored'[f.series] = {}
      /\ \A b \in stored'[f.series] : b <= Last(f.series)'
  BY <1>1, LastNext
<1> DEFINE c == IF f.stop < now THEN f.stop ELSE now - 1
<1>4. c \in Nat /\ c <= f.stop /\ c < now /\ now - c - 1 <= PollDepth
  BY <1>1, <1>2, BoundsAssumption
<1>5. c <= Last(f.series)'
  <2>1. CASE c < f.from
    BY <1>1, <1>2, <1>3, <1>4, <2>1
  <2>2. CASE c >= f.from
    <3>1. c \in Got(f, f.from + PageBars - 1)
      BY <1>1, <1>4, <2>2, BoundsAssumption DEF Got
    <3>2. c \in stored'[f.series]
      BY <1>1, <3>1, StoreGrows DEF FetchPage
    <3> QED
      BY <1>3, <3>2
  <2> QED
    BY <1>1, <1>4, <2>1, <2>2
<1>6. now' = now
  BY DEF FetchPage
<1> HIDE DEF c
<1>7. stored'[f.series] # {}
  BY <1>3, <1>4, <1>5 DEF None
<1>8. now - (Last(f.series)' + 1) <= PollDepth
  BY <1>1, <1>3, <1>4, <1>5, BoundsAssumption
<1> QED
  BY <1>6, <1>7, <1>8 DEF Near, Short

(* A catch-up has had its turn with a series when its fetch ends.           *)
LEMMA KeepingCatcher ==
  ASSUME TypeInv, TypeInv', Grown, Placed, Placed', Behind, Keeping, CatcherSteps, failures' = 0
  PROVE  Keeping'
<1>0. CASE phase' # "up"
  BY <1>0, KeepingDown
<1>1. ASSUME phase' = "up", EndTask PROVE Keeping'
  <2>1. /\ UNCHANGED <<now, phase, plan, filling>> /\ fetch' = {} /\ task # {} /\ todo = {} /\ fetch = {}
        /\ task' = {} \/ todo' = plan
    BY <1>1 DEF EndTask, NextTask, plans
  <2>2. plan \subseteq Series /\ \A f \in filling : f.plan \subseteq Series
    BY DEF TypeInv, TypeOK, Filling
  <2>3. \A s \in Series : Near(s) => Near(s)'
    BY <2>1, NearGrows
  <2>4. \A s \in plan : Near(s)'
    BY <2>1, <2>2, <2>3 DEF Keeping
  <2>5. \A f \in filling : \A s \in f.plan \ f.todo : s \in plan \/ Near(s)'
    BY <2>2, <2>3 DEF Keeping
  <2> QED
    BY <2>1, <2>4, <2>5 DEF Keeping
<1>2. ASSUME phase' = "up", NEW s \in Series, BeginFetch(s) PROVE Keeping'
  <2>1. /\ UNCHANGED <<now, stored, phase, plan, filling, task, completed>> /\ fetch = {}
        /\ todo' = todo \ {s} /\ fetch' = {[series |-> s, from |-> From(s), stop |-> now]}
    BY <1>2 DEF BeginFetch, plans, catchup
  <2>2. plan \subseteq Series /\ (\A f \in filling : f.plan \subseteq Series) /\ now \in Nat
    BY DEF TypeInv, TypeOK, Filling
  <2>3. \A r \in Series : Near(r) => Near(r)'
    BY <2>1, NearGrows
  <2>4. task # {} => \A r \in plan : r \in todo' \/ (\E f \in fetch' : f.series = r) \/ Near(r)'
    BY <2>1, <2>2, <2>3 DEF Keeping
  <2>5. (completed => \A r \in plan : Near(r)') /\ \A f \in filling : \A r \in f.plan \ f.todo : r \in plan \/ Near(r)'
    BY <2>2, <2>3 DEF Keeping
  <2>6. \A f \in fetch' : now - f.stop <= PollDepth + 1
    BY <2>1, <2>2, BoundsAssumption
  <2> QED
    BY <2>1, <2>4, <2>5, <2>6 DEF Keeping
<1>3. ASSUME phase' = "up", NEW f \in fetch, FetchPage(f) PROVE Keeping'
  <2>1. /\ UNCHANGED <<now, phase, plan, filling, task, todo, completed>> /\ phase = "up"
        /\ fetch' = IF f.from + PageBars > f.stop THEN {} ELSE {[f EXCEPT !.from = @ + PageBars]}
    BY <1>3 DEF FetchPage, plans, catchup
  <2>2. plan \subseteq Series /\ (\A g \in filling : g.plan \subseteq Series) /\ (\A g \in fetch : g = f) /\ f \in Fetch
    BY DEF TypeInv, TypeOK, Filling
  <2>3. \A r \in Series : Near(r) => Near(r)'
    BY <2>1, NearGrows
  <2>4. f.from + PageBars > f.stop => Near(f.series)'
    BY <1>3, <2>1, KeepingPage
  <2>5. \A g \in fetch' : g.series = f.series /\ g.stop = f.stop
    BY <2>1, <2>2 DEF Fetch
  <2>6. fetch' = {} => Near(f.series)'
    BY <2>1, <2>4
  <2>7. task # {} => \A r \in plan : r \in todo' \/ (\E g \in fetch' : g.series = r) \/ Near(r)'
    <3> SUFFICES ASSUME task # {}, NEW r \in plan
                 PROVE  r \in todo' \/ (\E g \in fetch' : g.series = r) \/ Near(r)'
      OBVIOUS
    <3>1. r \in todo \/ r = f.series \/ Near(r)
      BY <2>2 DEF Keeping
    <3>2. CASE r = f.series
      BY <2>5, <2>6, <3>2
    <3> QED
      BY <2>1, <2>2, <2>3, <3>1, <3>2
  <2>8. (completed => \A r \in plan : Near(r)') /\ \A g \in filling : \A r \in g.plan \ g.todo : r \in plan \/ Near(r)'
    BY <2>2, <2>3 DEF Keeping
  <2>9. \A g \in fetch' : now - g.stop <= PollDepth + 1
    BY <2>1, <2>5 DEF Keeping
  <2> QED
    BY <2>1, <2>7, <2>8, <2>9 DEF Keeping
<1>4. ASSUME NEW f \in fetch, FetchFails(f) PROVE FALSE
  BY <1>4 DEF FetchFails, Attempt, TypeInv, TypeOK
<1>5. CASE (\E s \in Series : PollSeries(s)) \/ (\E r \in request : \E upto \in 0..now : PollFetch(r, upto))
  <2>1. UNCHANGED <<now, phase, plan, fetch, task, todo, completed, filling>>
    BY <1>5 DEF PollSeries, PollFetch, plans, catchup
  <2> QED
    BY <2>1, KeepingKept
<1> QED
  BY <1>0, <1>1, <1>2, <1>3, <1>4, <1>5 DEF CatcherSteps

(* A new plan names its series to the catch-up.                             *)
LEMMA KeepingPlan ==
  ASSUME TypeInv, TypeInv', Grown, Placed, Placed', Keeping, PlanSteps, failures' = 0
  PROVE  Keeping'
<1>0. /\ now \in Nat /\ failures \in Nat /\ plan \subseteq Series /\ \A f \in filling : f.plan \subseteq Series
      /\ UNCHANGED <<now, phase, task, completed, fetch>>
  BY DEF TypeInv, TypeOK, Filling, PlanSteps, BeginFill, Adopt, FillFails, Rotate, FillSeries, catchup
<1>1. \A s \in Series : Near(s) => Near(s)'
  BY <1>0, NearGrows
<1>2. (\A s \in plan : Near(s) => Near(s)') /\ \A f \in filling : \A s \in f.plan : Near(s) => Near(s)'
  BY <1>0, <1>1
<1>3. CASE BeginFill
  <2>1. filling' = {[plan |-> Wanted, todo |-> Wanted \ plan]} /\ UNCHANGED <<plan, todo>>
    BY <1>3 DEF BeginFill
  <2> QED
    BY <1>0, <1>2, <2>1 DEF Keeping
<1>4. CASE Adopt
  <2>1. PICK f \in filling : f.todo = {} /\ plan' = f.plan /\ todo' = OfPlan(f.plan)
    BY <1>4 DEF Adopt
  <2>2. filling' = {}
    BY <1>4 DEF Adopt
  <2>3. \A s \in f.plan : s \in plan \/ Near(s)'
    BY <1>2, <2>1 DEF Keeping
  <2>4. \A s \in f.plan : s \in todo => s \in todo'
    BY <2>1 DEF OfPlan
  <2>5. task # {} => \A s \in f.plan : s \in todo' \/ (\E g \in fetch : g.series = s) \/ Near(s)'
    BY <1>2, <2>3, <2>4 DEF Keeping
  <2>6. completed => \A s \in f.plan : Near(s)'
    BY <1>2, <2>3 DEF Keeping
  <2> QED
    BY <1>0, <2>1, <2>2, <2>5, <2>6 DEF Keeping
<1>5. CASE FillFails
  BY <1>0, <1>5 DEF FillFails, Attempt
<1>6. ASSUME NEW arm \in SUBSET Arm, Rotate(arm) PROVE Keeping'
  <2>1. UNCHANGED <<now, phase, plan, fetch, task, todo, completed, filling>>
    BY <1>6 DEF Rotate, catchup
  <2> QED
    BY <2>1, KeepingKept
<1>7. ASSUME NEW s \in Series, NEW upto \in 0..now, FillSeries(s, upto) PROVE Keeping'
  <2>1. PICK f \in filling : filling' = {[f EXCEPT !.todo = @ \ {s}]}
    BY <1>7 DEF FillSeries
  <2>2. upto = now /\ UNCHANGED <<plan, todo>> /\ Store(s, (Last(s) + 1)..(now - 1))
    BY <1>0, <1>7 DEF FillSeries, Attempt
  <2>3. Near(s)'
    <3>1. stored'[s] = stored[s] \cup ((Last(s) + 1)..(now - 1))
      BY <2>2, StoreGrows
    <3>2. /\ Last(s) \in {None} \cup 0..(now - 1)
          /\ stored[s] # {} => Last(s) \in stored[s]
          /\ Last(s) = None <=> stored[s] = {}
      BY LastFacts
    <3>3. now - 1 \in stored'[s]
      BY <1>0, <3>1, <3>2 DEF None, TypeInv
    <3>4. now - 1 <= Last(s)' /\ Last(s)' \in Int
      BY <3>3, LastNext
    <3> QED
      BY <1>0, <3>3, <3>4, BoundsAssumption DEF Near, Short
  <2>4. \A g \in filling' : g.plan = f.plan /\ g.todo = f.todo \ {s}
    <3>1. f \in Filling
      BY DEF TypeInv, TypeOK
    <3> QED
      BY <2>1, <3>1 DEF Filling
  <2>5. \A g \in filling' : \A r \in g.plan \ g.todo : r \in plan \/ Near(r)'
    BY <1>2, <2>3, <2>4 DEF Keeping
  <2> QED
    BY <1>0, <1>2, <2>2, <2>5 DEF Keeping
<1> QED
  BY <1>3, <1>4, <1>5, <1>6, <1>7 DEF PlanSteps

------------------------------------------------------------------------------
(* What somebody must still fetch: the holes, and of a series that is       *)
(* streamed also what its connection missed.                                *)
Due(s) ==
  Holes(s) \cup
  {b \in 0..(now - 1) : conn = "live" /\ s \in plan /\ b \notin stored[s] /\ b \notin wire[s]}

(* Awaited, with the snapshot of the catch-up in place of From.             *)
Sure(s, b) ==
  \/ s \in todo /\ \E snap \in task : s \in DOMAIN snap /\ snap[s] < b
  \/ \E f \in fetch \cup request : f.series = s /\ f.from <= b /\ b <= f.stop
  \/ \E snap \in pending : s \in DOMAIN snap /\ snap[s] < b
  \/ phase \in {"down", "backfill"}
  \/ phase = "repair" /\ s \in todo

Whole ==
  /\ \A s \in Series \ lost : \A b \in Due(s) : Sure(s, b)
  /\ phase = "up" => \A s \in Series \ (plan \cup lost) : Holes(s) = {}

(* What is due has closed and is not stored.                                *)
LEMMA DueFacts ==
  ASSUME TypeInv, NEW s \in Series
  PROVE  /\ \A b \in Holes(s) : b \in 0..(now - 1) /\ b <= Last(s) /\ b \notin stored[s]
         /\ \A b \in Due(s) : b \in 0..(now - 1) /\ b \notin stored[s]
         /\ Holes(s) \subseteq Due(s)
         /\ \A b \in 0..(now - 1) : b <= Last(s) /\ b \notin stored[s] => b \in Holes(s)
         /\ s \notin plan \/ conn # "live" => Due(s) = Holes(s)
<1>1. Last(s) \in {None} \cup 0..(now - 1) /\ now \in Nat
  BY LastFacts DEF TypeInv, TypeOK
<1>2. \A b \in Holes(s) : b \in 0..(now - 1) /\ b <= Last(s) /\ b \notin stored[s]
  BY <1>1 DEF Holes, None
<1>3. \A b \in 0..(now - 1) : b <= Last(s) /\ b \notin stored[s] => b \in Holes(s)
  BY <1>1 DEF Holes, None
<1> QED
  BY <1>2, <1>3 DEF Due

(* The same after a step.                                                   *)
LEMMA DueFactsNext ==
  ASSUME TypeInv', NEW s \in Series
  PROVE  /\ \A b \in Holes(s)' : b \in 0..(now' - 1) /\ b <= Last(s)' /\ b \notin stored'[s]
         /\ \A b \in Due(s)' : b \in 0..(now' - 1) /\ b \notin stored'[s]
         /\ Holes(s)' \subseteq Due(s)'
         /\ s \notin plan' \/ conn' # "live" => Due(s)' = Holes(s)'
<1>1. now' \in Nat /\ stored'[s] \in SUBSET (0..(now' - 1)) /\ Last(s)' = Latest(stored'[s])
  BY DEF TypeInv, TypeOK, Last, Latest
<1>2. Last(s)' \in {None} \cup 0..(now' - 1)
  BY <1>1, LatestFacts
<1>3. Holes(s)' = {b \in 0..Last(s)' : b \notin stored'[s]}
  BY DEF Holes
<1>4. \A b \in Holes(s)' : b \in 0..(now' - 1) /\ b <= Last(s)' /\ b \notin stored'[s]
  BY <1>1, <1>2, <1>3 DEF None
<1> QED
  BY <1>4 DEF Due

(* Bars without a gap between them and the latest make no new hole.         *)
LEMMA FillsOnly ==
  ASSUME TypeInv, TypeInv', Grown, now' = now, NEW s \in Series, NEW bars \in SUBSET Nat,
         Store(s, bars), \A b \in bars : \A c \in (Last(s) + 1)..b : c \in bars,
         NEW r \in Series
  PROVE  Holes(r)' \subseteq Holes(r)
<1> SUFFICES ASSUME NEW b \in Holes(r)' PROVE b \in Holes(r)
  OBVIOUS
<1>1. b \in 0..(now - 1) /\ b <= Last(r)' /\ b \notin stored'[r] /\ b \notin stored[r]
  BY DueFactsNext DEF Grown
<1>2. CASE b <= Last(r)
  BY <1>1, <1>2, DueFacts
<1>3. CASE ~(b <= Last(r))
  <2>1. Last(r) \in Int /\ Last(r)' \in Int /\ Last(r) < Last(r)'
    BY <1>1, <1>3, LastNext
  <2>2. r = s
    BY <2>1, LastNext, StoreGrows
  <2>3. Last(s)' \in stored'[s]
    BY <1>1, <2>2, LastNext DEF None
  <2>4. Last(s)' \in bars
    BY <2>1, <2>2, <2>3, StoreGrows, LastFacts
  <2>5. b \in (Last(s) + 1)..Last(s)'
    BY <1>1, <1>3, <2>1, <2>2
  <2>6. b \in bars
    BY <2>4, <2>5
  <2>7. b \in stored'[s]
    BY <2>6, StoreGrows
  <2> QED
    BY <1>1, <2>2, <2>7
<1> QED
  BY <1>2, <1>3

(* A step that makes no hole and starts no stream makes nothing due.        *)
LEMMA DueShrinks ==
  ASSUME TypeInv, TypeInv', Grown, now' = now, plan' = plan,
         conn' = "live" => conn = "live" /\ wire' = wire,
         NEW s \in Series, Holes(s)' \subseteq Holes(s)
  PROVE  Due(s)' \subseteq Due(s)
BY DEF Due, Grown

(* Without new bars to fetch, whoever is sure to fetch one must remain.     *)
LEMMA WholeKept ==
  ASSUME TypeInv, TypeInv', Whole, UNCHANGED <<plan, lost, phase>>,
         \A s \in Series : Due(s)' \subseteq Due(s),
         \A s \in Series \ lost : \A b \in Due(s)' :
           (phase = "up" => s \in plan) /\ Sure(s, b) => Sure(s, b)'
  PROVE  Whole'
<1>1. ASSUME NEW s \in Series \ lost, phase = "up", s \notin plan PROVE Due(s) = {}
  BY <1>1, DueFacts DEF Whole
<1>2. ASSUME NEW s \in Series \ lost, NEW b \in Due(s)' PROVE Sure(s, b)'
  <2>1. b \in Due(s)
    BY <1>2
  <2>2. Sure(s, b)
    BY <2>1 DEF Whole
  <2>3. phase = "up" => s \in plan
    BY <1>1, <2>1
  <2> QED
    BY <1>2, <2>2, <2>3
<1>3. ASSUME NEW s \in Series \ (plan \cup lost), phase = "up" PROVE Holes(s)' = {}
  BY <1>1, <1>3, DueFactsNext
<1> QED
  BY <1>2, <1>3 DEF Whole

(* A process that has yet to begin or to end its backfill repairs after it. *)
LEMMA WholeStarting ==
  ASSUME phase' \in {"down", "backfill"}
  PROVE  Whole'
<1>1. \A s \in Series : \A b \in Due(s)' : Sure(s, b)'
  BY DEF Sure
<1>2. phase' # "up"
  OBVIOUS
<1> QED
  BY <1>1, <1>2 DEF Whole

(* Who was sure to fetch a bar still is, if their work is unchanged.        *)
LEMMA SureKept ==
  ASSUME UNCHANGED <<todo, task, fetch, request, pending, phase>>, NEW s, NEW b
  PROVE  Sure(s, b) => Sure(s, b)'
BY DEF Sure

(* The steps of each group keep Whole, without failures.                    *)
LEMMA WholeStream ==
  ASSUME TypeInv, TypeInv', Grown, Placed, Behind, Whole, StreamSteps
  PROVE  Whole'
<1>0. now \in Nat
  BY DEF TypeInv, TypeOK
<1>1. CASE Tick
  <2>1. /\ UNCHANGED <<plan, lost, phase, stored, conn, todo, task, fetch, request, pending>>
        /\ now' = now + 1
    BY <1>1 DEF Tick, plans, catchup
  <2>2. ASSUME NEW s \in Series PROVE Due(s)' \subseteq Due(s)
    <3>1. Holes(s)' = Holes(s)
      BY <2>1 DEF Holes, Last
    <3>2. conn = "live" /\ s \in plan => wire'[s] = wire[s] \cup {now}
      BY <1>1 DEF Tick
    <3> QED
      BY <1>0, <2>1, <3>1, <3>2 DEF Due
  <2> QED
    BY <2>1, <2>2, SureKept, WholeKept
<1>2. CASE Connect \/ Drop
  <2>1. /\ UNCHANGED <<plan, lost, phase, stored, now, todo, task, fetch, request, pending>>
        /\ conn' # "live"
    BY <1>2 DEF Connect, Drop, plans, catchup
  <2>2. \A s \in Series : Holes(s)' = Holes(s)
    BY <2>1 DEF Holes, Last
  <2>3. \A s \in Series : Due(s)' \subseteq Due(s)
    BY <2>1, <2>2, DueShrinks
  <2> QED
    BY <2>1, <2>3, SureKept, WholeKept
<1>3. ASSUME NEW s \in Series, Deliver(s) PROVE Whole'
  <2>1. /\ UNCHANGED <<plan, lost, phase, conn, now, todo, task, fetch, request, pending>>
        /\ conn = "live" /\ wire[s] # {} /\ wire[s] \in SUBSET Nat
        /\ Store(s, {Min(wire[s])})
        /\ wire' = [wire EXCEPT ![s] = @ \ {Min(wire[s])}]
    BY <1>3 DEF Deliver, plans, catchup, TypeInv, TypeOK
  <2> DEFINE first == Min(wire[s])
  <2>2. first \in wire[s] /\ \A c \in wire[s] : first <= c
    BY <2>1, MinIsLeast
  <2>3. /\ stored'[s] = stored[s] \cup {first} /\ \A r \in Series \ {s} : stored'[r] = stored[r]
        /\ wire'[s] = wire[s] \ {first} /\ \A r \in Series \ {s} : wire'[r] = wire[r]
    BY <2>1, StoreGrows DEF TypeInv, TypeOK
  <2>4. first \in Nat
    BY <2>1, <2>2
  <2> HIDE DEF first
  <2>5. s \in plan
    BY <2>1 DEF Placed
  <2>6. ASSUME NEW r \in Series PROVE Due(r)' \subseteq Due(r)
    <3>1. CASE r # s
      <4>1. Holes(r)' = Holes(r)
        BY <2>3, <3>1 DEF Holes, Last
      <4> QED
        BY <2>1, <2>3, <3>1, <4>1 DEF Due
    <3>2. CASE r = s
      <4>1. ASSUME NEW b \in Holes(s)' PROVE b \in Due(s)
        <5>1. b \in 0..(now - 1) /\ b <= Last(s)' /\ b \notin stored'[s]
          BY <2>1, DueFactsNext
        <5>2. CASE b <= Last(s)
          BY <2>3, <5>1, <5>2, DueFacts
        <5>3. CASE ~(b <= Last(s))
          <6>1. Last(s)' \in stored'[s] /\ Last(s)' \in Int
            BY <5>1, LastNext DEF None
          <6>2. Last(s)' = first
            BY <2>3, <5>1, <5>3, <6>1, LastFacts, LastNext
          <6>3. b \notin wire[s]
            BY <2>2, <2>3, <2>4, <5>1, <6>2
          <6> QED
            BY <2>1, <2>3, <2>5, <5>1, <6>3 DEF Due
        <5> QED
          BY <5>2, <5>3
      <4>2. ASSUME NEW b \in 0..(now - 1), b \notin stored'[s], b \notin wire'[s] PROVE b \in Due(s)
        BY <2>1, <2>3, <2>5, <4>2 DEF Due
      <4> QED
        BY <2>1, <3>2, <4>1, <4>2 DEF Due
    <3> QED
      BY <3>1, <3>2
  <2> QED
    BY <2>1, <2>6, SureKept, WholeKept
<1>4. CASE Schedule
  <2> DEFINE reading == [s \in plan |-> Last(s)]
  <2>1. /\ UNCHANGED <<plan, lost, phase, stored, now, fetch, request>>
        /\ phase = "up"
    BY <1>4 DEF Schedule, plans, Placed
  <2>2. \A s \in Series : Holes(s)' = Holes(s) /\ Last(s) \in {None} \cup Nat
    <3>1. \A s \in Series : Holes(s)' = Holes(s)
      BY <2>1 DEF Holes, Last
    <3> QED
      BY <3>1, LastFacts DEF None
  <2>3. plan \subseteq Series /\ DOMAIN reading = plan
        /\ \A s \in plan : reading[s] = Last(s) /\ reading[s] \in {None} \cup Nat
    BY <2>2 DEF TypeInv, TypeOK
  <2> HIDE DEF reading
  <2>4. ASSUME NEW s \in plan \ lost, NEW b \in 0..(now - 1), b \notin stored[s] PROVE Sure(s, b)'
    <3>0. b \in Nat /\ s \in Series
      BY <2>3
    <3>1. b <= Last(s) => Sure(s, b)
      BY <2>4, <3>0, DueFacts DEF Whole
    <3>2. ~(b <= Last(s)) => reading[s] < b
      BY <2>2, <2>3, <3>0 DEF None
    <3>3. CASE task = {}
      <4>1. task' = {reading} /\ todo' = plan
        BY <1>4, <3>3 DEF Schedule, reading
      <4>2. pending = {} /\ todo = {} /\ fetch = {}
        BY <2>1, <3>3 DEF Placed
      <4>3. Sure(s, b) => Sure(s, b)'
        BY <2>1, <3>3, <4>2 DEF Sure
      <4>4. reading[s] < b => Sure(s, b)'
        BY <2>3, <4>1 DEF Sure
      <4> QED
        BY <3>1, <3>2, <4>3, <4>4
    <3>4. CASE task # {} /\ pending = {}
      <4>1. task' = task /\ todo' = todo /\ pending' = {reading}
        BY <1>4, <3>4 DEF Schedule, reading
      <4>2. Sure(s, b) => Sure(s, b)'
        BY <2>1, <3>4, <4>1 DEF Sure
      <4>3. reading[s] < b => Sure(s, b)'
        BY <2>3, <4>1 DEF Sure
      <4> QED
        BY <3>1, <3>2, <4>2, <4>3
    <3>5. CASE task # {} /\ pending # {}
      <4>1. PICK p \in pending : \A x \in pending : x = p
        BY <3>5 DEF TypeInv, TypeOK
      <4>2. task' = task /\ todo' = todo /\ pending' = {Merge(p, reading)}
        BY <1>4, <3>5, <4>1 DEF Schedule, reading
      <4>3. \A v \in DOMAIN p : p[v] \in {None} \cup Nat
        BY <4>1 DEF TypeInv, Valued
      <4>4. /\ DOMAIN Merge(p, reading) = DOMAIN p \cup DOMAIN reading
            /\ \A v \in DOMAIN p \cup DOMAIN reading :
                 /\ Merge(p, reading)[v] \in {None} \cup Nat
                 /\ v \in DOMAIN p => Merge(p, reading)[v] <= p[v]
                 /\ v \in DOMAIN reading => Merge(p, reading)[v] <= reading[v]
        BY <2>3, <4>3, MergeFacts
      <4>5. ASSUME reading[s] < b \/ (s \in DOMAIN p /\ p[s] < b) PROVE Sure(s, b)'
        <5>1. s \in DOMAIN Merge(p, reading) /\ Merge(p, reading)[s] < b
          BY <2>3, <3>0, <4>3, <4>4, <4>5 DEF None
        <5> QED
          BY <4>2, <5>1 DEF Sure
      <4>6. Sure(s, b) => Sure(s, b)'
        <5>1. ASSUME \E snap \in pending : s \in DOMAIN snap /\ snap[s] < b PROVE Sure(s, b)'
          BY <4>1, <4>5, <5>1
        <5> QED
          BY <2>1, <4>2, <5>1 DEF Sure
      <4> QED
        BY <3>1, <3>2, <4>5, <4>6
    <3> QED
      BY <3>3, <3>4, <3>5
  <2>5. \A s \in Series \ (plan \cup lost) : Holes(s) = {} /\ Due(s)' = {}
    BY <2>1, <2>2, DueFactsNext DEF Whole
  <2>6. \A s \in Series \ lost : \A b \in Due(s)' : Sure(s, b)'
    BY <2>1, <2>4, <2>5, DueFactsNext
  <2> QED
    BY <2>1, <2>2, <2>5, <2>6 DEF Whole
<1> QED
  BY <1>1, <1>2, <1>3, <1>4 DEF StreamSteps

(* A repair that looks back over all bars sees every hole.                  *)
LEMMA SeenIsAll ==
  ASSUME TypeInv, Placed, MaxBar <= RepairWindow, NEW s \in Series
  PROVE  Seen(s) = Holes(s)
<1> SUFFICES ASSUME NEW b \in Holes(s)
             PROVE  Min({c \in stored[s] : b < c}) >= now - RepairWindow
  BY DEF Seen
<1>1. now \in Nat /\ now <= MaxBar /\ stored[s] \in SUBSET Nat
  BY DEF TypeInv, TypeOK, Placed
<1>2. b \in 0..(now - 1) /\ b <= Last(s) /\ b \notin stored[s]
  BY DueFacts
<1>3. Last(s) \in stored[s] /\ b < Last(s)
  <2>1. Last(s) \in {None} \cup 0..(now - 1) /\ (Last(s) = None <=> stored[s] = {})
        /\ (stored[s] # {} => Last(s) \in stored[s])
    BY LastFacts
  <2> QED
    BY <1>2, <2>1 DEF None
<1> DEFINE later == {c \in stored[s] : b < c}
<1>4. later \in SUBSET Nat /\ later # {}
  BY <1>1, <1>3
<1>5. Min(later) \in later
  BY <1>4, MinIsLeast
<1> QED
  BY <1>1, <1>5, BoundsAssumption

(* A start ends with its repair.                                            *)
LEMMA WholeStart ==
  ASSUME MaxBar <= RepairWindow, TypeInv, TypeInv', Grown, Placed, Placed', Whole, StartSteps, failures' = 0
  PROVE  Whole'
<1>0. now \in Nat /\ failures \in Nat
  BY DEF TypeInv, TypeOK
<1>1. CASE Start \/ Crash
  BY <1>1, WholeStarting DEF Start, Crash, Down
<1>2. CASE EndBackfill
  <2>1. /\ UNCHANGED <<now, stored, plan, conn>> /\ conn # "live" /\ phase' = "repair"
        /\ todo' = {s \in Wanted : stored[s] # {}}
        /\ lost' = lost \cup {s \in Series \ Wanted : Holes(s) # {}}
    BY <1>2 DEF EndBackfill, stream, Placed
  <2>2. ASSUME NEW s \in Series \ lost', NEW b \in Due(s)' PROVE Sure(s, b)'
    <3>1. Due(s)' = Holes(s)' /\ Holes(s)' = Holes(s)
      <4>1. Holes(s)' = Holes(s)
        BY <2>1 DEF Holes, Last
      <4> QED
        BY <2>1, <4>1, DueFactsNext
    <3>2. s \in Wanted
      BY <2>1, <2>2, <3>1
    <3>3. b \in 0..(now - 1) /\ b <= Last(s)
      BY <2>2, <3>1, DueFacts
    <3>4. stored[s] # {}
      BY <3>3, LastFacts DEF None
    <3> QED
      BY <2>1, <3>2, <3>4 DEF Sure
  <2> QED
    BY <2>1, <2>2 DEF Whole
<1>3. CASE EndRepair
  <2>1. /\ UNCHANGED <<now, stored, lost, conn>> /\ conn # "live" /\ phase = "repair" /\ todo = {}
        /\ task = {} /\ pending = {} /\ fetch = {} /\ request = {}
    BY <1>3 DEF EndRepair, stream, Placed
  <2>2. \A s \in Series \ lost : Holes(s) = {}
    BY <2>1, DueFacts DEF Whole, Sure
  <2>3. ASSUME NEW s \in Series \ lost' PROVE Due(s)' = {} /\ Holes(s)' = {}
    <3>1. Holes(s)' = Holes(s)
      BY <2>1 DEF Holes, Last
    <3> QED
      BY <2>1, <2>2, <2>3, <3>1, DueFactsNext
  <2> QED
    BY <2>3 DEF Whole
<1>4. ASSUME NEW s \in Series, RefillStale(s) PROVE Whole'
  <2> DEFINE bars == (Last(s) + 1)..(now - 1)
  <2>1. /\ UNCHANGED <<now, plan, lost, phase, conn, wire, todo, task, fetch, request, pending>>
        /\ Store(s, bars)
    BY <1>4 DEF RefillStale, plans, stream, catchup
  <2>2. Last(s) + 1 \in Nat
    BY LastFacts DEF None
  <2>3. bars \in SUBSET Nat /\ \A b \in bars : \A c \in (Last(s) + 1)..b : c \in bars
    BY <1>0, <2>2
  <2> HIDE DEF bars
  <2>4. \A r \in Series : Holes(r)' \subseteq Holes(r)
    BY <2>1, <2>3, FillsOnly
  <2>5. \A r \in Series : Due(r)' \subseteq Due(r)
    BY <2>1, <2>4, DueShrinks
  <2> QED
    BY <2>1, <2>5, SureKept, WholeKept
<1>5. ASSUME NEW s \in Series, NEW upto \in 0..now, RepairSeries(s, upto) PROVE Whole'
  <2> DEFINE bars == {b \in Seen(s) : b < upto}
  <2>1. /\ UNCHANGED <<now, plan, lost, phase, conn, wire, task, fetch, request, pending>>
        /\ phase = "repair" /\ conn # "live" /\ todo' = todo \ {s} /\ Store(s, bars)
    BY <1>5 DEF RepairSeries, plans, stream, catchup, Placed
  <2>2. upto = now
    BY <1>0, <1>5 DEF RepairSeries, Attempt
  <2>3. \A b \in Holes(s) : b \in 0..(now - 1) /\ b <= Last(s)
    BY DueFacts
  <2>4. bars = Holes(s)
    BY <1>0, <2>2, <2>3, SeenIsAll
  <2>5. bars \in SUBSET Nat /\ \A b \in bars : \A c \in (Last(s) + 1)..b : c \in bars
    <3>1. Last(s) \in Int
      BY LastFacts DEF None
    <3> QED
      BY <2>3, <2>4, <3>1
  <2> HIDE DEF bars
  <2>6. \A r \in Series : Holes(r)' \subseteq Holes(r)
    BY <2>1, <2>5, FillsOnly
  <2>7. \A r \in Series : Due(r)' \subseteq Due(r)
    BY <2>1, <2>6, DueShrinks
  <2>8. Due(s)' = {}
    <3>1. Due(s)' = Holes(s)' /\ \A b \in Holes(s)' : b \notin stored'[s]
      BY <2>1, DueFactsNext
    <3>2. Holes(s) \subseteq stored'[s]
      BY <2>1, <2>4, <2>5, StoreGrows
    <3> QED
      BY <2>6, <3>1, <3>2
  <2>9. ASSUME NEW r \in Series \ lost, NEW b \in Due(r)', Sure(r, b) PROVE Sure(r, b)'
    <3>1. r # s
      BY <2>8, <2>9
    <3> QED
      BY <2>1, <2>9, <3>1 DEF Sure
  <2> QED
    BY <2>1, <2>7, <2>9, WholeKept
<1> QED
  BY <1>1, <1>2, <1>3, <1>4, <1>5 DEF StartSteps

(* What a page or an answer of the poller fills has no gap before it.       *)
LEMMA GotJoins ==
  ASSUME TypeInv, Behind, NEW f \in fetch \cup request, NEW upto \in Int
  PROVE  /\ Got(f, upto) \in SUBSET Nat
         /\ \A b \in Got(f, upto) : \A c \in (Last(f.series) + 1)..b : c \in Got(f, upto)
<1>1. f \in Fetch /\ now \in Nat /\ f.from <= Last(f.series) + 1
  BY DEF TypeInv, TypeOK, Behind
<1>2. f.from \in Nat /\ f.stop \in Nat /\ f.series \in Series
  BY <1>1 DEF Fetch
<1>3. Last(f.series) \in Int
  BY <1>2, LastFacts DEF None
<1>4. Got(f, upto) = {b \in f.from..upto : b <= f.stop /\ b < now}
  BY DEF Got
<1> QED
  BY <1>1, <1>2, <1>3, <1>4

(* What the catch-up and the poller do not store is still to be fetched.    *)
LEMMA WholeCatcher ==
  ASSUME TypeInv, TypeInv', Grown, Placed, Behind, Whole, CatcherSteps, failures' = 0
  PROVE  Whole'
<1>0. now \in Nat /\ failures \in Nat /\ fetch \subseteq Fetch /\ request \subseteq Fetch
  BY DEF TypeInv, TypeOK
<1>1. CASE EndTask
  <2>1. /\ UNCHANGED <<now, stored, plan, lost, phase, conn, wire, request>>
        /\ phase = "up" /\ todo = {} /\ fetch = {} /\ task' = pending
        /\ pending # {} => todo' = plan
    BY <1>1 DEF EndTask, NextTask, plans, stream, Placed
  <2>2. \A s \in Series : Due(s)' = Due(s)
    BY <2>1 DEF Due, Holes, Last
  <2>3. ASSUME NEW s \in Series \ lost, NEW b \in Due(s)', s \in plan, Sure(s, b) PROVE Sure(s, b)'
    BY <2>1, <2>3 DEF Sure
  <2> QED
    BY <2>1, <2>2, <2>3, WholeKept
<1>2. ASSUME NEW s \in Series, BeginFetch(s) PROVE Whole'
  <2>1. CASE phase = "backfill"
    <3>1. phase' = "backfill"
      BY <1>2, <2>1 DEF BeginFetch
    <3> QED
      BY <3>1, WholeStarting
  <2>2. CASE phase = "up"
    <3>1. /\ UNCHANGED <<now, stored, plan, lost, phase, conn, wire, request, task, pending>>
          /\ fetch = {} /\ todo' = todo \ {s}
          /\ fetch' = {[series |-> s, from |-> From(s), stop |-> now]}
      BY <1>2 DEF BeginFetch, plans, stream, catchup
    <3>2. \A r \in Series : Due(r)' = Due(r)
      BY <3>1 DEF Due, Holes, Last
    <3>3. ASSUME NEW r \in Series \ lost, NEW b \in Due(r)', Sure(r, b) PROVE Sure(r, b)'
      <4>1. CASE \E snap \in task : s \in DOMAIN snap /\ snap[s] < b /\ r = s
        <5>1. PICK snap \in task : s \in DOMAIN snap /\ snap[s] < b
          BY <4>1
        <5>2. b \in 0..(now - 1) /\ snap[s] \in Int
          BY <3>2, <3>3, <5>1, DueFacts DEF TypeInv, Valued, None
        <5>3. From(s) = snap[s] + 1 /\ From(s) \in Nat
          BY <5>1, FromType
        <5>4. From(s) <= b /\ b <= now
          BY <1>0, <5>1, <5>2, <5>3
        <5> DEFINE g == [series |-> s, from |-> From(s), stop |-> now]
        <5>5. g.series = r /\ g.from <= b /\ b <= g.stop
          BY <4>1, <5>4
        <5>6. g \in fetch' \cup request'
          BY <3>1
        <5> HIDE DEF g
        <5> QED
          BY <5>5, <5>6 DEF Sure
      <4>2. CASE ~(\E snap \in task : s \in DOMAIN snap /\ snap[s] < b /\ r = s)
        BY <2>2, <3>1, <3>3, <4>2 DEF Sure
      <4> QED
        BY <4>1, <4>2
    <3> QED
      BY <3>1, <3>2, <3>3, WholeKept
  <2> QED
    BY <1>2, <2>1, <2>2 DEF BeginFetch
<1>3. ASSUME NEW s \in Series, PollSeries(s) PROVE Whole'
  <2>1. /\ UNCHANGED <<now, stored, plan, lost, phase, conn, wire, fetch, todo, task, pending>>
        /\ request = {}
    BY <1>3 DEF PollSeries, plans, stream, catchup
  <2>2. \A r \in Series : Due(r)' = Due(r)
    BY <2>1 DEF Due, Holes, Last
  <2>3. ASSUME NEW r \in Series, NEW b \in Due(r)', Sure(r, b) PROVE Sure(r, b)'
    BY <2>1, <2>3 DEF Sure
  <2> QED
    BY <2>1, <2>2, <2>3, WholeKept
<1>4. ASSUME NEW f \in fetch, FetchPage(f) PROVE Whole'
  <2> DEFINE bars == Got(f, f.from + PageBars - 1)
  <2>1. /\ UNCHANGED <<now, plan, lost, phase, conn, wire, todo, task, request, pending>>
        /\ Store(f.series, bars)
        /\ fetch' = IF f.from + PageBars > f.stop THEN {} ELSE {[f EXCEPT !.from = @ + PageBars]}
    BY <1>4 DEF FetchPage, plans, stream, catchup
  <2>2. f \in Fetch /\ f.series \in Series /\ f.from \in Nat /\ f.stop \in Nat /\ \A g \in fetch : g = f
    BY <1>0 DEF Fetch, TypeInv, TypeOK
  <2>3. f.from + PageBars - 1 \in Int
    BY <2>2, BoundsAssumption
  <2>4. bars \in SUBSET Nat /\ \A b \in bars : \A c \in (Last(f.series) + 1)..b : c \in bars
    BY <2>3, GotJoins
  <2>5. ASSUME NEW b \in 0..(now - 1), f.from <= b, b <= f.stop, b \notin bars
        PROVE  f.from + PageBars <= b
    BY <1>0, <2>2, <2>5, BoundsAssumption DEF Got
  <2> HIDE DEF bars
  <2>6. \A r \in Series : Holes(r)' \subseteq Holes(r)
    BY <2>1, <2>2, <2>4, FillsOnly
  <2>7. \A r \in Series : Due(r)' \subseteq Due(r)
    BY <2>1, <2>6, DueShrinks
  <2>8. ASSUME NEW r \in Series, NEW b \in Due(r)', Sure(r, b) PROVE Sure(r, b)'
    <3>1. CASE f.series = r /\ f.from <= b /\ b <= f.stop
      <4>1. b \in 0..(now - 1) /\ b \notin stored'[r]
        BY <2>1, <2>8, DueFactsNext
      <4>2. b \notin bars
        BY <2>1, <2>2, <3>1, <4>1, StoreGrows
      <4>3. f.from + PageBars <= b
        BY <2>5, <3>1, <4>1, <4>2
      <4> DEFINE g == [f EXCEPT !.from = @ + PageBars]
      <4>4. g.series = r /\ g.from <= b /\ b <= g.stop
        BY <2>2, <3>1, <4>3 DEF Fetch
      <4>5. fetch' = {g}
        BY <2>1, <2>2, <3>1, <4>1, <4>3, BoundsAssumption
      <4> HIDE DEF g
      <4> QED
        BY <4>4, <4>5 DEF Sure
    <3>2. CASE ~(f.series = r /\ f.from <= b /\ b <= f.stop)
      BY <2>1, <2>2, <2>8, <3>2 DEF Sure
    <3> QED
      BY <3>1, <3>2
  <2> QED
    BY <2>1, <2>7, <2>8, WholeKept
<1>5. ASSUME NEW f \in fetch, FetchFails(f) PROVE FALSE
  BY <1>0, <1>5 DEF FetchFails, Attempt
<1>6. ASSUME NEW p \in request, NEW upto \in 0..now, PollFetch(p, upto) PROVE Whole'
  <2> DEFINE bars == Got(p, now - 1)
  <2>1. upto = now
    BY <1>0, <1>6 DEF PollFetch, Attempt
  <2>2. /\ UNCHANGED <<now, plan, lost, phase, conn, wire, todo, task, fetch, pending>>
        /\ Store(p.series, bars) /\ request' = {}
    BY <1>6, <2>1 DEF PollFetch, plans, stream, catchup
  <2>3. p \in Fetch /\ p.series \in Series /\ p.from \in Nat /\ p.stop \in Nat /\ \A g \in request : g = p
    BY <1>0 DEF Fetch, TypeInv, TypeOK
  <2>4. bars \in SUBSET Nat /\ \A b \in bars : \A c \in (Last(p.series) + 1)..b : c \in bars
    BY <1>0, GotJoins
  <2>5. \A b \in 0..(now - 1) : p.from <= b /\ b <= p.stop => b \in bars
    BY <1>0, <2>3 DEF Got
  <2> HIDE DEF bars
  <2>6. \A r \in Series : Holes(r)' \subseteq Holes(r)
    BY <2>2, <2>3, <2>4, FillsOnly
  <2>7. \A r \in Series : Due(r)' \subseteq Due(r)
    BY <2>2, <2>6, DueShrinks
  <2>8. ASSUME NEW r \in Series, NEW b \in Due(r)', Sure(r, b) PROVE Sure(r, b)'
    <3>1. b \in 0..(now - 1) /\ b \notin stored'[r]
      BY <2>2, <2>8, DueFactsNext
    <3>2. ~(p.series = r /\ p.from <= b /\ b <= p.stop)
      BY <2>2, <2>3, <2>5, <3>1, StoreGrows
    <3> QED
      BY <2>2, <2>3, <2>8, <3>2 DEF Sure
  <2> QED
    BY <2>2, <2>7, <2>8, WholeKept
<1> QED
  BY <1>1, <1>2, <1>3, <1>4, <1>5, <1>6 DEF CatcherSteps

(* A change of the plan leaves its holes to the catch-up.                   *)
LEMMA WholePlan ==
  ASSUME TypeInv, TypeInv', Grown, Placed, Whole, PlanSteps, failures' = 0
  PROVE  Whole'
<1>0. now \in Nat /\ failures \in Nat /\ plan \subseteq Series
  BY DEF TypeInv, TypeOK
<1>1. CASE BeginFill \/ \E arm \in SUBSET Arm : Rotate(arm)
  <2>1. UNCHANGED <<now, stored, plan, lost, phase, conn, wire, todo, task, fetch, request, pending>>
    BY <1>1 DEF BeginFill, Rotate, stream, catchup
  <2>2. \A s \in Series : Due(s)' = Due(s)
    BY <2>1 DEF Due, Holes, Last
  <2> QED
    BY <2>1, <2>2, SureKept, WholeKept
<1>2. CASE Adopt
  <2>1. PICK f \in filling : /\ plan' = f.plan /\ todo' = OfPlan(f.plan)
                             /\ lost' = lost \cup {s \in plan \ f.plan : Holes(s) # {}}
    BY <1>2 DEF Adopt
  <2>2. UNCHANGED <<now, stored, phase, task, fetch, request, pending>> /\ conn' = "off" /\ phase = "up"
    BY <1>2 DEF Adopt, catchup, Placed
  <2>3. ASSUME NEW s \in Series PROVE Due(s)' = Holes(s) /\ Holes(s)' = Holes(s)
    <3>1. Holes(s)' = Holes(s)
      BY <2>2 DEF Holes, Last
    <3> QED
      BY <2>2, <3>1, DueFactsNext
  <2>4. ASSUME NEW s \in Series \ lost', s \notin plan' PROVE Holes(s) = {}
    BY <2>1, <2>2, <2>4 DEF Whole
  <2>5. ASSUME NEW s \in Series \ lost', NEW b \in Due(s)' PROVE Sure(s, b)'
    <3>1. s \in plan'
      BY <2>3, <2>4, <2>5
    <3>2. Sure(s, b)
      BY <2>1, <2>3, <2>5, DueFacts DEF Whole
    <3>3. s \in todo => s \in todo'
      BY <2>1, <3>1 DEF OfPlan
    <3> QED
      BY <2>2, <3>2, <3>3 DEF Sure
  <2> QED
    BY <2>3, <2>4, <2>5 DEF Whole
<1>3. CASE FillFails
  BY <1>0, <1>3 DEF FillFails, Attempt
<1>4. ASSUME NEW s \in Series, NEW upto \in 0..now, FillSeries(s, upto) PROVE Whole'
  <2> DEFINE bars == (Last(s) + 1)..(now - 1)
  <2>1. upto = now
    BY <1>0, <1>4 DEF FillSeries, Attempt
  <2>2. /\ UNCHANGED <<now, plan, lost, phase, conn, wire, todo, task, fetch, request, pending>>
        /\ Store(s, bars)
    BY <1>4, <2>1 DEF FillSeries, stream, catchup
  <2>3. Last(s) + 1 \in Nat
    BY LastFacts DEF None
  <2>4. bars \in SUBSET Nat /\ \A b \in bars : \A c \in (Last(s) + 1)..b : c \in bars
    BY <1>0, <2>3
  <2> HIDE DEF bars
  <2>5. \A r \in Series : Holes(r)' \subseteq Holes(r)
    BY <2>2, <2>4, FillsOnly
  <2>6. \A r \in Series : Due(r)' \subseteq Due(r)
    BY <2>2, <2>5, DueShrinks
  <2> QED
    BY <2>2, <2>6, SureKept, WholeKept
<1> QED
  BY <1>1, <1>2, <1>3, <1>4 DEF PlanSteps

------------------------------------------------------------------------------
(* The two invariants, and the theorems.                                    *)
PollInv == TypeInv /\ Placed /\ (failures = 0 => Behind /\ Keeping)
CoreInv == PollInv /\ (failures = 0 => Whole)

(* A failure is not forgotten.                                              *)
LEMMA FailuresStay == TypeInv /\ [Next]_vars => (failures' = 0 => failures = 0)
<1> SUFFICES ASSUME TypeInv, [Next]_vars, failures' = 0 PROVE failures = 0
  OBVIOUS
<1>1. failures \in Nat
  BY DEF TypeInv, TypeOK
<1>2. CASE StreamSteps
  BY <1>2 DEF StreamSteps, Tick, Connect, Schedule, Drop, Deliver
<1>3. CASE StartSteps
  <2>1. CASE Start \/ EndBackfill \/ EndRepair \/ Crash \/ \E s \in Series : RefillStale(s)
    BY <2>1 DEF Start, EndBackfill, EndRepair, Crash, RefillStale
  <2>2. CASE \E s \in Series : \E upto \in 0..now : RepairSeries(s, upto)
    BY <1>1, <2>2 DEF RepairSeries, Attempt
  <2> QED
    BY <1>3, <2>1, <2>2 DEF StartSteps
<1>4. CASE CatcherSteps
  BY <1>1, <1>4 DEF CatcherSteps, EndTask, BeginFetch, PollSeries, FetchPage, FetchFails, PollFetch, Attempt
<1>5. CASE PlanSteps
  BY <1>1, <1>5 DEF PlanSteps, BeginFill, Adopt, FillFails, Rotate, FillSeries, Attempt
<1> QED
  BY <1>2, <1>3, <1>4, <1>5, StepsOfNext DEF vars

(* Both invariants hold at the start, and every step keeps them.            *)
LEMMA PollInit == Init => PollInv
<1> SUFFICES ASSUME Init PROVE PollInv
  OBVIOUS
<1>1. Behind /\ Keeping
  BY DEF Init, Behind, Keeping
<1> QED
  BY <1>1, TypeInit, PlacedInit DEF PollInv

(* Every step keeps what the poller needs.                                  *)
LEMMA PollStep ==
  ASSUME Punctual, PollInv, [Next]_vars
  PROVE  PollInv'
<1>1. TypeInv /\ TypeInv' /\ Grown /\ Placed /\ (failures' = 0 => failures = 0)
  BY TypeStep, GrownStep, FailuresStay DEF PollInv
<1>2. CASE Next
  <2>1. StreamSteps \/ StartSteps \/ CatcherSteps \/ PlanSteps
    BY <1>1, <1>2, StepsOfNext
  <2>2. Placed'
    BY <1>1, <2>1, PlacedStream, PlacedStart, PlacedCatcher, PlacedPlan
  <2>3. ASSUME failures' = 0 PROVE Behind' /\ Keeping'
    <3>1. Behind /\ Keeping
      BY <1>1, <2>3 DEF PollInv
    <3>2. Behind'
      BY <1>1, <2>1, <2>3, <3>1, BehindStream, BehindStart, BehindCatcher, BehindPlan
    <3>3. Keeping'
      BY <1>1, <2>1, <2>2, <2>3, <3>1, KeepingStream, KeepingStart, KeepingCatcher, KeepingPlan
    <3> QED
      BY <3>2, <3>3
  <2> QED
    BY <1>1, <2>2, <2>3 DEF PollInv
<1>3. CASE UNCHANGED vars
  <2>1. UNCHANGED <<now, phase, conn, wire, plan, fetch, request, task, pending, todo, completed, filling, failures>>
    BY <1>3 DEF vars, stream, catchup, plans
  <2>2. Placed'
    BY <1>1, <2>1 DEF Placed
  <2>3. ASSUME failures' = 0 PROVE Behind' /\ Keeping'
    BY <1>1, <2>1, <2>3, BehindKept, KeepingKept DEF PollInv
  <2> QED
    BY <1>1, <2>2, <2>3 DEF PollInv
<1> QED
  BY <1>2, <1>3

(* No hole at the start.                                                    *)
LEMMA CoreInit == Init => CoreInv
<1> SUFFICES ASSUME Init PROVE CoreInv
  OBVIOUS
<1>1. Whole
  BY DEF Init, Whole, Sure
<1> QED
  BY <1>1, PollInit DEF CoreInv

(* Every step keeps both invariants.                                        *)
LEMMA CoreStep ==
  ASSUME Punctual, MaxBar <= RepairWindow, CoreInv, [Next]_vars
  PROVE  CoreInv'
<1>1. /\ PollInv /\ PollInv' /\ TypeInv /\ TypeInv' /\ Grown /\ Placed /\ Placed'
      /\ failures' = 0 => failures = 0
  BY PollStep, TypeStep, GrownStep, FailuresStay DEF CoreInv, PollInv
<1>2. ASSUME failures' = 0 PROVE Whole'
  <2>1. Behind /\ Whole
    BY <1>1, <1>2 DEF CoreInv, PollInv
  <2>2. CASE Next
    <3>1. StreamSteps \/ StartSteps \/ CatcherSteps \/ PlanSteps
      BY <1>1, <2>2, StepsOfNext
    <3> QED
      BY <1>1, <1>2, <2>1, <3>1, WholeStream, WholeStart, WholeCatcher, WholePlan
  <2>3. CASE UNCHANGED vars
    BY <2>1, <2>3 DEF vars, stream, catchup, plans, Whole, Due, Holes, Last, Sure
  <2> QED
    BY <2>2, <2>3
<1> QED
  BY <1>1, <1>2 DEF CoreInv

(* As long as no request has failed and requests and poll rounds keep up    *)
(* with the market, no hole of a series is forgotten, whatever ends,        *)
(* crashes or changes of the plan there are, if the repair of a start looks *)
(* back over all bars: the catch-up, the poller or the repair is still to   *)
(* fetch each of them (TailCatchup, ClosedBarPoller, repair_all).           *)
THEOREM HolesStayAwaited ==
  ASSUME Punctual, MaxBar <= RepairWindow
  PROVE  Spec => []HolesAreAwaited
<1>1. Init => CoreInv
  BY CoreInit
<1>2. CoreInv /\ [Next]_vars => CoreInv'
  BY CoreStep
<1>3. CoreInv => HolesAreAwaited
  <2> SUFFICES ASSUME CoreInv, failures = 0, NEW s \in Series \ lost, NEW b \in Holes(s)
               PROVE  Awaited(s, b)
    BY DEF HolesAreAwaited
  <2>1. TypeInv
    BY DEF CoreInv, PollInv
  <2>2. b \in 0..(now - 1) /\ Sure(s, b)
    BY <2>1, DueFacts DEF CoreInv, Whole
  <2>3. ASSUME NEW snap \in task, s \in DOMAIN snap, snap[s] < b PROVE task # {} /\ From(s) <= b
    <3>1. snap[s] \in Int
      BY <2>1, <2>3 DEF TypeInv, Valued, None
    <3>2. From(s) = snap[s] + 1
      BY <2>1, <2>3, FromType
    <3> QED
      BY <2>2, <2>3, <3>1, <3>2
  <2> QED
    BY <2>2, <2>3 DEF Sure, Awaited
<1> QED
  BY <1>1, <1>2, <1>3, PTL DEF Spec

(* As long as no request has failed and requests and poll rounds keep up    *)
(* with the market, what the poller stores makes no new hole (poll_once).   *)
THEOREM PollerMakesNoHole ==
  ASSUME Punctual
  PROVE  Spec => PollerLeavesNoHole
<1>1. Init => PollInv
  BY PollInit
<1>2. PollInv /\ [Next]_vars => PollInv'
  BY PollStep
<1>3. ASSUME PollInv, [Next]_vars, NEW r \in request, request' = {}, phase' = "up", failures = 0
      PROVE  Holes(r.series)' \subseteq Holes(r.series)
  <2>1. TypeInv /\ TypeInv' /\ Grown /\ Behind
    BY <1>3, TypeStep, GrownStep DEF PollInv
  <2>2. r \in Fetch /\ r.series \in Series /\ \A q \in request : q = r
    BY <2>1 DEF TypeInv, TypeOK, Fetch
  <2>3. PICK upto \in 0..now : PollFetch(r, upto)
    <3>1. CASE UNCHANGED request
      BY <1>3, <3>1
    <3>2. CASE StreamSteps
      BY <3>1, <3>2 DEF StreamSteps, Tick, Connect, Schedule, Drop, Deliver
    <3>3. CASE StartSteps
      BY <1>3, <3>1, <3>3 DEF StartSteps, Start, EndBackfill, EndRepair, Crash, Down, RefillStale, RepairSeries
    <3>4. CASE CatcherSteps
      BY <1>3, <2>2, <3>1, <3>4 DEF CatcherSteps, EndTask, BeginFetch, PollSeries, FetchPage, FetchFails, Down
    <3>5. CASE PlanSteps
      BY <3>1, <3>5 DEF PlanSteps, BeginFill, Adopt, FillFails, Rotate, FillSeries
    <3> QED
      BY <1>3, <2>1, <3>1, <3>2, <3>3, <3>4, <3>5, StepsOfNext DEF vars
  <2>4. Store(r.series, Got(r, upto - 1)) /\ now' = now
    BY <2>3 DEF PollFetch
  <2>5. /\ Got(r, upto - 1) \in SUBSET Nat
        /\ \A b \in Got(r, upto - 1) : \A c \in (Last(r.series) + 1)..b : c \in Got(r, upto - 1)
    BY <1>3, <2>1, GotJoins
  <2> QED
    BY <2>1, <2>2, <2>4, <2>5, FillsOnly
<1>4. PollInv /\ [Next]_vars =>
        [\A r \in request : request' = {} /\ phase' = "up" /\ failures = 0 =>
           Holes(r.series)' \subseteq Holes(r.series)]_vars
  BY <1>3
<1> QED
  BY <1>1, <1>2, <1>4, PTL DEF Spec, PollerLeavesNoHole
=============================================================================
