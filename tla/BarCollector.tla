---------------------------- MODULE BarCollector ----------------------------
(***************************************************************************)
(* How the collector keeps the stored bars whole: the start (backfill and  *)
(* gap repair), the stream of closed bars, the catch-up that every         *)
(* connection schedules (TailCatchup), the REST poller beside them and the *)
(* change of the plan when the list of members rotates, with the ends of   *)
(* connections, failing requests and crashes of the process between any    *)
(* two of their writes.                                                    *)
(*                                                                         *)
(* Abstracted: time is counted in bars, the same for every series, and a   *)
(* bar is its number; the history a series is collected for begins with    *)
(* bar 0.  The history of new series is not extended backwards, derived    *)
(* timeframes are left out.  The repair of one series, one request of the  *)
(* poller and the fill of one new series is one write; when it raises, an  *)
(* initial part of it was written.  A stream that freezes is one whose     *)
(* messages are never delivered.                                           *)
(***************************************************************************)
EXTENDS Integers, FiniteSetsExt

CONSTANTS
  Base,        \* the series of the fixed grid, filled before the stream
  Arm,         \* the other series, in the plan while listed or held
  PageBars,    \* bars in one page of a request
  PollDepth,   \* bars the poller reaches back (max_bars)
  RefillDepth, \* bars the start fetches of a stale arm series
  RepairWindow,\* bars the gap repair of a start looks back
  Punctual,    \* do requests and poll rounds keep up with the market?
  MaxBar,      \* bound: bars of the market
  MaxDrops,    \* bound: ends of a connection
  MaxChanges,  \* bound: changes of what is listed or held
  MaxCrashes,  \* bound: crashes of the process
  MaxFailures, \* bound: requests that raise
  MaxEvents    \* bound: all of these together

None   == -1
Series == Base \cup Arm

ASSUME SeriesAssumption == IsFiniteSet(Base) /\ IsFiniteSet(Arm) /\ Base \cap Arm = {}

ASSUME BoundsAssumption ==
  /\ PageBars \in Nat \ {0} /\ PollDepth \in Nat \ {0}
  /\ RefillDepth \in Nat /\ RepairWindow \in Nat
  /\ Punctual \in BOOLEAN
  /\ MaxBar \in Nat \ {0} /\ MaxDrops \in Nat /\ MaxChanges \in Nat /\ MaxCrashes \in Nat /\ MaxFailures \in Nat
  /\ MaxEvents \in Nat

VARIABLES
  now,       \* bars 0 .. now - 1 have closed, bar `now` is forming
  stored,    \* stored[s]: the bars of s in the database
  listed,    \* the arm series of the current list and those held
  plan,      \* the series the process collects
  filling,   \* the plan it is about to adopt, and its series yet to fill
  phase,     \* the process: down, in its backfill, in its repair, or up
  conn,      \* the stream: off, open (nothing consumed yet) or live
  wire,      \* wire[s]: bars of s the connection holds undelivered
  task,      \* the snapshot the running catch-up started from, if one runs
  pending,   \* the snapshot of the connections it has yet to serve, if any
  todo,      \* the series the backfill, the repair or the catch-up has yet to do
  fetch,     \* the series being fetched: its next bar, and the forming bar at its start
  completed, \* has a catch-up of this process succeeded?
  request,   \* the poller's request, if one is out
  lost,      \* the series that were outside the plan with a hole
  drops, changes, crashes, failures

stream  == <<conn, wire, drops>>
catchup == <<task, pending, completed>>
plans   == <<listed, plan, filling, lost, changes>>
vars    == <<now, stored, phase, stream, catchup, plans, todo, fetch, request, crashes, failures>>

------------------------------------------------------------------------------
Fetch    == [series : Series, from : Nat, stop : Nat]
Filling  == [plan : SUBSET Series, todo : SUBSET Series]

(* last_open_time: the latest stored bar.                                   *)
Last(s) == IF stored[s] = {} THEN None ELSE Max(stored[s])

(* data.gaps: the bars missing below a stored one.                          *)
Holes(s) == {b \in 0..Last(s) : b \notin stored[s]}

(* gap_boundaries with start_ms: the gaps whose later bar is in the window. *)
Seen(s) ==
  {b \in Holes(s) : Min({c \in stored[s] : b < c}) >= now - RepairWindow}

(* Mutant: the bar still forming is kept.                                   *)
GotForming(f, upto) == {b \in f.from..upto : b <= f.stop}

(* backfill_symbol keeps the closed bars of a page, none beyond the bar     *)
(* that was forming when it began.                                          *)
Got(f, upto) == {b \in f.from..upto : b <= f.stop /\ b < now}

Store(s, bars) == stored' = [stored EXCEPT ![s] = @ \cup bars]

(* Is the gap behind s one the poller fetches as a whole?                   *)
Short(s, n) == n - (Last(s) + 1) <= PollDepth

------------------------------------------------------------------------------
Init ==
  /\ now = 1 /\ stored = [s \in Series |-> {}]
  /\ phase = "down" /\ conn = "off" /\ wire = [s \in Series |-> {}]
  /\ task = {} /\ pending = {} /\ todo = {} /\ fetch = {} /\ completed = FALSE
  /\ request = {}
  /\ listed \in SUBSET Arm /\ plan = Base /\ filling = {} /\ lost = {}
  /\ drops = 0 /\ changes = 0 /\ crashes = 0 /\ failures = 0

(* The plan of the series listed or held now (ArmCollection.compute), and   *)
(* the series collected or already filled for the next plan.                *)
Wanted  == Base \cup listed
Current == plan \cup UNION {f.plan \ f.todo : f \in filling}

(* What is assumed of time when Punctual: the fetch of a series, the poll   *)
(* rounds of a gap they may close, and the rest of a fill take less than    *)
(* PollDepth bars (500 minutes for the shortest timeframe).                 *)
Timely ==
  Punctual =>
    /\ \A f \in fetch : now - f.stop <= PollDepth
    /\ phase = "up" => \A s \in Current :
         stored[s] # {} /\ Short(s, now) => Short(s, now + 1)

(* A bar closes, on an open connection with an event for every series of it.*)
Tick ==
  /\ now < MaxBar /\ Timely
  /\ now' = now + 1
  /\ wire' = IF conn = "off" THEN wire ELSE [s \in Series |-> IF s \in plan THEN wire[s] \cup {now} ELSE {}]
  /\ UNCHANGED <<plans, stored, phase, conn, drops, catchup, todo, fetch, request, crashes, failures>>

(* May one more of the bounded events happen?                               *)
Room == drops + changes + crashes + failures < MaxEvents

Attempt(ok) ==
  \/ ok /\ UNCHANGED failures
  \/ ~ok /\ Room /\ failures < MaxFailures /\ failures' = failures + 1

------------------------------------------------------------------------------
(* The start: backfill_all of the grid, then repair_all.                    *)

Start ==
  /\ phase = "down"
  /\ phase' = "backfill" /\ todo' = Base
  /\ UNCHANGED <<now, plans, stored, stream, catchup, fetch, request, crashes, failures>>

(* repair_all looks at the stored series of the plan of this moment.        *)
EndBackfill ==
  /\ phase = "backfill" /\ todo = {} /\ fetch = {}
  /\ phase' = "repair" /\ todo' = {s \in Wanted : stored[s] # {}}
  /\ lost' = lost \cup {s \in Series \ Wanted : Holes(s) # {}}
  /\ UNCHANGED <<now, stored, listed, plan, filling, changes, stream, catchup, fetch, request, crashes, failures>>

(* What a series raises is kept to itself: the gaps up to `upto` are filled.*)
RepairSeries(s, upto) ==
  /\ phase = "repair" /\ s \in todo
  /\ Attempt(upto = now)
  /\ Store(s, {b \in Seen(s) : b < upto})
  /\ todo' = todo \ {s}
  /\ UNCHANGED <<now, plans, phase, stream, catchup, fetch, request, crashes>>

(* _arm_tail_refill: the short tail of an arm series that looks stale.      *)
RefillStale(s) ==
  /\ phase = "repair" /\ todo = {}
  /\ s \in listed /\ stored[s] # {} /\ now - Last(s) <= RefillDepth
  /\ Store(s, (Last(s) + 1)..(now - 1))
  /\ UNCHANGED <<now, plans, phase, stream, catchup, todo, fetch, request, crashes, failures>>

EndRepair ==
  /\ phase = "repair" /\ todo = {}
  /\ phase' = "up" /\ plan' = Wanted
  /\ UNCHANGED <<now, listed, filling, lost, changes, stored, stream, catchup, todo, fetch, request, crashes, failures>>

Down ==
  /\ phase' = "down" /\ conn' = "off" /\ wire' = [s \in Series |-> {}]
  /\ task' = {} /\ pending' = {} /\ todo' = {} /\ fetch' = {} /\ completed' = FALSE
  /\ request' = {} /\ plan' = Base /\ filling' = {}

(* The host, the operator or a watchdog ends the process.                   *)
Crash ==
  /\ phase # "down" /\ crashes < MaxCrashes /\ Room
  /\ crashes' = crashes + 1
  /\ Down
  /\ UNCHANGED <<now, stored, listed, lost, changes, drops, failures>>

------------------------------------------------------------------------------
(* The stream.                                                              *)

(* Every connection is open: from here on their sockets keep what closes.   *)
Connect ==
  /\ phase = "up" /\ conn = "off"
  /\ conn' = "open"
  /\ UNCHANGED <<now, plans, stored, phase, wire, drops, catchup, todo, fetch, request, crashes, failures>>

(* Mutant: a reading that is not in the older one is all that is kept.      *)
MergeLatest(older, newer) ==
  [s \in DOMAIN older \cup DOMAIN newer |->
     Max({snap[s] : snap \in {x \in {older, newer} : s \in DOMAIN x}})]

(* _merge_snapshots: the earlier of two readings (None is the earliest), or *)
(* the only one.                                                            *)
Merge(older, newer) ==
  [s \in DOMAIN older \cup DOMAIN newer |->
     Min({snap[s] : snap \in {x \in {older, newer} : s \in DOMAIN x}})]

(* on_connect: TailCatchup.schedule reads the latest bars before anything   *)
(* of the connection is consumed.                                           *)
Schedule ==
  /\ conn = "open" /\ conn' = "live"
  /\ LET reading == [s \in plan |-> Last(s)] IN
       IF task = {}
       THEN task' = {reading} /\ todo' = plan /\ UNCHANGED pending
       ELSE /\ pending' = IF pending = {} THEN {reading}
                                          ELSE {Merge(p, reading) : p \in pending}
            /\ UNCHANGED <<task, todo>>
  /\ UNCHANGED <<now, plans, stored, phase, wire, drops, completed, fetch, request, crashes, failures>>

(* consume_messages: the events of one series arrive in order.              *)
Deliver(s) ==
  /\ conn = "live" /\ wire[s] # {}
  /\ LET b == Min(wire[s]) IN
       /\ Store(s, {b})
       /\ wire' = [wire EXCEPT ![s] = @ \ {b}]
  /\ UNCHANGED <<now, plans, phase, conn, drops, catchup, todo, fetch, request, crashes, failures>>

(* The first connection to end takes the others with it.                    *)
Drop ==
  /\ conn # "off" /\ drops < MaxDrops /\ Room
  /\ drops' = drops + 1
  /\ conn' = "off" /\ wire' = [s \in Series |-> {}]
  /\ UNCHANGED <<now, plans, stored, phase, catchup, todo, fetch, request, crashes, failures>>

------------------------------------------------------------------------------
(* backfill_all of a start, or of a catch-up and the arm's after it.        *)

(* Mutant: the series is read when its turn comes.                          *)
FromNow(s) == Last(s) + 1

(* The start reads the store, the catch-up its snapshot, if s is in it.     *)
From(s) ==
  LET readings == {snap[s] : snap \in {x \in task : s \in DOMAIN x}}
  IN  IF readings = {} THEN Last(s) + 1 ELSE Min(readings) + 1

BeginFetch(s) ==
  /\ phase \in {"backfill", "up"} /\ s \in todo /\ fetch = {}
  /\ s \in Base \/ todo \cap Base = {}
  /\ todo' = todo \ {s}
  /\ fetch' = {[series |-> s, from |-> From(s), stop |-> now]}
  /\ UNCHANGED <<now, plans, stored, phase, stream, catchup, request, crashes, failures>>

(* _run: the connections that came meanwhile are served next, in one go.    *)
NextTask ==
  /\ task' = pending /\ pending' = {} /\ fetch' = {}
  /\ todo' = IF pending = {} THEN {} ELSE plan

FetchPage(f) ==
  /\ f \in fetch
  /\ Store(f.series, Got(f, f.from + PageBars - 1))
  /\ fetch' = IF f.from + PageBars > f.stop THEN {}
                                            ELSE {[f EXCEPT !.from = @ + PageBars]}
  /\ UNCHANGED <<now, plans, phase, stream, catchup, todo, request, crashes, failures>>

(* In the start nothing catches it and the process ends.  In a catch-up it  *)
(* ends the grid's part and with it the whole; in the arm's, one series.    *)
FetchFails(f) ==
  /\ f \in fetch /\ Attempt(FALSE)
  /\ \/ phase = "backfill" /\ Down
     \/ /\ phase = "up" /\ f.series \in Base
        /\ NextTask /\ UNCHANGED <<phase, conn, wire, completed, request, plan, filling>>
     \/ /\ phase = "up" /\ f.series \in Arm
        /\ fetch' = {} /\ UNCHANGED <<phase, conn, wire, todo, catchup, request, plan, filling>>
  /\ UNCHANGED <<now, stored, listed, lost, changes, drops, crashes>>

EndTask ==
  /\ task # {} /\ todo = {} /\ fetch = {}
  /\ completed' = TRUE
  /\ NextTask
  /\ UNCHANGED <<now, plans, stored, phase, stream, request, crashes, failures>>

------------------------------------------------------------------------------
(* ClosedBarPoller.                                                         *)

(* missing_since: the bar after the latest, or PollDepth bars back.         *)
MissingSince(s) == IF Short(s, now) THEN Last(s) + 1 ELSE now - PollDepth

(* Mutant: the first catch-up is not waited for.                            *)
PollAnyGap(s) ==
  /\ phase = "up" /\ request = {} /\ s \in plan
  /\ stored[s] # {} /\ Last(s) + 1 < now
  /\ request' = {[series |-> s, from |-> MissingSince(s), stop |-> now]}
  /\ UNCHANGED <<now, plans, stored, phase, stream, catchup, todo, fetch, crashes, failures>>

(* A round comes to a series that lacks a closed bar.  Until a catch-up of  *)
(* this process has succeeded, long gaps are held back; a round that began  *)
(* before that leaves them to the next one.                                 *)
PollSeries(s) ==
  /\ phase = "up" /\ request = {} /\ s \in plan
  /\ stored[s] # {} /\ Last(s) + 1 < now
  /\ completed \/ Short(s, now)
  /\ request' = {[series |-> s, from |-> MissingSince(s), stop |-> now]}
  /\ UNCHANGED <<now, plans, stored, phase, stream, catchup, todo, fetch, crashes, failures>>

PollFetch(r, upto) ==
  /\ r \in request
  /\ Attempt(upto = now)
  /\ Store(r.series, Got(r, upto - 1))
  /\ request' = {}
  /\ UNCHANGED <<now, plans, phase, stream, catchup, todo, fetch, crashes>>

------------------------------------------------------------------------------
(* A change of the plan, beside everything above (PlanTransition).          *)

(* A week's list is saved, a position is opened or closed.                  *)
Rotate(arm) ==
  /\ changes < MaxChanges /\ Room /\ changes' = changes + 1
  /\ arm # listed /\ listed' = arm
  /\ UNCHANGED <<now, stored, phase, stream, catchup, plan, filling, lost, todo, fetch, request, crashes, failures>>

(* _wait_plan_change sees it; the new series are filled in a task that      *)
(* outlives connections, while the old plan goes on.                        *)
BeginFill ==
  /\ phase = "up" /\ filling = {} /\ Wanted # plan
  /\ filling' = {[plan |-> Wanted, todo |-> Wanted \ plan]}
  /\ UNCHANGED <<now, stored, phase, stream, catchup, listed, plan, lost, changes, todo, fetch, request, crashes, failures>>

(* arm.fill: what a series raises is kept to itself.                        *)
FillSeries(s, upto) ==
  /\ \E f \in filling : s \in f.todo /\ filling' = {[f EXCEPT !.todo = @ \ {s}]}
  /\ Attempt(upto = now)
  /\ Store(s, (Last(s) + 1)..(upto - 1))
  /\ UNCHANGED <<now, phase, stream, catchup, listed, plan, lost, changes, todo, fetch, request, crashes>>

(* What the fill raises itself ends it: the old plan goes on, until the     *)
(* next look at the list.                                                   *)
FillFails ==
  /\ filling # {} /\ Attempt(FALSE)
  /\ filling' = {}
  /\ UNCHANGED <<now, stored, phase, stream, catchup, listed, plan, lost, changes, todo, fetch, request, crashes>>

(* The running catch-up takes the arm's series of the plan when it comes to *)
(* them, after the grid's.                                                  *)
OfPlan(new) ==
  IF todo \cap Base # {} \/ \E f \in fetch : f.series \in Base
  THEN (todo \cap Base) \cup (new \ Base) ELSE todo

(* Mutant: the plan is adopted before its new series are filled.            *)
AdoptUnfilled ==
  /\ \E f \in filling :
       /\ plan' = f.plan /\ todo' = OfPlan(f.plan)
       /\ lost' = lost \cup {s \in plan \ f.plan : Holes(s) # {}}
  /\ filling' = {} /\ conn' = "off" /\ wire' = [s \in Series |-> {}]
  /\ UNCHANGED <<now, stored, phase, drops, catchup, listed, changes, fetch, request, crashes, failures>>

(* adopt, and the stream is left for one of the new plan.                   *)
Adopt ==
  /\ \E f \in filling :
       /\ f.todo = {} /\ plan' = f.plan /\ todo' = OfPlan(f.plan)
       /\ lost' = lost \cup {s \in plan \ f.plan : Holes(s) # {}}
  /\ filling' = {} /\ conn' = "off" /\ wire' = [s \in Series |-> {}]
  /\ UNCHANGED <<now, stored, phase, drops, catchup, listed, changes, fetch, request, crashes, failures>>

------------------------------------------------------------------------------
Boot == Start \/ EndBackfill \/ EndRepair \/ \E s \in Series : RepairSeries(s, now)

CatchUp ==
  \/ EndTask
  \/ \E s \in Series : BeginFetch(s)
  \/ \E f \in fetch : FetchPage(f)

ChangePlan == BeginFill \/ Adopt \/ \E s \in Series : FillSeries(s, now)

Poll == \E r \in request : PollFetch(r, now)

Fault ==
  \/ Crash \/ Drop \/ FillFails
  \/ \E f \in fetch : FetchFails(f)
  \/ \E upto \in 0..(now - 1) :
       \/ \E s \in Series : RepairSeries(s, upto) \/ FillSeries(s, upto)
       \/ \E r \in request : PollFetch(r, upto)

Next ==
  \/ Tick \/ Boot \/ Connect \/ Schedule \/ CatchUp \/ Poll \/ ChangePlan \/ Fault
  \/ \E arm \in SUBSET Arm : Rotate(arm)
  \/ \E s \in Series : RefillStale(s) \/ Deliver(s) \/ PollSeries(s)

Spec == Init /\ [][Next]_vars

(* The supervisor starts the process, run_with_recovery connects again for  *)
(* ever, the catch-up and the poller are threads that run.  Nothing is      *)
(* assumed of the market, of faults, or of the stream: a frozen connection  *)
(* delivers nothing.                                                        *)
Fairness ==
  /\ WF_vars(Boot) /\ WF_vars(Connect) /\ WF_vars(Schedule)
  /\ WF_vars(CatchUp) /\ WF_vars(ChangePlan) /\ WF_vars(Poll) /\ \A s \in Series : SF_vars(PollSeries(s))
FairSpec == Spec /\ Fairness

------------------------------------------------------------------------------
(* Every variable has its type; one catch-up, one pending snapshot, one     *)
(* fetch and one poll request exist at most, and only bars that have closed *)
(* are stored (WAN-314: a forming bar is never stored as closed).           *)
TypeOK ==
  /\ now \in Nat /\ stored \in [Series -> SUBSET (0..(now - 1))]
  /\ phase \in {"down", "backfill", "repair", "up"} /\ conn \in {"off", "open", "live"}
  /\ wire \in [Series -> SUBSET (0..(now - 1))]
  /\ \A snap \in task \cup pending : DOMAIN snap \subseteq Series /\ snap \in [DOMAIN snap -> Int]
  /\ todo \subseteq Series /\ fetch \subseteq Fetch /\ completed \in BOOLEAN
  /\ request \subseteq Fetch
  /\ listed \subseteq Arm /\ Base \subseteq plan /\ plan \subseteq Series
  /\ filling \subseteq Filling /\ lost \subseteq Series
  /\ drops \in Nat /\ changes \in Nat /\ crashes \in Nat /\ failures \in Nat
  /\ \A S \in {task, pending, fetch, request, filling} : \A x, y \in S : x = y

(* Who will still store bar b of s: the catch-up, the next one, the poller, *)
(* or the repair of the start under way.                                    *)
Awaited(s, b) ==
  \/ s \in todo /\ task # {} /\ From(s) <= b
  \/ \E f \in fetch \cup request : f.series = s /\ f.from <= b /\ b <= f.stop
  \/ \E snap \in pending : s \in DOMAIN snap /\ snap[s] < b
  \/ phase \in {"down", "backfill"}
  \/ phase = "repair" /\ s \in todo

(* No hole is forgotten as long as no request has failed: a bar missing     *)
(* below a stored one is one that the catch-up, the poller or the repair is *)
(* still to fetch, also when its series has just entered the plan or come   *)
(* back to it.  Nothing looks for it later: the poller, every catch-up and  *)
(* the fill of a new series start from the latest bar (TailCatchup's        *)
(* docstring: "otherwise a permanent hole").  A series that leaves the plan *)
(* with a hole in it is left out: nobody waits for that one.                *)
HolesAreAwaited ==
  failures = 0 => \A s \in Series \ lost : \A b \in Holes(s) : Awaited(s, b)

(* As long as no request has failed, what the poller stores makes no new    *)
(* hole, whatever the stream and the catch-up stored during its request     *)
(* (poll_once, WAN-474: a jump makes the bars before it a permanent hole).  *)
PollerLeavesNoHole ==
  [][\A r \in request : request' = {} /\ phase' = "up" /\ failures = 0 =>
       Holes(r.series)' \subseteq Holes(r.series)]_vars

(* The catch-up that a connection schedules covers every hole there is, so  *)
(* that what an earlier one failed to fetch is tried again ("failed - tried *)
(* again at the next connection", TailCatchup._run_once).                   *)
EveryConnectionCatchesUp ==
  [][conn = "open" /\ conn' = "live" =>
       \A s \in Series : \A b \in Holes(s) : Awaited(s, b)']_vars

(* If no request fails, every closed bar of every wanted series is stored   *)
(* in the end, through frozen streams, reconnections, restarts and changes  *)
(* of the plan (WAN-314, WAN-456, WAN-470): with the bars and the events of *)
(* a run bounded, from some time on nothing that has closed is missing.     *)
EveryBarIsStored ==
  <>[](failures = 0 => \A s \in Wanted \ lost : stored[s] = 0..(now - 1))
=============================================================================
