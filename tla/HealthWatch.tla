----------------------------- MODULE HealthWatch -----------------------------
(***************************************************************************)
(* The health watch: a process that a timer starts, that reads what it     *)
(* remembers from a file, restarts the collector when the base grid has    *)
(* been empty too long, tells the phone what is wrong and what is over,    *)
(* and writes the file.  A message may not be delivered, the restart may   *)
(* fail, the file may be unreadable, and the process may end between the   *)
(* signal, any two messages and the write.                                 *)
(*                                                                         *)
(* Abstracted: time is counted in checks and every recorded time is its    *)
(* age, capped where the code no longer tells ages apart; an issue is a    *)
(* key that is fine, stale or, for a series of the base grid, overdue; a   *)
(* closing message is one kind, whether it says recovered or no longer     *)
(* watched; messages are sent in any order.  A check takes no time, and    *)
(* the data do not change during one: it looks at them once.               *)
(***************************************************************************)
EXTENDS Integers, FiniteSets, FiniteSetsExt

CONSTANTS
  Base,            \* the series of the base grid
  Others,          \* other series, funding rates, heartbeats, runner delivery
  RestartKey,      \* the issue of a collector that cannot be restarted
  Cooldown,        \* checks between two alerts of a standing issue
  RestartCooldown, \* checks between two restarts
  Day,             \* checks in 24 hours
  MaxPerDay,       \* restarts in 24 hours
  MaxFailures,     \* bound: messages not delivered and restarts refused
  MaxLapses        \* bound: checks cut short and files not read

Keys == Base \cup Others \cup {RestartKey}

ASSUME WatchAssumption ==
  /\ IsFiniteSet(Keys) /\ RestartKey \notin Base \cup Others
  /\ Cooldown \in Nat /\ MaxPerDay \in Nat
  /\ RestartCooldown \in Nat \ {0} /\ Day \in Nat /\ RestartCooldown <= Day
  /\ MaxFailures \in Nat /\ MaxLapses \in Nat

VARIABLES
  condition,   \* what the health view shows of each series
  file,        \* the watch's state file: open alerts and recent restarts
  pc,          \* between checks, or sending what a check found
  previous,    \* the state the check has loaded, with its restart
  next,        \* the state it will save if everything is delivered
  todo,        \* the messages it has yet to send
  undelivered, \* the issues whose message was not delivered
  phone,       \* how long ago the phone was told of each open issue
  signals,     \* how many restarts were sent, by age
  failures, lapses

check == <<previous, next, todo, undelivered>>
vars  == <<condition, file, pc, check, phone, signals, failures, lapses>>

------------------------------------------------------------------------------
Unannounced == -1
Ages == {Unannounced} \cup 0..Cooldown
RestartAges == 0..(Day - 1)

WatchState == [active : [Keys -> Ages], restarts : SUBSET RestartAges]
EmptyState == [active |-> [k \in Keys |-> Unannounced], restarts |-> {}]

(* "action" is the message that the collector was restarted.                *)
Messages == [kind : {"alert", "close"}, key : Keys] \cup {[kind |-> "action"]}

(* Mutant: the age is counted on.                                           *)
OlderForever(age) == IF age = Unannounced THEN age ELSE age + 1

Older(age) == IF age \in {Unannounced, Cooldown} THEN age ELSE age + 1
OlderState(s) ==
  [active   |-> [k \in Keys |-> Older(s.active[k])],
   restarts |-> {a + 1 : a \in s.restarts} \cap RestartAges]

Init ==
  /\ condition = [k \in Base \cup Others |-> "ok"]
  /\ file = EmptyState /\ pc = "idle"
  /\ previous = EmptyState /\ next = EmptyState /\ todo = {} /\ undelivered = {}
  /\ phone = EmptyState.active /\ signals = [a \in RestartAges |-> 0]
  /\ failures = 0 /\ lapses = 0

Tick ==
  /\ pc = "idle"
  /\ file' = OlderState(file)
  /\ phone' = [k \in Keys |-> Older(phone[k])]
  /\ signals' = [a \in RestartAges |-> IF a = 0 THEN 0 ELSE signals[a - 1]]
  /\ UNCHANGED <<condition, pc, check, failures, lapses>>

(* Data arrive or fail to; only the base grid is ever overdue for a restart.*)
Change(k, c) ==
  /\ pc = "idle"
  /\ c = "overdue" => k \in Base
  /\ condition' = [condition EXCEPT ![k] = c]
  /\ UNCHANGED <<file, pc, check, phone, signals, failures, lapses>>

------------------------------------------------------------------------------
(* A check: load, backstop, reconcile.                                      *)

Alarms  == {k \in Base \cup Others : condition[k] # "ok"}
Overdue == \E k \in Base : condition[k] = "overdue"

Decision(restarts) ==
  IF \E a \in restarts : a < RestartCooldown THEN "cooldown"
  ELSE IF Cardinality(restarts) >= MaxPerDay THEN "capped"
  ELSE "restart"

(* A file that cannot be read counts as empty.                              *)
Loaded(s) ==
  \/ s = file /\ UNCHANGED lapses
  \/ s = EmptyState /\ s # file /\ lapses < MaxLapses /\ lapses' = lapses + 1

(* Mutant: no reminders.                                                    *)
DueOnce(age) == age = Unannounced

Due(age) == age \in {Unannounced, Cooldown}

(* Mutant: a standing issue is repeated at every check.                     *)
ReconcileLoudly(alerts, s, actions) ==
  /\ pc' = "send" /\ previous' = s /\ undelivered' = {}
  /\ next' = [s EXCEPT !.active = [k \in Keys |-> IF k \in alerts THEN 0 ELSE Unannounced]]
  /\ todo' = actions
       \cup {[kind |-> "alert", key |-> k] : k \in alerts}
       \cup {[kind |-> "close", key |-> k] :
               k \in {j \in Keys \ alerts : s.active[j] # Unannounced}}

(* New and overdue alerts are announced, those no longer found are closed.  *)
Reconcile(alerts, s, actions) ==
  /\ pc' = "send" /\ previous' = s /\ undelivered' = {}
  /\ next' = [s EXCEPT !.active = [k \in Keys |->
                IF k \notin alerts THEN Unannounced ELSE IF Due(@[k]) THEN 0 ELSE @[k]]]
  /\ todo' = actions
       \cup {[kind |-> "alert", key |-> k] : k \in {j \in alerts : Due(s.active[j])}}
       \cup {[kind |-> "close", key |-> k] :
               k \in {j \in Keys \ alerts : s.active[j] # Unannounced}}

(* Nothing is overdue, or the last restart is too recent.                   *)
CheckQuietly(s) ==
  /\ pc = "idle" /\ Loaded(s)
  /\ Overdue => Decision(s.restarts) = "cooldown"
  /\ Reconcile(Alarms, s, {})
  /\ UNCHANGED <<condition, file, phone, signals, failures>>

(* Mutant: at the cap it falls silent.                                      *)
CheckHelplessAlone(s) ==
  /\ pc = "idle" /\ Loaded(s) /\ Overdue
  /\ \/ Decision(s.restarts) = "capped" /\ UNCHANGED failures
     \/ Decision(s.restarts) = "restart" /\ failures < MaxFailures /\ failures' = failures + 1
  /\ Reconcile(Alarms, s, {})
  /\ UNCHANGED <<condition, file, phone, signals>>

(* Enough restarts for a day, or the signal cannot be sent: an alert.       *)
CheckHelpless(s) ==
  /\ pc = "idle" /\ Loaded(s) /\ Overdue
  /\ \/ Decision(s.restarts) = "capped" /\ UNCHANGED failures
     \/ Decision(s.restarts) = "restart" /\ failures < MaxFailures /\ failures' = failures + 1
  /\ Reconcile(Alarms \cup {RestartKey}, s, {})
  /\ UNCHANGED <<condition, file, phone, signals>>

(* Mutant: the restart is not noted.                                        *)
CheckRestartsUnnoted(s) ==
  /\ pc = "idle" /\ Loaded(s) /\ Overdue /\ Decision(s.restarts) = "restart"
  /\ signals' = [signals EXCEPT ![0] = @ + 1]
  /\ Reconcile(Alarms, s, {[kind |-> "action"]})
  /\ UNCHANGED <<condition, file, phone, failures>>

(* SIGTERM is sent before anything is written.                              *)
CheckRestarts(s) ==
  /\ pc = "idle" /\ Loaded(s) /\ Overdue /\ Decision(s.restarts) = "restart"
  /\ signals' = [signals EXCEPT ![0] = @ + 1]
  /\ Reconcile(Alarms, [s EXCEPT !.restarts = @ \cup {0}], {[kind |-> "action"]})
  /\ UNCHANGED <<condition, file, phone, failures>>

------------------------------------------------------------------------------
(* The messages, the file and the end of the process.                       *)

Announced(m) ==
  CASE m.kind = "alert"  -> [phone EXCEPT ![m.key] = 0]
    [] m.kind = "close"  -> [phone EXCEPT ![m.key] = Unannounced]
    [] m.kind = "action" -> phone

Notify(m, ok) ==
  /\ pc = "send" /\ m \in todo
  /\ todo' = todo \ {m}
  /\ IF ok
     THEN phone' = Announced(m) /\ UNCHANGED <<undelivered, failures>>
     ELSE /\ failures < MaxFailures /\ failures' = failures + 1
          /\ undelivered' = undelivered \cup {m}
          /\ UNCHANGED phone
  /\ UNCHANGED <<condition, file, pc, previous, next, signals, lapses>>

FailedKeys == {m.key : m \in {u \in undelivered : u.kind # "action"}}

(* Mutants: what was not delivered counts as told; only alerts are tried    *)
(* again.                                                                   *)
DeliveredAnyway == next
DeliveredOrClosed ==
  [next EXCEPT !.active = [k \in Keys |->
     IF [kind |-> "alert", key |-> k] \in undelivered THEN previous.active[k] ELSE @[k]]]

(* What was not delivered is as it was before the check.                    *)
Delivered ==
  [next EXCEPT !.active = [k \in Keys |->
     IF k \in FailedKeys THEN previous.active[k] ELSE @[k]]]

Forget == previous' = EmptyState /\ next' = EmptyState /\ todo' = {} /\ undelivered' = {}

Save ==
  /\ pc = "send" /\ todo = {}
  /\ file' = Delivered
  /\ pc' = "idle" /\ Forget
  /\ UNCHANGED <<condition, phone, signals, failures, lapses>>

(* The process ends, or the file cannot be written.                         *)
Crash ==
  /\ pc = "send" /\ lapses < MaxLapses
  /\ lapses' = lapses + 1
  /\ pc' = "idle" /\ Forget
  /\ UNCHANGED <<condition, file, phone, signals, failures>>

Watch ==
  \/ \E s \in {file, EmptyState} : CheckQuietly(s) \/ CheckHelpless(s) \/ CheckRestarts(s)
  \/ \E m \in todo : \E ok \in BOOLEAN : Notify(m, ok)
  \/ Save

Next ==
  \/ Tick \/ Watch \/ Crash
  \/ \E k \in Base \cup Others : \E c \in {"ok", "stale", "overdue"} : Change(k, c)

Spec == Init /\ [][Next]_vars

(* The timer starts the watch, again and again, and time goes on.  Nothing  *)
(* is assumed of the data.                                                  *)
FairSpec == Spec /\ WF_vars(Watch) /\ SF_vars(Tick)

------------------------------------------------------------------------------
(* Every variable has its type.                                             *)
TypeOK ==
  /\ condition \in [Base \cup Others -> {"ok", "stale", "overdue"}]
  /\ file \in WatchState /\ previous \in WatchState /\ next \in WatchState
  /\ pc \in {"idle", "send"}
  /\ todo \subseteq Messages /\ undelivered \subseteq Messages
  /\ phone \in [Keys -> Ages] /\ signals \in [RestartAges -> Nat]
  /\ failures \in Nat /\ lapses \in Nat

(* While no check was cut short the file says exactly what the phone was    *)
(* told: an alert that was not delivered starts no cooldown, a closing one  *)
(* that was not delivered is not forgotten (apply_delivery_failures).       *)
PhoneIsRecorded == pc = "idle" /\ lapses = 0 => file.active = phone

(* The messages of checks that ran to their end obey the channel: no        *)
(* reminder within the cooldown, nothing closed that was not announced      *)
(* (reconcile).                                                             *)
Channel == INSTANCE AlertChannel WITH Keys <- Keys, Cooldown <- Cooldown, phone <- phone
ImplementsAlertChannel == Channel!Init /\ [][lapses' = 0 => Channel!Next]_phone

(* What is wrong when a check ends has been told less than a cooldown ago,  *)
(* or could not be told.                                                    *)
StandingIsFresh ==
  [][pc = "send" /\ pc' = "idle" /\ lapses' = 0 =>
       \A k \in Keys \ FailedKeys :
         next.active[k] # Unannounced => phone[k] \in 0..(Cooldown - 1)]_vars

Sent(ages) == MapThenSumSet(LAMBDA a : signals[a], ages)

(* The collector is restarted no oftener than the cap and the cooldown      *)
(* allow, as long as the watch remembers: a check cut short after its       *)
(* signal forgets one restart, an unreadable file all of them               *)
(* (decide_collector_restart counts what the file remembers).               *)
RestartsAreCapped ==
  /\ Sent(RestartAges) <= MaxPerDay * (1 + lapses)
  /\ Sent(0..(RestartCooldown - 1)) <= 1 + lapses

(* An issue that stands is told in the end, lost messages and crashes       *)
(* notwithstanding.                                                         *)
StandingIsTold ==
  \A k \in Base \cup Others :
    condition[k] # "ok" ~> condition[k] = "ok" \/ phone[k] # Unannounced

(* An issue that is over is closed in the end, as long as no check has ever *)
(* been cut short.                                                          *)
OverIsClosed ==
  \A k \in Base \cup Others :
    condition[k] = "ok" /\ phone[k] # Unannounced
      ~> condition[k] # "ok" \/ phone[k] = Unannounced \/ lapses > 0

(* A check that finds the base grid empty too long leaves it restarted      *)
(* within the cooldown or a human called (_collector_backstop).             *)
OutageIsAnswered ==
  [][pc = "send" /\ pc' = "idle" /\ lapses' = 0 /\ Overdue =>
       \/ Sent(0..(RestartCooldown - 1)) > 0
       \/ phone[RestartKey] \in 0..(Cooldown - 1) \/ RestartKey \in FailedKeys]_vars
=============================================================================
