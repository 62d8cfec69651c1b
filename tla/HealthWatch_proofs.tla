-------------------------- MODULE HealthWatch_proofs --------------------------
(***************************************************************************)
(* Theorems about HealthWatch, for every set of issues and every length of *)
(* the cooldowns.                                                          *)
(*                                                                         *)
(* WatchInv says, of a check that is sending, what the phone shows of each *)
(* issue: what the file said while the issue's message waits or when it    *)
(* was not delivered, and what the file will say otherwise.                *)
(*                                                                         *)
(* Window bounds, of the youngest ages, what was sent by what the watch    *)
(* knows of and what it was made to forget: that restarts are capped does  *)
(* not follow from the decision alone, which counts what is remembered.    *)
(***************************************************************************)
EXTENDS HealthWatch, NumberFacts

AlertOf(k) == [kind |-> "alert", key |-> k]
CloseOf(k) == [kind |-> "close", key |-> k]
Waits(k)   == AlertOf(k) \in todo \/ CloseOf(k) \in todo

SendInv ==
  \A k \in Keys :
    /\ next.active[k] \in {Unannounced, 0} \cup 0..(Cooldown - 1)
    /\ AlertOf(k) \in todo => /\ Due(previous.active[k]) /\ next.active[k] = 0
                              /\ CloseOf(k) \notin todo
    /\ CloseOf(k) \in todo => /\ previous.active[k] # Unannounced
                              /\ next.active[k] = Unannounced
    /\ Waits(k) => k \notin FailedKeys /\ phone[k] = previous.active[k]
    /\ ~Waits(k) => phone[k] = IF k \in FailedKeys THEN previous.active[k] ELSE next.active[k]

WatchInv ==
  /\ TypeOK
  /\ PhoneIsRecorded
  /\ pc = "send" /\ lapses = 0 => SendInv

(* One check older, an age is an age.                                       *)
LEMMA OlderType == \A age \in Ages : Older(age) \in Ages
  BY WatchAssumption DEF Ages, Older, Unannounced

(* The empty state file (WatchState()).                                     *)
LEMMA EmptyType == EmptyState \in WatchState /\ Unannounced \in Ages
  BY DEF EmptyState, WatchState, Ages, Unannounced

(* What a check makes of the state it loads has its type.                   *)
LEMMA ReconcileType ==
  ASSUME TypeOK, NEW s \in WatchState, NEW alerts \in SUBSET Keys,
         NEW actions \in SUBSET {[kind |-> "action"]}, Reconcile(alerts, s, actions)
  PROVE  /\ pc' = "send" /\ previous' \in WatchState /\ next' \in WatchState
         /\ todo' \subseteq Messages /\ undelivered' \subseteq Messages
<1>1. 0 \in Ages /\ Unannounced \in Ages
  BY WatchAssumption DEF Ages
<1>2. next' \in WatchState
  <2> DEFINE f == [k \in Keys |->
                IF k \notin alerts THEN Unannounced
                ELSE IF Due(s.active[k]) THEN 0 ELSE s.active[k]]
  <2>1. f \in [Keys -> Ages]
    BY <1>1 DEF WatchState
  <2>2. next' = [s EXCEPT !.active = f]
    BY DEF Reconcile
  <2> QED
    BY <2>1, <2>2 DEF WatchState
<1>3. todo' \subseteq Messages
  BY DEF Reconcile, Messages
<1> QED
  BY <1>2, <1>3 DEF Reconcile

(* Every step keeps the types.                                              *)
LEMMA TypeStep == TypeOK /\ [Next]_vars => TypeOK'
<1> SUFFICES ASSUME TypeOK, [Next]_vars PROVE TypeOK'
  OBVIOUS
<1> USE DEF check
<1>alarms. Alarms \subseteq Keys /\ Alarms \cup {RestartKey} \subseteq Keys
  BY DEF Alarms, Keys
<1>loaded. \A s \in {file, EmptyState} : Loaded(s) => s \in WatchState /\ lapses' \in Nat
  BY EmptyType DEF Loaded, TypeOK
<1>1. CASE Tick
  <2>1. file' \in WatchState
    <3>1. \A k \in Keys : file.active[k] \in Ages
      BY DEF TypeOK, WatchState
    <3>2. OlderState(file).active \in [Keys -> Ages]
      BY <3>1, OlderType DEF OlderState
    <3>3. OlderState(file).restarts \subseteq RestartAges
      BY DEF OlderState
    <3> QED
      BY <1>1, <3>2, <3>3 DEF Tick, OlderState, WatchState
  <2>2. phone' \in [Keys -> Ages]
    BY <1>1, OlderType DEF Tick, TypeOK
  <2>3. signals' \in [RestartAges -> Nat]
    BY <1>1, WatchAssumption DEF Tick, TypeOK, RestartAges
  <2> QED
    BY <1>1, <2>1, <2>2, <2>3 DEF Tick, TypeOK
<1>2. ASSUME NEW k \in Base \cup Others, NEW c \in {"ok", "stale", "overdue"}, Change(k, c)
      PROVE  TypeOK'
  BY <1>2 DEF Change, TypeOK
<1>3. ASSUME NEW s \in {file, EmptyState}, CheckQuietly(s) PROVE TypeOK'
  <2>1. Reconcile(Alarms, s, {}) /\ Loaded(s)
    BY <1>3 DEF CheckQuietly
  <2> QED
    BY <1>3, <1>alarms, <1>loaded, <2>1, ReconcileType DEF CheckQuietly, TypeOK
<1>4. ASSUME NEW s \in {file, EmptyState}, CheckHelpless(s) PROVE TypeOK'
  <2>1. Reconcile(Alarms \cup {RestartKey}, s, {}) /\ Loaded(s) /\ failures' \in Nat
    BY <1>4 DEF CheckHelpless, TypeOK
  <2> QED
    BY <1>4, <1>alarms, <1>loaded, <2>1, ReconcileType DEF CheckHelpless, TypeOK
<1>5. ASSUME NEW s \in {file, EmptyState}, CheckRestarts(s) PROVE TypeOK'
  <2> DEFINE s2 == [s EXCEPT !.restarts = s.restarts \cup {0}]
  <2>1. Reconcile(Alarms, s2, {[kind |-> "action"]}) /\ Loaded(s)
    BY <1>5 DEF CheckRestarts
  <2>2. 0 \in RestartAges
    BY WatchAssumption DEF RestartAges
  <2>3. s2 \in WatchState
    BY <1>loaded, <2>1, <2>2 DEF WatchState
  <2>4. signals' \in [RestartAges -> Nat]
    BY <1>5, <2>2 DEF CheckRestarts, TypeOK
  <2> HIDE DEF s2
  <2>5. /\ pc' = "send" /\ previous' \in WatchState /\ next' \in WatchState
        /\ todo' \subseteq Messages /\ undelivered' \subseteq Messages
    BY <1>alarms, <2>1, <2>3, ReconcileType
  <2> QED
    BY <1>5, <1>loaded, <2>4, <2>5 DEF CheckRestarts, TypeOK, Loaded
<1>6. ASSUME NEW m \in todo, NEW ok \in BOOLEAN, Notify(m, ok) PROVE TypeOK'
  <2>1. Announced(m) \in [Keys -> Ages]
    <3>1. m \in Messages /\ 0 \in Ages /\ Unannounced \in Ages
      BY WatchAssumption DEF TypeOK, Ages
    <3> QED
      BY <3>1 DEF Announced, Messages, TypeOK
  <2> QED
    BY <1>6, <2>1 DEF Notify, TypeOK
<1>7. CASE Save
  <2>1. Delivered \in WatchState
    <3> DEFINE f == [k \in Keys |-> IF k \in FailedKeys THEN previous.active[k] ELSE next.active[k]]
    <3>1. f \in [Keys -> Ages]
      BY DEF TypeOK, WatchState
    <3>2. Delivered = [next EXCEPT !.active = f]
      BY DEF Delivered
    <3> QED
      BY <3>1, <3>2 DEF TypeOK, WatchState
  <2> QED
    BY <1>7, <2>1, EmptyType DEF Save, Forget, TypeOK
<1>8. CASE Crash
  BY <1>8, EmptyType DEF Crash, Forget, TypeOK
<1>9. CASE UNCHANGED vars
  BY <1>9 DEF vars, TypeOK
<1> QED
  BY <1>1, <1>2, <1>3, <1>4, <1>5, <1>6, <1>7, <1>8, <1>9 DEF Next, Watch

(* A check that loads what the phone was told starts with SendInv.          *)
LEMMA ReconcileSends ==
  ASSUME TypeOK, NEW s \in WatchState, s.active = phone, NEW alerts \in SUBSET Keys,
         NEW actions \in SUBSET {[kind |-> "action"]}, Reconcile(alerts, s, actions),
         UNCHANGED phone
  PROVE  SendInv'
<1>1. /\ undelivered' = {} /\ previous' = s
      /\ next'.active = [k \in Keys |-> IF k \notin alerts THEN Unannounced
                                        ELSE IF Due(s.active[k]) THEN 0 ELSE s.active[k]]
  BY DEF Reconcile, WatchState
<1>2. FailedKeys' = {}
  BY <1>1 DEF FailedKeys
<1>3. ASSUME NEW k \in Keys
      PROVE  /\ AlertOf(k) \in todo' <=> k \in alerts /\ Due(s.active[k])
             /\ CloseOf(k) \in todo' <=> k \notin alerts /\ s.active[k] # Unannounced
  BY DEF Reconcile, AlertOf, CloseOf
<1>4. ASSUME NEW k \in Keys
      PROVE  next'.active[k] \in {Unannounced, 0} \cup 0..(Cooldown - 1)
  <2>1. s.active[k] \in Ages
    BY DEF WatchState
  <2> QED
    BY <1>1, <2>1, WatchAssumption DEF Due, Ages, Unannounced
<1> QED
  BY <1>1, <1>2, <1>3, <1>4 DEF SendInv, Waits, Due

(* A message sent, or not delivered, keeps SendInv.                         *)
LEMMA NotifyKeeps ==
  ASSUME TypeOK, SendInv, NEW m \in todo, NEW ok \in BOOLEAN, Notify(m, ok)
  PROVE  /\ SendInv'
         /\ phone' # phone => \E k \in Keys :
              \/ phone[k] \in {Unannounced, Cooldown} /\ phone' = [phone EXCEPT ![k] = 0]
              \/ phone[k] # Unannounced /\ phone' = [phone EXCEPT ![k] = Unannounced]
<1>1. m \in Messages /\ phone \in [Keys -> Ages]
  BY DEF TypeOK
<1>2. todo' = todo \ {m} /\ UNCHANGED <<previous, next>>
  BY DEF Notify
<1>3. CASE m = [kind |-> "action"]
  <2>1. \A k \in Keys : m # AlertOf(k) /\ m # CloseOf(k)
    BY <1>3 DEF AlertOf, CloseOf
  <2>2. UNCHANGED phone
    BY <1>3 DEF Notify, Announced
  <2>3. FailedKeys' = FailedKeys
    BY <1>3 DEF Notify, FailedKeys
  <2> QED
    BY <1>2, <2>1, <2>2, <2>3 DEF SendInv, Waits
<1>4. ASSUME NEW j \in Keys, m = AlertOf(j) \/ m = CloseOf(j)
      PROVE  /\ SendInv'
             /\ phone' # phone => \E k \in Keys :
                  \/ phone[k] \in {Unannounced, Cooldown} /\ phone' = [phone EXCEPT ![k] = 0]
                  \/ phone[k] # Unannounced /\ phone' = [phone EXCEPT ![k] = Unannounced]
  <2>1. /\ j \notin FailedKeys /\ phone[j] = previous.active[j]
        /\ ~Waits(j)'
    BY <1>2, <1>4 DEF SendInv, Waits, AlertOf, CloseOf
  <2>2. \A k \in Keys \ {j} : Waits(k)' = Waits(k)
                              /\ (AlertOf(k) \in todo' <=> AlertOf(k) \in todo)
                              /\ (CloseOf(k) \in todo' <=> CloseOf(k) \in todo)
    BY <1>2, <1>4 DEF Waits, AlertOf, CloseOf
  <2>3. CASE ok
    <3>1. FailedKeys' = FailedKeys
      BY <2>3 DEF Notify, FailedKeys
    <3>2. phone' = [phone EXCEPT ![j] = next.active[j]]
      <4>1. phone' = Announced(m)
        BY <2>3 DEF Notify
      <4>2. CASE m = AlertOf(j)
        <5>1. m.kind = "alert" /\ m.key = j /\ next.active[j] = 0
          BY <4>2 DEF AlertOf, SendInv
        <5> QED
          BY <4>1, <5>1 DEF Announced
      <4>3. CASE m = CloseOf(j)
        <5>1. m.kind = "close" /\ m.key = j /\ next.active[j] = Unannounced
          BY <4>3 DEF CloseOf, SendInv
        <5> QED
          BY <4>1, <5>1 DEF Announced
      <4> QED
        BY <1>4, <4>2, <4>3
    <3>3. \/ phone[j] \in {Unannounced, Cooldown} /\ next.active[j] = 0
          \/ phone[j] # Unannounced /\ next.active[j] = Unannounced
      BY <1>4, <2>1 DEF SendInv, Due
    <3>4. SendInv'
      BY <1>1, <1>2, <2>1, <2>2, <3>1, <3>2 DEF SendInv, Waits
    <3> QED
      BY <3>2, <3>3, <3>4
  <2>4. CASE ~ok
    <3>1. m.kind # "action" /\ m.key = j
      BY <1>4 DEF AlertOf, CloseOf
    <3>2. undelivered' = undelivered \cup {m} /\ UNCHANGED phone
      BY <2>4 DEF Notify
    <3>3. FailedKeys' = FailedKeys \cup {j}
      BY <3>1, <3>2 DEF FailedKeys
    <3> QED
      BY <1>2, <2>1, <2>2, <3>2, <3>3 DEF SendInv, Waits
  <2> QED
    BY <2>3, <2>4
<1>5. m = [kind |-> "action"] \/ \E j \in Keys : m = AlertOf(j) \/ m = CloseOf(j)
  BY <1>1 DEF Messages, AlertOf, CloseOf
<1> QED
  BY <1>3, <1>4, <1>5

(* When everything is sent the file to be written is what the phone shows.  *)
LEMMA SavedIsShown ==
  ASSUME TypeOK, SendInv, todo = {}
  PROVE  Delivered.active = phone
<1>1. \A k \in Keys : phone[k] = IF k \in FailedKeys THEN previous.active[k] ELSE next.active[k]
  BY DEF SendInv, Waits
<1>2. Delivered.active =
        [k \in Keys |-> IF k \in FailedKeys THEN previous.active[k] ELSE next.active[k]]
  BY DEF Delivered, TypeOK, WatchState
<1>3. phone \in [Keys -> Ages]
  BY DEF TypeOK
<1> QED
  BY <1>1, <1>2, <1>3

(* While no check is cut short, a step keeps WatchInv and is one of the     *)
(* channel's; what stands when a check ends is fresh.                       *)
LEMMA WatchStep ==
  ASSUME WatchInv, [Next]_vars
  PROVE  /\ WatchInv'
         /\ lapses' = 0 => [Channel!Next]_phone
         /\ pc = "send" /\ pc' = "idle" /\ lapses' = 0 /\ Cooldown > 0 =>
              \A k \in Keys \ FailedKeys :
                next.active[k] # Unannounced => phone[k] \in 0..(Cooldown - 1)
<1> DEFINE Fresh == pc = "send" /\ pc' = "idle" /\ lapses' = 0 /\ Cooldown > 0 =>
                     \A k \in Keys \ FailedKeys :
                       next.active[k] # Unannounced => phone[k] \in 0..(Cooldown - 1)
           Goal == WatchInv' /\ (lapses' = 0 => [Channel!Next]_phone) /\ Fresh
<1> SUFFICES Goal
  OBVIOUS
<1>0. TypeOK /\ TypeOK'
  BY TypeStep DEF WatchInv
<1>loaded. ASSUME NEW s \in {file, EmptyState}, Loaded(s), pc = "idle", lapses' = 0
           PROVE  s = file /\ lapses = 0 /\ s.active = phone
  <2>1. lapses \in Nat
    BY <1>0 DEF TypeOK
  <2> QED
    BY <1>loaded, <2>1 DEF Loaded, WatchInv, PhoneIsRecorded
<1>1. CASE Tick
  <2>1. pc = "idle" /\ pc' = "idle" /\ UNCHANGED lapses
    BY <1>1 DEF Tick
  <2>2. Channel!Pass
    BY <1>1 DEF Tick, Channel!Pass, Channel!Older, Channel!Unannounced, Older, Unannounced
  <2>3. lapses = 0 => file'.active = phone'
    BY <1>1, <2>1 DEF Tick, OlderState, WatchInv, PhoneIsRecorded
  <2> QED
    BY <1>0, <2>1, <2>2, <2>3 DEF WatchInv, PhoneIsRecorded, Channel!Next
<1>2. ASSUME NEW k \in Base \cup Others, NEW c \in {"ok", "stale", "overdue"}, Change(k, c)
      PROVE  Goal
  BY <1>0, <1>2 DEF Change, WatchInv, PhoneIsRecorded
<1>3. ASSUME NEW s \in {file, EmptyState},
             CheckQuietly(s) \/ CheckHelpless(s) \/ CheckRestarts(s)
      PROVE  Goal
  <2>1. pc = "idle" /\ pc' = "send" /\ UNCHANGED phone /\ Loaded(s)
    BY <1>3 DEF CheckQuietly, CheckHelpless, CheckRestarts, Reconcile
  <2>2. Alarms \subseteq Keys /\ Alarms \cup {RestartKey} \subseteq Keys
    BY DEF Alarms, Keys
  <2>3. ASSUME lapses' = 0 PROVE SendInv'
    <3>1. s \in WatchState /\ s.active = phone
      BY <1>0, <1>loaded, <2>1, <2>3 DEF TypeOK
    <3>2. CASE CheckQuietly(s)
      BY <1>0, <2>1, <2>2, <3>1, <3>2, ReconcileSends DEF CheckQuietly
    <3>3. CASE CheckHelpless(s)
      BY <1>0, <2>1, <2>2, <3>1, <3>3, ReconcileSends DEF CheckHelpless
    <3>4. CASE CheckRestarts(s)
      <4> DEFINE s2 == [s EXCEPT !.restarts = s.restarts \cup {0}]
      <4>1. s2 \in WatchState /\ s2.active = phone
        BY <3>1, WatchAssumption DEF WatchState, RestartAges
      <4>2. Reconcile(Alarms, s2, {[kind |-> "action"]})
        BY <3>4 DEF CheckRestarts
      <4> QED
        BY <1>0, <2>1, <2>2, <4>1, <4>2, ReconcileSends
    <3> QED
      BY <1>3, <3>2, <3>3, <3>4
  <2> QED
    BY <1>0, <2>1, <2>3 DEF WatchInv, PhoneIsRecorded
<1>4. ASSUME NEW m \in todo, NEW ok \in BOOLEAN, Notify(m, ok) PROVE Goal
  <2>1. pc = "send" /\ pc' = "send" /\ UNCHANGED lapses
    BY <1>4 DEF Notify
  <2>2. CASE lapses # 0
    BY <1>0, <2>1, <2>2 DEF WatchInv, PhoneIsRecorded
  <2>3. CASE lapses = 0
    <3>1. SendInv
      BY <2>1, <2>3 DEF WatchInv
    <3>2. SendInv' /\ [Channel!Next]_phone
      BY <1>0, <1>4, <3>1, NotifyKeeps
         DEF Channel!Next, Channel!Announce, Channel!Close, Channel!Unannounced, Unannounced
    <3> QED
      BY <1>0, <2>1, <3>2 DEF WatchInv, PhoneIsRecorded
  <2> QED
    BY <2>2, <2>3
<1>5. CASE Save
  <2>1. /\ pc = "send" /\ todo = {} /\ file' = Delivered /\ pc' = "idle"
        /\ UNCHANGED <<phone, lapses>>
    BY <1>5 DEF Save
  <2>2. ASSUME lapses = 0 PROVE SendInv /\ Delivered.active = phone
    BY <1>0, <2>1, <2>2, SavedIsShown DEF WatchInv
  <2>3. Fresh
    <3> SUFFICES ASSUME lapses = 0, Cooldown > 0, NEW k \in Keys \ FailedKeys,
                        next.active[k] # Unannounced
                 PROVE  phone[k] \in 0..(Cooldown - 1)
      BY <2>1
    <3>1. phone[k] = next.active[k] /\ next.active[k] \in {Unannounced, 0} \cup 0..(Cooldown - 1)
      BY <2>1, <2>2 DEF SendInv, Waits
    <3> QED
      BY <3>1, WatchAssumption
  <2> QED
    BY <1>0, <2>1, <2>2, <2>3 DEF WatchInv, PhoneIsRecorded
<1>6. CASE Crash
  <2>1. lapses' # 0 /\ UNCHANGED phone /\ pc' = "idle"
    BY <1>0, <1>6 DEF Crash, TypeOK
  <2> QED
    BY <1>0, <2>1 DEF WatchInv, PhoneIsRecorded
<1>7. CASE UNCHANGED vars
  BY <1>0, <1>7 DEF vars, check, WatchInv, PhoneIsRecorded, SendInv, Waits, FailedKeys
<1> HIDE DEF Goal
<1> QED
  BY <1>1, <1>2, <1>3, <1>4, <1>5, <1>6, <1>7 DEF Next, Watch

(* The first check finds no file.                                           *)
LEMMA InitWatch == Init => WatchInv /\ Channel!Init
<1> SUFFICES ASSUME Init PROVE WatchInv /\ Channel!Init
  OBVIOUS
<1>1. TypeOK
  BY EmptyType DEF Init, TypeOK, EmptyState, WatchState
<1> QED
  BY <1>1 DEF Init, WatchInv, PhoneIsRecorded, EmptyState, Channel!Init, Channel!Unannounced,
              Unannounced

(* Whatever is lost or cut short, the watch stays within its types.         *)
THEOREM TypeCorrect == Spec => []TypeOK
<1>1. Init => TypeOK
  BY InitWatch DEF WatchInv
<1> QED
  BY <1>1, TypeStep, PTL DEF Spec

(* As long as no check was cut short, the file says exactly what the phone  *)
(* was told, whichever messages were not delivered.                         *)
THEOREM FileFollowsPhone == Spec => []PhoneIsRecorded
<1>1. Spec => []WatchInv
  BY InitWatch, WatchStep, PTL DEF Spec
<1>2. WatchInv => PhoneIsRecorded
  BY DEF WatchInv
<1> QED
  BY <1>1, <1>2, PTL

(* As long as no check was cut short, the messages are those of the         *)
(* channel: what the phone is told follows AlertChannel, step by step.      *)
THEOREM ChannelImplemented == Spec => ImplementsAlertChannel
<1>1. WatchInv /\ [Next]_vars => WatchInv' /\ [lapses' = 0 => Channel!Next]_phone
  BY WatchStep
<1> QED
  BY <1>1, InitWatch, PTL DEF Spec, ImplementsAlertChannel

(* With a cooldown, what stands at the end of a check was told less than a  *)
(* cooldown ago or could not be told.                                       *)
THEOREM StandingStaysFresh ==
  ASSUME Cooldown > 0
  PROVE  Spec => StandingIsFresh
<1>1. WatchInv /\ [Next]_vars
        => WatchInv' /\ [pc = "send" /\ pc' = "idle" /\ lapses' = 0 =>
                           \A k \in Keys \ FailedKeys :
                             next.active[k] # Unannounced => phone[k] \in 0..(Cooldown - 1)]_vars
  BY WatchStep
<1> QED
  BY <1>1, InitWatch, PTL DEF Spec, StandingIsFresh

------------------------------------------------------------------------------
(* Restarts.  What is sent adds up over the ages:                           *)
SentAddsUp ==
  \E f : AddsUp(f, signals, RestartAges) /\ \A ages \in SUBSET RestartAges : Sent(ages) = f[ages]

(* The ages that are told apart are finitely many, from 0 on.               *)
LEMMA RestartAgesAreFinite ==
  /\ IsFiniteSet(RestartAges) /\ Day - 1 \in Nat /\ RestartAges = 0..(Day - 1)
  /\ \A S \in SUBSET RestartAges : IsFiniteSet(S) /\ Cardinality(S) \in Nat
<1>1. Day - 1 \in Nat /\ RestartAges = 0..(Day - 1)
  BY WatchAssumption DEF RestartAges
<1>2. IsFiniteSet(RestartAges)
  BY <1>1, FS_Interval
<1> QED
  BY <1>1, <1>2, FS_Subset, FS_CardinalityType

(* The library's sum is such a function,                                    *)
LEMMA SentIsASum == signals \in [RestartAges -> Nat] => SentAddsUp
<1> SUFFICES ASSUME signals \in [RestartAges -> Nat] PROVE SentAddsUp
  OBVIOUS
<1>0. signals \in [RestartAges -> Int] /\ IsFiniteSet(RestartAges)
  BY RestartAgesAreFinite
<1>1. PICK f : AddsUp(f, signals, RestartAges)
  BY <1>0, SumExists
<1>2. ASSUME NEW ages \in SUBSET RestartAges PROVE Sent(ages) = f[ages]
  <2> DEFINE some(s) == CHOOSE x \in s : TRUE
             own     == [a \in ages |-> signals[a]]
             Sum(g)  == g = [s \in SUBSET ages |->
                               IF s = {} THEN 0 ELSE signals[some(s)] + g[s \ {some(s)}]]
  <2>1. Sent(ages) = (CHOOSE g : Sum(g))[ages]
    BY Zenon DEF Sent, MapThenSumSet, MapThenFoldSet
  <2>2. \A g : Sum(g) <=> AddsUp(g, own, ages)
    <3>1. \A s \in SUBSET ages : s # {} => own[some(s)] = signals[some(s)]
      OBVIOUS
    <3> HIDE DEF some, own
    <3>2. \A g : [s \in SUBSET ages |->
                    IF s = {} THEN 0 ELSE signals[some(s)] + g[s \ {some(s)}]]
               = [s \in SUBSET ages |->
                    IF s = {} THEN 0 ELSE own[some(s)] + g[s \ {some(s)}]]
      BY <3>1
    <3>3. \A g : Sum(g) <=> g = [s \in SUBSET ages |->
                    IF s = {} THEN 0 ELSE own[some(s)] + g[s \ {some(s)}]]
      BY <3>2
    <3> QED
      BY <3>3, Zenon DEF AddsUp, some
  <2>3. own \in [ages -> Int] /\ IsFiniteSet(ages) /\ \A a \in ages : own[a] = signals[a]
    BY <1>0, RestartAgesAreFinite
  <2> HIDE DEF own, Sum
  <2>4. \E g : Sum(g)
    <3>1. PICK g : AddsUp(g, own, ages)
      BY <2>3, SumExists
    <3> QED
      BY <2>2, <3>1
  <2>5. Sum(CHOOSE g : Sum(g))
    BY <2>4, Zenon
  <2>6. AddsUp(CHOOSE g : Sum(g), own, ages)
    BY <2>2, <2>5
  <2>7. ages \in SUBSET (ages \cap RestartAges)
    OBVIOUS
  <2>8. (CHOOSE g : Sum(g))[ages] = f[ages]
    BY <1>0, <1>1, <2>3, <2>6, <2>7, SumAgrees
  <2> QED
    BY <2>1, <2>8
<1> QED
  BY <1>1, <1>2 DEF SentAddsUp

(* age by age;                                                              *)
SentGrows ==
  /\ \A ages \in SUBSET RestartAges : Sent(ages) \in Nat
  /\ Sent({}) = 0
  /\ \A k \in RestartAges : Sent(0..k) = Sent(0..(k - 1)) + signals[k]

(* the sum of a window and the next age, the sum of the wider one,          *)
LEMMA SentByAge == signals \in [RestartAges -> Nat] => SentGrows
<1> SUFFICES ASSUME signals \in [RestartAges -> Nat] PROVE SentGrows
  OBVIOUS
<1>0. signals \in [RestartAges -> Int] /\ IsFiniteSet(RestartAges)
  BY RestartAgesAreFinite
<1>1. PICK f : AddsUp(f, signals, RestartAges) /\ \A ages \in SUBSET RestartAges : Sent(ages) = f[ages]
  BY SentIsASum DEF SentAddsUp
<1>2. f \in [SUBSET RestartAges -> Nat]
  BY <1>0, <1>1, SumType
<1>3. f[{}] = 0 /\ \A t \in SUBSET RestartAges : \A x \in t : f[t] = signals[x] + f[t \ {x}]
  BY <1>0, <1>1, SumRemoves
<1>4. ASSUME NEW k \in RestartAges PROVE Sent(0..k) = Sent(0..(k - 1)) + signals[k]
  <2>1. /\ 0..k \in SUBSET RestartAges /\ 0..(k - 1) \in SUBSET RestartAges /\ k \in 0..k
        /\ (0..k) \ {k} = 0..(k - 1)
    BY RestartAgesAreFinite
  <2>2. f[0..k] = signals[k] + f[0..(k - 1)]
    <3>1. f[0..k] = signals[k] + f[(0..k) \ {k}]
      BY <1>3, <2>1
    <3>2. f[(0..k) \ {k}] = f[0..(k - 1)]
      BY <2>1, Zenon
    <3> QED
      BY <3>1, <3>2
  <2>3. f[0..(k - 1)] \in Nat /\ signals[k] \in Nat
    BY <1>2, <2>1
  <2>4. Sent(0..k) = f[0..k] /\ Sent(0..(k - 1)) = f[0..(k - 1)]
    BY <1>1, <2>1, Zenon
  <2> QED
    BY <2>1, <2>2, <2>3, <2>4
<1>5. Sent({}) = 0 /\ \A ages \in SUBSET RestartAges : Sent(ages) \in Nat
  BY <1>1, <1>2, <1>3
<1> QED
  BY <1>4, <1>5 DEF SentGrows

(* and so does the number of restarts that are remembered.                  *)
LEMMA CountByAge ==
  ASSUME NEW R \in SUBSET RestartAges
  PROVE  /\ Cardinality(R \cap {}) = 0
         /\ \A k \in RestartAges :
              /\ Cardinality(R \cap 0..k) \in Nat /\ Cardinality(R \cap 0..(k - 1)) \in Nat
              /\ Cardinality(R \cap 0..k) = Cardinality(R \cap 0..(k - 1)) + (IF k \in R THEN 1 ELSE 0)
<1>1. Cardinality(R \cap {}) = 0
  BY FS_EmptySet
<1>2. ASSUME NEW k \in RestartAges
      PROVE  /\ Cardinality(R \cap 0..k) \in Nat /\ Cardinality(R \cap 0..(k - 1)) \in Nat
             /\ Cardinality(R \cap 0..k) = Cardinality(R \cap 0..(k - 1)) + (IF k \in R THEN 1 ELSE 0)
  <2>1. /\ IsFiniteSet(R \cap 0..(k - 1)) /\ Cardinality(R \cap 0..(k - 1)) \in Nat
        /\ Cardinality(R \cap 0..k) \in Nat
    BY RestartAgesAreFinite
  <2>2. k \notin R \cap 0..(k - 1)
    BY RestartAgesAreFinite
  <2>3. CASE k \in R
    <3>1. R \cap 0..k = (R \cap 0..(k - 1)) \cup {k}
      BY <2>3, RestartAgesAreFinite
    <3> QED
      BY <2>1, <2>2, <2>3, <3>1, FS_AddElement
  <2>4. CASE k \notin R
    <3>1. R \cap 0..k = R \cap 0..(k - 1)
      BY <2>4, RestartAgesAreFinite
    <3> QED
      BY <2>1, <2>4, <3>1
  <2> QED
    BY <2>1, <2>3, <2>4
<1> QED
  BY <1>1, <1>2

(* The restarts the watch knows of: a check knows of its own.               *)
Known == IF pc = "send" THEN next.restarts ELSE file.restarts

(* Of the youngest K + 1 ages: the watch knows of at most B restarts, in    *)
(* memory and in the file, and each lapse makes it forget at most B.        *)
Window(K, B) ==
  /\ Cardinality(Known \cap 0..K) <= B
  /\ Cardinality(file.restarts \cap 0..K) <= B
  /\ \A k \in 0..K : Sent(0..k) <= Cardinality(Known \cap 0..k) + B * lapses

(* A younger window knows of no more.                                       *)
LEMMA CountIsMonotone ==
  ASSUME NEW R \in SUBSET RestartAges, NEW K \in RestartAges, NEW k \in 0..K
  PROVE  Cardinality(R \cap 0..k) <= Cardinality(R \cap 0..K)
<1>1. R \cap 0..k \in SUBSET (R \cap 0..K)
  BY RestartAgesAreFinite
<1> QED
  BY <1>1, FS_Subset, RestartAgesAreFinite

(* Time moves every window by one age: what was sent,                       *)
LEMMA SentAges ==
  ASSUME TypeOK, TypeOK', Tick, NEW k \in RestartAges
  PROVE  Sent(0..k)' = Sent(0..(k - 1))
<1>1. SentGrows /\ (signals \in [RestartAges -> Nat] => SentGrows)'
  BY SentByAge, PTL DEF TypeOK
<1>2. /\ \A ages \in SUBSET RestartAges : Sent(ages) \in Nat /\ Sent(ages)' \in Nat
      /\ Sent({}) = 0 /\ Sent({})' = 0
      /\ \A a \in RestartAges : Sent(0..a) = Sent(0..(a - 1)) + signals[a]
                                /\ Sent(0..a)' = Sent(0..(a - 1))' + signals'[a]
  BY <1>1 DEF SentGrows, TypeOK
<1>3. \A a \in RestartAges : signals'[a] = IF a = 0 THEN 0 ELSE signals[a - 1]
  BY DEF Tick
<1>4. Day - 1 \in Nat /\ RestartAges = 0..(Day - 1)
  BY RestartAgesAreFinite
<1> DEFINE p == [a \in 0..(Day - 1) |-> Sent(0..a)']
           q == [a \in 0..(Day - 1) |-> Sent(0..(a - 1))]
<1>5. \A a \in 0..(Day - 1) : 0..a \in SUBSET RestartAges /\ 0..(a - 1) \in SUBSET RestartAges
  BY <1>4
<1>6. p \in [0..(Day - 1) -> Int] /\ q \in [0..(Day - 1) -> Int]
  BY <1>2, <1>5
<1>7. p[0] = q[0]
  <2>1. 0 \in RestartAges /\ 0..(0 - 1) = {}
    BY <1>4
  <2>2. Sent(0..0)' = Sent(0..(0 - 1))' + signals'[0] /\ signals'[0] = 0
    BY <1>2, <1>3, <2>1
  <2>3. Sent(0..0)' = 0 /\ Sent(0..(0 - 1)) = 0
    BY <1>2, <2>1, <2>2
  <2> QED
    BY <1>4, <2>1, <2>3
<1>8. ASSUME NEW a \in 1..(Day - 1) PROVE p[a] - p[a - 1] = q[a] - q[a - 1]
  <2>1. a \in RestartAges /\ a - 1 \in RestartAges /\ a # 0
    BY <1>4
  <2>2. /\ p[a] = Sent(0..a)' /\ p[a - 1] = Sent(0..(a - 1))'
        /\ q[a] = Sent(0..(a - 1)) /\ q[a - 1] = Sent(0..(a - 1 - 1))
    BY <1>4, <2>1
  <2>3. Sent(0..a)' = Sent(0..(a - 1))' + signals[a - 1]
    BY <1>2, <1>3, <2>1
  <2>4. Sent(0..(a - 1)) = Sent(0..(a - 1 - 1)) + signals[a - 1]
    BY <1>2, <2>1
  <2>5. Sent(0..(a - 1))' \in Nat /\ Sent(0..(a - 1 - 1)) \in Nat /\ signals[a - 1] \in Nat
    BY <1>2, <1>4, <1>5, <2>1 DEF TypeOK
  <2> HIDE DEF p, q
  <2> QED
    BY <2>2, <2>3, <2>4, <2>5
<1> HIDE DEF p, q
<1>9. \A a \in 0..(Day - 1) : p[a] = q[a]
  BY <1>4, <1>6, <1>7, <1>8, GrowAlike
<1> QED
  BY <1>4, <1>9 DEF p, q

(* and what is remembered.                                                  *)
LEMMA CountAges ==
  ASSUME NEW R \in SUBSET RestartAges, NEW k \in RestartAges
  PROVE  Cardinality(({a + 1 : a \in R} \cap RestartAges) \cap 0..k) = Cardinality(R \cap 0..(k - 1))
<1> DEFINE older == {a + 1 : a \in R} \cap RestartAges
           p == [a \in 0..(Day - 1) |-> Cardinality(older \cap 0..a)]
           q == [a \in 0..(Day - 1) |-> Cardinality(R \cap 0..(a - 1))]
<1>1. Day - 1 \in Nat /\ RestartAges = 0..(Day - 1)
  BY RestartAgesAreFinite
<1>2. 0 \notin older /\ \A a \in 1..(Day - 1) : a \in older <=> a - 1 \in R
  BY <1>1
<1>3. older \in SUBSET RestartAges
  OBVIOUS
<1> HIDE DEF older
<1>4. /\ Cardinality(older \cap {}) = 0 /\ Cardinality(R \cap {}) = 0
      /\ \A a \in RestartAges :
           /\ Cardinality(older \cap 0..a) \in Nat /\ Cardinality(older \cap 0..(a - 1)) \in Nat
           /\ Cardinality(R \cap 0..a) \in Nat /\ Cardinality(R \cap 0..(a - 1)) \in Nat
           /\ Cardinality(older \cap 0..a)
                = Cardinality(older \cap 0..(a - 1)) + (IF a \in older THEN 1 ELSE 0)
           /\ Cardinality(R \cap 0..a)
                = Cardinality(R \cap 0..(a - 1)) + (IF a \in R THEN 1 ELSE 0)
  BY <1>3, CountByAge
<1>5. p \in [0..(Day - 1) -> Int] /\ q \in [0..(Day - 1) -> Int]
  <2>1. \A a \in 0..(Day - 1) :
          Cardinality(older \cap 0..a) \in Int /\ Cardinality(R \cap 0..(a - 1)) \in Int
    <3> SUFFICES ASSUME NEW a \in 0..(Day - 1)
                 PROVE  /\ Cardinality(older \cap 0..a) \in Int
                        /\ Cardinality(R \cap 0..(a - 1)) \in Int
      OBVIOUS
    <3>1. a \in RestartAges
      BY <1>1
    <3>2. Cardinality(older \cap 0..a) \in Nat /\ Cardinality(R \cap 0..(a - 1)) \in Nat
      BY <1>4, <3>1, Zenon
    <3> QED
      BY <3>2
  <2> QED
    BY <2>1
<1>6. p[0] = q[0]
  <2>1. 0 \in RestartAges /\ 0..(0 - 1) = {}
    BY <1>1
  <2>2. Cardinality(older \cap 0..0) = Cardinality(older \cap 0..(0 - 1))
    BY <1>2, <1>4, <2>1
  <2>3. Cardinality(older \cap 0..0) = 0 /\ Cardinality(R \cap 0..(0 - 1)) = 0
    BY <1>4, <2>1, <2>2
  <2> QED
    BY <1>1, <2>1, <2>3
<1>7. ASSUME NEW a \in 1..(Day - 1) PROVE p[a] - p[a - 1] = q[a] - q[a - 1]
  <2>1. a \in RestartAges /\ a - 1 \in RestartAges
    BY <1>1
  <2>2. /\ p[a] = Cardinality(older \cap 0..a) /\ p[a - 1] = Cardinality(older \cap 0..(a - 1))
        /\ q[a] = Cardinality(R \cap 0..(a - 1)) /\ q[a - 1] = Cardinality(R \cap 0..(a - 1 - 1))
    BY <1>1, <2>1
  <2>3. Cardinality(older \cap 0..a)
          = Cardinality(older \cap 0..(a - 1)) + (IF a - 1 \in R THEN 1 ELSE 0)
    BY <1>2, <1>4, <2>1
  <2>4. Cardinality(R \cap 0..(a - 1))
          = Cardinality(R \cap 0..(a - 1 - 1)) + (IF a - 1 \in R THEN 1 ELSE 0)
    BY <1>4, <2>1
  <2>5. Cardinality(older \cap 0..(a - 1)) \in Nat /\ Cardinality(R \cap 0..(a - 1 - 1)) \in Nat
    BY <1>4, <2>1
  <2> HIDE DEF p, q
  <2> QED
    BY <2>2, <2>3, <2>4, <2>5
<1> HIDE DEF p, q
<1>8. \A a \in 0..(Day - 1) : p[a] = q[a]
  BY <1>1, <1>5, <1>6, <1>7, GrowAlike
<1> QED
  BY <1>1, <1>8 DEF p, q, older

(* Nothing was sent before the first check.                                 *)
LEMMA NothingIsSent ==
  ASSUME signals = [a \in RestartAges |-> 0], NEW k \in RestartAges
  PROVE  Sent(0..k) = 0
<1>1. SentGrows
  BY SentByAge
<1>2. Day - 1 \in Nat /\ RestartAges = 0..(Day - 1)
  BY RestartAgesAreFinite
<1> DEFINE p == [a \in 0..(Day - 1) |-> Sent(0..a)]
           q == [a \in 0..(Day - 1) |-> 0]
<1>3. \A a \in RestartAges : /\ 0..a \in SUBSET RestartAges
                             /\ Sent(0..a) \in Int /\ Sent(0..a) = Sent(0..(a - 1))
  <2> SUFFICES ASSUME NEW a \in RestartAges
               PROVE  /\ 0..a \in SUBSET RestartAges
                      /\ Sent(0..a) \in Int /\ Sent(0..a) = Sent(0..(a - 1))
    OBVIOUS
  <2>1. 0..a \in SUBSET RestartAges /\ 0..(a - 1) \in SUBSET RestartAges
    BY <1>2
  <2>2. Sent(0..a) \in Nat /\ Sent(0..(a - 1)) \in Nat
    BY <1>1, <2>1 DEF SentGrows
  <2>3. Sent(0..a) = Sent(0..(a - 1)) + signals[a] /\ signals[a] = 0
    BY <1>1 DEF SentGrows
  <2> QED
    BY <2>1, <2>2, <2>3
<1>4. p \in [0..(Day - 1) -> Int] /\ q \in [0..(Day - 1) -> Int]
  BY <1>2, <1>3
<1>5. p[0] = q[0]
  <2>1. 0 \in RestartAges /\ 0..(0 - 1) = {}
    BY <1>2
  <2>2. Sent(0..0) = Sent(0..(0 - 1)) /\ Sent({}) = 0
    BY <1>1, <1>3, <2>1 DEF SentGrows
  <2> QED
    BY <1>2, <2>1, <2>2
<1>6. ASSUME NEW a \in 1..(Day - 1) PROVE p[a] - p[a - 1] = q[a] - q[a - 1]
  <2>1. a \in RestartAges /\ a - 1 \in RestartAges
    BY <1>2
  <2>2. /\ p[a] = Sent(0..a) /\ p[a - 1] = Sent(0..(a - 1))
        /\ q[a] = 0 /\ q[a - 1] = 0
    BY <1>2, <2>1
  <2> HIDE DEF p, q
  <2> QED
    BY <1>3, <2>1, <2>2
<1> HIDE DEF p, q
<1>7. \A a \in 0..(Day - 1) : p[a] = q[a]
  BY <1>2, <1>4, <1>5, <1>6, GrowAlike
<1> QED
  BY <1>2, <1>7 DEF p, q

(* What is sent changes with the signals only, and by one with a restart.   *)
LEMMA SentMoves ==
  ASSUME TypeOK, TypeOK', NEW ages \in SUBSET RestartAges
  PROVE  /\ UNCHANGED signals => Sent(ages)' = Sent(ages)
         /\ 0 \in ages /\ signals' = [signals EXCEPT ![0] = @ + 1] => Sent(ages)' = Sent(ages) + 1
<1>1. SentAddsUp /\ (signals \in [RestartAges -> Nat] => SentAddsUp)'
  BY SentIsASum, PTL DEF TypeOK
<1>2. PICK f : AddsUp(f, signals, RestartAges) /\ Sent(ages) = f[ages]
  BY <1>1 DEF SentAddsUp
<1>3. PICK g : AddsUp(g, signals', RestartAges) /\ Sent(ages)' = g[ages]
  BY <1>1 DEF SentAddsUp, TypeOK
<1>4. /\ IsFiniteSet(RestartAges)
      /\ signals \in [RestartAges -> Int] /\ signals' \in [RestartAges -> Int]
  BY RestartAgesAreFinite DEF TypeOK
<1>5. \A t \in SUBSET RestartAges : (\A a \in t : signals[a] = signals'[a]) => f[t] = g[t]
  <2> SUFFICES ASSUME NEW t \in SUBSET RestartAges, \A a \in t : signals[a] = signals'[a]
               PROVE  f[t] = g[t]
    OBVIOUS
  <2>1. t \in SUBSET (RestartAges \cap RestartAges)
    OBVIOUS
  <2> QED
    BY <1>2, <1>3, <1>4, <2>1, SumAgrees
<1>6. CASE UNCHANGED signals
  <2>1. Sent(ages)' = Sent(ages)
    BY <1>2, <1>3, <1>5, <1>6
  <2>2. ~ (signals' = [signals EXCEPT ![0] = @ + 1]) \/ 0 \notin ages
    BY <1>4, <1>6
  <2> QED
    BY <2>1, <2>2
<1>7. ASSUME 0 \in ages, signals' = [signals EXCEPT ![0] = @ + 1]
      PROVE  Sent(ages)' = Sent(ages) + 1
  <2>1. f[ages] = signals[0] + f[ages \ {0}]
    BY <1>2, <1>4, <1>7, SumRemoves
  <2>2. g[ages] = signals'[0] + g[ages \ {0}]
    <3>1. PICK w : w = signals'
      OBVIOUS
    <3>2. AddsUp(g, w, RestartAges) /\ w \in [RestartAges -> Int]
      BY <1>3, <1>4, <3>1
    <3>0. IsFiniteSet(RestartAges)
      BY RestartAgesAreFinite
    <3>3. g[{}] = 0 /\ \A t \in SUBSET RestartAges : \A x \in t : g[t] = w[x] + g[t \ {x}]
      BY <3>0, <3>2, SumRemoves
    <3> QED
      BY <1>7, <3>1, <3>3
  <2>3. f[ages \ {0}] = g[ages \ {0}]
    BY <1>4, <1>5, <1>7
  <2>4. signals'[0] = signals[0] + 1 /\ signals[0] \in Int
    BY <1>4, <1>7
  <2>5. f[ages \ {0}] \in Int
    <3>1. f \in [SUBSET RestartAges -> Int]
      BY <1>2, <1>4, SumType
    <3> QED
      BY <3>1
  <2> QED
    BY <1>2, <1>3, <2>1, <2>2, <2>3, <2>4, <2>5
<1> QED
  BY <1>6, <1>7

(* What the watch knows of is restarts of the last day.                     *)
LEMMA KnownType == TypeOK => Known \in SUBSET RestartAges /\ file.restarts \in SUBSET RestartAges
  BY DEF TypeOK, WatchState, Known

(* A step keeps a window that leaves room for a restart whenever the watch  *)
(* decides for one.                                                         *)
LEMMA WindowStep ==
  ASSUME NEW K \in RestartAges, NEW B \in Nat, TypeOK, Window(K, B), [Next]_vars,
         \A R \in SUBSET RestartAges : Decision(R) = "restart" => Cardinality(R \cap 0..K) < B
  PROVE  Window(K, B)'
<1>0. TypeOK'
  BY TypeStep
<1>known. /\ Known \in SUBSET RestartAges /\ file.restarts \in SUBSET RestartAges
          /\ Known' \in SUBSET RestartAges /\ file'.restarts \in SUBSET RestartAges
  <2>1. (TypeOK => Known \in SUBSET RestartAges /\ file.restarts \in SUBSET RestartAges)'
    BY KnownType, PTL
  <2> QED
    BY <1>0, <2>1, KnownType
<1>young. \A k \in 0..K : k \in RestartAges /\ 0..k \in SUBSET RestartAges
  BY RestartAgesAreFinite
<1>count. \A R \in SUBSET RestartAges : \A k \in 0..K :
            /\ Cardinality(R \cap 0..k) \in Nat /\ Cardinality(R \cap 0..K) \in Nat
            /\ Cardinality(R \cap 0..k) <= Cardinality(R \cap 0..K)
  BY RestartAgesAreFinite, CountIsMonotone
<1>sent. \A k \in 0..K : Sent(0..k) \in Nat /\ Sent(0..k)' \in Nat
  <2>1. SentGrows /\ (signals \in [RestartAges -> Nat] => SentGrows)'
    BY SentByAge, PTL DEF TypeOK
  <2> QED
    BY <1>0, <1>young, <2>1 DEF SentGrows, TypeOK
<1>lost. PICK L \in Nat : L = B * lapses
  BY DEF TypeOK
<1>lost2. PICK M \in Nat : M = B * lapses'
  <2>1. PICK l \in Nat : l = lapses'
    BY <1>0 DEF TypeOK
  <2>2. B * l \in Nat
    OBVIOUS
  <2> QED
    BY <2>1, <2>2
<1>lost3. (UNCHANGED lapses => M = L) /\ (lapses' = lapses + 1 => M = L + B)
  <2>1. lapses' = lapses + 1 => B * lapses' = B * lapses + B
    BY DEF TypeOK
  <2> QED
    BY <1>lost, <1>lost2, <2>1
<1>win. /\ Cardinality(Known \cap 0..K) <= B /\ Cardinality(file.restarts \cap 0..K) <= B
        /\ \A k \in 0..K : Sent(0..k) <= Cardinality(Known \cap 0..k) + L
  BY <1>lost, Zenon DEF Window
<1> DEFINE Keeps == /\ Cardinality(Known' \cap 0..K) <= B
                    /\ Cardinality(file'.restarts \cap 0..K) <= B
                    /\ \A k \in 0..K : Sent(0..k)' <= Cardinality(Known' \cap 0..k) + M
<1> SUFFICES Keeps
  BY <1>lost2, Zenon DEF Window
<1>kept. ASSUME UNCHANGED <<signals, lapses>>, Known' = Known,
                file'.restarts = file.restarts \/ file'.restarts = Known
         PROVE  Keeps
  <2>1. \A k \in 0..K : Sent(0..k)' = Sent(0..k)
    BY <1>0, <1>young, <1>kept, SentMoves
  <2> QED
    BY <1>win, <1>lost3, <1>kept, <2>1
<1>forgot. ASSUME UNCHANGED signals, lapses' = lapses + 1, UNCHANGED file,
                  Known' = file.restarts \/ Known' = {}
           PROVE  Keeps
  <2>1. \A k \in 0..K : Sent(0..k)' = Sent(0..k)
    BY <1>0, <1>young, <1>forgot, SentMoves
  <2>2. Cardinality(Known' \cap 0..K) <= B
    <3>1. Cardinality({} \cap 0..K) <= B
      <4>1. Cardinality({} \cap 0..K) = 0
        BY FS_EmptySet
      <4> QED
        BY <4>1
    <3> QED
      BY <1>win, <1>forgot, <3>1, Zenon
  <2>3. \A k \in 0..K : Sent(0..k)' <= Cardinality(Known' \cap 0..k) + M
    <3> SUFFICES ASSUME NEW k \in 0..K
                 PROVE  Sent(0..k)' <= Cardinality(Known' \cap 0..k) + M
      OBVIOUS
    <3>1. Cardinality(Known \cap 0..k) <= B /\ Cardinality(Known' \cap 0..k) \in Nat
      <4>1. /\ Cardinality(Known \cap 0..k) \in Nat /\ Cardinality(Known \cap 0..K) \in Nat
            /\ Cardinality(Known \cap 0..k) <= Cardinality(Known \cap 0..K)
            /\ Cardinality(Known' \cap 0..k) \in Nat
        BY <1>known, <1>count
      <4> QED
        BY <1>win, <4>1
    <3>2. Sent(0..k) <= Cardinality(Known \cap 0..k) + L /\ M = L + B
      BY <1>win, <1>lost3, <1>forgot
    <3>3. Sent(0..k) \in Nat /\ Sent(0..k)' = Sent(0..k) /\ Cardinality(Known \cap 0..k) \in Nat
      BY <1>known, <1>count, <1>sent, <2>1
    <3> QED
      BY <3>1, <3>2, <3>3
  <2> QED
    BY <1>win, <1>forgot, <2>2, <2>3
<1>1. CASE Tick
  <2>1. /\ pc = "idle" /\ pc' = "idle" /\ UNCHANGED lapses
        /\ file'.restarts = {a + 1 : a \in file.restarts} \cap RestartAges
    BY <1>1 DEF Tick, OlderState
  <2>2. Known = file.restarts /\ Known' = file'.restarts
    BY <2>1 DEF Known
  <2>3. \A k \in 0..K : Cardinality(Known' \cap 0..k) = Cardinality(Known \cap 0..(k - 1))
    BY <1>known, <1>young, <2>1, <2>2, CountAges
  <2>4. \A k \in 0..K : Sent(0..k)' = Sent(0..(k - 1))
    BY <1>0, <1>1, <1>young, SentAges
  <2>5. Sent({}) = 0 /\ Cardinality(Known \cap {}) = 0
    BY SentByAge, FS_EmptySet DEF SentGrows, TypeOK
  <2>6. ASSUME NEW k \in 0..K
        PROVE  Sent(0..k)' <= Cardinality(Known' \cap 0..k) + M /\ Cardinality(Known' \cap 0..k) <= B
    <3>1. CASE k = 0
      <4>1. 0..(k - 1) = {}
        BY <3>1
      <4>2. Sent(0..k)' = 0 /\ Cardinality(Known' \cap 0..k) = 0
        BY <2>3, <2>4, <2>5, <4>1
      <4> QED
        BY <4>2
    <3>2. CASE k # 0
      <4>1. k - 1 \in 0..K
        BY <3>2, RestartAgesAreFinite
      <4>2. /\ Cardinality(Known \cap 0..(k - 1)) \in Nat /\ Cardinality(Known \cap 0..K) \in Nat
            /\ Cardinality(Known \cap 0..(k - 1)) <= Cardinality(Known \cap 0..K)
        BY <1>known, <1>count, <4>1
      <4>3. Sent(0..(k - 1)) <= Cardinality(Known \cap 0..(k - 1)) + L /\ M = L
        BY <1>win, <1>lost3, <2>1, <4>1
      <4>4. /\ Sent(0..k)' = Sent(0..(k - 1))
            /\ Cardinality(Known' \cap 0..k) = Cardinality(Known \cap 0..(k - 1))
        BY <2>3, <2>4
      <4> QED
        BY <1>win, <4>2, <4>3, <4>4
    <3> QED
      BY <3>1, <3>2
  <2>7. K \in 0..K
    BY RestartAgesAreFinite
  <2> QED
    BY <2>2, <2>6, <2>7
<1>2. ASSUME NEW k \in Base \cup Others, NEW c \in {"ok", "stale", "overdue"}, Change(k, c)
      PROVE  Keeps
  <2>1. UNCHANGED <<signals, lapses, file, pc, next>>
    BY <1>2 DEF Change, check
  <2> QED
    BY <1>kept, <2>1 DEF Known
<1>load. ASSUME NEW s \in {file, EmptyState}, pc = "idle", pc' = "send", Loaded(s)
         PROVE  /\ s \in WatchState /\ s.restarts \in SUBSET RestartAges /\ Known = file.restarts
                /\ Known' = next'.restarts
                /\ \/ s = file /\ UNCHANGED lapses
                   \/ s.restarts = {} /\ lapses' = lapses + 1
  BY <1>load, EmptyType DEF Loaded, Known, TypeOK, EmptyState, WatchState
<1>3. ASSUME NEW s \in {file, EmptyState}, CheckQuietly(s) \/ CheckHelpless(s) PROVE Keeps
  <2>1. pc = "idle" /\ pc' = "send" /\ Loaded(s) /\ UNCHANGED <<file, signals>>
    BY <1>3 DEF CheckQuietly, CheckHelpless, Reconcile
  <2>2. next'.restarts = s.restarts
    <3>1. PICK f : next' = [s EXCEPT !.active = f]
      BY <1>3 DEF CheckQuietly, CheckHelpless, Reconcile
    <3> QED
      BY <1>load, <2>1, <3>1 DEF WatchState
  <2>3. CASE s = file /\ UNCHANGED lapses
    BY <1>kept, <1>load, <2>1, <2>2, <2>3
  <2>4. CASE s.restarts = {} /\ lapses' = lapses + 1
    BY <1>forgot, <1>load, <2>1, <2>2, <2>4
  <2> QED
    BY <1>load, <2>1, <2>3, <2>4
<1>4. ASSUME NEW s \in {file, EmptyState}, CheckRestarts(s) PROVE Keeps
  <2>1. /\ pc = "idle" /\ pc' = "send" /\ Loaded(s) /\ UNCHANGED file
        /\ signals' = [signals EXCEPT ![0] = @ + 1] /\ Decision(s.restarts) = "restart"
    BY <1>4 DEF CheckRestarts, Reconcile
  <2>2. Known' = s.restarts \cup {0} /\ s.restarts \in SUBSET RestartAges
    BY <1>4, <1>load, <2>1 DEF CheckRestarts, Reconcile, WatchState
  <2>3. 0 \notin s.restarts
    BY <2>1, WatchAssumption DEF Decision
  <2>4. Cardinality(s.restarts \cap 0..K) < B
    BY <2>1, <2>2
  <2>5. ASSUME NEW k \in 0..K
        PROVE  Cardinality(Known' \cap 0..k) = Cardinality(s.restarts \cap 0..k) + 1
    <3>1. 0 \in 0..k /\ Known' \cap 0..k = (s.restarts \cap 0..k) \cup {0}
      BY <2>2, RestartAgesAreFinite
    <3>2. IsFiniteSet(s.restarts \cap 0..k) /\ 0 \notin s.restarts \cap 0..k
      BY <2>2, <2>3, RestartAgesAreFinite
    <3> QED
      BY <3>1, <3>2, FS_AddElement
  <2>6. ASSUME NEW k \in 0..K
        PROVE  Sent(0..k)' = Sent(0..k) + 1
    <3>1. 0 \in 0..k
      BY RestartAgesAreFinite
    <3> QED
      BY <1>0, <1>young, <2>1, <3>1, SentMoves
  <2>7. Cardinality(Known' \cap 0..K) <= B
    <3>1. K \in 0..K
      BY RestartAgesAreFinite
    <3>2. Cardinality(s.restarts \cap 0..K) \in Nat
      BY <1>count, <2>2, <3>1
    <3> QED
      BY <2>4, <2>5, <3>1, <3>2
  <2>8. ASSUME NEW k \in 0..K
        PROVE  Sent(0..k)' <= Cardinality(Known' \cap 0..k) + M
    <3>1. Sent(0..k) <= Cardinality(Known \cap 0..k) + L /\ Sent(0..k) \in Nat
      BY <1>win, <1>sent
    <3>2. /\ Cardinality(Known \cap 0..k) \in Nat /\ Cardinality(Known \cap 0..K) \in Nat
          /\ Cardinality(Known \cap 0..k) <= Cardinality(Known \cap 0..K)
          /\ Cardinality(s.restarts \cap 0..k) \in Nat
      BY <1>known, <1>count, <2>2
    <3>3. CASE s = file /\ UNCHANGED lapses
      <4>1. Cardinality(s.restarts \cap 0..k) = Cardinality(Known \cap 0..k) /\ M = L
        BY <1>load, <1>lost3, <2>1, <3>3
      <4> QED
        BY <2>5, <2>6, <3>1, <3>2, <4>1
    <3>4. CASE s.restarts = {} /\ lapses' = lapses + 1
      <4>1. M = L + B
        BY <1>lost3, <3>4
      <4> QED
        BY <1>win, <2>5, <2>6, <3>1, <3>2, <4>1
    <3> QED
      BY <1>load, <2>1, <3>3, <3>4
  <2> QED
    BY <1>win, <2>1, <2>7, <2>8
<1>5. ASSUME NEW m \in todo, NEW ok \in BOOLEAN, Notify(m, ok) PROVE Keeps
  <2>1. UNCHANGED <<signals, lapses, file, pc, next>>
    BY <1>5 DEF Notify
  <2> QED
    BY <1>kept, <2>1 DEF Known
<1>6. CASE Save
  <2>1. pc = "send" /\ pc' = "idle" /\ file' = Delivered /\ UNCHANGED <<signals, lapses>>
    BY <1>6 DEF Save
  <2>2. Delivered.restarts = next.restarts
    BY DEF Delivered, TypeOK, WatchState
  <2>3. Known' = Known /\ file'.restarts = Known
    BY <2>1, <2>2 DEF Known
  <2> QED
    BY <1>kept, <2>1, <2>3
<1>7. CASE Crash
  <2>1. lapses' = lapses + 1 /\ pc' = "idle" /\ UNCHANGED <<file, signals>>
    BY <1>7 DEF Crash
  <2> QED
    BY <1>forgot, <2>1 DEF Known
<1>8. CASE UNCHANGED vars
  <2>1. UNCHANGED <<signals, lapses, file, pc, next>>
    BY <1>8 DEF vars, check
  <2> QED
    BY <1>kept, <2>1 DEF Known
<1> HIDE DEF Keeps
<1> QED
  BY <1>1, <1>2, <1>3, <1>4, <1>5, <1>6, <1>7, <1>8 DEF Next, Watch

(* The window of a day leaves room below the cap, that of the cooldown is   *)
(* empty when the watch decides for a restart.                              *)
LEMMA DecisionLeavesRoom ==
  ASSUME NEW R \in SUBSET RestartAges, Decision(R) = "restart"
  PROVE  /\ Cardinality(R \cap 0..(Day - 1)) < MaxPerDay
         /\ Cardinality(R \cap 0..(RestartCooldown - 1)) < 1
<1>1. Cardinality(R) < MaxPerDay /\ \A a \in R : ~ (a < RestartCooldown)
  BY RestartAgesAreFinite, WatchAssumption DEF Decision
<1>2. R \cap 0..(Day - 1) = R
  BY RestartAgesAreFinite
<1>3. R \cap 0..(RestartCooldown - 1) = {}
  <2>1. RestartCooldown \in Nat /\ \A a \in R : a \in Nat
    BY RestartAgesAreFinite, WatchAssumption
  <2> QED
    BY <1>1, <2>1
<1> QED
  BY <1>1, <1>2, <1>3, FS_EmptySet

(* Both windows, at the start and after every step.                         *)
WindowInv == TypeOK /\ Window(Day - 1, MaxPerDay) /\ Window(RestartCooldown - 1, 1)

(* The first check knows of no restart, and none was sent.                  *)
LEMMA InitWindow == Init => WindowInv
<1> SUFFICES ASSUME Init PROVE WindowInv
  OBVIOUS
<1>1. TypeOK
  BY InitWatch DEF WatchInv
<1>2. /\ signals = [a \in RestartAges |-> 0] /\ lapses = 0
      /\ file.restarts = {} /\ Known = {}
  BY DEF Init, Known, EmptyState
<1>3. ASSUME NEW K \in RestartAges, NEW B \in Nat PROVE Window(K, B)
  <2>1. \A S : Cardinality({} \cap S) = 0
    BY FS_EmptySet
  <2>2. \A k \in 0..K : Sent(0..k) = 0
    BY <1>2, NothingIsSent, RestartAgesAreFinite
  <2>3. B * 0 = 0
    OBVIOUS
  <2> QED
    BY <1>2, <2>1, <2>2, <2>3 DEF Window
<1> QED
  BY <1>1, <1>3, RestartAgesAreFinite, WatchAssumption DEF WindowInv

(* Restarts are capped per day and spaced by the cooldown, for every cap,   *)
(* every cooldown and whatever is lost: what exceeds either is what the     *)
(* watch was made to forget (decide_collector_restart).                     *)
THEOREM RestartsStayCapped == Spec => []RestartsAreCapped
<1>0. /\ Day - 1 \in RestartAges /\ RestartCooldown - 1 \in RestartAges
      /\ MaxPerDay \in Nat /\ 1 \in Nat
  BY RestartAgesAreFinite, WatchAssumption
<1>1. WindowInv /\ [Next]_vars => WindowInv'
  <2> SUFFICES ASSUME WindowInv, [Next]_vars PROVE WindowInv'
    OBVIOUS
  <2>1. TypeOK /\ TypeOK'
    BY TypeStep DEF WindowInv
  <2>2. Window(Day - 1, MaxPerDay)'
    BY <1>0, <2>1, DecisionLeavesRoom, WindowStep DEF WindowInv
  <2>3. Window(RestartCooldown - 1, 1)'
    BY <1>0, <2>1, DecisionLeavesRoom, WindowStep DEF WindowInv
  <2> QED
    BY <2>1, <2>2, <2>3 DEF WindowInv
<1>2. WindowInv => RestartsAreCapped
  <2> SUFFICES ASSUME WindowInv PROVE RestartsAreCapped
    OBVIOUS
  <2>0. SentGrows /\ lapses \in Nat /\ Known \in SUBSET RestartAges
    BY SentByAge, KnownType DEF WindowInv, TypeOK
  <2>1. ASSUME NEW K \in RestartAges, NEW B \in Nat, Window(K, B)
        PROVE  Sent(0..K) <= B + B * lapses
    <3>1. PICK L \in Nat : L = B * lapses
      BY <2>0
    <3>2. /\ Cardinality(Known \cap 0..K) <= B /\ Cardinality(Known \cap 0..K) \in Nat
          /\ Sent(0..K) <= Cardinality(Known \cap 0..K) + L
      BY <2>0, <2>1, <3>1, RestartAgesAreFinite DEF Window
    <3>3. Sent(0..K) \in Nat
      BY <2>0, RestartAgesAreFinite DEF SentGrows
    <3> QED
      BY <3>1, <3>2, <3>3
  <2>2. /\ MaxPerDay + MaxPerDay * lapses = MaxPerDay * (1 + lapses)
        /\ 1 + 1 * lapses = 1 + lapses
    BY <1>0, <2>0
  <2>3. RestartAges = 0..(Day - 1)
    BY RestartAgesAreFinite
  <2>4. Sent(RestartAges) <= MaxPerDay * (1 + lapses)
    BY <1>0, <2>1, <2>2, <2>3 DEF WindowInv
  <2>5. Sent(0..(RestartCooldown - 1)) <= 1 + lapses
    BY <1>0, <2>1, <2>2 DEF WindowInv
  <2> QED
    BY <2>4, <2>5 DEF RestartsAreCapped
<1> QED
  BY <1>1, <1>2, InitWindow, PTL DEF Spec

------------------------------------------------------------------------------
(* An outage is answered.  Every restart that is remembered was sent; a     *)
(* check that is sending, of an outage, has restarted the collector within  *)
(* the cooldown or has the alert that it could not.                         *)
Remembered == \A a \in Known \cup file.restarts : signals[a] > 0
Answered   == \/ \E a \in 0..(RestartCooldown - 1) : signals[a] > 0
              \/ next.active[RestartKey] # Unannounced
OutageInv  == TypeOK /\ Remembered /\ (pc = "send" /\ lapses = 0 /\ Overdue => Answered)

(* What was sent of an age is in the sum of every window over it.           *)
LEMMA SentWithin ==
  ASSUME TypeOK, NEW a \in 0..(RestartCooldown - 1), signals[a] > 0
  PROVE  Sent(0..(RestartCooldown - 1)) > 0
<1> DEFINE ages == 0..(RestartCooldown - 1)
<1>1. /\ signals \in [RestartAges -> Nat] /\ signals \in [RestartAges -> Int]
      /\ ages \in SUBSET RestartAges /\ IsFiniteSet(RestartAges)
  BY WatchAssumption, RestartAgesAreFinite DEF TypeOK
<1>2. PICK f : AddsUp(f, signals, RestartAges) /\ Sent(ages) = f[ages]
  BY <1>1, SentIsASum DEF SentAddsUp
<1>3. f[{}] = 0 /\ \A t \in SUBSET RestartAges : \A x \in t : f[t] = signals[x] + f[t \ {x}]
  BY <1>1, <1>2, SumRemoves
<1>4. f \in [SUBSET RestartAges -> Nat]
  BY <1>1, <1>2, SumType, RestartAgesAreFinite
<1> HIDE DEF ages
<1>5. a \in ages /\ signals[a] > 0
  BY DEF ages
<1>6. f[ages] = signals[a] + f[ages \ {a}] /\ f[ages \ {a}] \in Nat /\ signals[a] \in Nat
  BY <1>1, <1>3, <1>4, <1>5
<1>7. Sent(ages) > 0
  BY <1>2, <1>5, <1>6
<1> QED
  BY <1>7 DEF ages

(* A step keeps both.                                                       *)
LEMMA OutageStep == OutageInv /\ [Next]_vars => OutageInv'
<1> SUFFICES ASSUME OutageInv, [Next]_vars PROVE OutageInv'
  OBVIOUS
<1>0. TypeOK /\ TypeOK' /\ Remembered
  BY TypeStep DEF OutageInv
<1>known. /\ Known \in SUBSET RestartAges /\ file.restarts \in SUBSET RestartAges
          /\ signals \in [RestartAges -> Nat]
  BY <1>0, KnownType DEF TypeOK
<1>1. CASE Tick
  <2>1. /\ pc = "idle" /\ pc' = "idle" /\ Known = file.restarts /\ Known' = file'.restarts
        /\ file'.restarts = {a + 1 : a \in file.restarts} \cap RestartAges
        /\ signals' = [a \in RestartAges |-> IF a = 0 THEN 0 ELSE signals[a - 1]]
    BY <1>1 DEF Tick, OlderState, Known
  <2>2. ASSUME NEW a \in file'.restarts PROVE signals'[a] > 0
    <3>1. a \in RestartAges /\ \E b \in file.restarts : a = b + 1
      BY <2>1, <2>2
    <3>2. a # 0 /\ a - 1 \in file.restarts
      BY <1>known, <3>1, RestartAgesAreFinite
    <3> QED
      BY <1>0, <2>1, <3>1, <3>2 DEF Remembered
  <2> QED
    BY <1>0, <2>1, <2>2 DEF OutageInv, Remembered
<1>2. ASSUME NEW k \in Base \cup Others, NEW c \in {"ok", "stale", "overdue"}, Change(k, c)
      PROVE  OutageInv'
  BY <1>0, <1>2 DEF Change, check, OutageInv, Remembered, Known
<1>load. ASSUME NEW s \in {file, EmptyState}
         PROVE  /\ s \in WatchState
                /\ \A a \in s.restarts : signals[a] > 0
  <2>1. EmptyState.restarts = {} /\ EmptyState \in WatchState
    BY EmptyType DEF EmptyState
  <2>2. file \in WatchState /\ \A a \in file.restarts : signals[a] > 0
    BY <1>0 DEF TypeOK, Remembered
  <2>3. CASE s = file
    BY <2>2, <2>3
  <2>4. CASE s = EmptyState
    BY <2>1, <2>4
  <2> QED
    BY <2>3, <2>4
<1>3. ASSUME NEW s \in {file, EmptyState}, CheckQuietly(s) PROVE OutageInv'
  <2>1. /\ pc = "idle" /\ pc' = "send" /\ Loaded(s) /\ UNCHANGED <<file, signals, condition>>
        /\ Overdue => Decision(s.restarts) = "cooldown"
    BY <1>3 DEF CheckQuietly, Reconcile
  <2>2. Known' = s.restarts
    <3>1. PICK f : next' = [s EXCEPT !.active = f]
      BY <1>3 DEF CheckQuietly, Reconcile
    <3> QED
      BY <1>load, <2>1, <3>1 DEF WatchState, Known
  <2>3. Remembered'
    BY <1>0, <1>load, <2>1, <2>2 DEF Remembered
  <2>4. ASSUME Overdue' PROVE Answered'
    <3>1. Overdue
      BY <2>1, <2>4 DEF Overdue
    <3>2. \E a \in s.restarts : a < RestartCooldown
      BY <2>1, <3>1 DEF Decision
    <3>3. PICK a \in s.restarts : a < RestartCooldown
      BY <3>2
    <3>4. a \in 0..(RestartCooldown - 1) /\ signals'[a] > 0
      BY <1>load, <2>1, <3>3, RestartAgesAreFinite, WatchAssumption DEF WatchState
    <3> QED
      BY <3>4 DEF Answered
  <2> QED
    BY <1>0, <2>3, <2>4 DEF OutageInv
<1>4. ASSUME NEW s \in {file, EmptyState}, CheckHelpless(s) PROVE OutageInv'
  <2>1. /\ pc = "idle" /\ pc' = "send" /\ Loaded(s) /\ UNCHANGED <<file, signals>>
    BY <1>4 DEF CheckHelpless, Reconcile
  <2> DEFINE f == [k \in Keys |-> IF k \notin Alarms \cup {RestartKey} THEN Unannounced
                                  ELSE IF Due(s.active[k]) THEN 0 ELSE s.active[k]]
  <2>2. next' = [s EXCEPT !.active = f]
    BY <1>4 DEF CheckHelpless, Reconcile
  <2>3. Known' = s.restarts /\ next'.active = f
    <3> HIDE DEF f
    <3> QED
      BY <1>load, <2>1, <2>2 DEF WatchState, Known
  <2>4. f[RestartKey] # Unannounced
    BY DEF Keys, Due, Unannounced
  <2> QED
    BY <1>0, <1>load, <2>1, <2>3, <2>4 DEF OutageInv, Remembered, Answered
<1>5. ASSUME NEW s \in {file, EmptyState}, CheckRestarts(s) PROVE OutageInv'
  <2>1. /\ pc = "idle" /\ pc' = "send" /\ Loaded(s) /\ UNCHANGED file
        /\ signals' = [signals EXCEPT ![0] = @ + 1]
    BY <1>5 DEF CheckRestarts, Reconcile
  <2>2. Known' = s.restarts \cup {0}
    BY <1>5, <1>load, <2>1 DEF CheckRestarts, Reconcile, WatchState, Known
  <2>3. 0 \in RestartAges /\ 0 \in 0..(RestartCooldown - 1)
    BY WatchAssumption DEF RestartAges
  <2>4. signals'[0] > 0 /\ \A a \in RestartAges : signals[a] > 0 => signals'[a] > 0
    BY <1>known, <2>1, <2>3
  <2>5. \A a \in s.restarts \cup file.restarts : a \in RestartAges /\ signals[a] > 0
    BY <1>0, <1>known, <1>load, <2>1 DEF WatchState, Remembered
  <2>6. Remembered' /\ Answered'
    BY <2>1, <2>2, <2>3, <2>4, <2>5 DEF Remembered, Answered
  <2> QED
    BY <1>0, <2>6 DEF OutageInv
<1>6. ASSUME NEW m \in todo, NEW ok \in BOOLEAN, Notify(m, ok) PROVE OutageInv'
  BY <1>0, <1>6 DEF Notify, OutageInv, Remembered, Known, Answered, Overdue
<1>7. CASE Save
  <2>1. pc = "send" /\ pc' = "idle" /\ file' = Delivered /\ UNCHANGED signals
    BY <1>7 DEF Save
  <2>2. Delivered.restarts = next.restarts
    BY <1>0 DEF Delivered, TypeOK, WatchState
  <2> QED
    BY <1>0, <2>1, <2>2 DEF OutageInv, Remembered, Known
<1>8. CASE Crash
  BY <1>0, <1>8 DEF Crash, OutageInv, Remembered, Known
<1>9. CASE UNCHANGED vars
  BY <1>0, <1>9 DEF vars, check, OutageInv, Remembered, Known, Answered, Overdue
<1> QED
  BY <1>1, <1>2, <1>3, <1>4, <1>5, <1>6, <1>7, <1>8, <1>9 DEF Next, Watch

(* With an alert cooldown, a check that ends during an outage leaves the    *)
(* collector restarted within the restart cooldown, or a human told less    *)
(* than an alert cooldown ago or beyond reach (_collector_backstop).        *)
THEOREM OutageStaysAnswered ==
  ASSUME Cooldown > 0
  PROVE  Spec => OutageIsAnswered
<1>1. Init => WatchInv /\ OutageInv
  <2> SUFFICES ASSUME Init PROVE WatchInv /\ OutageInv
    OBVIOUS
  <2>1. WatchInv
    BY InitWatch
  <2> QED
    BY <2>1 DEF Init, WatchInv, OutageInv, Remembered, Known, EmptyState
<1>2. WatchInv /\ OutageInv /\ [Next]_vars
        => /\ WatchInv' /\ OutageInv'
           /\ [pc = "send" /\ pc' = "idle" /\ lapses' = 0 /\ Overdue =>
                 \/ Sent(0..(RestartCooldown - 1)) > 0
                 \/ phone[RestartKey] \in 0..(Cooldown - 1) \/ RestartKey \in FailedKeys]_vars
  <2> SUFFICES ASSUME WatchInv, OutageInv, [Next]_vars
               PROVE  pc = "send" /\ pc' = "idle" /\ lapses' = 0 /\ Overdue =>
                        \/ Sent(0..(RestartCooldown - 1)) > 0
                        \/ phone[RestartKey] \in 0..(Cooldown - 1) \/ RestartKey \in FailedKeys
    BY WatchStep, OutageStep
  <2> SUFFICES ASSUME pc = "send", pc' = "idle", lapses' = 0, Overdue, RestartKey \notin FailedKeys
               PROVE  \/ Sent(0..(RestartCooldown - 1)) > 0
                      \/ phone[RestartKey] \in 0..(Cooldown - 1)
    OBVIOUS
  <2>1. \A k \in Keys \ FailedKeys :
          next.active[k] # Unannounced => phone[k] \in 0..(Cooldown - 1)
    BY WatchStep
  <2>2. lapses = 0
    BY DEF WatchInv, TypeOK, Next, Watch, Tick, Change, CheckQuietly, CheckHelpless,
           CheckRestarts, Reconcile, Notify, Save, Crash, vars
  <2>3. Answered /\ TypeOK
    BY <2>2 DEF OutageInv
  <2> QED
    BY <2>1, <2>3, SentWithin DEF Answered, Keys
<1> QED
  BY <1>1, <1>2, PTL DEF Spec, OutageIsAnswered
==============================================================================
