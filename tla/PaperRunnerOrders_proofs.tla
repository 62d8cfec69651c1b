---------------------- MODULE PaperRunnerOrders_proofs ----------------------
(***************************************************************************)
(* What becomes of the resting orders of one cell, and what a clean stop   *)
(* leaves behind, for every value of PaperRunner's constants.              *)
(*                                                                         *)
(* Four inductive invariants, each resting on the ones before it:          *)
(*   MarketInv  the world moves forward: no bar's end is seen before it is *)
(*              fed, nothing is recorded of a minute that is not there;    *)
(*   TrackInv   a pending row of the journal is an order in memory, in a   *)
(*              list a loop is walking, or in the saved state, whatever    *)
(*              write raises and whenever the process dies;                *)
(*   ClockInv   the age of an order is the number of bars since its arming *)
(*              bar, in memory and in what is saved, when no write raises; *)
(*   OrdersInv  all of these with FaultlessInv, from which the deadline,   *)
(*              expiry, restart and clean-stop properties follow.          *)
(***************************************************************************)
EXTENDS PaperRunner_proofs

(***************************************************************************)
(* The market and the window of closed bars.                               *)
(***************************************************************************)

(* What is fed has closed: the engine never looks beyond the last closed    *)
(* bar, and while a minute is consumed it knows every bar before it.        *)
MarketInv ==
  /\ \A m \in DOMAIN tape : m < Closed
  /\ eng.htf <= LastBar /\ \A s \in snap : s.eng.htf <= LastBar
  /\ minute # None => minute \in DOMAIN tape
  /\ pc \in InMinute => eng.htf >= Bar(minute) - 1

(* A step that neither feeds nor saves, and begins no minute.               *)
Quiet ==
  /\ UNCHANGED <<now, tape, past, snap>>
  /\ eng'.htf = eng.htf /\ minute' \in {minute, None}
  /\ pc' \in InMinute => pc \in InMinute /\ minute' = minute

(* All but a few steps are quiet.                                           *)
LEMMA StepsAreQuiet ==
  ASSUME TypeInv, [Next]_vars
  PROVE  \/ Quiet \/ Tick \/ BeginMinute \/ EndFeed \/ SaveState(TRUE) \/ EndPoll \/ Boot \/ Crash
<1> USE DEF durable, loops, wallet, world, InMinute, AfterPrice
<1>0. eng \in Engine
  BY DEF TypeInv, TypeOK
<1>swap. \A o, o2 : Swap(o, o2).htf = eng.htf
  BY <1>0 DEF Swap, Engine
<1>settled. ASSUME NEW o \in visit, NEW o2, NEW ok \in BOOLEAN, Settled(o, o2, ok),
                   pc \in {"feed", "commit", "price"}, UNCHANGED <<snap, world>>
            PROVE  Quiet
  BY <1>settled, <1>swap DEF Settled, Abort, Quiet
<1>1. ASSUME NEW ok \in BOOLEAN, NEW o \in visit,
             CancelInvalidated(o, ok) \/ CommitOrder(o, ok) \/ EndOrder(o, ok)
      PROVE  Quiet
  <2>1. CASE CancelInvalidated(o, ok)
    BY <1>settled, <2>1 DEF CancelInvalidated
  <2>2. CASE CommitOrder(o, ok)
    BY <1>settled, <2>2 DEF CommitOrder
  <2>3. CASE EndOrder(o, ok)
    BY <1>settled, <2>3 DEF EndOrder
  <2> QED
    BY <1>1, <2>1, <2>2, <2>3
<1>2. ASSUME NEW ok \in BOOLEAN, NEW o \in visit, FillOrder(o, ok) PROVE Quiet
  <2> DEFINE o2 == [o EXCEPT !.status = "filled"]
  <2>1. CASE Settled(o, o2, ok)
    BY <1>2, <1>settled, <2>1 DEF FillOrder
  <2>2. CASE eng' = Swap(o, o2) /\ UNCHANGED <<pc, minute>>
    BY <1>2, <1>swap, <2>2 DEF FillOrder, Quiet
  <2> QED
    BY <1>2, <2>1, <2>2 DEF FillOrder
<1>3. ASSUME NEW ok \in BOOLEAN, NEW z \in Zones, ArmZone(z, ok) PROVE Quiet
  <2>1. eng'.htf = eng.htf
    BY <1>0, <1>3 DEF ArmZone, Engine
  <2> QED
    BY <1>3, <2>1 DEF ArmZone, Abort, Quiet
<1>4. CASE BeginTail
  BY <1>4 DEF BeginTail, BeginFeed, Quiet
<1>5. CASE EndCommit \/ EndArm \/ EndPrice
  <2>1. eng'.htf = eng.htf
    BY <1>0, <1>5 DEF EndCommit, EndArm, EndPrice, Engine
  <2> QED
    BY <1>5, <2>1 DEF EndCommit, EndArm, EndPrice, Quiet
<1>6. ASSUME NEW o \in visit, KeepOrder(o) \/ Judge(o) PROVE Quiet
  BY <1>6 DEF KeepOrder, Judge, Quiet
<1>7. ASSUME NEW ok \in BOOLEAN, RecordOpen(ok) \/ RemoveOpen(ok) PROVE Quiet
  BY <1>7 DEF RecordOpen, RemoveOpen, Abort, Quiet
<1>8. ASSUME NEW ok \in BOOLEAN, NEW o \in visit, RecordEntryResult(o, ok) \/ Fallback(o, ok)
      PROVE  Quiet
  BY <1>8 DEF RecordEntryResult, Fallback, Abort, Quiet
<1>9. ASSUME NEW ok \in BOOLEAN, NEW o \in fills, TakeFill(o, ok) PROVE Quiet
  BY <1>9 DEF TakeFill, Settle, Abort, Quiet
<1>10. ASSUME NEW ok \in BOOLEAN, NEW p \in closing, PersistTrade(p, ok) PROVE Quiet
  BY <1>10 DEF PersistTrade, Quiet
<1>11. CASE CheckExits
  BY <1>11 DEF CheckExits, Settle, Quiet
<1>12. ASSUME NEW o \in eng.orders, ExpireOverdue(o) PROVE Quiet
  <2>1. eng'.htf = eng.htf
    BY <1>0, <1>12 DEF ExpireOverdue, Engine
  <2> QED
    BY <1>12, <2>1 DEF ExpireOverdue, Quiet
<1>13. ASSUME NEW ok \in BOOLEAN, ~ok, SaveState(ok) PROVE Quiet
  BY <1>13 DEF SaveState, Abort, Quiet
<1>14. CASE DiscardStale \/ \E r \in Rows : ExpireStale(r)
  BY <1>14 DEF DiscardStale, ExpireStale, Quiet
<1>15. CASE UNCHANGED vars
  BY <1>15 DEF vars, Quiet
<1>17. ASSUME NEW ok \in BOOLEAN, NEW o \in visit, DiscardOrder(o, ok) PROVE Quiet
  BY <1>17 DEF DiscardOrder, Abort, Quiet
<1>16. \A ok \in BOOLEAN : ok \/ ok = FALSE
  OBVIOUS
<1> QED
  BY <1>1, <1>2, <1>3, <1>4, <1>5, <1>6, <1>7, <1>8, <1>9, <1>10, <1>11, <1>12, <1>13, <1>14,
     <1>15, <1>16, <1>17 DEF Next, Poll, Start

(* The clock only moves forward, and the last closed bar with it.           *)
LEMMA LastBarGrows ==
  ASSUME TypeInv, now' \in {now, now + 1}
  PROVE  /\ Closed \in Nat /\ Closed' \in Nat /\ LastBar \in Int /\ LastBar' \in Int
         /\ Closed <= Closed' /\ LastBar <= LastBar'
         /\ now <= MaxMinute => Closed = now /\ (now' = now + 1 => now < Closed')
<1>1. now \in Nat /\ MaxMinute \in Nat
  BY TimeAssumption DEF TypeInv, TypeOK
<1>2. Closed \in Nat /\ Closed' \in Nat /\ Closed <= Closed'
  BY <1>1 DEF Closed
<1>3. now <= MaxMinute => Closed = now /\ (now' = now + 1 => now < Closed')
  BY <1>1 DEF Closed
<1>4. Bar(Closed) \in Int /\ Bar(Closed') \in Int /\ Bar(Closed) <= Bar(Closed')
  BY <1>2, BarType, BarIsMonotone
<1>5. LastBar' = Bar(Closed') - 1
  BY DEF LastBar, Bar
<1> QED
  BY <1>2, <1>3, <1>4, <1>5 DEF LastBar

(* Every step keeps the engine within what the market has closed.           *)
LEMMA MarketStep == TypeInv /\ MarketInv /\ [Next]_vars => MarketInv'
<1> SUFFICES ASSUME TypeInv, MarketInv, [Next]_vars PROVE MarketInv'
  OBVIOUS
<1> USE DEF durable, loops, wallet, world
<1>0. /\ eng \in Engine /\ eng.htf \in Int /\ minute \in Int /\ now \in Nat
      /\ snap \subseteq [cursor : Int, eng : Engine] /\ \A s \in snap : s.eng.htf \in Int
      /\ DOMAIN tape \subseteq Nat
  BY DEF TypeInv, TypeOK, Engine
<1>saved. \A s \in Snapshot : s.eng.htf = eng.htf
  BY <1>0 DEF Snapshot, Engine
<1>frozen. now' = now => Closed' = Closed /\ LastBar' = LastBar
  BY DEF LastBar, Closed, Bar
<1>1. CASE Quiet
  BY <1>1, <1>frozen DEF Quiet, MarketInv, Bar
<1>2. CASE Tick
  <2>1. /\ now' = now + 1 /\ UNCHANGED <<snap, eng, pc, minute>> /\ pc \in {"idle", "down"}
        /\ DOMAIN tape' = IF now <= MaxMinute THEN DOMAIN tape \cup {now} ELSE DOMAIN tape
    BY <1>2 DEF Tick
  <2>2. /\ Closed \in Nat /\ Closed' \in Nat /\ LastBar \in Int /\ LastBar' \in Int
        /\ Closed <= Closed' /\ LastBar <= LastBar'
        /\ now <= MaxMinute => now < Closed'
    BY <2>1, LastBarGrows
  <2>3. \A m \in DOMAIN tape' : m < Closed'
    BY <1>0, <2>1, <2>2 DEF MarketInv
  <2>4. eng'.htf <= LastBar' /\ \A s \in snap' : s.eng.htf <= LastBar'
    BY <1>0, <2>1, <2>2 DEF MarketInv
  <2> QED
    BY <2>1, <2>3, <2>4 DEF MarketInv, InMinute, AfterPrice
<1>3. CASE BeginMinute
  <2>1. /\ minute' \in DOMAIN tape /\ pc' = "feed"
        /\ UNCHANGED <<now, tape, snap, eng>>
    BY <1>3 DEF BeginMinute, BeginFeed
  <2> QED
    BY <1>frozen, <2>1 DEF MarketInv, InMinute, AfterPrice
<1>4. CASE EndFeed
  <2> DEFINE h == IF FeedTarget > eng.htf THEN FeedTarget ELSE eng.htf
  <2>1. /\ eng'.htf = h /\ UNCHANGED <<now, tape, snap, minute>>
        /\ pc' = IF minute = None THEN "overdue" ELSE "commit"
    BY <1>0, <1>4 DEF EndFeed, Engine
  <2>2. Closed \in Nat /\ LastBar \in Int
    BY LastBarGrows, TimeAssumption, <2>1
  <2>3. FeedTarget \in Int /\ FeedTarget <= LastBar
    <3>1. CASE minute = None
      BY <2>2, <3>1 DEF FeedTarget
    <3>2. CASE minute # None
      <4>1. minute < Closed
        BY <1>0, <3>2 DEF MarketInv
      <4>2. Bar(minute) <= Bar(Closed) /\ Bar(minute) \in Int /\ Bar(Closed) \in Int
        BY <1>0, <2>2, <4>1, BarIsMonotone, BarType
      <4> QED
        BY <3>2, <4>2 DEF FeedTarget, LastBar
    <3> QED
      BY <3>1, <3>2
  <2>4. h <= LastBar /\ h >= FeedTarget /\ h \in Int
    BY <1>0, <2>3 DEF MarketInv
  <2>5. minute # None => FeedTarget = Bar(minute) - 1
    BY DEF FeedTarget
  <2>6. Bar(minute') = Bar(minute)
    BY <2>1
  <2> HIDE DEF h
  <2> QED
    BY <1>frozen, <2>1, <2>4, <2>5, <2>6 DEF MarketInv, InMinute, AfterPrice
<1>5. CASE SaveState(TRUE)
  <2>1. /\ snap' \in {snap, Snapshot} /\ pc' = "idle" /\ minute' = None
        /\ UNCHANGED <<now, eng>> /\ DOMAIN tape' \subseteq DOMAIN tape
    BY <1>5 DEF SaveState, Store, Forget
  <2> QED
    BY <1>frozen, <1>saved, <2>1 DEF MarketInv, InMinute, AfterPrice
<1>6. CASE EndPoll
  <2>1. /\ snap' \in {snap, Snapshot} /\ pc' = "idle"
        /\ UNCHANGED <<now, eng, minute, tape>>
    BY <1>6 DEF EndPoll, Store
  <2> QED
    BY <1>frozen, <1>saved, <2>1 DEF MarketInv, InMinute, AfterPrice
<1>none. NoEngine.htf <= LastBar
  <2>1. Closed \in Nat
    BY <1>0, TimeAssumption DEF Closed
  <2>2. 0 <= Bar(Closed) /\ Bar(Closed) \in Int
    BY <2>1, TimeAssumption, BarType, BarHasBegun
  <2> QED
    BY <2>2 DEF NoEngine, None, LastBar
<1>7. CASE Boot
  <2>1. /\ snap' \subseteq snap /\ pc' = "boot" /\ UNCHANGED <<now, tape, minute>>
    BY <1>7 DEF Boot
  <2>2. eng'.htf <= LastBar
    <3>1. \A s \in snap : Restored(s).htf = s.eng.htf
      BY <1>0 DEF Restored, Engine
    <3> QED
      BY <1>7, <1>none, <3>1 DEF Boot, MarketInv
  <2> QED
    BY <1>frozen, <2>1, <2>2 DEF MarketInv, InMinute, AfterPrice
<1>8. CASE Crash
  <2>1. eng' = NoEngine /\ pc' = "down" /\ minute' = None /\ UNCHANGED <<now, tape, snap>>
    BY <1>8 DEF Crash
  <2> QED
    BY <1>frozen, <1>none, <2>1 DEF MarketInv, InMinute, AfterPrice
<1> QED
  BY <1>1, <1>2, <1>3, <1>4, <1>5, <1>6, <1>7, <1>8, StepsAreQuiet

(* A first start has consumed nothing and recorded nothing.                 *)
LEMMA InitMarket == Init => MarketInv
<1> SUFFICES ASSUME Init PROVE MarketInv
  OBVIOUS
<1>1. Closed \in Nat
  BY TimeAssumption DEF Init, Closed
<1>2. 0 <= Bar(Closed) /\ Bar(Closed) \in Int
  BY <1>1, TimeAssumption, BarType, BarHasBegun
<1> QED
  BY <1>2 DEF Init, MarketInv, NoEngine, LastBar, None, InMinute, AfterPrice

------------------------------------------------------------------------------
(***************************************************************************)
(* No pending row is forgotten, whatever writes fail and crashes come.     *)
(***************************************************************************)

(* The engine holds an order for every pending row, except while a dead     *)
(* session's rows are divided.                                              *)
RowsAreTracked ==
  pc \notin {"down", "boot"} => PendingRows \subseteq RowsOf(eng.orders)

(* No order waits at a zone that the engine has seen broken.                *)
ZonesAreAlive == \A o \in eng.orders : o.zone \notin Gone(eng.htf)

(* A loop has yet to come to the order, or its row is no longer pending.    *)
Ended(o) == o \in visit \/ o.row \notin PendingRows

(* What a loop drops in the end has ended in the journal before.            *)
DroppedHasEnded ==
  /\ pc = "feed" /\ FeedTarget > eng.htf =>
       \A o \in eng.orders : o.zone \in Gone(FeedTarget) => Ended(o)
  /\ pc = "price" \/ (pc = "commit" /\ Boundary) =>
       \A o \in eng.orders : Pending(o) \/ Ended(o)
  /\ pc = "commit" /\ Skipped => \A o \in eng.orders : Ended(o)

(* The loops visit orders of the engine.                                    *)
VisitsOrders == pc \in {"feed", "commit", "price"} => visit \subseteq eng.orders

TrackInv == RowsAreTracked /\ ZonesAreAlive /\ DroppedHasEnded /\ VisitsOrders

(* What a window of closed bars has seen broken is settled: minutes that    *)
(* come later, and minutes that are forgotten, do not change it.            *)
LEMMA GoneIsSettled ==
  ASSUME TypeInv, MarketInv, Quiet \/ Tick \/ BeginMinute \/ EndFeed \/ SaveState(TRUE) \/ EndPoll
                             \/ Boot \/ Crash,
         NEW h \in Int, h <= LastBar, pc = "save" => Bar(minute) - 1 <= h
  PROVE  Gone(h)' = Gone(h)
<1> USE DEF durable, loops, wallet, world
<1>0. now \in Nat /\ minute \in Int /\ DOMAIN tape \subseteq Nat
  BY DEF TypeInv, TypeOK
<1>1. CASE UNCHANGED <<tape, past>>
  BY <1>1 DEF Gone, Until, Bar
<1>2. CASE Tick
  <2>1. /\ past' = past /\ now' = now + 1
        /\ IF now <= MaxMinute
           THEN /\ DOMAIN tape' = DOMAIN tape \cup {now}
                /\ \A m \in DOMAIN tape \ {now} : tape'[m] = tape[m]
           ELSE tape' = tape
    BY <1>2 DEF Tick
  <2>2. now <= MaxMinute => now \notin DOMAIN tape /\ ~(Bar(now) <= h)
    <3>1. now <= MaxMinute => Closed = now
      BY <2>1, LastBarGrows
    <3>2. Bar(now) \in Int
      BY <1>0, BarType
    <3> QED
      BY <1>0, <3>1, <3>2 DEF LastBar, MarketInv
  <2>3. now <= MaxMinute => {m \in DOMAIN tape' : Bar(m) <= h} = Until(h)
    BY <2>1, <2>2 DEF Until
  <2> QED
    BY <2>1, <2>2, <2>3 DEF Gone, Until, Bar
<1>3. CASE SaveState(TRUE)
  <2> DEFINE b == Bar(minute) - 1
  <2>1. pc = "save" /\ Forget(minute)
    BY <1>3 DEF SaveState
  <2>2. b \in Int /\ b <= h /\ \A m \in DOMAIN tape : Bar(m) \in Int
    BY <1>0, <2>1, BarType
  <2>3. /\ past'.gone = Gone(b)
        /\ DOMAIN tape' = DOMAIN tape \ Until(b)
        /\ \A m \in DOMAIN tape' : tape'[m] = tape[m]
    BY <2>1 DEF Forget
  <2> HIDE DEF b
  <2>4. Until(h) = Until(b) \cup {m \in DOMAIN tape' : Bar(m) <= h}
    BY <2>2, <2>3 DEF Until
  <2>5. Gone(h) = past'.gone \cup {z \in Zones : \E m \in DOMAIN tape' :
                                                   Bar(m) <= h /\ tape'[m] < Bottom[z]}
    <3>1. ASSUME NEW z \in Zones
          PROVE  (\E m \in Until(h) : tape[m] < Bottom[z]) <=>
                   \/ \E m \in Until(b) : tape[m] < Bottom[z]
                   \/ \E m \in DOMAIN tape' : Bar(m) <= h /\ tape'[m] < Bottom[z]
      BY <2>3, <2>4
    <3> QED
      BY <2>3, <3>1 DEF Gone
  <2> QED
    BY <2>5 DEF Gone, Until, Bar
<1> QED
  BY <1>1, <1>2, <1>3 DEF Quiet, BeginMinute, BeginFeed, EndFeed, EndPoll, Boot, Crash

(* Orders that stay where they are stay at living zones.                    *)
LEMMA AliveStays ==
  ASSUME TypeInv, MarketInv, ZonesAreAlive,
         Quiet \/ Tick \/ BeginMinute \/ SaveState(TRUE) \/ EndPoll,
         \A o \in eng'.orders : o.zone \in {p.zone : p \in eng.orders}
                                \/ o.zone \notin Gone(eng.htf)
  PROVE  ZonesAreAlive'
<1>1. eng.htf \in Int /\ eng.htf <= LastBar
  BY DEF TypeInv, TypeOK, Engine, MarketInv
<1>2. eng'.htf = eng.htf
  BY DEF Quiet, Tick, BeginMinute, BeginFeed, SaveState, EndPoll
<1>3. pc = "save" => Bar(minute) - 1 <= eng.htf
  <2>1. Bar(minute) \in Int
    BY BarType DEF TypeInv, TypeOK
  <2> QED
    BY <1>1, <2>1 DEF MarketInv, InMinute, AfterPrice
<1>4. ASSUME NEW h \in Int, h = eng.htf
      PROVE  \A o \in eng'.orders : o.zone \notin Gone(h)'
  <2>1. Gone(h)' = Gone(h)
    BY <1>1, <1>3, <1>4, GoneIsSettled
  <2> QED
    BY <1>4, <2>1 DEF ZonesAreAlive
<1>5. \A h \in Int : h = eng.htf =>
        \A o \in eng'.orders : o.zone \notin past'.gone \cup
           {z \in Zones : \E m \in {n \in DOMAIN tape' : Bar(n) <= h} : tape'[m] < Bottom[z]}
  BY <1>4 DEF Gone, Until, Bar
<1> QED
  BY <1>1, <1>2, <1>5 DEF ZonesAreAlive, Gone, Until, Bar

(* A step that leaves the orders alone and places no row.                   *)
LEMMA TrackSteady ==
  ASSUME TypeInv, MarketInv, TrackInv,
         Quiet \/ Tick \/ SaveState(TRUE) \/ EndPoll,
         eng'.orders = eng.orders, PendingRows' \subseteq PendingRows,
         pc' \notin {"feed", "commit", "price"},
         pc' \in {"down", "boot"} \/ pc \notin {"down", "boot"}
  PROVE  TrackInv'
<1>1. RowsAreTracked'
  BY DEF TrackInv, RowsAreTracked, RowsOf
<1>2. ZonesAreAlive'
  BY AliveStays DEF TrackInv
<1> QED
  BY <1>1, <1>2 DEF TrackInv, DroppedHasEnded, VisitsOrders

(* Marking a row as ended takes it, and no other row, from the pending ones.*)
LEMMA MarkEnds ==
  ASSUME TypeInv, NEW r \in 0..MaxRows, NEW status, status # "pending",
         journal' = Marked(r, status)
  PROVE  PendingRows' = PendingRows \ {r}
<1>1. CASE r = 0
  BY <1>1 DEF Marked, PendingRows, Rows
<1>2. CASE r # 0
  <2>1. r \in Rows /\ journal \in [Rows -> Row]
    BY <1>2, TimeAssumption DEF Rows, TypeInv, TypeOK
  <2>2. \A q \in Rows : journal'[q].status = IF q = r THEN status ELSE journal[q].status
    BY <1>2, <2>1 DEF Marked, Row
  <2> QED
    BY <2>1, <2>2 DEF PendingRows
<1> QED
  BY <1>1, <1>2

(* One step of a loop over the orders.                                      *)
LEMMA TrackSettled ==
  ASSUME TypeInv, MarketInv, TrackInv, pc \in {"feed", "commit", "price"},
         Quiet, NEW o \in visit, NEW o2 \in Order, o2.row = o.row, o2.zone = o.zone,
         pc = "feed" => ~Pending(o2), pc = "commit" => ~Skipped,
         eng' = Swap(o, o2), UNCHANGED <<now, tape, past>>,
         \/ Abort /\ UNCHANGED journal
         \/ /\ journal' = IF Pending(o2) THEN journal ELSE Marked(o2.row, o2.status)
            /\ visit' = visit \ {o} /\ UNCHANGED <<pc, minute>>
  PROVE  TrackInv'
<1>0. eng \in Engine /\ o2.row \in 0..MaxRows /\ o2.status \in Status
  BY DEF TypeInv, TypeOK, Order
<1>own. o \in eng.orders
  BY DEF TrackInv, VisitsOrders
<1>1. /\ eng'.orders = (eng.orders \ {o}) \cup {o2}
      /\ eng'.htf = eng.htf /\ eng'.forming = eng.forming /\ eng'.last = eng.last
  BY <1>0 DEF Swap, Engine
<1>2. PendingRows' \subseteq PendingRows
  <2>1. journal' = journal => PendingRows' = PendingRows
    BY DEF PendingRows
  <2>2. journal' = Marked(o2.row, o2.status) /\ ~Pending(o2) => PendingRows' = PendingRows \ {o2.row}
    BY <1>0, MarkEnds DEF Pending
  <2> QED
    BY <2>1, <2>2
<1>3. RowsAreTracked'
  <2>1. RowsOf(eng'.orders) = RowsOf(eng.orders)
    BY <1>own, <1>1 DEF RowsOf
  <2> QED
    BY <1>2, <2>1 DEF TrackInv, RowsAreTracked
<1>4. ZonesAreAlive'
  BY <1>own, <1>1, AliveStays DEF TrackInv
<1>5. DroppedHasEnded'
  <2>1. CASE Abort
    BY <2>1 DEF Abort, DroppedHasEnded
  <2>2. CASE /\ journal' = IF Pending(o2) THEN journal ELSE Marked(o2.row, o2.status)
             /\ visit' = visit \ {o} /\ UNCHANGED <<pc, minute>>
    <3>1. ~Pending(o2) => o2.row \notin PendingRows'
      BY <1>0, <2>2, MarkEnds DEF Pending
    <3>2. \A p \in eng'.orders : p = o2 \/ (p \in eng.orders /\ (p \in visit => p \in visit'))
      BY <1>1, <2>2
    <3>3. \A p \in eng.orders \ {o} : Ended(p) => Ended(p)'
      BY <1>2, <2>2 DEF Ended
    <3>4. (FeedTarget' = FeedTarget) /\ (Boundary' <=> Boundary) /\ Gone(FeedTarget)' = Gone(FeedTarget)
      BY <1>1, <2>2 DEF FeedTarget, LastBar, Closed, Bar, Boundary, Gone, Until
    <3>5. ASSUME pc = "feed", FeedTarget > eng.htf, NEW p \in eng'.orders, p.zone \in Gone(FeedTarget)
          PROVE  Ended(p)'
      BY <1>1, <3>1, <3>3, <3>5 DEF TrackInv, DroppedHasEnded, Ended
    <3>6. ASSUME pc = "price" \/ (pc = "commit" /\ Boundary), NEW p \in eng'.orders
          PROVE  Pending(p) \/ Ended(p)'
      BY <1>1, <3>1, <3>3, <3>6 DEF TrackInv, DroppedHasEnded, Ended
    <3>7. Skipped' <=> Skipped
      BY <1>1, <2>2, <3>4 DEF Skipped, Bar
    <3> QED
      BY <1>1, <2>2, <3>4, <3>5, <3>6, <3>7 DEF DroppedHasEnded, Pending
  <2> QED
    BY <2>1, <2>2
<1>6. VisitsOrders'
  BY <1>1 DEF TrackInv, VisitsOrders, Abort
<1> QED
  BY <1>3, <1>4, <1>5, <1>6 DEF TrackInv

(* Every step, also one whose write raises, keeps track of the rows.        *)
LEMMA TrackStep == TypeInv /\ MarketInv /\ TrackInv /\ [Next]_vars => TrackInv'
<1> SUFFICES ASSUME TypeInv, MarketInv, TrackInv, [Next]_vars PROVE TrackInv'
  OBVIOUS
<1> USE DEF durable, loops, wallet, world
<1>0. /\ eng \in Engine /\ eng.orders \subseteq Order /\ journal \in [Rows -> Row]
      /\ visit \subseteq Order /\ eng.htf \in Int
      /\ \A o \in Order : o.row \in 0..MaxRows /\ o.status \in Status
  BY DEF TypeInv, TypeOK, Engine, Order
<1>kinds. Quiet \/ Tick \/ BeginMinute \/ EndFeed \/ SaveState(TRUE) \/ EndPoll \/ Boot \/ Crash
  BY StepsAreQuiet
<1>same. journal' = journal => PendingRows' = PendingRows
  BY DEF PendingRows
<1>swap. \A o, o2 : Swap(o, o2).htf = eng.htf
  BY <1>0 DEF Swap, Engine
<1>1. CASE Tick \/ EndPoll \/ SaveState(TRUE)
  <2>1. /\ eng' = eng /\ journal' = journal
        /\ pc' \notin {"feed", "commit", "price"}
        /\ pc' \in {"down", "boot"} \/ pc \notin {"down", "boot"}
    BY <1>1 DEF Tick, EndPoll, SaveState
  <2> QED
    BY <1>1, <1>same, <2>1, TrackSteady
<1>settled. ASSUME NEW o \in visit, NEW o2 \in Order, NEW ok \in BOOLEAN, Settled(o, o2, ok),
                   o2.row = o.row, o2.zone = o.zone, pc = "feed" => ~Pending(o2),
                   pc = "commit" => ~Skipped, pc \in {"feed", "commit", "price"},
                   UNCHANGED <<snap, world>>
            PROVE  TrackInv'
  <2>1. Quiet
    BY <1>settled, <1>swap DEF Settled, Abort, Quiet, InMinute, AfterPrice
  <2>2. /\ eng' = Swap(o, o2)
        /\ \/ Abort /\ UNCHANGED journal
           \/ /\ journal' = IF Pending(o2) THEN journal ELSE Marked(o2.row, o2.status)
              /\ visit' = visit \ {o} /\ UNCHANGED <<pc, minute>>
    BY <1>settled DEF Settled
  <2> QED
    BY <1>settled, <2>1, <2>2, TrackSettled
<1>2. ASSUME NEW o \in visit, NEW ok \in BOOLEAN,
             CancelInvalidated(o, ok) \/ CommitOrder(o, ok) \/ EndOrder(o, ok)
      PROVE  TrackInv'
  <2>1. o \in Order /\ o.elapsed + 1 \in Int
    BY <1>0 DEF Order
  <2>2. \A status \in Status :
          /\ [o EXCEPT !.status = status] \in Order
          /\ [o EXCEPT !.elapsed = o.elapsed + 1, !.status = status] \in Order
    BY <2>1 DEF Order
  <2>3. CASE CancelInvalidated(o, ok)
    <3> DEFINE o2 == IF Pending(o) THEN [o EXCEPT !.status = "cancelled_invalidated"] ELSE o
    <3>1. o2 \in Order /\ o2.row = o.row /\ o2.zone = o.zone /\ ~Pending(o2)
      BY <2>1, <2>2 DEF Status, Order, Pending
    <3>2. Settled(o, o2, ok) /\ pc = "feed" /\ UNCHANGED <<snap, world>>
      BY <2>3 DEF CancelInvalidated
    <3> QED
      BY <1>settled, <3>1, <3>2
  <2>4. CASE CommitOrder(o, ok)
    <3> DEFINE status == IF o.elapsed + 1 >= LimitValidBars THEN "cancelled_expired" ELSE o.status
               o2 == IF ~Pending(o) THEN o
                     ELSE [o EXCEPT !.elapsed = o.elapsed + 1, !.status = status]
    <3>1. o2 \in Order /\ o2.row = o.row /\ o2.zone = o.zone
      BY <1>0, <2>1, <2>2 DEF Status, Order
    <3>2. Settled(o, o2, ok) /\ pc = "commit" /\ ~Skipped /\ UNCHANGED <<snap, world>>
      BY <2>4 DEF CommitOrder
    <3> QED
      BY <1>settled, <3>1, <3>2
  <2>5. CASE EndOrder(o, ok)
    <3>1. PICK o2 \in Order : Settled(o, o2, ok) /\ o2.row = o.row /\ o2.zone = o.zone
      BY <2>1, <2>2, <2>5 DEF EndOrder, Status, Order
    <3>2. pc = "price" /\ UNCHANGED <<snap, world>>
      BY <2>5 DEF EndOrder
    <3> QED
      BY <1>settled, <3>1, <3>2
  <2> QED
    BY <1>2, <2>3, <2>4, <2>5
<1>3. ASSUME NEW o \in visit, NEW ok \in BOOLEAN, FillOrder(o, ok) PROVE TrackInv'
  <2> DEFINE o2 == [o EXCEPT !.status = "filled"]
  <2>1. o2 \in Order /\ o2.row = o.row /\ o2.zone = o.zone /\ o2.status = "filled" /\ ~Pending(o2)
    BY <1>0 DEF Order, Status, Pending
  <2>2. pc = "price" /\ UNCHANGED <<snap, world>>
    BY <1>3 DEF FillOrder
  <2>3. CASE Settled(o, o2, ok)
    BY <1>settled, <2>1, <2>2, <2>3
  <2>4. CASE /\ journal' = Marked(o.row, "filled")
             /\ eng' = Swap(o, o2) /\ visit' = visit \ {o} /\ UNCHANGED <<pc, minute>>
    <3>1. Quiet
      BY <1>swap, <2>2, <2>4 DEF Quiet, InMinute, AfterPrice
    <3> QED
      BY <2>1, <2>2, <2>4, <3>1, TrackSettled
  <2> QED
    BY <1>3, <2>3, <2>4 DEF FillOrder
<1>4. CASE BeginMinute \/ BeginTail
  <2>1. PICK h : /\ h = FeedTarget' /\ pc' = "feed" /\ pc = "idle"
                 /\ visit' = IF eng.htf < h THEN {o \in eng.orders : o.zone \in Gone(h)} ELSE {}
                 /\ UNCHANGED <<journal, eng, tape, past, now>>
    <3>1. CASE BeginMinute
      <4>1. minute' = NextMinute /\ BeginFeed(Bar(NextMinute) - 1) /\ pc = "idle" /\ minute' # None
        BY <3>1 DEF BeginMinute, TypeInv, TypeOK, None
      <4>2. FeedTarget' = Bar(NextMinute) - 1
        BY <4>1 DEF FeedTarget, Bar
      <4> QED
        BY <4>1, <4>2 DEF BeginFeed
    <3>2. CASE BeginTail
      <4>1. minute = None /\ minute' = None /\ BeginFeed(LastBar) /\ pc = "idle"
        BY <3>2 DEF BeginTail, TypeInv
      <4>2. FeedTarget' = LastBar
        BY <4>1 DEF FeedTarget, BeginFeed, LastBar, Closed, Bar
      <4> QED
        BY <4>1, <4>2 DEF BeginFeed
    <3> QED
      BY <1>4, <3>1, <3>2
  <2>2. RowsAreTracked' /\ VisitsOrders'
    BY <1>same, <2>1 DEF TrackInv, RowsAreTracked, RowsOf, VisitsOrders
  <2>3. ZonesAreAlive'
    BY <2>1 DEF TrackInv, ZonesAreAlive, Gone, Until, Bar
  <2>4. FeedTarget' > eng'.htf => \A o \in eng'.orders : o.zone \in Gone(h) => o \in visit'
    <3>1. FeedTarget' > eng.htf => eng.htf < h
      BY <2>1
    <3> QED
      BY <2>1, <3>1
  <2>5. DroppedHasEnded'
    BY <2>1, <2>4 DEF DroppedHasEnded, Ended, Gone, Until, Bar
  <2> QED
    BY <2>2, <2>3, <2>5 DEF TrackInv
<1>5. CASE EndFeed
  <2> DEFINE h == IF FeedTarget > eng.htf THEN FeedTarget ELSE eng.htf
             alive == {o \in eng.orders : o.zone \notin Gone(h)}
  <2>1. /\ eng'.orders = alive /\ eng'.htf = h
        /\ visit' = IF Boundary THEN alive ELSE {}
        /\ pc = "feed" /\ visit = {} /\ pc' \in {"overdue", "commit"}
        /\ UNCHANGED <<journal, tape, past, now, minute>>
        /\ eng'.forming = eng.forming /\ eng'.last = eng.last
    BY <1>0, <1>5 DEF EndFeed, Engine
  <2>2. \A o \in eng.orders \ alive : o.row \notin PendingRows
    BY <2>1 DEF TrackInv, ZonesAreAlive, DroppedHasEnded, Ended
  <2>3. RowsAreTracked'
    BY <1>same, <2>1, <2>2 DEF TrackInv, RowsAreTracked, RowsOf
  <2>4. ZonesAreAlive'
    <3>1. \A o \in eng'.orders : o.zone \notin Gone(h)
      BY <2>1
    <3> HIDE DEF h
    <3> QED
      BY <2>1, <3>1 DEF ZonesAreAlive, Gone, Until, Bar
  <2>5. (Boundary' <=> Boundary) /\ (Skipped' => Boundary)
    BY <2>1 DEF Boundary, Skipped, Bar
  <2>6. DroppedHasEnded' /\ VisitsOrders'
    BY <2>1, <2>5 DEF DroppedHasEnded, Ended, VisitsOrders
  <2> QED
    BY <2>3, <2>4, <2>6 DEF TrackInv
<1>6. CASE EndCommit \/ EndPrice
  <2>1. /\ Quiet
        /\ pc \in {"commit", "price"} /\ pc' \in {"arm", "handle"} /\ visit = {}
        /\ \/ eng'.orders = eng.orders
           \/ (pc = "commit" => Boundary) /\ eng'.orders = {o \in eng.orders : Pending(o)}
           \/ pc = "commit" /\ Skipped /\ eng'.orders = {}
        /\ UNCHANGED journal
    <3>1. CASE EndCommit
      BY <1>0, <3>1 DEF EndCommit, Engine, Quiet, InMinute, AfterPrice
    <3>2. CASE EndPrice
      BY <1>0, <3>2 DEF EndPrice, Engine, Quiet, InMinute, AfterPrice
    <3> QED
      BY <1>6, <3>1, <3>2
  <2>2. RowsAreTracked'
    BY <1>same, <2>1 DEF TrackInv, RowsAreTracked, DroppedHasEnded, Ended, RowsOf
  <2>3. ZonesAreAlive'
    BY <2>1, AliveStays DEF TrackInv
  <2> QED
    BY <2>1, <2>2, <2>3 DEF TrackInv, DroppedHasEnded, VisitsOrders
<1>7. ASSUME NEW z \in Zones, NEW ok \in BOOLEAN, ArmZone(z, ok) PROVE TrackInv'
  <2> DEFINE o == [row |-> IF ok THEN nextRow ELSE 0, zone |-> z, placed |-> minute,
                   elapsed |-> 0, status |-> "pending"]
  <2>1. /\ o.zone = z /\ eng'.orders = eng.orders \cup {o} /\ eng'.htf = eng.htf
        /\ pc = "arm" /\ pc' \in {"arm", "overdue"} /\ z \notin Gone(eng.htf)
        /\ \/ journal' = journal
           \/ /\ o.row = nextRow
              /\ journal' = [journal EXCEPT ![nextRow] =
                   [status |-> "pending", entry |-> "null", placed |-> minute]]
    BY <1>0, <1>7 DEF ArmZone, Tapping, Abort, Engine
  <2> HIDE DEF o
  <2>2. PendingRows' \subseteq PendingRows \cup {o.row}
    BY <1>0, <2>1 DEF PendingRows
  <2>3. RowsAreTracked'
    BY <2>1, <2>2 DEF TrackInv, RowsAreTracked, RowsOf, PendingRows, Rows
  <2>4. Quiet
    BY <1>7, <2>1 DEF ArmZone, Abort, Quiet, InMinute, AfterPrice
  <2>5. ZonesAreAlive'
    BY <2>1, <2>4, AliveStays DEF TrackInv
  <2> QED
    BY <2>1, <2>3, <2>5 DEF TrackInv, DroppedHasEnded, VisitsOrders
<1>8. CASE EndArm
  <2>1. /\ Quiet /\ visit' = eng.orders /\ eng' = eng /\ pc = "arm" /\ pc' = "price"
        /\ UNCHANGED journal
    BY <1>8 DEF EndArm, Quiet, InMinute, AfterPrice
  <2>2. ZonesAreAlive'
    BY <2>1, AliveStays DEF TrackInv
  <2> QED
    BY <1>same, <2>1, <2>2 DEF TrackInv, RowsAreTracked, RowsOf, DroppedHasEnded, VisitsOrders,
       Ended
<1>9. ASSUME NEW o \in visit, KeepOrder(o) PROVE TrackInv'
  <2>1. /\ Quiet /\ Pending(o) /\ visit' = visit \ {o} /\ eng' = eng /\ pc = "price" /\ pc' = "price"
        /\ UNCHANGED journal
    BY <1>9 DEF KeepOrder, Quiet, InMinute, AfterPrice
  <2>2. ZonesAreAlive'
    BY <2>1, AliveStays DEF TrackInv
  <2>3. DroppedHasEnded'
    BY <1>same, <2>1 DEF TrackInv, DroppedHasEnded, Ended, Pending
  <2> QED
    BY <1>same, <2>1, <2>2, <2>3 DEF TrackInv, RowsAreTracked, RowsOf, VisitsOrders
<1>10. ASSUME NEW o \in eng.orders, ExpireOverdue(o) PROVE TrackInv'
  <2>1. /\ Quiet /\ eng'.orders = eng.orders \ {o} /\ pc = "overdue" /\ pc' = "overdue"
        /\ journal' = Marked(o.row, "cancelled_expired")
    BY <1>0, <1>10 DEF ExpireOverdue, Engine, Quiet, InMinute, AfterPrice
  <2>2. PendingRows' = PendingRows \ {o.row}
    BY <1>0, <2>1, MarkEnds DEF Status
  <2>3. ZonesAreAlive'
    BY <2>1, AliveStays DEF TrackInv
  <2> QED
    BY <2>1, <2>2, <2>3 DEF TrackInv, RowsAreTracked, RowsOf, DroppedHasEnded, VisitsOrders
<1>judged. \A r \in 0..MaxRows, verdict \in {"entered", "rejected"} :
             journal' = Judged(r, verdict) => PendingRows' = PendingRows
  BY <1>0 DEF Judged, PendingRows, Row
<1>11. ASSUME NEW ok \in BOOLEAN, NEW o \in visit, RecordEntryResult(o, ok) \/ Fallback(o, ok)
       PROVE  TrackInv'
  <2>1. /\ Quiet /\ eng' = eng
        /\ pc \notin {"down", "boot"} /\ pc' \notin {"feed", "commit", "price"}
        /\ \/ journal' = journal
           \/ \E verdict \in {"entered", "rejected"} : journal' = Judged(o.row, verdict)
    BY <1>11 DEF RecordEntryResult, Fallback, Abort, Quiet, InMinute, AfterPrice
  <2>2. PendingRows' = PendingRows
    BY <1>0, <1>judged, <1>same, <2>1
  <2> QED
    BY <2>1, <2>2, TrackSteady
<1>12. ASSUME NEW ok \in BOOLEAN,
              \/ RecordOpen(ok) \/ RemoveOpen(ok) \/ CheckExits
              \/ \E o \in fills : TakeFill(o, ok)
              \/ \E p \in closing : PersistTrade(p, ok)
              \/ \E o \in visit : Judge(o)
              \/ ~ok /\ SaveState(ok)
       PROVE  TrackInv'
  <2>1. /\ eng' = eng /\ journal' = journal
        /\ pc \notin {"down", "boot"} /\ pc' \notin {"feed", "commit", "price"}
    BY <1>12 DEF RecordOpen, RemoveOpen, CheckExits, TakeFill, PersistTrade, Judge, SaveState,
       Settle, Abort
  <2>2. Quiet
    BY <1>12, <2>1 DEF RecordOpen, RemoveOpen, CheckExits, TakeFill, PersistTrade, Judge, SaveState,
       Settle, Abort, Quiet, InMinute, AfterPrice
  <2> QED
    BY <1>same, <2>1, <2>2, TrackSteady
<1>13. CASE Boot
  <2>1. /\ pc' = "boot" /\ UNCHANGED <<tape, past>>
        /\ eng' = NoEngine \/ \E s \in snap : eng' = Restored(s)
    BY <1>13 DEF Boot
  <2>2. ASSUME NEW s \in snap, eng' = Restored(s)
        PROVE  eng'.htf = s.eng.htf /\ \A o \in eng'.orders : o.zone \notin Gone(s.eng.htf)
    BY <2>2 DEF Restored, TypeInv, TypeOK, Engine
  <2>3. ZonesAreAlive'
    <3>1. CASE eng' = NoEngine
      BY <3>1 DEF ZonesAreAlive, NoEngine
    <3>2. ASSUME NEW s \in snap, eng' = Restored(s) PROVE ZonesAreAlive'
      BY <2>1, <2>2, <3>2 DEF ZonesAreAlive, Gone, Until, Bar
    <3> QED
      BY <2>1, <3>1, <3>2
  <2> QED
    BY <2>1, <2>3 DEF TrackInv, RowsAreTracked, DroppedHasEnded, VisitsOrders
<1>14. CASE DiscardStale
  <2>1. /\ Quiet /\ eng' = eng /\ pc = "boot" /\ pc' = "idle"
        /\ \A r \in Rows : r \in Stale => journal'[r].status = "discarded_restart"
        /\ \A r \in Rows \ Stale : journal'[r] = journal[r]
    BY <1>0, <1>14 DEF DiscardStale, Quiet, InMinute, AfterPrice, Row
  <2>2. PendingRows' \subseteq RowsOf(eng'.orders)
    BY <2>1 DEF PendingRows, Stale, RowsOf
  <2>3. ZonesAreAlive'
    BY <2>1, AliveStays DEF TrackInv
  <2> QED
    BY <2>1, <2>2, <2>3 DEF TrackInv, RowsAreTracked, DroppedHasEnded, VisitsOrders
<1>15. ASSUME NEW r \in Rows, ExpireStale(r) PROVE TrackInv'
  <2>1. Quiet /\ eng' = eng /\ pc' = "boot" /\ PendingRows' \subseteq PendingRows
    BY <1>0, <1>15 DEF ExpireStale, Quiet, InMinute, AfterPrice, PendingRows, Row
  <2> QED
    BY <2>1, TrackSteady
<1>16. CASE Crash
  BY <1>16 DEF Crash, NoEngine, TrackInv, RowsAreTracked, ZonesAreAlive, DroppedHasEnded,
     VisitsOrders
<1>17. CASE UNCHANGED vars
  <2>1. Quiet /\ eng' = eng /\ UNCHANGED <<journal, pc, visit, minute, tape, past, now>>
    BY <1>17 DEF vars, Quiet
  <2>2. ZonesAreAlive'
    BY <2>1, AliveStays DEF TrackInv
  <2>3. DroppedHasEnded'
    BY <1>same, <2>1 DEF TrackInv, DroppedHasEnded, Ended, FeedTarget, LastBar, Closed, Boundary,
       Skipped, Bar, Gone, Until
  <2> QED
    BY <1>same, <2>1, <2>2, <2>3 DEF TrackInv, RowsAreTracked, RowsOf, VisitsOrders
<1>18. \A ok \in BOOLEAN : SaveState(ok) => SaveState(TRUE) \/ (~ok /\ SaveState(ok))
  OBVIOUS
<1>19. ASSUME NEW o \in visit, NEW ok \in BOOLEAN, DiscardOrder(o, ok) PROVE TrackInv'
  <2>1. /\ Quiet /\ eng' = eng /\ pc = "commit" /\ Skipped /\ o.row \in 0..MaxRows
        /\ UNCHANGED <<tape, past, now>>
        /\ \/ /\ journal' = Marked(o.row, "discarded_restart")
              /\ visit' = visit \ {o} /\ UNCHANGED <<pc, minute>>
           \/ Abort /\ UNCHANGED journal
    BY <1>0, <1>19 DEF DiscardOrder, Abort, Quiet, InMinute, AfterPrice
  <2>2. ZonesAreAlive'
    BY <2>1, AliveStays DEF TrackInv
  <2>3. CASE Abort /\ UNCHANGED journal
    BY <1>same, <2>1, <2>2, <2>3 DEF Abort, TrackInv, RowsAreTracked, RowsOf, DroppedHasEnded,
       VisitsOrders
  <2>4. CASE /\ journal' = Marked(o.row, "discarded_restart")
             /\ visit' = visit \ {o} /\ UNCHANGED <<pc, minute>>
    <3>1. PendingRows' = PendingRows \ {o.row}
      BY <2>1, <2>4, MarkEnds
    <3>2. \A p \in eng.orders : p \in visit \/ p.row \notin PendingRows
      BY <2>1 DEF TrackInv, DroppedHasEnded, Ended
    <3>3. \A p \in eng.orders : p \in visit' \/ p.row \notin PendingRows'
      BY <2>4, <3>1, <3>2
    <3>4. DroppedHasEnded'
      BY <2>1, <2>4, <3>3 DEF DroppedHasEnded, Ended
    <3> QED
      BY <2>1, <2>2, <2>4, <3>1, <3>2, <3>4 DEF TrackInv, RowsAreTracked, RowsOf, VisitsOrders
  <2> QED
    BY <2>1, <2>3, <2>4
<1> QED
  BY <1>1, <1>2, <1>3, <1>4, <1>5, <1>6, <1>7, <1>8, <1>9, <1>10, <1>11, <1>12, <1>13, <1>14,
     <1>15, <1>16, <1>17, <1>18, <1>19 DEF Next, Poll, Start

(* Whatever writes raise and wherever the process dies, between two polls   *)
(* the engine holds an order for every row the journal calls pending: what  *)
(* was placed is never left to wait for nobody.                             *)
THEOREM NoRowIsForgotten == Spec => []PendingRowsAreTracked
<1>1. Init => TrackInv
  BY DEF Init, TrackInv, RowsAreTracked, ZonesAreAlive, DroppedHasEnded, VisitsOrders, NoEngine,
     PendingRows
<1>2. Spec => []TrackInv
  BY <1>1, InitType, InitMarket, TypeStep, MarketStep, TrackStep, PTL DEF Spec
<1>3. TrackInv => PendingRowsAreTracked
  BY DEF TrackInv, RowsAreTracked, PendingRowsAreTracked
<1> QED
  BY <1>2, <1>3, PTL

------------------------------------------------------------------------------
(***************************************************************************)
(* The age of an order, while no write raises.                             *)
(***************************************************************************)

(* An engine that has consumed nothing holds nothing.                       *)
StartsEmpty ==
  /\ Consumed = None => eng.forming = None /\ eng.orders = {}
  /\ eng.last # None => eng.htf >= 0

(* The order was already counted at the boundary that is being committed.   *)
Counted(o) == pc = "commit" /\ Boundary /\ o \notin visit

(* A pending order has waited for the bars since its own.                   *)
AgesAreBars ==
  \A o \in eng.orders :
    /\ o.placed = journal[o.row].placed /\ o.placed <= Consumed
    /\ Pending(o) => /\ o.elapsed = (IF Counted(o) THEN Bar(minute) ELSE eng.forming) - Bar(o.placed)
                     /\ o.elapsed < LimitValidBars

(* So has an order of the snapshot, whatever has passed since it was saved. *)
SavedAgesAreBars ==
  \A s \in snap :
    /\ s.eng.htf >= 0
    /\ \A o \in s.eng.orders : /\ o.placed = journal[o.row].placed /\ o.placed <= s.cursor
                               /\ o.elapsed = s.eng.forming - Bar(o.placed)
                               /\ o.elapsed < LimitValidBars

(* An engine that has consumed nothing has saved nothing.                   *)
NothingIsSavedFirst == pc # "down" /\ eng.last = None => snap = {}

ClockInv == StartsEmpty /\ AgesAreBars /\ SavedAgesAreBars /\ NothingIsSavedFirst

(* The minute an order was placed in is written once.                       *)
LEMMA PlacedIsKept ==
  ASSUME TypeInv, [Next]_vars
  PROVE  \A r \in Rows : r # nextRow => journal'[r].placed = journal[r].placed
<1> DEFINE Kept == \A r \in Rows : r # nextRow => journal'[r].placed = journal[r].placed
<1> USE DEF durable, loops, wallet, world
<1>0. /\ journal \in [Rows -> Row] /\ eng.orders \subseteq Order /\ visit \subseteq Order
      /\ \A o \in Order : o.row \in 0..MaxRows
  BY DEF TypeInv, TypeOK, Order, Engine
<1>marked. \A r \in 0..MaxRows, status \in Status \cup {"discarded_restart"} :
             journal' = Marked(r, status) => Kept
  BY <1>0 DEF Marked, Row
<1>judged. \A r \in 0..MaxRows, verdict \in {"entered", "rejected"} :
             journal' = Judged(r, verdict) => Kept
  BY <1>0 DEF Judged, Row
<1>same. journal' = journal => Kept
  OBVIOUS
<1>settled. ASSUME NEW o \in visit, NEW o2 \in Order, NEW ok \in BOOLEAN, Settled(o, o2, ok)
            PROVE  Kept
  <2>1. o2.row \in 0..MaxRows /\ o2.status \in Status
    BY DEF Order
  <2> QED
    BY <1>marked, <1>same, <1>settled, <2>1 DEF Settled
<1>1. ASSUME NEW o \in visit, NEW ok \in BOOLEAN,
             CancelInvalidated(o, ok) \/ CommitOrder(o, ok) \/ EndOrder(o, ok) \/ FillOrder(o, ok)
      PROVE  Kept
  <2>1. o \in Order /\ o.elapsed + 1 \in Int
    BY <1>0 DEF Order
  <2>2. \A status \in Status :
          /\ [o EXCEPT !.status = status] \in Order
          /\ [o EXCEPT !.elapsed = o.elapsed + 1, !.status = status] \in Order
    BY <2>1 DEF Order
  <2>3. CASE CancelInvalidated(o, ok) \/ EndOrder(o, ok)
    <3>1. \E o2 \in Order : Settled(o, o2, ok)
      BY <2>1, <2>2, <2>3 DEF CancelInvalidated, EndOrder, Status
    <3> QED
      BY <1>settled, <3>1
  <2>4. CASE CommitOrder(o, ok)
    <3> DEFINE status == IF o.elapsed + 1 >= LimitValidBars THEN "cancelled_expired" ELSE o.status
               o2 == IF ~Pending(o) THEN o
                     ELSE [o EXCEPT !.elapsed = o.elapsed + 1, !.status = status]
    <3>1. o2 \in Order /\ Settled(o, o2, ok)
      BY <2>1, <2>2, <2>4 DEF Status, Order, CommitOrder
    <3> QED
      BY <1>settled, <3>1
  <2>5. CASE FillOrder(o, ok)
    <3>1. \/ \E o2 \in Order : Settled(o, o2, ok)
          \/ journal' = Marked(o.row, "filled")
      BY <2>2, <2>5 DEF FillOrder, Status
    <3> QED
      BY <1>0, <1>marked, <1>settled, <3>1 DEF Status
  <2> QED
    BY <1>1, <2>3, <2>4, <2>5
<1>2. ASSUME NEW ok \in BOOLEAN, NEW o \in visit, RecordEntryResult(o, ok) \/ Fallback(o, ok)
      PROVE  Kept
  <2>1. \/ journal' = journal
        \/ \E verdict \in {"entered", "rejected"} : journal' = Judged(o.row, verdict)
    BY <1>2 DEF RecordEntryResult, Fallback
  <2> QED
    BY <1>0, <1>judged, <1>same, <2>1
<1>3. ASSUME NEW ok \in BOOLEAN, NEW z \in Zones, ArmZone(z, ok) PROVE Kept
  BY <1>0, <1>3 DEF ArmZone
<1>4. ASSUME NEW o \in eng.orders, ExpireOverdue(o) PROVE Kept
  BY <1>0, <1>4, <1>marked DEF ExpireOverdue, Status
<1>5. CASE DiscardStale \/ \E r \in Rows : ExpireStale(r)
  BY <1>0, <1>5 DEF DiscardStale, ExpireStale, Row
<1>7. ASSUME NEW o \in visit, NEW ok \in BOOLEAN, DiscardOrder(o, ok) PROVE Kept
  BY <1>0, <1>7, <1>marked, <1>same DEF DiscardOrder
<1>6. ASSUME NEW ok \in BOOLEAN,
             \/ Tick \/ BeginMinute \/ BeginTail \/ EndFeed \/ EndCommit \/ EndArm \/ EndPrice
             \/ CheckExits \/ EndPoll \/ RecordOpen(ok) \/ RemoveOpen(ok) \/ SaveState(ok)
             \/ Boot \/ Crash \/ UNCHANGED vars
             \/ \E o \in visit : KeepOrder(o) \/ Judge(o)
             \/ \E o \in fills : TakeFill(o, ok)
             \/ \E p \in closing : PersistTrade(p, ok)
      PROVE  Kept
  BY <1>same, <1>6 DEF Tick, BeginMinute, BeginTail, BeginFeed, EndFeed, EndCommit, EndArm,
     EndPrice, CheckExits, EndPoll, RecordOpen, RemoveOpen, SaveState, Boot, Crash, vars, KeepOrder,
     Judge, TakeFill, PersistTrade
<1> QED
  BY <1>1, <1>2, <1>3, <1>4, <1>5, <1>6, <1>7 DEF Next, Poll, Start

(* A step that leaves the engine and the cursor alone.                      *)
LEMMA ClockSteady ==
  ASSUME FaultlessInv, ClockInv, [Next]_vars, UNCHANGED <<eng, cursor, snap>>,
         Consumed' = Consumed, pc # "commit", pc' # "commit",
         pc \in AfterPrice <=> pc' \in AfterPrice,
         \/ minute' = minute
         \/ pc' \notin AfterPrice /\ (minute' = None \/ cursor = None \/ minute' = cursor + 1),
         pc = "down" => pc' = "down"
  PROVE  ClockInv'
<1>1. \A o \in eng.orders : o.row \in Rows /\ o.row # nextRow
  BY TimeAssumption DEF FaultlessInv, OrdersInJournal, TypeInv, TypeOK, Engine, Order, Rows
<1>2. \A s \in snap : \A o \in s.eng.orders : o.row \in Rows /\ o.row # nextRow
  <2>1. \A s \in snap : s.eng.orders \subseteq Order
    BY DEF FaultlessInv, TypeInv, TypeOK, Engine
  <2> QED
    BY <2>1, TimeAssumption DEF FaultlessInv, SnapshotInJournal, TypeInv, TypeOK, Order, Rows
<1>3. \A r \in Rows : r # nextRow => journal'[r].placed = journal[r].placed
  BY PlacedIsKept DEF FaultlessInv
<1>4. StartsEmpty'
  BY DEF ClockInv, StartsEmpty, Bar
<1>5. AgesAreBars'
  BY <1>1, <1>3 DEF ClockInv, AgesAreBars, Counted, Pending, Bar
<1>6. SavedAgesAreBars'
  BY <1>2, <1>3 DEF ClockInv, SavedAgesAreBars, Bar
<1>7. NothingIsSavedFirst'
  BY DEF ClockInv, NothingIsSavedFirst
<1> QED
  BY <1>4, <1>5, <1>6, <1>7 DEF ClockInv

(* When no write raises, every step keeps the clocks and the ages right.    *)
LEMMA ClockStep ==
  ASSUME MaxFailures = 0, FaultlessInv, MemoryInv, MarketInv, ClockInv, [Next]_vars
  PROVE  ClockInv'
<1> USE DEF durable, loops, wallet, world
<1>0. /\ eng \in Engine /\ eng.orders \subseteq Order /\ eng.forming \in Int /\ eng.last \in Int
      /\ visit \subseteq Order /\ minute \in Int /\ cursor \in Int /\ nextRow \in Nat
      /\ journal \in [Rows -> Row]
      /\ \A o \in Order : o.row \in 0..MaxRows /\ o.placed \in Int /\ o.elapsed \in Int
      /\ LimitValidBars \in Nat \ {0}
  BY TimeAssumption DEF FaultlessInv, TypeInv, TypeOK, Engine, Order
<1>bar. Bar(minute) \in Int /\ Bar(eng.last) \in Int /\ \A o \in Order : Bar(o.placed) \in Int
  BY <1>0, BarType
<1>ok. \A ok \in BOOLEAN : Attempt(ok) => ok
  BY DEF Attempt, FaultlessInv, NoFailure
<1>rows. \A o \in eng.orders : o.row \in Rows /\ o.row # nextRow
  BY <1>0, TimeAssumption DEF FaultlessInv, OrdersInJournal, Rows
<1>saved. \A s \in snap : \A o \in s.eng.orders : o.row \in Rows /\ o.row # nextRow
  <2>1. \A s \in snap : s.eng.orders \subseteq Order
    BY DEF FaultlessInv, TypeInv, TypeOK, Engine
  <2> QED
    BY <1>0, <2>1, TimeAssumption DEF FaultlessInv, SnapshotInJournal, Rows
<1>placed. \A r \in Rows : r # nextRow => journal'[r].placed = journal[r].placed
  BY PlacedIsKept DEF FaultlessInv
<1>kept. snap' \subseteq snap => SavedAgesAreBars'
  BY <1>saved, <1>placed DEF ClockInv, SavedAgesAreBars, Bar
<1>nothing. snap' = snap /\ eng'.last \in {eng.last, minute} /\ (eng'.last # eng.last => minute # None)
              /\ pc # "down" => NothingIsSavedFirst'
  BY DEF ClockInv, NothingIsSavedFirst
<1>discard. ~\E ok \in BOOLEAN, o \in visit : DiscardOrder(o, ok)
  BY NothingIsDiscarded
<1>pending. pc \notin {"feed", "commit", "price"} => \A o \in eng.orders : Pending(o)
  BY DEF FaultlessInv, LoopsAreOrderly
<1>next. Boundary /\ pc \notin AfterPrice \cup {"arm", "price"} => Bar(minute) = eng.forming + 1
  BY BoundaryIsNextBar DEF FaultlessInv
<1>1. CASE Tick
  <2>1. UNCHANGED <<eng, cursor, snap, pc, minute>> /\ pc \in {"idle", "down"}
    BY <1>1 DEF Tick
  <2>2. Consumed' = Consumed
    BY <2>1 DEF Consumed
  <2> QED
    BY <2>1, <2>2, ClockSteady
<1>2. CASE BeginMinute \/ BeginTail
  <2>1. /\ UNCHANGED <<eng, cursor, snap>> /\ pc = "idle" /\ pc' = "feed"
        /\ minute' = minute \/ minute' = NextMinute
    BY <1>2 DEF BeginMinute, BeginTail, BeginFeed
  <2>2. Consumed' = Consumed
    BY <2>1 DEF Consumed
  <2> QED
    BY <2>1, <2>2, ClockSteady DEF AfterPrice, NextMinute
<1>3. CASE EndArm \/ \E o \in visit : KeepOrder(o)
  <2>1. /\ UNCHANGED <<eng, cursor, snap, minute>> /\ pc \in {"arm", "price"} /\ pc' = "price"
    BY <1>3 DEF EndArm, KeepOrder
  <2>2. Consumed' = Consumed
    BY <2>1 DEF Consumed
  <2> QED
    BY <2>1, <2>2, ClockSteady DEF AfterPrice
<1>4. ASSUME NEW ok \in BOOLEAN,
             \/ CheckExits \/ RecordOpen(ok) \/ RemoveOpen(ok)
             \/ \E o \in visit : Judge(o) \/ RecordEntryResult(o, ok) \/ Fallback(o, ok)
             \/ \E o \in fills : TakeFill(o, ok)
             \/ \E p \in closing : PersistTrade(p, ok)
      PROVE  ClockInv'
  <2>0. ~\E o \in visit : Fallback(o, ok)
    BY DEF Fallback, FaultlessInv, NoFailure
  <2>1. /\ UNCHANGED <<eng, cursor, snap, minute>> /\ pc \in AfterPrice /\ pc' \in AfterPrice
    BY <1>4, <1>ok, <2>0 DEF CheckExits, RecordOpen, RemoveOpen, Judge, RecordEntryResult, TakeFill,
       PersistTrade, Settle, AfterPrice
  <2>2. Consumed' = Consumed /\ {pc, pc'} \cap {"commit", "down"} = {}
    BY <2>1 DEF Consumed, AfterPrice
  <2> QED
    BY <2>1, <2>2, ClockSteady
<1>5. CASE EndFeed
  <2> DEFINE h == IF FeedTarget > eng.htf THEN FeedTarget ELSE eng.htf
             alive == {o \in eng.orders : o.zone \notin Gone(h)}
  <2>1. /\ pc = "feed" /\ pc' \in {"overdue", "commit"} /\ eng'.orders = alive
        /\ visit' = (IF Boundary THEN alive ELSE {})
        /\ eng'.forming = eng.forming /\ eng'.last = eng.last /\ eng'.htf = h
        /\ UNCHANGED <<journal, cursor, minute, snap, tape, past, now>>
    BY <1>0, <1>5 DEF EndFeed, Engine
  <2>2. eng'.last # None => eng'.htf >= 0
    <3>1. FeedTarget \in Int
      <4>1. Closed \in Nat
        BY TimeAssumption DEF Closed, FaultlessInv, TypeInv, TypeOK
      <4>2. Bar(Closed) \in Int
        BY <4>1, BarType
      <4> QED
        BY <1>bar, <4>2 DEF FeedTarget, LastBar
    <3>2. eng.htf \in Int
      BY <1>0 DEF Engine
    <3> QED
      BY <2>1, <3>1, <3>2 DEF ClockInv, StartsEmpty
  <2>3. Boundary' <=> Boundary
    BY <2>1 DEF Boundary, Bar
  <2>4. StartsEmpty'
    BY <2>1, <2>2 DEF ClockInv, StartsEmpty, Consumed, AfterPrice, Bar
  <2>5. AgesAreBars'
    BY <2>1, <2>3 DEF ClockInv, AgesAreBars, Consumed, Counted, Pending, Bar
  <2> QED
    BY <1>kept, <1>nothing, <2>1, <2>4, <2>5 DEF ClockInv
<1>6. CASE EndCommit
  <2>1. /\ pc = "commit" /\ visit = {} /\ pc' = "arm" /\ minute # None
        /\ eng'.forming = Bar(minute) /\ eng'.last = eng.last /\ eng'.htf = eng.htf
        /\ eng'.orders = (IF Boundary THEN {o \in eng.orders : Pending(o)} ELSE eng.orders)
        /\ UNCHANGED <<journal, cursor, minute, snap>>
    <3>1. ~Skipped
      BY <1>6, NothingIsSkipped DEF EndCommit, FaultlessInv, AfterPrice
    <3> QED
      BY <1>0, <1>6, <3>1 DEF EndCommit, Engine, FaultlessInv, TypeInv
  <2>2. StartsEmpty'
    BY <2>1 DEF ClockInv, StartsEmpty, Consumed, AfterPrice, Bar
  <2>3. ASSUME NEW o \in eng'.orders
        PROVE  /\ o.placed = journal'[o.row].placed /\ o.placed <= minute
               /\ Pending(o) => o.elapsed = Bar(minute) - Bar(o.placed) /\ o.elapsed < LimitValidBars
    <3>1. o \in eng.orders /\ o \in Order
      BY <1>0, <2>1
    <3>2. eng.last # None /\ minute = eng.last + 1 /\ eng.forming # None
      <4>1. eng.last # None
        BY <2>1, <3>1 DEF ClockInv, StartsEmpty, Consumed
      <4>2. minute = eng.last + 1 /\ eng.forming = Bar(eng.last)
        BY <2>1, <4>1 DEF ClockInv, StartsEmpty, Consumed, AfterPrice, TimesAgree, FaultlessInv
      <4>3. eng.last >= 0
        <5>1. minute \in DOMAIN tape
          BY <2>1 DEF FaultlessInv, TypeInv
        <5>2. minute >= 0
          BY <5>1 DEF FaultlessInv, TypeInv, TypeOK
        <5> QED
          BY <1>0, <4>1, <4>2, <5>2 DEF None
      <4>4. 0 <= Bar(eng.last)
        BY <1>0, <4>3, TimeAssumption, BarHasBegun
      <4> QED
        BY <1>bar, <4>1, <4>2, <4>4 DEF None
    <3>3. o.placed = journal[o.row].placed /\ o.placed <= minute
      BY <1>0, <2>1, <3>1, <3>2 DEF ClockInv, AgesAreBars, Consumed
    <3>4. Pending(o) => o.elapsed = Bar(minute) - Bar(o.placed) /\ o.elapsed < LimitValidBars
      <4>1. Boundary \/ Bar(minute) = eng.forming
        BY <2>1, <3>2 DEF Boundary
      <4> QED
        BY <2>1, <3>1, <4>1 DEF ClockInv, AgesAreBars, Counted
    <3> QED
      BY <2>1, <3>3, <3>4
  <2>4. AgesAreBars'
    BY <2>1, <2>3 DEF AgesAreBars, Consumed, Counted, Pending, Bar
  <2> QED
    BY <1>kept, <1>nothing, <2>1, <2>2, <2>4 DEF ClockInv
<1>7. ASSUME NEW z \in Zones, NEW ok \in BOOLEAN, ArmZone(z, ok) PROVE ClockInv'
  <2> DEFINE o == [row |-> nextRow, zone |-> z, placed |-> minute, elapsed |-> 0,
                   status |-> "pending"]
  <2>1. /\ pc = "arm" /\ pc' = "arm" /\ nextRow \in Rows
        /\ eng'.orders = eng.orders \cup {o}
        /\ eng'.forming = eng.forming /\ eng'.last = eng.last /\ eng'.htf = eng.htf
        /\ journal'[nextRow].placed = minute
        /\ UNCHANGED <<cursor, minute, snap>>
    <3>1. nextRow \in Rows
      BY <1>0, <1>7, TimeAssumption DEF ArmZone, Rows, FaultlessInv, TypeInv, TypeOK
    <3> QED
      BY <1>0, <1>7, <1>ok, <3>1 DEF ArmZone, Engine
  <2>2. minute # None
    BY <2>1 DEF MemoryInv, InMinute
  <2>3. StartsEmpty'
    BY <2>1, <2>2 DEF ClockInv, StartsEmpty, Consumed, AfterPrice, Bar
  <2>4. /\ o.row = nextRow /\ o.placed = minute /\ o.elapsed = 0
        /\ eng.forming - Bar(o.placed) = 0
    BY <1>bar, <2>1, <2>2 DEF ClockInv, StartsEmpty, Consumed, TimesAgree, FaultlessInv
  <2> HIDE DEF o
  <2>5. \A p \in eng.orders :
          /\ p.placed = journal'[p.row].placed /\ p.placed <= minute
          /\ Pending(p) => p.elapsed = eng.forming - Bar(p.placed) /\ p.elapsed < LimitValidBars
    BY <1>rows, <1>placed, <2>1 DEF ClockInv, AgesAreBars, Consumed, Counted
  <2>6. AgesAreBars'
    BY <1>0, <2>1, <2>4, <2>5 DEF AgesAreBars, Consumed, Counted, Pending, Bar
  <2> QED
    BY <1>kept, <1>nothing, <2>1, <2>3, <2>6 DEF ClockInv
<1>8. CASE EndPrice
  <2>1. /\ pc = "price" /\ pc' = "handle" /\ minute # None
        /\ eng'.orders \subseteq eng.orders
        /\ eng'.forming = eng.forming /\ eng'.last = minute /\ eng'.htf = eng.htf
        /\ UNCHANGED <<journal, cursor, minute, snap>>
    BY <1>0, <1>8 DEF EndPrice, Engine, MemoryInv, InMinute
  <2>2. StartsEmpty'
    BY <2>1 DEF ClockInv, StartsEmpty, Consumed, AfterPrice, Bar, MemoryInv, InMinute
  <2>3. AgesAreBars'
    BY <2>1 DEF ClockInv, AgesAreBars, Consumed, Counted, Pending, Bar
  <2> QED
    BY <1>kept, <1>nothing, <2>1, <2>2, <2>3 DEF ClockInv
<1>swapped. ASSUME NEW o \in visit, NEW o2 \in Order, o2.row = o.row, o2.placed = o.placed,
                   pc \in {"feed", "commit", "price"},
                   eng' = Swap(o, o2), visit' = visit \ {o},
                   \/ ~Pending(o2)
                   \/ /\ pc = "commit" /\ o2.elapsed = o.elapsed + 1
                      /\ o.elapsed + 1 < LimitValidBars,
                   UNCHANGED <<pc, minute, cursor, snap>>
            PROVE  ClockInv'
  <2>1. /\ o \in eng.orders /\ Pending(o)
        /\ eng'.orders = (eng.orders \ {o}) \cup {o2}
        /\ eng'.forming = eng.forming /\ eng'.last = eng.last /\ eng'.htf = eng.htf
    BY <1>0, <1>swapped DEF FaultlessInv, LoopsAreOrderly, Swap, Engine
  <2>2. StartsEmpty'
    BY <1>swapped, <2>1 DEF ClockInv, StartsEmpty, Consumed, AfterPrice, Bar
  <2>3. Boundary' <=> Boundary
    BY <1>swapped, <2>1 DEF Boundary, Bar
  <2>4. o2 \notin visit'
    BY <1>swapped, <2>1 DEF FaultlessInv, LoopsAreOrderly, OrdersInJournal
  <2>5. ASSUME Pending(o2)
        PROVE  Counted(o2)' /\ o2.elapsed = Bar(minute) - Bar(o2.placed) /\ o2.elapsed < LimitValidBars
    <3>1. pc = "commit" /\ Boundary
      BY <1>swapped, <2>5 DEF FaultlessInv, LoopsAreOrderly
    <3>2. o.elapsed = eng.forming - Bar(o.placed)
      BY <1>swapped, <2>1 DEF ClockInv, AgesAreBars, Counted
    <3>3. Bar(minute) = eng.forming + 1
      BY <1>next, <3>1 DEF AfterPrice
    <3> QED
      BY <1>0, <1>bar, <1>swapped, <2>3, <2>4, <2>5, <3>1, <3>2, <3>3 DEF Counted
  <2>6. \A p \in eng'.orders : p.placed = journal'[p.row].placed /\ p.placed <= Consumed
    BY <1>rows, <1>placed, <1>swapped, <2>1 DEF ClockInv, AgesAreBars
  <2>7. \A p \in eng'.orders : Pending(p) =>
          /\ p.elapsed = (IF Counted(p)' THEN Bar(minute) ELSE eng.forming) - Bar(p.placed)
          /\ p.elapsed < LimitValidBars
    <3>1. \A p \in eng.orders \ {o} : Counted(p)' <=> Counted(p)
      BY <1>swapped, <2>3 DEF Counted
    <3> QED
      BY <2>1, <2>5, <3>1 DEF ClockInv, AgesAreBars
  <2>8. Consumed' = Consumed
    BY <1>swapped, <2>1 DEF Consumed
  <2>9. AgesAreBars'
    BY <1>swapped, <2>1, <2>6, <2>7, <2>8 DEF AgesAreBars, Pending, Bar
  <2> QED
    BY <1>kept, <1>nothing, <1>swapped, <2>1, <2>2, <2>9 DEF ClockInv
<1>9. ASSUME NEW o \in visit, NEW ok \in BOOLEAN,
             CancelInvalidated(o, ok) \/ CommitOrder(o, ok) \/ EndOrder(o, ok) \/ FillOrder(o, ok)
      PROVE  ClockInv'
  <2>1. /\ pc \in {"feed", "commit", "price"} /\ UNCHANGED <<cursor, snap>>
    BY <1>9 DEF CancelInvalidated, CommitOrder, EndOrder, FillOrder
  <2>2. o \in Order /\ Pending(o) /\ o.status # "filled"
    BY <1>0, <2>1 DEF FaultlessInv, LoopsAreOrderly, Pending
  <2>settled. \A o2 : Settled(o, o2, ok) => /\ eng' = Swap(o, o2) /\ visit' = visit \ {o}
                                            /\ UNCHANGED <<pc, minute>>
    BY <1>ok, <2>2 DEF Settled
  <2>3. \A status \in Status :
          /\ [o EXCEPT !.status = status] \in Order
          /\ [o EXCEPT !.elapsed = o.elapsed + 1, !.status = status] \in Order
    <3>1. o.elapsed + 1 \in Int
      BY <1>0, <2>2
    <3> QED
      BY <2>2, <3>1 DEF Order
  <2>4. CASE CommitOrder(o, ok)
    <3> DEFINE status == IF o.elapsed + 1 >= LimitValidBars THEN "cancelled_expired" ELSE o.status
               o2 == [o EXCEPT !.elapsed = o.elapsed + 1, !.status = status]
    <3>1. Settled(o, o2, ok) /\ pc = "commit"
      BY <2>2, <2>4 DEF CommitOrder
    <3>2. /\ o2 \in Order /\ o2.row = o.row /\ o2.placed = o.placed
          /\ ~Pending(o2) \/ (o2.elapsed = o.elapsed + 1 /\ o.elapsed + 1 < LimitValidBars)
      <4>1. status \in Status /\ (status = "pending" => o.elapsed + 1 < LimitValidBars)
        BY <1>0, <2>2 DEF Status, Pending
      <4>2. o2.row = o.row /\ o2.placed = o.placed /\ o2.elapsed = o.elapsed + 1
            /\ o2.status = status
        BY <2>2 DEF Order
      <4> QED
        BY <2>3, <4>1, <4>2 DEF Pending
    <3> QED
      BY <1>swapped, <2>1, <2>settled, <3>1, <3>2
  <2>5. CASE CancelInvalidated(o, ok) \/ EndOrder(o, ok) \/ FillOrder(o, ok)
    <3>1. PICK status \in Status \ {"pending"} :
            /\ eng' = Swap(o, [o EXCEPT !.status = status]) /\ visit' = visit \ {o}
            /\ UNCHANGED <<pc, minute>>
      BY <2>2, <2>5, <2>settled DEF CancelInvalidated, EndOrder, FillOrder, Status
    <3> DEFINE o2 == [o EXCEPT !.status = status]
    <3>2. o2 \in Order /\ o2.row = o.row /\ o2.placed = o.placed /\ ~Pending(o2)
      BY <2>2, <2>3 DEF Order, Pending
    <3> QED
      BY <1>swapped, <2>1, <3>1, <3>2
  <2> QED
    BY <1>9, <2>4, <2>5
<1>snapshot. ASSUME eng.last # None, pc \notin {"feed", "commit", "arm", "price"}, UNCHANGED journal
             PROVE  \A s \in Snapshot :
                      /\ s.cursor = s.eng.last /\ s.cursor # None
                      /\ s.eng.forming = Bar(s.cursor) /\ s.eng.htf >= 0
                      /\ \A o \in s.eng.orders :
                           /\ o.placed = journal'[o.row].placed /\ o.placed <= s.cursor
                           /\ o.elapsed = s.eng.forming - Bar(o.placed)
                           /\ o.elapsed < LimitValidBars
  <2>1. ASSUME NEW s \in Snapshot
        PROVE  /\ s.cursor = eng.last /\ s.eng.last = eng.last /\ s.eng.forming = eng.forming
               /\ s.eng.htf = eng.htf
               /\ \A o \in s.eng.orders : \E p \in eng.orders :
                    o.row = p.row /\ o.placed = p.placed /\ o.elapsed = p.elapsed
    <3> DEFINE S == {[o EXCEPT !.status = "pending"] : o \in eng.orders}
    <3>1. /\ s.cursor = eng.last /\ s.eng.last = eng.last /\ s.eng.forming = eng.forming
          /\ s.eng.htf = eng.htf /\ s.eng.orders = S
      BY <1>0 DEF Snapshot, Engine
    <3>2. \A o \in S : \E p \in eng.orders :
            o.row = p.row /\ o.placed = p.placed /\ o.elapsed = p.elapsed
      BY <1>0 DEF Order
    <3> QED
      BY <3>1, <3>2
  <2>2. \A p \in eng.orders :
          /\ p.placed = journal'[p.row].placed /\ p.placed <= eng.last
          /\ p.elapsed = eng.forming - Bar(p.placed) /\ p.elapsed < LimitValidBars
    BY <1>snapshot, <1>pending DEF ClockInv, AgesAreBars, Consumed, Counted
  <2>3. eng.forming = Bar(eng.last) /\ eng.htf >= 0
    BY <1>snapshot DEF ClockInv, StartsEmpty, Consumed, TimesAgree, FaultlessInv
  <2> QED
    BY <1>snapshot, <2>1, <2>2, <2>3
<1>10. ASSUME NEW ok \in BOOLEAN, SaveState(ok) PROVE ClockInv'
  <2>1. /\ pc = "save" /\ pc' = "idle" /\ cursor' = minute /\ minute' = None
        /\ UNCHANGED <<eng, journal>>
        /\ Store
    BY <1>10, <1>ok DEF SaveState
  <2>2. minute = eng.last /\ eng.last # None
    BY <2>1 DEF ClockInv, StartsEmpty, MemoryInv, AfterPrice, TimesAgree, FaultlessInv
  <2>3. snap' = Snapshot
    BY <2>1, StoreWrites DEF MemoryInv
  <2>4. StartsEmpty'
    BY <2>1, <2>2 DEF ClockInv, StartsEmpty, Consumed, AfterPrice, Bar
  <2>5. AgesAreBars'
    BY <2>1 DEF ClockInv, AgesAreBars, Consumed, Counted, Pending, Bar
  <2>6. SavedAgesAreBars'
    BY <1>snapshot, <2>1, <2>2, <2>3 DEF SavedAgesAreBars, Bar
  <2>7. NothingIsSavedFirst'
    BY <2>1, <2>2 DEF NothingIsSavedFirst
  <2> QED
    BY <2>4, <2>5, <2>6, <2>7 DEF ClockInv
<1>11. CASE EndPoll
  <2>1. /\ pc = "overdue" /\ pc' = "idle" /\ UNCHANGED <<eng, journal, cursor, minute>>
        /\ IF eng.last # None /\ eng.htf # None THEN Store ELSE UNCHANGED snap
    BY <1>11 DEF EndPoll
  <2>2. IF eng.last # None THEN snap' = Snapshot ELSE snap' = snap
    BY <2>1, StoreWrites DEF MemoryInv, ClockInv, StartsEmpty, None
  <2>3. StartsEmpty'
    BY <2>1 DEF ClockInv, StartsEmpty, Consumed, AfterPrice, Bar
  <2>4. AgesAreBars'
    BY <2>1 DEF ClockInv, AgesAreBars, Consumed, Counted, Pending, Bar
  <2>5. SavedAgesAreBars'
    BY <1>kept, <1>snapshot, <2>1, <2>2 DEF SavedAgesAreBars, Bar
  <2>6. NothingIsSavedFirst'
    BY <2>1, <2>2 DEF ClockInv, NothingIsSavedFirst
  <2> QED
    BY <2>3, <2>4, <2>5, <2>6 DEF ClockInv
<1>12. ASSUME NEW o \in eng.orders, ExpireOverdue(o) PROVE ClockInv'
  <2>1. /\ pc = "overdue" /\ pc' = "overdue" /\ UNCHANGED <<cursor, minute, snap>>
        /\ eng'.orders \subseteq eng.orders
        /\ eng'.forming = eng.forming /\ eng'.last = eng.last /\ eng'.htf = eng.htf
    BY <1>0, <1>12 DEF ExpireOverdue, Engine
  <2>2. StartsEmpty'
    BY <2>1 DEF ClockInv, StartsEmpty, Consumed, AfterPrice, Bar
  <2>3. AgesAreBars'
    BY <1>rows, <1>placed, <2>1 DEF ClockInv, AgesAreBars, Consumed, Counted, Pending, Bar
  <2> QED
    BY <1>kept, <1>nothing, <2>1, <2>2, <2>3 DEF ClockInv
<1>empty. eng' = NoEngine /\ cursor' = None /\ minute' = None /\ pc' \in {"down", "boot"}
            => StartsEmpty' /\ AgesAreBars'
  BY DEF StartsEmpty, AgesAreBars, Consumed, NoEngine, AfterPrice, None
<1>13. CASE Boot
  <2>1. minute' = None /\ pc' = "boot" /\ UNCHANGED journal
    BY <1>13 DEF Boot, FaultlessInv, TypeInv
  <2>2. CASE cursor' = None /\ eng' = NoEngine /\ snap' = {}
    BY <1>kept, <1>empty, <2>1, <2>2 DEF ClockInv, NothingIsSavedFirst
  <2>3. ASSUME NEW s \in snap, cursor' = s.cursor, eng' = Restored(s), snap' = snap
        PROVE  ClockInv'
    <3>1. /\ eng'.orders \subseteq s.eng.orders
          /\ eng'.forming = s.eng.forming /\ eng'.last = s.eng.last /\ eng'.htf = s.eng.htf
      BY <2>3 DEF Restored, FaultlessInv, TypeInv, TypeOK, Engine
    <3>2. StartsEmpty' /\ NothingIsSavedFirst'
      BY <2>1, <2>3, <3>1 DEF ClockInv, SavedAgesAreBars, StartsEmpty, NothingIsSavedFirst, Consumed,
         AfterPrice, Bar, TimesAgree, FaultlessInv
    <3>3. AgesAreBars'
      BY <2>1, <2>3, <3>1 DEF ClockInv, SavedAgesAreBars, AgesAreBars, Consumed, Counted, Pending,
         Bar, TimesAgree, FaultlessInv
    <3> QED
      BY <1>kept, <2>3, <3>2, <3>3 DEF ClockInv
  <2> QED
    BY <1>13, <2>2, <2>3 DEF Boot
<1>14. CASE DiscardStale \/ \E r \in Rows : ExpireStale(r)
  <2>1. /\ pc = "boot" /\ pc' \in {"boot", "idle"} /\ UNCHANGED <<eng, cursor, minute, snap>>
    BY <1>14 DEF DiscardStale, ExpireStale
  <2>2. Consumed' = Consumed
    BY <2>1 DEF Consumed
  <2> QED
    BY <2>1, <2>2, ClockSteady DEF AfterPrice
<1>15. CASE Crash
  <2>1. eng' = NoEngine /\ cursor' = None /\ minute' = None /\ pc' = "down" /\ snap' = snap
    BY <1>15 DEF Crash
  <2> QED
    BY <1>empty, <1>kept, <2>1 DEF ClockInv, NothingIsSavedFirst
<1>16. CASE UNCHANGED vars
  <2>1. UNCHANGED <<eng, cursor, snap, pc, minute, visit, journal>>
    BY <1>16 DEF vars
  <2> QED
    BY <2>1 DEF ClockInv, StartsEmpty, AgesAreBars, SavedAgesAreBars, NothingIsSavedFirst, Consumed,
       Counted, Pending, Boundary, Bar
<1> QED
  BY <1>1, <1>2, <1>3, <1>4, <1>5, <1>6, <1>7, <1>8, <1>9, <1>10, <1>11, <1>12, <1>13, <1>14,
     <1>15, <1>16, <1>discard DEF Next, Poll, Start

(* A first start has consumed and saved nothing.                            *)
LEMMA InitClock == Init => ClockInv
  BY DEF Init, NoEngine, ClockInv, StartsEmpty, AgesAreBars, SavedAgesAreBars, NothingIsSavedFirst,
     Consumed, AfterPrice, None

OrdersInv == FaultlessInv /\ MemoryInv /\ MarketInv /\ TrackInv /\ ClockInv

(* When no write raises, every step of the runner keeps all of it.          *)
LEMMA OrdersInvStep ==
  ASSUME MaxFailures = 0
  PROVE  /\ Init => OrdersInv
         /\ OrdersInv /\ [Next]_vars => OrdersInv'
<1>1. Init => OrdersInv
  <2>1. Init => MemoryInv
    BY TimeAssumption DEF Init, NoEngine, None, MemoryInv, InMinute, AfterPrice
  <2>2. Init => TrackInv
    BY DEF Init, TrackInv, RowsAreTracked, ZonesAreAlive, DroppedHasEnded, VisitsOrders, NoEngine,
       PendingRows
  <2> QED
    BY <2>1, <2>2, InitFaultless, InitMarket, InitClock DEF OrdersInv
<1>2. OrdersInv /\ [Next]_vars => OrdersInv'
  <2> SUFFICES ASSUME OrdersInv, [Next]_vars PROVE OrdersInv'
    OBVIOUS
  <2>1. FaultlessInv' /\ TypeInv
    BY FaultlessStep DEF OrdersInv, FaultlessInv
  <2>2. MemoryInv' /\ MarketInv' /\ TrackInv'
    BY <2>1, MemoryStep, MarketStep, TrackStep DEF OrdersInv
  <2>3. ClockInv'
    BY ClockStep DEF OrdersInv
  <2> QED
    BY <2>1, <2>2, <2>3 DEF OrdersInv
<1> QED
  BY <1>1, <1>2

(* While no write raises, the bars an order has waited are those that have  *)
(* begun since it was placed, however often the process died in between.    *)
THEOREM AgeIsCountedInBars ==
  ASSUME MaxFailures = 0
  PROVE  Spec => []ElapsedCountsBars
<1>1. OrdersInv => ElapsedCountsBars
  BY DEF OrdersInv, FaultlessInv, LoopsAreOrderly, ClockInv, AgesAreBars, Counted,
     ElapsedCountsBars
<1> QED
  BY <1>1, OrdersInvStep, PTL DEF Spec

------------------------------------------------------------------------------
(***************************************************************************)
(* How an order ends.                                                      *)
(***************************************************************************)

(* A pending row ends by the loop that visits its order, by the wall clock, *)
(* or by the division of a dead session's rows.                             *)
LEMMA HowARowEnds ==
  ASSUME MaxFailures = 0, FaultlessInv, [Next]_vars, NEW r \in Rows,
         journal[r].status = "pending", journal'[r].status # "pending"
  PROVE  \/ \E o \in visit :
              /\ o \in eng.orders /\ o.row = r /\ Pending(o)
              /\ \/ pc = "feed" /\ journal'[r].status = "cancelled_invalidated"
                 \/ /\ pc = "commit" /\ journal'[r].status = "cancelled_expired"
                    /\ o.elapsed + 1 >= LimitValidBars
                 \/ pc = "price" /\ journal'[r].status \in {"filled", "cancelled_condition_failed"}
         \/ /\ pc = "overdue" /\ journal'[r].status = "cancelled_expired"
            /\ \E o \in eng.orders : o.row = r /\ Overdue(o)
         \/ /\ pc = "boot"
            /\ \/ journal'[r].status = "cancelled_expired" /\ PastDeadline(r)
               \/ journal'[r].status = "discarded_restart"
<1> DEFINE Visits(o) ==
             /\ o \in eng.orders /\ o.row = r /\ Pending(o)
             /\ \/ pc = "feed" /\ journal'[r].status = "cancelled_invalidated"
                \/ /\ pc = "commit" /\ journal'[r].status = "cancelled_expired"
                   /\ o.elapsed + 1 >= LimitValidBars
                \/ pc = "price" /\ journal'[r].status \in {"filled", "cancelled_condition_failed"}
<1> USE DEF durable, loops, wallet, world
<1>discard. ~\E ok \in BOOLEAN, o \in visit : DiscardOrder(o, ok)
  BY NothingIsDiscarded
<1>0. /\ journal \in [Rows -> Row] /\ eng.orders \subseteq Order /\ visit \subseteq Order
      /\ \A o \in Order : o.row \in 0..MaxRows
  BY DEF FaultlessInv, TypeInv, TypeOK, Order, Engine
<1>ok. \A ok \in BOOLEAN : Attempt(ok) => ok
  BY DEF Attempt, FaultlessInv, NoFailure
<1>marked. \A q \in 0..MaxRows, status \in Status :
             journal' = Marked(q, status) => r = q /\ journal'[r].status = status
  BY <1>0 DEF Marked, Row
<1>judged. \A q \in 0..MaxRows, verdict \in {"entered", "rejected"} : journal' # Judged(q, verdict)
  BY <1>0 DEF Judged, Row
<1>same. journal' # journal
  OBVIOUS
<1>1. ASSUME NEW o \in visit, NEW ok \in BOOLEAN,
             CancelInvalidated(o, ok) \/ CommitOrder(o, ok) \/ EndOrder(o, ok) \/ FillOrder(o, ok)
      PROVE  Visits(o)
  <2>1. pc \in {"feed", "commit", "price"}
    BY <1>1 DEF CancelInvalidated, CommitOrder, EndOrder, FillOrder
  <2>2. o \in Order /\ Pending(o) /\ o \in eng.orders /\ o.status = "pending" /\ o.row \in 0..MaxRows
    BY <1>0, <2>1 DEF FaultlessInv, LoopsAreOrderly, Pending
  <2>settled. \A o2 \in Order : Settled(o, o2, ok) /\ o2.row = o.row
                => ~Pending(o2) /\ o.row = r /\ journal'[r].status = o2.status
    <3> SUFFICES ASSUME NEW o2 \in Order, Settled(o, o2, ok), o2.row = o.row
                 PROVE  ~Pending(o2) /\ o.row = r /\ journal'[r].status = o2.status
      OBVIOUS
    <3>1. journal' = IF Pending(o2) THEN journal ELSE Marked(o2.row, o2.status)
      BY <1>ok, <2>2 DEF Settled
    <3>2. o2.status \in Status
      BY DEF Order
    <3> QED
      BY <1>marked, <1>same, <2>2, <3>1, <3>2
  <2>3. o.elapsed \in Int /\ o.elapsed + 1 \in Int
    BY <2>2 DEF Order
  <2>4. CASE CancelInvalidated(o, ok)
    <3> DEFINE o2 == [o EXCEPT !.status = "cancelled_invalidated"]
    <3>1. /\ Settled(o, o2, ok) /\ pc = "feed" /\ o2 \in Order
          /\ o2.row = o.row /\ o2.status = "cancelled_invalidated"
      BY <2>2, <2>4 DEF CancelInvalidated, Order, Status
    <3> QED
      BY <2>2, <2>settled, <3>1
  <2>5. CASE CommitOrder(o, ok)
    <3> DEFINE status == IF o.elapsed + 1 >= LimitValidBars THEN "cancelled_expired" ELSE o.status
               o2 == [o EXCEPT !.elapsed = o.elapsed + 1, !.status = status]
    <3>1. Settled(o, o2, ok) /\ pc = "commit"
      BY <2>2, <2>5 DEF CommitOrder
    <3>2. o2 \in Order /\ o2.row = o.row /\ o2.status = status
      BY <2>2, <2>3 DEF Order, Status
    <3> QED
      BY <2>2, <2>settled, <3>1, <3>2 DEF Pending
  <2>6. CASE EndOrder(o, ok)
    <3> DEFINE o2 == [o EXCEPT !.status = "cancelled_condition_failed"]
    <3>1. /\ Settled(o, o2, ok) /\ pc = "price" /\ o2 \in Order
          /\ o2.row = o.row /\ o2.status = "cancelled_condition_failed"
      BY <2>2, <2>6 DEF EndOrder, Order, Status
    <3> QED
      BY <2>2, <2>settled, <3>1
  <2>7. CASE FillOrder(o, ok)
    <3> DEFINE o2 == [o EXCEPT !.status = "filled"]
    <3>1. pc = "price" /\ o2 \in Order /\ o2.row = o.row /\ o2.status = "filled"
      BY <2>2, <2>7 DEF FillOrder, Order, Status
    <3>2. Settled(o, o2, ok) \/ journal' = Marked(o.row, "filled")
      BY <2>7 DEF FillOrder
    <3> QED
      BY <1>marked, <2>2, <2>settled, <3>1, <3>2 DEF Status
  <2> QED
    BY <1>1, <2>4, <2>5, <2>6, <2>7
<1>2. ASSUME NEW ok \in BOOLEAN, NEW o \in visit, RecordEntryResult(o, ok) \/ Fallback(o, ok)
      PROVE  FALSE
  <2>1. \/ journal' = journal
        \/ \E verdict \in {"entered", "rejected"} : journal' = Judged(o.row, verdict)
    BY <1>2 DEF RecordEntryResult, Fallback
  <2> QED
    BY <1>0, <1>judged, <1>same, <2>1
<1>3. ASSUME NEW ok \in BOOLEAN, NEW z \in Zones, ArmZone(z, ok) PROVE FALSE
  BY <1>0, <1>3, <1>same DEF ArmZone
<1>4. ASSUME NEW o \in eng.orders, ExpireOverdue(o)
      PROVE  pc = "overdue" /\ journal'[r].status = "cancelled_expired" /\ o.row = r /\ Overdue(o)
  BY <1>0, <1>4, <1>marked DEF ExpireOverdue, Status
<1>5. ASSUME DiscardStale \/ \E q \in Rows : ExpireStale(q)
      PROVE  /\ pc = "boot"
             /\ \/ journal'[r].status = "cancelled_expired" /\ PastDeadline(r)
                \/ journal'[r].status = "discarded_restart"
  BY <1>0, <1>5, <1>same DEF DiscardStale, ExpireStale, Row
<1>6. ASSUME NEW ok \in BOOLEAN,
             \/ Tick \/ BeginMinute \/ BeginTail \/ EndFeed \/ EndCommit \/ EndArm \/ EndPrice
             \/ CheckExits \/ EndPoll \/ RecordOpen(ok) \/ RemoveOpen(ok) \/ SaveState(ok)
             \/ Boot \/ Crash \/ UNCHANGED vars
             \/ \E o \in visit : KeepOrder(o) \/ Judge(o)
             \/ \E o \in fills : TakeFill(o, ok)
             \/ \E p \in closing : PersistTrade(p, ok)
      PROVE  FALSE
  BY <1>same, <1>6 DEF Tick, BeginMinute, BeginTail, BeginFeed, EndFeed, EndCommit, EndArm,
     EndPrice, CheckExits, EndPoll, RecordOpen, RemoveOpen, SaveState, Boot, Crash, vars, KeepOrder,
     Judge, TakeFill, PersistTrade
<1> QED
  BY <1>1, <1>2, <1>3, <1>4, <1>5, <1>6, <1>discard DEF Next, Poll, Start

(* The bars counted and the minutes of the deadline are the same time.      *)
LEMMA DeadlineIsABar ==
  ASSUME NEW placed \in Int, NEW m \in Int
  PROVE  m >= Deadline(placed) <=> Bar(m) >= Bar(placed) + LimitValidBars
<1>1. Bar(placed) + LimitValidBars \in Int /\ Bar(m) \in Int /\ BarMinutes \in Int
  BY BarType, TimeAssumption
<1>2. Deadline(placed) \in Int
  BY <1>1 DEF Deadline
<1> QED
  BY <1>1, <1>2, BarHasBegun DEF Deadline

(* While no write raises, an order fills only by a minute of its life, also *)
(* when a restart replays that minute long after the deadline.              *)
THEOREM NoLateFill ==
  ASSUME MaxFailures = 0
  PROVE  Spec => FillsAreTimely
<1>1. ASSUME OrdersInv, [Next]_vars
      PROVE  \A r \in Rows : journal[r].status = "pending" /\ journal'[r].status = "filled"
               => journal[r].placed <= minute /\ minute < Deadline(journal[r].placed)
  <2> SUFFICES ASSUME NEW r \in Rows,
                      journal[r].status = "pending", journal'[r].status = "filled"
               PROVE  journal[r].placed <= minute /\ minute < Deadline(journal[r].placed)
    OBVIOUS
  <2>1. PICK o \in eng.orders : pc = "price" /\ o.row = r /\ Pending(o)
    BY <1>1, HowARowEnds DEF OrdersInv
  <2>2. /\ o.placed \in Int /\ minute \in Int /\ minute # None
        /\ LimitValidBars \in Int /\ Bar(minute) \in Int /\ Bar(o.placed) \in Int
    BY <1>1, <2>1, TimeAssumption, BarType
       DEF OrdersInv, FaultlessInv, TypeInv, TypeOK, Engine, Order, MemoryInv, InMinute
  <2>3. /\ o.placed = journal[r].placed /\ o.placed <= minute
        /\ Bar(minute) - Bar(o.placed) < LimitValidBars
    BY <1>1, <2>1, <2>2 DEF OrdersInv, ClockInv, StartsEmpty, AgesAreBars, Consumed, Counted, TimesAgree, FaultlessInv
  <2>4. ~(minute >= Deadline(o.placed))
    BY <2>2, <2>3, DeadlineIsABar
  <2>5. Deadline(o.placed) \in Int
    BY <2>2, TimeAssumption DEF Deadline
  <2> QED
    BY <2>2, <2>3, <2>4, <2>5
<1> QED
  BY <1>1, OrdersInvStep, PTL DEF Spec, FillsAreTimely

(* While no write raises, no order is recorded as expired before its        *)
(* deadline: counting bars and reading the clock give the same time.        *)
THEOREM NoEarlyExpiry ==
  ASSUME MaxFailures = 0
  PROVE  Spec => ExpiryIsNotEarly
<1>1. ASSUME OrdersInv, [Next]_vars
      PROVE  \A r \in Rows : journal[r].status = "pending" /\ journal'[r].status = "cancelled_expired"
               => now >= Deadline(journal[r].placed)
  <2> SUFFICES ASSUME NEW r \in Rows,
                      journal[r].status = "pending", journal'[r].status = "cancelled_expired"
               PROVE  now >= Deadline(journal[r].placed)
    OBVIOUS
  <2>0. now \in Nat /\ journal[r].placed \in Int /\ Deadline(journal[r].placed) \in Int
        /\ Grace \in Nat /\ LimitValidBars \in Nat
    <3>1. journal[r].placed \in Int /\ now \in Nat
      BY <1>1 DEF OrdersInv, FaultlessInv, TypeInv, TypeOK, Row
    <3>2. Bar(journal[r].placed) \in Int
      BY <3>1, BarType
    <3> QED
      BY <3>1, <3>2, TimeAssumption DEF Deadline
  <2>placed. \A o \in eng.orders : o.row = r => o.placed = journal[r].placed
    BY <1>1 DEF OrdersInv, ClockInv, AgesAreBars
  <2>1. CASE \E o \in visit : /\ o \in eng.orders /\ o.row = r /\ Pending(o) /\ pc = "commit"
                              /\ o.elapsed + 1 >= LimitValidBars
    <3>1. PICK o \in visit : /\ o \in eng.orders /\ o.row = r /\ Pending(o) /\ pc = "commit"
                             /\ o.elapsed + 1 >= LimitValidBars
      BY <2>1
    <3>2. Boundary
      BY <1>1, <3>1 DEF OrdersInv, FaultlessInv, LoopsAreOrderly
    <3>3. Bar(minute) = eng.forming + 1
      BY <1>1, <3>1, <3>2, BoundaryIsNextBar DEF OrdersInv, FaultlessInv, AfterPrice
    <3>4. o.elapsed = eng.forming - Bar(o.placed)
      BY <1>1, <3>1 DEF OrdersInv, ClockInv, AgesAreBars, Counted
    <3>5. /\ o.placed \in Int /\ o.elapsed \in Int /\ minute \in Int /\ eng.forming \in Int
          /\ Bar(o.placed) \in Int /\ Bar(minute) \in Int
      BY <1>1, <3>1, BarType DEF OrdersInv, FaultlessInv, TypeInv, TypeOK, Engine, Order
    <3>6. minute >= Deadline(o.placed)
      BY <2>0, <3>1, <3>3, <3>4, <3>5, DeadlineIsABar
    <3>7. minute < Closed /\ Closed <= now
      <4>1. minute \in DOMAIN tape
        BY <1>1, <3>1 DEF OrdersInv, FaultlessInv, TypeInv
      <4> QED
        BY <1>1, <2>0, <4>1, TimeAssumption DEF OrdersInv, MarketInv, Closed
    <3> QED
      BY <2>0, <2>placed, <3>1, <3>5, <3>6, <3>7, TimeAssumption DEF Closed
  <2>2. CASE \E o \in eng.orders : o.row = r /\ Overdue(o)
    BY <2>0, <2>2, <2>placed DEF Overdue
  <2>3. CASE PastDeadline(r)
    BY <2>0, <2>3 DEF PastDeadline
  <2> QED
    BY <1>1, <2>1, <2>2, <2>3, HowARowEnds DEF OrdersInv
<1> QED
  BY <1>1, OrdersInvStep, PTL DEF Spec, ExpiryIsNotEarly

------------------------------------------------------------------------------
(***************************************************************************)
(* A stop between two polls.                                               *)
(***************************************************************************)

(* Between polls, and from the restart on, what the snapshot and the        *)
(* journal would restore is what the engine holds.                          *)
StopIsFaithful ==
  pc \in {"idle", "boot"} =>
    IF eng.last = None THEN snap = {}
    ELSE snap # {} /\ \A s \in snap : s.cursor = cursor /\ Restored(s) = eng

(* What a snapshot of pending orders at living zones restores is the engine.*)
LEMMA SnapshotRestores ==
  TypeInv /\ ZonesAreAlive
    /\ (\A o \in eng.orders : Pending(o) /\ o.row \in PendingRows \cup {0})
  => \A s \in Snapshot : s.cursor = eng.last /\ Restored(s) = eng
<1> SUFFICES ASSUME TypeInv, ZonesAreAlive,
                    \A o \in eng.orders : Pending(o) /\ o.row \in PendingRows \cup {0},
                    NEW s \in Snapshot
             PROVE  s.cursor = eng.last /\ Restored(s) = eng
  OBVIOUS
<1> DEFINE S == {[o EXCEPT !.status = "pending"] : o \in eng.orders}
<1>1. eng \in Engine /\ eng.orders \subseteq Order
  BY DEF TypeInv, TypeOK, Engine
<1>2. \A o \in eng.orders : [o EXCEPT !.status = "pending"] = o
  BY <1>1 DEF Order, Pending
<1>3. S = eng.orders
  BY <1>2
<1>4. s.cursor = eng.last /\ s.eng = [eng EXCEPT !.orders = S]
  BY DEF Snapshot
<1>5. s.eng = eng
  BY <1>1, <1>3, <1>4 DEF Engine
<1>6. Restored(s) = [eng EXCEPT !.orders = {o \in eng.orders : o.zone \notin Gone(eng.htf)
                                               /\ o.row \in PendingRows \cup {0}}]
  BY <1>5 DEF Restored
<1>7. {o \in eng.orders : o.zone \notin Gone(eng.htf) /\ o.row \in PendingRows \cup {0}} = eng.orders
  BY DEF ZonesAreAlive
<1> QED
  BY <1>1, <1>4, <1>6, <1>7 DEF Engine

(* What SnapshotRestores says of a state also holds after a step: a lemma   *)
(* about the state, read in the next one.                                   *)
LEMMA SnapshotRestoresNext ==
  (TypeInv /\ ZonesAreAlive
    /\ (\A o \in eng.orders : Pending(o) /\ o.row \in PendingRows \cup {0}))'
  => (\A s \in Snapshot : s.cursor = eng.last /\ Restored(s) = eng)'
  BY SnapshotRestores, PTL

(* While no write raises, a poll ends with everything saved that a restart  *)
(* reads.                                                                   *)
LEMMA StopStep ==
  ASSUME MaxFailures = 0, OrdersInv, OrdersInv', StopIsFaithful, [Next]_vars
  PROVE  StopIsFaithful'
<1> USE DEF durable, loops, wallet, world
<1>0. /\ TypeInv /\ TypeInv' /\ ZonesAreAlive' /\ MarketInv
      /\ \A s \in snap : s.eng.htf \in Int /\ s.eng.orders \subseteq Order /\ s.eng \in Engine
      /\ \A o \in Order : o.row \in 0..MaxRows
  BY DEF OrdersInv, FaultlessInv, TrackInv, TypeInv, TypeOK, Engine, Order
<1>ok. \A ok \in BOOLEAN : Attempt(ok) => ok
  BY DEF Attempt, OrdersInv, FaultlessInv, NoFailure
<1>saved. snap' = Snapshot /\ pc' = "idle" /\ UNCHANGED eng
            => snap' # {} /\ \A s \in snap' : s.cursor = eng'.last /\ (Restored(s))' = eng'
  <2> SUFFICES ASSUME snap' = Snapshot, pc' = "idle", UNCHANGED eng
               PROVE  snap' # {} /\ \A s \in snap' : s.cursor = eng'.last /\ (Restored(s))' = eng'
    OBVIOUS
  <2>1. \A o \in eng'.orders : (Pending(o) /\ o.row \in PendingRows \cup {0})'
    <3>1. \A o \in eng'.orders : o.status = "pending"
      BY DEF OrdersInv, FaultlessInv, LoopsAreOrderly, Pending
    <3>2. \A o \in eng'.orders : o.row \in Rows
      <4>1. eng'.orders \subseteq Order
        BY <1>0 DEF TypeInv, TypeOK, Engine
      <4>2. \A o \in eng'.orders : o.row # 0
        BY DEF OrdersInv, FaultlessInv, OrdersInJournal
      <4> QED
        BY <4>1, <4>2, TimeAssumption DEF Order, Rows
    <3>3. \A o \in eng'.orders : journal'[o.row].status = "pending"
      BY <3>1 DEF OrdersInv, FaultlessInv, OrdersInJournal, Pending
    <3> QED
      BY <3>1, <3>2, <3>3 DEF Pending, PendingRows, Rows
  <2>2. (\A s \in Snapshot : s.cursor = eng.last /\ Restored(s) = eng)'
    BY <1>0, <2>1, SnapshotRestoresNext
  <2>3. Snapshot' = snap' /\ Snapshot # {}
    BY DEF Snapshot
  <2> QED
    BY <2>2, <2>3
<1>steady. ASSUME pc \in {"idle", "boot"}, UNCHANGED <<eng, snap, cursor>>,
                  \A s \in snap : (Restored(s))' = Restored(s)
           PROVE  StopIsFaithful'
  BY <1>steady DEF StopIsFaithful
<1>1. CASE Tick
  <2>1. UNCHANGED <<eng, snap, cursor, pc, journal>> /\ pc \in {"idle", "down"}
    BY <1>1 DEF Tick
  <2>2. ASSUME NEW s \in snap PROVE (Restored(s))' = Restored(s)
    <3>1. \A h \in Int : h = s.eng.htf => Gone(h)' = Gone(h)
      BY <1>0, <1>1, <2>1, GoneIsSettled DEF MarketInv
    <3>2. Gone(s.eng.htf)' = Gone(s.eng.htf)
      BY <1>0, <3>1
    <3> QED
      BY <2>1, <3>2 DEF Restored, PendingRows
  <2> QED
    BY <1>steady, <2>1, <2>2 DEF StopIsFaithful
<1>2. ASSUME NEW ok \in BOOLEAN, SaveState(ok) PROVE StopIsFaithful'
  <2>1. /\ pc = "save" /\ pc' = "idle" /\ cursor' = minute /\ UNCHANGED eng /\ Store
    BY <1>2, <1>ok DEF SaveState
  <2>2. minute = eng.last /\ eng.last # None
    BY <2>1 DEF OrdersInv, ClockInv, StartsEmpty, MemoryInv, AfterPrice, TimesAgree, FaultlessInv
  <2>3. snap' = Snapshot
    BY <2>1, StoreWrites DEF OrdersInv, MemoryInv
  <2> QED
    BY <1>saved, <2>1, <2>2, <2>3 DEF StopIsFaithful
<1>3. CASE EndPoll
  <2>1. /\ pc = "overdue" /\ pc' = "idle" /\ UNCHANGED <<eng, cursor>>
        /\ IF eng.last # None /\ eng.htf # None THEN Store ELSE UNCHANGED snap
    BY <1>3 DEF EndPoll
  <2>2. cursor = eng.last /\ (eng.last # None => eng.htf # None)
    BY <2>1 DEF OrdersInv, ClockInv, StartsEmpty, AfterPrice, None, TimesAgree, FaultlessInv
  <2>3. IF eng.last # None THEN snap' = Snapshot ELSE snap' = {}
    BY <2>1, <2>2, StoreWrites DEF OrdersInv, MemoryInv, ClockInv, NothingIsSavedFirst
  <2> QED
    BY <1>saved, <2>1, <2>2, <2>3 DEF StopIsFaithful
<1>4. CASE Boot
  <2>1. pc' = "boot" /\ UNCHANGED <<journal, tape, past>>
    BY <1>4 DEF Boot
  <2>2. CASE cursor' = None /\ eng' = NoEngine /\ snap' = {}
    BY <2>2 DEF StopIsFaithful, NoEngine
  <2>3. ASSUME NEW s \in snap, cursor' = s.cursor, eng' = Restored(s), snap' = snap
        PROVE  StopIsFaithful'
    <3>1. eng'.last = s.eng.last /\ s.eng.last # None
      BY <1>0, <2>3 DEF Restored, Engine, OrdersInv, ClockInv, SavedAgesAreBars, TimesAgree, FaultlessInv
    <3>2. \A q \in snap : q = s
      BY <1>0 DEF TypeInv, TypeOK
    <3>3. (Restored(s))' = Restored(s)
      BY <2>1 DEF Restored, PendingRows, Gone, Until, Bar
    <3> QED
      BY <2>3, <3>1, <3>2, <3>3 DEF StopIsFaithful
  <2> QED
    BY <1>4, <2>2, <2>3 DEF Boot
<1>5. CASE DiscardStale \/ \E r \in Rows : ExpireStale(r)
  <2>1. /\ pc = "boot" /\ UNCHANGED <<eng, snap, cursor, tape, past>>
        /\ \A q \in Rows : q \notin Stale => journal'[q].status = journal[q].status
        /\ \A q \in Rows : q \in Stale => journal'[q].status # "pending" \/ journal'[q] = journal[q]
    <3>1. journal \in [Rows -> Row]
      BY <1>0 DEF TypeInv, TypeOK
    <3> QED
      BY <1>5, <3>1 DEF DiscardStale, ExpireStale, Row
  <2>2. PendingRows' \subseteq PendingRows /\ PendingRows \ PendingRows' \subseteq Stale
    BY <2>1 DEF PendingRows, Stale
  <2>3. ASSUME NEW s \in snap PROVE (Restored(s))' = Restored(s)
    <3>1. Restored(s) = eng
      BY <2>1, <2>3 DEF StopIsFaithful
    <3>2. (Restored(s))' = [s.eng EXCEPT !.orders = {o \in @ : o.zone \notin Gone(s.eng.htf)
                                                             /\ o.row \in PendingRows' \cup {0}}]
      BY <2>1 DEF Restored, Gone, Until, Bar
    <3>3. eng.orders = {o \in s.eng.orders : o.zone \notin Gone(s.eng.htf)
                                             /\ o.row \in PendingRows \cup {0}}
      BY <1>0, <3>1 DEF Restored, Engine
    <3>4. \A o \in eng.orders : o.row \notin Stale
      <4>1. 0 \notin Stale
        BY DEF Stale, PendingRows, Rows
      <4> QED
        BY <4>1 DEF Stale, RowsOf
    <3>5. {o \in s.eng.orders : o.zone \notin Gone(s.eng.htf) /\ o.row \in PendingRows' \cup {0}}
          = {o \in s.eng.orders : o.zone \notin Gone(s.eng.htf) /\ o.row \in PendingRows \cup {0}}
      BY <2>2, <3>3, <3>4
    <3> QED
      BY <3>2, <3>5 DEF Restored
  <2> QED
    BY <1>steady, <2>1, <2>3
<1>6. CASE UNCHANGED vars
  BY <1>6 DEF vars, StopIsFaithful, Restored, PendingRows, Gone, Until, Bar
<1>7. pc' \notin {"idle", "boot"} => StopIsFaithful'
  BY DEF StopIsFaithful
<1>8. ASSUME NEW ok \in BOOLEAN, NEW o \in visit,
             \/ CancelInvalidated(o, ok) \/ CommitOrder(o, ok) \/ EndOrder(o, ok) \/ FillOrder(o, ok)
             \/ DiscardOrder(o, ok)
      PROVE  pc' \notin {"idle", "boot"}
  BY <1>8 DEF CancelInvalidated, CommitOrder, EndOrder, FillOrder, DiscardOrder, Settled, Abort
<1>9. ASSUME NEW ok \in BOOLEAN,
             \/ BeginMinute \/ BeginTail \/ EndFeed \/ EndCommit \/ EndArm \/ EndPrice
             \/ CheckExits \/ RecordOpen(ok) \/ RemoveOpen(ok) \/ Crash
             \/ \E o \in visit : KeepOrder(o) \/ Judge(o) \/ RecordEntryResult(o, ok) \/ Fallback(o, ok)
             \/ \E o \in fills : TakeFill(o, ok)
             \/ \E p \in closing : PersistTrade(p, ok)
             \/ \E z \in Zones : ArmZone(z, ok)
             \/ \E o \in eng.orders : ExpireOverdue(o)
      PROVE  pc' \notin {"idle", "boot"}
  BY <1>9 DEF BeginMinute, BeginTail, BeginFeed, EndFeed, EndCommit, EndArm, EndPrice, CheckExits,
     RecordOpen, RemoveOpen, Crash, KeepOrder, Judge, RecordEntryResult, Fallback, TakeFill,
     PersistTrade, ArmZone, ExpireOverdue, Settle, Abort
<1> QED
  BY <1>1, <1>2, <1>3, <1>4, <1>5, <1>6, <1>7, <1>8, <1>9 DEF Next, Poll, Start

(* While no write raises, a stop between two polls loses nothing: what a    *)
(* restart would rebuild from the snapshot and the journal is the state in  *)
(* memory, wherever earlier lives of the process ended.                     *)
THEOREM StopLosesNothing ==
  ASSUME MaxFailures = 0
  PROVE  Spec => []StopIsInvisible
<1>1. Init => StopIsFaithful
  BY DEF Init, NoEngine, StopIsFaithful
<1>2. OrdersInv /\ StopIsFaithful /\ [Next]_vars => (OrdersInv /\ StopIsFaithful)'
  BY OrdersInvStep, StopStep
<1>3. StopIsFaithful => StopIsInvisible
  BY DEF StopIsFaithful, StopIsInvisible
<1> QED
  BY <1>1, <1>2, <1>3, OrdersInvStep, PTL DEF Spec

------------------------------------------------------------------------------
(***************************************************************************)
(* The last minute of a bar, when minutes are stored before their bar.     *)
(***************************************************************************)

(* From minute m on, everything that has closed is in the data.             *)
ReachesNow(m) == \A n \in Nat : m <= n /\ n < Closed => n \in DOMAIN tape

(* The data has no holes behind a cursor, and the tail is fed only when no  *)
(* minute is left.                                                          *)
TapeInv ==
  /\ \A m \in DOMAIN tape : ReachesNow(m)
  /\ cursor >= None /\ (cursor # None => ReachesNow(cursor + 1))
  /\ \A s \in snap : s.cursor >= None /\ ReachesNow(s.cursor + 1)
  /\ ~MinutesLag /\ pc = "feed" /\ minute = None /\ cursor # None => Closed <= cursor + 1

(* While no write raises, no step leaves a hole.                            *)
LEMMA TapeStep ==
  ASSUME MaxFailures = 0, OrdersInv, TapeInv, [Next]_vars
  PROVE  TapeInv'
<1> USE DEF durable, loops, wallet, world
<1>0. /\ now \in Nat /\ MaxMinute \in Nat /\ Closed \in Nat /\ DOMAIN tape \subseteq Nat
      /\ cursor \in Int /\ minute \in Int /\ \A s \in snap : s.cursor \in Int
  BY TimeAssumption DEF OrdersInv, FaultlessInv, TypeInv, TypeOK, Closed
<1>ok. \A ok \in BOOLEAN : Attempt(ok) => ok
  BY DEF Attempt, OrdersInv, FaultlessInv, NoFailure
<1>same. UNCHANGED <<now, tape>> => Closed' = Closed /\ \A m : ReachesNow(m)' <=> ReachesNow(m)
  BY DEF ReachesNow, Closed
<1>steady. ASSUME UNCHANGED <<now, tape, snap, cursor>>,
                  pc' = "feed" => (pc = "feed" /\ minute' = minute) \/ minute' # None
           PROVE  TapeInv'
  BY <1>same, <1>steady DEF TapeInv
<1>snapshot. \A s \in Snapshot : s.cursor = eng.last
  BY DEF Snapshot
<1>1. CASE Tick
  <2>1. /\ now' = now + 1 /\ UNCHANGED <<snap, cursor, pc, minute>> /\ pc \in {"idle", "down"}
        /\ DOMAIN tape' = IF now <= MaxMinute THEN DOMAIN tape \cup {now} ELSE DOMAIN tape
    BY <1>1 DEF Tick
  <2>2. Closed' = IF now <= MaxMinute THEN now + 1 ELSE Closed
    BY <1>0, <2>1 DEF Closed
  <2>3. now <= MaxMinute => Closed = now
    BY DEF Closed
  <2>4. \A m \in Int : ReachesNow(m) => ReachesNow(m)'
    BY <1>0, <2>1, <2>2, <2>3 DEF ReachesNow
  <2>5. ASSUME NEW m \in DOMAIN tape' PROVE ReachesNow(m)'
    <3>1. CASE m \in DOMAIN tape
      BY <1>0, <2>4, <3>1 DEF TapeInv
    <3>2. CASE m = now /\ now <= MaxMinute
      BY <1>0, <2>1, <2>2, <3>2 DEF ReachesNow
    <3> QED
      BY <2>1, <2>5, <3>1, <3>2
  <2>6. cursor # None => \A m \in Int : m = cursor + 1 => ReachesNow(m)'
    BY <2>4 DEF TapeInv
  <2>7. \A s \in snap : \A m \in Int : m = s.cursor + 1 => ReachesNow(m)'
    BY <2>4 DEF TapeInv
  <2> QED
    BY <1>0, <2>1, <2>5, <2>6, <2>7 DEF TapeInv, ReachesNow
<1>2. ASSUME NEW ok \in BOOLEAN, SaveState(ok) PROVE TapeInv'
  <2> DEFINE b == Bar(minute) - 1
  <2>1. /\ pc = "save" /\ pc' = "idle" /\ cursor' = minute /\ UNCHANGED <<now, eng>>
        /\ snap' \in {snap, Snapshot} /\ DOMAIN tape' = DOMAIN tape \ Until(b)
    BY <1>2, <1>ok DEF SaveState, Store, Forget
  <2>2. /\ minute = eng.last /\ minute # None /\ minute \in DOMAIN tape
    BY <2>1 DEF OrdersInv, ClockInv, StartsEmpty, MemoryInv, MarketInv, AfterPrice, InMinute, TimesAgree, FaultlessInv
  <2>3. Closed' = Closed
    BY <2>1 DEF Closed
  <2>4. b \in Int
    BY <1>0, BarType
  <2>5. ASSUME NEW m \in Int, ReachesNow(m), b < Bar(m) PROVE ReachesNow(m)'
    <3>1. ASSUME NEW n \in Nat, m <= n PROVE n \notin Until(b)
      <4>1. Bar(m) <= Bar(n) /\ Bar(m) \in Int /\ Bar(n) \in Int
        BY <3>1, BarIsMonotone, BarType
      <4> QED
        BY <2>4, <2>5, <4>1 DEF Until
    <3> HIDE DEF b
    <3> QED
      BY <2>1, <2>3, <2>5, <3>1 DEF ReachesNow
  <2>6. \A m \in DOMAIN tape' : ReachesNow(m)'
    <3>1. \A m \in DOMAIN tape \ Until(b) : b < Bar(m)
      <4>1. \A m \in DOMAIN tape : Bar(m) \in Int
        BY <1>0, BarType
      <4> HIDE DEF b
      <4> QED
        BY <2>4, <4>1 DEF Until
    <3> HIDE DEF b
    <3> QED
      BY <1>0, <2>1, <2>5, <3>1 DEF TapeInv
  <2>7. \A m \in Int : m = minute + 1 => ReachesNow(m)'
    <3>1. ReachesNow(minute + 1)
      BY <1>0, <2>2 DEF TapeInv, ReachesNow
    <3>2. Bar(minute) <= Bar(minute + 1) /\ Bar(minute) \in Int /\ Bar(minute + 1) \in Int
      BY <1>0, BarIsMonotone, BarType
    <3> QED
      BY <1>0, <2>5, <3>1, <3>2
  <2>8. snap' = Snapshot
    BY <1>2, <1>ok, StoreWrites DEF OrdersInv, MemoryInv, SaveState
  <2>9. minute >= None
    BY <1>0, <2>2 DEF None
  <2> QED
    BY <1>0, <1>snapshot, <2>1, <2>2, <2>6, <2>7, <2>8, <2>9 DEF TapeInv, ReachesNow
<1>3. CASE EndPoll
  <2>1. /\ pc = "overdue" /\ pc' = "idle" /\ UNCHANGED <<now, tape, cursor>>
        /\ snap' = snap \/ (snap' = Snapshot /\ eng.last # None)
    BY <1>3 DEF EndPoll, Store
  <2>2. cursor = eng.last
    BY <2>1 DEF OrdersInv, ClockInv, StartsEmpty, AfterPrice, TimesAgree, FaultlessInv
  <2> QED
    BY <1>same, <1>snapshot, <2>1, <2>2 DEF TapeInv
<1>4. CASE BeginTail
  <2>1. /\ pc' = "feed" /\ UNCHANGED <<now, tape, snap, cursor, minute>>
        /\ MinutesLag \/ NextMinute \notin DOMAIN tape
    BY <1>4 DEF BeginTail, BeginFeed
  <2>2. ~MinutesLag /\ cursor # None => Closed <= cursor + 1
    <3> SUFFICES ASSUME ~MinutesLag, cursor # None PROVE Closed <= cursor + 1
      OBVIOUS
    <3>1. cursor + 1 \in Nat /\ cursor + 1 \notin DOMAIN tape /\ ReachesNow(cursor + 1)
      BY <1>0, <2>1 DEF TapeInv, None, NextMinute
    <3> QED
      BY <1>0, <3>1 DEF ReachesNow
  <2> QED
    BY <1>same, <2>1, <2>2 DEF TapeInv
<1>5. CASE Boot
  <2>1. /\ UNCHANGED <<now, tape>> /\ pc' = "boot" /\ snap' \subseteq snap
        /\ cursor' = None \/ \E s \in snap : cursor' = s.cursor
    BY <1>5 DEF Boot
  <2> QED
    BY <1>same, <2>1 DEF TapeInv, None
<1>6. CASE Crash
  BY <1>6, <1>same DEF Crash, TapeInv, None
<1>7. ASSUME NEW ok \in BOOLEAN, NEW o \in visit,
             \/ CancelInvalidated(o, ok) \/ CommitOrder(o, ok) \/ EndOrder(o, ok) \/ FillOrder(o, ok)
             \/ DiscardOrder(o, ok)
      PROVE  TapeInv'
  <2>1. UNCHANGED <<now, tape, snap, cursor>>
    BY <1>7 DEF CancelInvalidated, CommitOrder, EndOrder, FillOrder, DiscardOrder
  <2>2. pc' = "feed" => pc = "feed" /\ minute' = minute
    BY <1>7 DEF CancelInvalidated, CommitOrder, EndOrder, FillOrder, DiscardOrder, Settled, Abort
  <2> QED
    BY <1>steady, <2>1, <2>2
<1>8. CASE BeginMinute
  <2>1. /\ UNCHANGED <<now, tape, snap, cursor>> /\ minute' \in DOMAIN tape
    BY <1>8 DEF BeginMinute, BeginFeed
  <2> QED
    BY <1>0, <1>steady, <2>1 DEF None
<1>9. ASSUME NEW ok \in BOOLEAN,
             \/ EndFeed \/ EndCommit \/ EndArm \/ EndPrice
             \/ CheckExits \/ RecordOpen(ok) \/ RemoveOpen(ok) \/ DiscardStale \/ UNCHANGED vars
             \/ \E o \in visit : KeepOrder(o) \/ Judge(o) \/ RecordEntryResult(o, ok) \/ Fallback(o, ok)
             \/ \E o \in fills : TakeFill(o, ok)
             \/ \E p \in closing : PersistTrade(p, ok)
             \/ \E z \in Zones : ArmZone(z, ok)
             \/ \E o \in eng.orders : ExpireOverdue(o)
             \/ \E r \in Rows : ExpireStale(r)
      PROVE  TapeInv'
  <2>1. UNCHANGED <<now, tape, snap, cursor>>
    BY <1>9 DEF EndFeed, EndCommit, EndArm, EndPrice, CheckExits, RecordOpen, RemoveOpen, DiscardStale,
       vars, KeepOrder, Judge, RecordEntryResult, Fallback, TakeFill, PersistTrade, ArmZone,
       ExpireOverdue, ExpireStale
  <2>2. pc' = "feed" => pc = "feed" /\ minute' = minute
    BY <1>9 DEF EndFeed, EndCommit, EndArm, EndPrice, CheckExits, RecordOpen, RemoveOpen, DiscardStale,
       vars, KeepOrder, Judge, RecordEntryResult, Fallback, TakeFill, PersistTrade, ArmZone,
       ExpireOverdue, ExpireStale, Settle, Abort
  <2> QED
    BY <1>steady, <2>1, <2>2
<1> QED
  BY <1>1, <1>2, <1>3, <1>4, <1>5, <1>6, <1>7, <1>8, <1>9 DEF Next, Poll, Start

(* A longer window of closed bars finds no fewer zones gone.                *)
LEMMA GoneGrows ==
  ASSUME DOMAIN tape \subseteq Nat, NEW h \in Int, NEW k \in Int, h <= k
  PROVE  Gone(h) \subseteq Gone(k)
<1>1. \A m \in DOMAIN tape : Bar(m) \in Int
  BY BarType
<1>2. Until(h) \subseteq Until(k)
  BY <1>1 DEF Until
<1> QED
  BY <1>2 DEF Gone

(* While no write raises and the minutes are stored before the bar they     *)
(* close, an order lives through the last minute of the bar that breaks its *)
(* zone.                                                                    *)
THEOREM LastMinuteCounts ==
  ASSUME MaxFailures = 0, MinutesLag = FALSE
  PROVE  Spec => LastMinuteIsJudged
<1>1. Init => TapeInv
  BY DEF Init, TapeInv, None
<1>2. OrdersInv /\ TapeInv /\ [Next]_vars => (OrdersInv /\ TapeInv)'
  BY OrdersInvStep, TapeStep
<1>3. ASSUME OrdersInv, TapeInv, [Next]_vars
      PROVE  \A o \in eng.orders :
               o.row # 0 /\ journal[o.row].status = "pending"
                 /\ journal'[o.row].status = "cancelled_invalidated"
               => o.zone \in Gone(Bar(eng.last + 1) - 1)
  <2> SUFFICES ASSUME NEW o \in eng.orders, o.row # 0, journal[o.row].status = "pending",
                      journal'[o.row].status = "cancelled_invalidated"
               PROVE  o.zone \in Gone(Bar(eng.last + 1) - 1)
    OBVIOUS
  <2>1. o.row \in Rows
    BY <1>3, TimeAssumption DEF OrdersInv, FaultlessInv, TypeInv, TypeOK, Engine, Order, Rows
  <2>2. pc = "feed" /\ \E p \in visit : p \in eng.orders /\ p.row = o.row
    BY <1>3, <2>1, HowARowEnds DEF OrdersInv
  <2>3. o \in visit
    BY <2>2, <1>3 DEF OrdersInv, FaultlessInv, OrdersInJournal
  <2>4. o.zone \in Gone(FeedTarget)
    BY <1>3, <2>2, <2>3 DEF OrdersInv, FaultlessInv, LoopsAreOrderly
  <2>5. eng.last # None /\ cursor = eng.last /\ (minute # None => minute = eng.last + 1)
    BY <1>3, <2>2 DEF OrdersInv, ClockInv, StartsEmpty, Consumed, AfterPrice, TimesAgree, FaultlessInv
  <2>6. CASE minute # None
    BY <2>4, <2>5, <2>6 DEF FeedTarget
  <2>7. CASE minute = None
    <3>1. /\ Closed \in Int /\ eng.last \in Int /\ Closed <= eng.last + 1
          /\ DOMAIN tape \subseteq Nat
      BY <1>3, <2>2, <2>5, <2>7, TimeAssumption
         DEF TapeInv, OrdersInv, FaultlessInv, TypeInv, TypeOK, Engine, Closed
    <3>2. Bar(Closed) <= Bar(eng.last + 1) /\ Bar(Closed) \in Int /\ Bar(eng.last + 1) \in Int
      BY <3>1, BarIsMonotone, BarType
    <3>3. FeedTarget = Bar(Closed) - 1
      BY <2>7 DEF FeedTarget, LastBar
    <3>4. Gone(FeedTarget) \subseteq Gone(Bar(eng.last + 1) - 1)
      BY <3>1, <3>2, <3>3, GoneGrows
    <3> QED
      BY <2>4, <3>4
  <2> QED
    BY <2>6, <2>7
<1> QED
  BY <1>1, <1>2, <1>3, OrdersInvStep, PTL DEF Spec, LastMinuteIsJudged
=============================================================================
