------------------------- MODULE PaperRunner_proofs -------------------------
(***************************************************************************)
(* Theorems about PaperRunner, for every value of its constants.           *)
(*                                                                         *)
(* TypeInv and FaultlessInv are inductive.  The first is TypeOK with what  *)
(* it needs to survive a step (the minute being consumed is in the         *)
(* market's data; the ledger is finite); it holds under crashes and        *)
(* failing writes alike.  The second holds while no write raises, and      *)
(* carries the refinement of OrderLifecycle: memory, the loops and the     *)
(* snapshot never disagree with the journal about what is still pending.   *)
(***************************************************************************)
EXTENDS PaperRunner, FiniteSetTheorems, TLAPS

TypeInv ==
  /\ TypeOK
  /\ IsFiniteSet(trades)
  /\ pc \in {"feed", "commit"} /\ minute # None => minute \in DOMAIN tape
  /\ pc = "commit" => minute # None
  /\ pc \in {"down", "boot", "idle", "overdue"} => minute = None

(* A minute lies in a bar (common: floor of the time by the bar's length).  *)
LEMMA BarType == \A m \in Int : Bar(m) \in Int
  BY TimeAssumption DEF Bar

(* Multiplying by a natural number keeps the order of two integers.         *)
LEMMA ProductIsMonotone ==
  ASSUME NEW a \in Int, NEW c \in Int, NEW b \in Nat, a <= c
  PROVE  a * b <= c * b
<1>1. PICK d \in Nat : c = a + d
  BY c - a \in Nat
<1>2. d * b >= 0
  BY <1>1
<1>3. (a + d) * b = a * b + d * b
  BY <1>1
<1> QED
  BY <1>1, <1>2, <1>3

(* A bar has begun by a minute iff its first minute is not later.           *)
LEMMA BarHasBegun ==
  ASSUME NEW m \in Int, NEW k \in Int
  PROVE  k <= Bar(m) <=> k * BarMinutes <= m
<1> DEFINE q == m \div BarMinutes
<1>1. BarMinutes \in Nat /\ BarMinutes > 0
  BY TimeAssumption
<1>2. q \in Int /\ q * BarMinutes <= m /\ m < q * BarMinutes + BarMinutes
  BY <1>1
<1> HIDE DEF q
<1>3. k <= q => k * BarMinutes <= m
  <2>1. k <= q => k * BarMinutes <= q * BarMinutes
    BY <1>1, <1>2, ProductIsMonotone
  <2> QED
    BY <1>1, <1>2, <2>1
<1>4. q + 1 <= k => m < k * BarMinutes
  <2>1. q + 1 <= k => (q + 1) * BarMinutes <= k * BarMinutes
    BY <1>1, <1>2, ProductIsMonotone
  <2>2. (q + 1) * BarMinutes = q * BarMinutes + BarMinutes
    BY <1>1, <1>2
  <2> QED
    BY <1>1, <1>2, <2>1, <2>2
<1>5. Bar(m) = q
  BY DEF Bar, q
<1> QED
  BY <1>1, <1>2, <1>3, <1>4, <1>5

(* A later minute is not in an earlier bar.                                 *)
LEMMA BarIsMonotone ==
  ASSUME NEW m \in Int, NEW n \in Int, m <= n
  PROVE  Bar(m) <= Bar(n)
<1>1. Bar(m) \in Int /\ Bar(n) \in Int /\ BarMinutes \in Nat
  BY BarType, TimeAssumption
<1>2. Bar(m) * BarMinutes <= m
  BY <1>1, BarHasBegun
<1>3. Bar(m) * BarMinutes <= n
  BY <1>1, <1>2
<1> QED
  BY <1>1, <1>3, BarHasBegun

(* The next minute is in the same bar or in the next one.                   *)
LEMMA BarOfNext ==
  ASSUME NEW m \in Int
  PROVE  Bar(m + 1) \in {Bar(m), Bar(m) + 1}
<1>1. Bar(m) \in Int /\ Bar(m + 1) \in Int /\ BarMinutes \in Nat /\ BarMinutes > 0
  BY BarType, TimeAssumption
<1>2. Bar(m) <= Bar(m + 1)
  BY BarIsMonotone
<1>3. ~(Bar(m) + 2 <= Bar(m + 1))
  <2>1. ~((Bar(m) + 1) * BarMinutes <= m)
    BY <1>1, BarHasBegun
  <2>2. Bar(m) + 2 <= Bar(m + 1) => (Bar(m) + 2) * BarMinutes <= m + 1
    BY <1>1, BarHasBegun
  <2>3. (Bar(m) + 2) * BarMinutes = (Bar(m) + 1) * BarMinutes + BarMinutes
    BY <1>1
  <2> QED
    BY <1>1, <2>1, <2>2, <2>3
<1> QED
  BY <1>1, <1>2, <1>3

(* What the detector finds gone, or tapped, are zones of the cell.          *)
LEMMA GoneType ==
  ASSUME past \in [gone : SUBSET Zones, tapped : SUBSET Zones]
  PROVE  \A h : Gone(h) \subseteq Zones /\ Tapped(h) \subseteq Zones
  BY DEF Gone, Tapped

(* A first start of the runner has every type.                              *)
LEMMA InitType == Init => TypeInv
<1> SUFFICES ASSUME Init PROVE TypeInv
  OBVIOUS
<1>1. now \in Nat
  BY TimeAssumption DEF Init
<1>2. journal \in [Rows -> Row] /\ nextRow \in 1..(MaxRows + 1)
  BY TimeAssumption DEF Init, Row, None
<1>3. eng \in Engine
  BY DEF Init, NoEngine, Engine, None
<1>4. IsFiniteSet(trades)
  BY FS_EmptySet DEF Init
<1> QED
  BY <1>1, <1>2, <1>3, <1>4 DEF Init, TypeInv, TypeOK, Pc, None

(* Replacing an order by one of the same type keeps the engine typed.       *)
LEMMA SwapType ==
  ASSUME eng \in Engine, NEW o, NEW o2 \in Order
  PROVE  Swap(o, o2) \in Engine
<1> DEFINE S == (eng.orders \ {o}) \cup {o2}
<1>1. S \subseteq Order
  BY DEF Engine
<1>2. [eng EXCEPT !.orders = S] \in Engine
  BY <1>1 DEF Engine
<1> QED
  BY <1>2 DEF Swap

(* Marking a row, or judging it, keeps the journal typed.                   *)
LEMMA MarkedType ==
  ASSUME journal \in [Rows -> Row], NEW r \in 0..MaxRows
  PROVE  /\ \A status \in Status \cup {"discarded_restart"} :
              Marked(r, status) \in [Rows -> Row]
         /\ \A verdict \in {"entered", "rejected"} : Judged(r, verdict) \in [Rows -> Row]
<1>1. CASE r = 0
  BY <1>1 DEF Marked, Judged
<1>2. CASE r # 0
  <2>1. r \in Rows
    BY <1>2, TimeAssumption DEF Rows
  <2>2. \A status \in Status \cup {"discarded_restart"} :
          [journal[r] EXCEPT !.status = status] \in Row
    BY <2>1 DEF Row
  <2>3. \A verdict \in {"entered", "rejected"} : [journal[r] EXCEPT !.entry = verdict] \in Row
    BY <2>1 DEF Row
  <2> QED
    BY <1>2, <2>1, <2>2, <2>3 DEF Marked, Judged
<1> QED
  BY <1>1, <1>2

(* One step of a loop over the orders (_commit_orders, _apply_price, the    *)
(* invalidations) keeps the types.                                          *)
LEMMA SettledType ==
  ASSUME TypeInv, pc \in {"feed", "commit", "price"}, NEW o \in visit, NEW o2 \in Order,
         NEW ok \in BOOLEAN, Settled(o, o2, ok),
         UNCHANGED <<nextRow, snap, openPos, trades, wallet, world, cursor>>
  PROVE  TypeInv'
<1>1. eng' \in Engine
  BY SwapType DEF Settled, TypeInv, TypeOK
<1>2. failures' \in Nat
  BY DEF Settled, Attempt, TypeInv, TypeOK
<1>3. journal' \in [Rows -> Row]
  <2>1. o2.row \in 0..MaxRows /\ o2.status \in Status
    BY DEF Order
  <2>2. Marked(o2.row, o2.status) \in [Rows -> Row]
    BY <2>1, MarkedType DEF TypeInv, TypeOK
  <2> QED
    BY <2>2 DEF Settled, TypeInv, TypeOK
<1>4. \/ pc' = pc /\ visit' = visit \ {o} /\ UNCHANGED <<minute, fills, closing>>
      \/ pc' = "overdue" /\ minute' = None /\ visit' = {} /\ fills' = {} /\ closing' = {}
  BY DEF Settled, Abort
<1>5. \A S \in {snap', openPos', closing', book'} : \A x, y \in S : x = y
  <2>1. \A x, y \in closing : x = y
    BY DEF TypeInv, TypeOK
  <2> QED
    BY <1>4, <2>1 DEF TypeInv, TypeOK, wallet
<1>6. /\ pc' \in Pc /\ minute' \in Int
      /\ visit' \subseteq Order /\ fills' \subseteq Order /\ closing' \subseteq Position
  BY <1>4 DEF TypeInv, TypeOK, Pc, None
<1>7. /\ pc' \in {"feed", "commit"} => pc' = pc /\ minute' = minute
      /\ pc' \in {"down", "boot", "idle", "overdue"} => minute' = None
  BY <1>4
<1> QED
  BY <1>1, <1>2, <1>3, <1>5, <1>6, <1>7 DEF TypeInv, TypeOK, wallet, world

(* snapshot_series yields one row, of the type the store expects.           *)
LEMMA SnapshotType ==
  ASSUME eng \in Engine
  PROVE  Snapshot \subseteq [cursor : Int, eng : Engine] /\ \A x, y \in Snapshot : x = y
<1> DEFINE S == {[o EXCEPT !.status = "pending"] : o \in eng.orders}
<1>1. \A o \in Order : [o EXCEPT !.status = "pending"] \in Order
  BY DEF Order, Status
<1>2. S \subseteq Order
  BY <1>1 DEF Engine
<1>3. [eng EXCEPT !.orders = S] \in Engine
  BY <1>2 DEF Engine
<1>4. eng.last \in Int
  BY DEF Engine
<1> QED
  BY <1>3, <1>4 DEF Snapshot

(* Every action of the runner, the market and the crash keeps the types.    *)
LEMMA TypeStep == TypeInv /\ [Next]_vars => TypeInv'
<1> SUFFICES ASSUME TypeInv, [Next]_vars PROVE TypeInv'
  OBVIOUS
<1> USE DEF durable, loops, wallet, world
<1>0. /\ \A x, y \in snap : x = y
      /\ \A x, y \in openPos : x = y
      /\ \A x, y \in closing : x = y
      /\ \A x, y \in book : x = y
  BY DEF TypeInv, TypeOK
<1>gone. \A h : Gone(h) \subseteq Zones /\ Tapped(h) \subseteq Zones
  BY GoneType DEF TypeInv, TypeOK
<1>1. CASE Tick
  <2>1. now' \in Nat
    BY <1>1 DEF Tick, TypeInv, TypeOK
  <2>2. DOMAIN tape' \subseteq Nat /\ \A m \in DOMAIN tape' : tape'[m] \in Lows
    BY <1>1 DEF Tick, TypeInv, TypeOK
  <2>3. pc \in {"idle", "down"} /\ UNCHANGED pc
    BY <1>1 DEF Tick
  <2> QED
    BY <1>1, <2>1, <2>2, <2>3 DEF Tick, TypeInv, TypeOK
<1>2. CASE BeginMinute
  <2>1. minute' \in DOMAIN tape /\ pc' = "feed"
    BY <1>2 DEF BeginMinute, BeginFeed
  <2>2. visit' \subseteq Order
    BY <1>2 DEF BeginMinute, BeginFeed, TypeInv, TypeOK, Engine
  <2>3. minute' \in Int
    BY <2>1 DEF TypeInv, TypeOK
  <2> QED
    BY <1>2, <2>1, <2>2, <2>3 DEF BeginMinute, BeginFeed, TypeInv, TypeOK, Pc
<1>3. CASE BeginTail
  <2>1. visit' \subseteq Order
    BY <1>3 DEF BeginTail, BeginFeed, TypeInv, TypeOK, Engine
  <2>2. pc' = "feed" /\ minute' = None
    BY <1>3 DEF BeginTail, BeginFeed, TypeInv
  <2> QED
    BY <1>3, <2>1, <2>2 DEF BeginTail, BeginFeed, TypeInv, TypeOK, Pc
<1>4. CASE EndFeed
  <2>1. FeedTarget \in Int
    <3>1. Closed \in Int
      BY TimeAssumption DEF Closed, TypeInv, TypeOK
    <3>2. Bar(Closed) \in Int /\ Bar(minute) \in Int
      BY <3>1, BarType DEF TypeInv, TypeOK
    <3> QED
      BY <3>2 DEF FeedTarget, LastBar
  <2> DEFINE h == IF FeedTarget > eng.htf THEN FeedTarget ELSE eng.htf
             alive == {o \in eng.orders : o.zone \notin Gone(h)}
  <2>2. h \in Int /\ alive \subseteq Order
    BY <2>1 DEF TypeInv, TypeOK, Engine
  <2>3. /\ eng' = [eng EXCEPT !.htf = h, !.orders = alive]
        /\ visit' = IF Boundary THEN alive ELSE {}
    BY <1>4 DEF EndFeed
  <2>4. eng' \in Engine /\ visit' \subseteq Order
    BY <2>2, <2>3 DEF TypeInv, TypeOK, Engine
  <2> QED
    BY <1>4, <2>4 DEF EndFeed, TypeInv, TypeOK, Pc
<1>5. CASE EndCommit
  <2>1. minute \in DOMAIN tape /\ Low \in Int /\ Bar(minute) \in Int
    BY <1>5, BarType, ZonesAssumption DEF EndCommit, TypeInv, TypeOK, Low
  <2>2. eng' \in Engine
    BY <1>5, <2>1 DEF EndCommit, TypeInv, TypeOK, Engine
  <2> QED
    BY <1>5, <2>2 DEF EndCommit, TypeInv, TypeOK, Pc
<1>6. CASE EndArm
  BY <1>6 DEF EndArm, TypeInv, TypeOK, Engine, Pc
<1>7. CASE EndPrice
  <2>1. eng' \in Engine
    BY <1>7 DEF EndPrice, TypeInv, TypeOK, Engine
  <2> QED
    BY <1>7, <2>1 DEF EndPrice, TypeInv, TypeOK, Pc
<1>settle. Settle => /\ closing' \subseteq Position /\ book' = {} /\ equity' \in Nat /\ pc' = "persist"
                     /\ \A x, y \in closing' : x = y
  BY <1>0 DEF Settle, TypeInv, TypeOK
<1>8. CASE CheckExits
  <2>1. CASE Settle
    BY <1>8, <2>1, <1>0, <1>settle DEF CheckExits, TypeInv, TypeOK, Pc
  <2>2. CASE pc' = "save" /\ UNCHANGED <<closing, wallet>>
    BY <1>8, <2>2 DEF CheckExits, TypeInv, TypeOK, Pc
  <2> QED
    BY <1>8, <2>1, <2>2 DEF CheckExits
<1>snap. Snapshot \subseteq [cursor : Int, eng : Engine] /\ \A x, y \in Snapshot : x = y
  BY SnapshotType DEF TypeInv, TypeOK
<1>9. CASE EndPoll
  <2>1. snap' \in {snap, Snapshot} /\ written' \in {written, Snapshot}
    BY <1>9 DEF EndPoll, Store
  <2>2. /\ snap' \subseteq [cursor : Int, eng : Engine] /\ \A x, y \in snap' : x = y
        /\ written' \subseteq [cursor : Int, eng : Engine]
    BY <2>1, <1>0, <1>snap DEF TypeInv, TypeOK
  <2> QED
    BY <1>9, <2>2 DEF EndPoll, TypeInv, TypeOK, Pc
<1>10. ASSUME NEW ok \in BOOLEAN, NEW o \in visit,
              CancelInvalidated(o, ok) \/ CommitOrder(o, ok) \/ EndOrder(o, ok)
       PROVE  TypeInv'
  <2>1. o \in Order
    BY DEF TypeInv, TypeOK
  <2>2. \A status \in Status :
          /\ [o EXCEPT !.status = status] \in Order
          /\ [o EXCEPT !.elapsed = o.elapsed + 1, !.status = status] \in Order
    <3>1. o.elapsed + 1 \in Int
      BY <2>1 DEF Order
    <3> QED
      BY <2>1, <3>1 DEF Order
  <2>3. CASE CancelInvalidated(o, ok)
    <3>1. \E o2 \in Order : Settled(o, o2, ok)
      BY <2>1, <2>2, <2>3 DEF CancelInvalidated, Status
    <3> QED
      BY <2>3, <3>1, SettledType DEF CancelInvalidated
  <2>4. CASE CommitOrder(o, ok)
    <3> DEFINE status == IF o.elapsed + 1 >= LimitValidBars THEN "cancelled_expired" ELSE o.status
               o2 == IF ~Pending(o) THEN o
                     ELSE [o EXCEPT !.elapsed = o.elapsed + 1, !.status = status]
    <3>1. o2 \in Order
      BY <2>1, <2>2 DEF Order, Status
    <3>2. Settled(o, o2, ok)
      BY <2>4 DEF CommitOrder
    <3> QED
      BY <2>4, <3>1, <3>2, SettledType DEF CommitOrder
  <2>5. CASE EndOrder(o, ok)
    <3>1. \E o2 \in Order : Settled(o, o2, ok)
      BY <2>1, <2>2, <2>5 DEF EndOrder, Status
    <3> QED
      BY <2>5, <3>1, SettledType DEF EndOrder
  <2> QED
    BY <1>10, <2>3, <2>4, <2>5
<1>11. ASSUME NEW ok \in BOOLEAN, NEW o \in visit, FillOrder(o, ok) PROVE TypeInv'
  <2> DEFINE o2 == [o EXCEPT !.status = "filled"]
  <2>1. o \in Order /\ o2 \in Order /\ o.row \in 0..MaxRows
    BY DEF TypeInv, TypeOK, Order, Status
  <2>2. CASE Settled(o, o2, ok)
    BY <1>11, <2>1, <2>2, SettledType DEF FillOrder
  <2>3. CASE /\ journal' = Marked(o.row, "filled")
             /\ eng' = Swap(o, o2) /\ visit' = visit \ {o} /\ fills' = fills \cup {o2}
             /\ UNCHANGED <<closing, pc, minute, failures>>
    <3>1. eng' \in Engine
      BY <2>1, <2>3, SwapType DEF TypeInv, TypeOK
    <3>2. journal' \in [Rows -> Row]
      BY <2>1, <2>3, MarkedType DEF TypeInv, TypeOK, Status
    <3> QED
      BY <1>11, <2>1, <2>3, <3>1, <3>2 DEF FillOrder, TypeInv, TypeOK
  <2> QED
    BY <1>11, <2>2, <2>3 DEF FillOrder
<1>attempt. \A ok \in BOOLEAN : Attempt(ok) => failures' \in Nat
  BY DEF Attempt, TypeInv, TypeOK
<1>12. ASSUME NEW ok \in BOOLEAN, NEW o \in visit,
              RecordEntryResult(o, ok) \/ Fallback(o, ok)
       PROVE  TypeInv'
  <2>1. o.row \in 0..MaxRows
    BY DEF TypeInv, TypeOK, Order
  <2>2. \A verdict \in {"entered", "rejected"} : Judged(o.row, verdict) \in [Rows -> Row]
    BY <2>1, MarkedType DEF TypeInv, TypeOK
  <2>3. CASE RecordEntryResult(o, ok)
    <3>1. journal' \in [Rows -> Row]
      BY <2>2, <2>3 DEF RecordEntryResult, TypeInv, TypeOK
    <3>2. /\ pc' \in {"handle", "entered_fallback", "rejected_fallback"}
          /\ visit' \subseteq Order
      BY <2>3 DEF RecordEntryResult, TypeInv, TypeOK
    <3> QED
      BY <1>attempt, <2>3, <3>1, <3>2 DEF RecordEntryResult, TypeInv, TypeOK, Pc
  <2>4. CASE Fallback(o, ok)
    <3>1. journal' \in [Rows -> Row]
      BY <2>2, <2>4 DEF Fallback, TypeInv, TypeOK
    <3> QED
      BY <1>attempt, <2>4, <3>1 DEF Fallback, Abort, TypeInv, TypeOK, Pc, None
  <2> QED
    BY <1>12, <2>3, <2>4
<1>13. ASSUME NEW ok \in BOOLEAN, NEW z \in Zones, ArmZone(z, ok) PROVE TypeInv'
  <2> DEFINE o == [row |-> IF ok THEN nextRow ELSE 0, zone |-> z, placed |-> minute,
                   elapsed |-> 0, status |-> "pending"]
             row == [status |-> "pending", entry |-> "null", placed |-> minute]
  <2>1. nextRow \in Rows /\ nextRow + 1 \in 1..(MaxRows + 1)
    <3>1. nextRow <= MaxRows
      BY <1>13 DEF ArmZone
    <3>2. nextRow \in 1..(MaxRows + 1)
      BY DEF TypeInv, TypeOK
    <3> QED
      BY <3>1, <3>2, TimeAssumption DEF Rows
  <2>2. o \in Order /\ row \in Row
    BY <2>1, TimeAssumption DEF TypeInv, TypeOK, Order, Row, Status, Rows
  <2>3. eng' \in Engine
    BY <1>13, <2>2 DEF ArmZone, TypeInv, TypeOK, Engine
  <2>4. journal' \in [Rows -> Row] /\ nextRow' \in 1..(MaxRows + 1)
    BY <1>13, <2>1, <2>2 DEF ArmZone, TypeInv, TypeOK
  <2>5. \/ pc' = "arm" /\ UNCHANGED <<minute, visit, fills, closing>>
        \/ Abort
    BY <1>13 DEF ArmZone
  <2>6. /\ pc' \in Pc /\ pc' \notin {"feed", "commit"} /\ minute' \in Int
        /\ pc' \in {"down", "boot", "idle", "overdue"} => minute' = None
        /\ visit' \subseteq Order /\ fills' \subseteq Order /\ closing' \subseteq Position
        /\ \A x, y \in closing' : x = y
    BY <1>0, <2>5 DEF Abort, TypeInv, TypeOK, Pc, None
  <2> QED
    BY <1>13, <1>0, <1>attempt, <2>3, <2>4, <2>6 DEF ArmZone, TypeInv, TypeOK
<1>14. ASSUME NEW ok \in BOOLEAN, NEW o \in fills, TakeFill(o, ok) PROVE TypeInv'
  <2>1. CASE ~ok
    BY <1>14, <1>attempt, <2>1 DEF TakeFill, Abort, TypeInv, TypeOK, Pc, None
  <2>2. CASE ok
    <3>1. fills' \subseteq Order /\ visit' \subseteq Order
      BY <1>14, <2>2 DEF TakeFill, TypeInv, TypeOK
    <3>2. CASE Settle
      BY <1>14, <1>0, <1>attempt, <1>settle, <2>2, <3>1, <3>2 DEF TakeFill, TypeInv, TypeOK, Pc
    <3>3. CASE pc' = "judge" /\ UNCHANGED <<closing, wallet>>
      BY <1>14, <1>attempt, <2>2, <3>1, <3>3 DEF TakeFill, TypeInv, TypeOK, Pc
    <3> QED
      BY <1>14, <2>2, <3>2, <3>3 DEF TakeFill
  <2> QED
    BY <2>1, <2>2
<1>15. ASSUME NEW ok \in BOOLEAN, NEW p \in closing, PersistTrade(p, ok) PROVE TypeInv'
  <2> DEFINE t == [row |-> p.row, entry |-> p.entry, exit |-> minute]
  <2>1. t \in Trade
    BY DEF TypeInv, TypeOK, Position, Trade
  <2>2. Upsert(t) \subseteq Trade /\ IsFiniteSet(Upsert(t))
    <3>1. IsFiniteSet({u \in trades : <<u.entry, u.exit>> # <<t.entry, t.exit>>})
      BY FS_Subset DEF TypeInv
    <3>2. IsFiniteSet(Upsert(t))
      BY <3>1, FS_AddElement DEF Upsert
    <3> QED
      BY <2>1, <3>2 DEF Upsert, TypeInv, TypeOK
  <2>3. trades' \subseteq Trade /\ IsFiniteSet(trades')
    BY <1>15, <2>2 DEF PersistTrade, TypeInv, TypeOK
  <2> QED
    BY <1>15, <1>attempt, <2>3 DEF PersistTrade, TypeInv, TypeOK, Pc
<1>16. ASSUME NEW ok \in BOOLEAN, RecordOpen(ok) \/ RemoveOpen(ok) PROVE TypeInv'
  <2>1. CASE RecordOpen(ok)
    BY <1>0, <1>attempt, <2>1 DEF RecordOpen, TypeInv, TypeOK, Pc
  <2>2. CASE RemoveOpen(ok)
    <3>1. \/ pc' \in {"save", "judge"} /\ openPos' = {} /\ UNCHANGED <<minute, visit, fills, closing>>
          \/ Abort /\ UNCHANGED openPos
      BY <2>2 DEF RemoveOpen
    <3>2. /\ pc' \in Pc /\ pc' \notin {"feed", "commit"} /\ minute' \in Int
          /\ pc' \in {"down", "boot", "idle", "overdue"} => minute' = None
          /\ visit' \subseteq Order /\ fills' \subseteq Order
          /\ closing' \subseteq Position /\ openPos' \subseteq Position
          /\ \A x, y \in closing' : x = y
          /\ \A x, y \in openPos' : x = y
      BY <1>0, <3>1 DEF Abort, TypeInv, TypeOK, Pc, None
    <3> QED
      BY <1>0, <1>attempt, <2>2, <3>2 DEF RemoveOpen, TypeInv, TypeOK
  <2> QED
    BY <1>16, <2>1, <2>2
<1>17. ASSUME NEW ok \in BOOLEAN, SaveState(ok) PROVE TypeInv'
  <2>1. cursor' \in Int
    BY <1>17 DEF SaveState, TypeInv, TypeOK
  <2>2. CASE ok
    <3>1. past' \in [gone : SUBSET Zones, tapped : SUBSET Zones]
      BY <1>17, <1>gone, <2>2 DEF SaveState, Forget
    <3>2. DOMAIN tape' \subseteq Nat /\ \A m \in DOMAIN tape' : tape'[m] \in Lows
      BY <1>17, <2>2 DEF SaveState, Forget, TypeInv, TypeOK
    <3>3. /\ snap' \in {snap, Snapshot} /\ written' \in {written, Snapshot}
          /\ pc' = "idle" /\ minute' = None
      BY <1>17, <2>2 DEF SaveState, Store
    <3>4. UNCHANGED <<journal, nextRow, openPos, trades, wallet, now, crashes, eng, loops>>
      BY <1>17, <2>2 DEF SaveState
    <3>5. failures' \in Nat
      BY <1>17, <1>attempt DEF SaveState
    <3> QED
      BY <1>0, <1>snap, <2>1, <3>1, <3>2, <3>3, <3>4, <3>5 DEF TypeInv, TypeOK, Pc, None
  <2>3. CASE ~ok
    BY <1>17, <1>attempt, <2>1, <2>3 DEF SaveState, Abort, TypeInv, TypeOK, Pc, None
  <2> QED
    BY <2>2, <2>3
<1>18. ASSUME NEW o \in visit, KeepOrder(o) \/ Judge(o) PROVE TypeInv'
  <2>1. CASE KeepOrder(o)
    BY <2>1 DEF KeepOrder, TypeInv, TypeOK
  <2>2. CASE Judge(o)
    <3>1. [row |-> o.row, zone |-> o.zone, entry |-> minute] \in Position
      BY DEF TypeInv, TypeOK, Order, Position
    <3>2. /\ book' \subseteq Position /\ \A x, y \in book' : x = y
          /\ pc' \in {"rejected", "open"}
      BY <1>0, <2>2, <3>1 DEF Judge, TypeInv, TypeOK
    <3> QED
      BY <1>0, <2>2, <3>2 DEF Judge, TypeInv, TypeOK, Pc
  <2> QED
    BY <1>18, <2>1, <2>2
<1>25. ASSUME NEW ok \in BOOLEAN, NEW o \in visit, DiscardOrder(o, ok) PROVE TypeInv'
  <2>1. o.row \in 0..MaxRows
    BY DEF TypeInv, TypeOK, Order
  <2>2. CASE ok
    <3>1. journal' \in [Rows -> Row] /\ visit' \subseteq Order
      BY <1>25, <2>1, <2>2, MarkedType DEF DiscardOrder, TypeInv, TypeOK
    <3> QED
      BY <1>25, <1>attempt, <2>2, <3>1 DEF DiscardOrder, TypeInv, TypeOK
  <2>3. CASE ~ok
    BY <1>25, <1>attempt, <2>3 DEF DiscardOrder, Abort, TypeInv, TypeOK, Pc, None
  <2> QED
    BY <2>2, <2>3
<1>19. ASSUME NEW o \in eng.orders, ExpireOverdue(o) PROVE TypeInv'
  <2>1. o.row \in 0..MaxRows
    BY DEF TypeInv, TypeOK, Engine, Order
  <2>2. journal' \in [Rows -> Row]
    BY <1>19, <2>1, MarkedType DEF ExpireOverdue, TypeInv, TypeOK, Status
  <2>3. eng' \in Engine
    BY <1>19 DEF ExpireOverdue, TypeInv, TypeOK, Engine
  <2> QED
    BY <1>19, <2>2, <2>3 DEF ExpireOverdue, TypeInv, TypeOK
<1>20. CASE Boot
  <2>1. \A s \in snap : Restored(s) \in Engine /\ s.cursor \in Int
    BY DEF Restored, TypeInv, TypeOK, Engine
  <2>2. /\ cursor' \in Int /\ eng' \in Engine
        /\ snap' \subseteq [cursor : Int, eng : Engine] /\ \A x, y \in snap' : x = y
    <3>1. NoEngine \in Engine
      BY DEF NoEngine, Engine, None
    <3> QED
      BY <1>0, <1>20, <2>1, <3>1 DEF Boot, TypeInv, TypeOK, None
  <2>3. equity' \in Nat
    BY <1>20, FS_CardinalityType DEF Boot, TypeInv
  <2> QED
    BY <1>0, <1>20, <2>2, <2>3 DEF Boot, TypeInv, TypeOK, Pc
<1>21. CASE DiscardStale
  <2>1. journal' \in [Rows -> Row]
    BY <1>21 DEF DiscardStale, TypeInv, TypeOK, Row
  <2> QED
    BY <1>21, <2>1 DEF DiscardStale, TypeInv, TypeOK, Pc
<1>22. ASSUME NEW r \in Rows, ExpireStale(r) PROVE TypeInv'
  <2>1. journal' \in [Rows -> Row]
    BY <1>22 DEF ExpireStale, TypeInv, TypeOK, Row, Status
  <2> QED
    BY <1>22, <2>1 DEF ExpireStale, TypeInv, TypeOK
<1>23. CASE Crash
  <2>1. NoEngine \in Engine
    BY DEF NoEngine, Engine, None
  <2> QED
    BY <1>23, <2>1 DEF Crash, TypeInv, TypeOK, Pc, None
<1>24. CASE UNCHANGED vars
  BY <1>24 DEF vars, TypeInv, TypeOK, None
<1> QED
  BY <1>1, <1>2, <1>3, <1>4, <1>5, <1>6, <1>7, <1>8, <1>9, <1>10, <1>11, <1>12, <1>13, <1>14,
     <1>15, <1>16, <1>17, <1>18, <1>19, <1>20, <1>21, <1>22, <1>23, <1>24, <1>25
     DEF Next, Poll, Start

(* The type invariant holds of the runner, its crashes and its failing      *)
(* writes included: no sequence of them leaves a variable, or one of the    *)
(* slots that exist once per cell, in a state the code does not know.       *)
THEOREM TypeCorrect == Spec => []TypeOK
<1>1. Spec => []TypeInv
  BY InitType, TypeStep, PTL DEF Spec
<1>2. TypeInv => TypeOK
  BY DEF TypeInv
<1> QED
  BY <1>1, <1>2, PTL

------------------------------------------------------------------------------
(* While no write raises.                                                   *)

(* The parts of a minute: what follows its prices, and all that consumes it.*)
AfterPrice == {"handle", "judge", "open", "entered", "rejected", "entered_fallback",
               "rejected_fallback", "persist", "remove", "save"}
InMinute == AfterPrice \cup {"commit", "arm", "price"}

(* The last minute whose bar the engine has begun.                          *)
Consumed == IF pc \in {"arm", "price"} THEN minute ELSE eng.last

(* The runner's cursor and the engine's clock tell the same time, and no    *)
(* minute is left out between two that are consumed, also when the second   *)
(* is the first after a restart.                                            *)
TimesAgree ==
  /\ pc \in InMinute => minute # None
  /\ pc \notin AfterPrice => cursor = eng.last
  /\ pc \in AfterPrice => minute = eng.last
  /\ pc \notin AfterPrice /\ minute # None => cursor = None \/ minute = cursor + 1
  /\ Consumed # None => eng.forming = Bar(Consumed)
  /\ \A s \in snap : s.cursor = s.eng.last /\ s.cursor # None /\ s.eng.forming = Bar(s.cursor)

(* The fills between record_filled and their verdict.                       *)
Handling == pc \in {"judge", "persist", "remove", "open", "entered", "rejected"}
Unjudged == fills \cup (IF Handling THEN visit ELSE {})

NoFailure ==
  /\ failures = 0
  /\ pc \notin {"entered_fallback", "rejected_fallback"}

(* Rows not yet given out are blank, and only a fill has a verdict.         *)
RowsInOrder ==
  \A r \in Rows :
    /\ r >= nextRow => journal[r].status = "none"
    /\ journal[r].status \in {"none", "pending"} => journal[r].entry = "null"

(* Every order has a row of its own, pending as long as it is.              *)
OrdersInJournal ==
  /\ \A o \in eng.orders : /\ o.row # 0 /\ o.row < nextRow
                           /\ Pending(o) => journal[o.row].status = "pending"
  /\ \A o, p \in eng.orders : o.row = p.row => o = p

(* A loop visits pending orders only, and the order it ended is dropped     *)
(* when it ends: with the zones that are gone after the feed, and with what *)
(* is no longer pending after the other two.                                *)
LoopsAreOrderly ==
  /\ pc \in {"feed", "commit", "price"} => visit \subseteq {o \in eng.orders : Pending(o)}
  /\ pc \notin {"feed", "commit", "price"} => \A o \in eng.orders : Pending(o)
  /\ pc = "feed" => \A o \in visit \cup {p \in eng.orders : ~Pending(p)} :
                      FeedTarget > eng.htf /\ o.zone \in Gone(FeedTarget)
  /\ pc = "commit" /\ ~Boundary => visit = {} /\ \A o \in eng.orders : Pending(o)
  /\ pc = "handle" => visit = {}

(* A fill awaits its verdict on a row of its own.                           *)
FillsInJournal ==
  /\ \A o \in Unjudged : /\ o.row # 0
                         /\ journal[o.row].status = "filled" /\ journal[o.row].entry = "null"
  /\ \A o, p \in Unjudged : o.row = p.row => o = p
  /\ Handling => visit \cap fills = {}

(* What a restart would read back are orders that were once placed.         *)
SnapshotInJournal ==
  \A s \in snap :
    /\ \A o \in s.eng.orders : o.row # 0 /\ o.row < nextRow /\ Pending(o)
    /\ \A o, p \in s.eng.orders : o.row = p.row => o = p

FaultlessInv ==
  /\ TypeInv /\ NoFailure /\ RowsInOrder /\ OrdersInJournal /\ LoopsAreOrderly
  /\ FillsInJournal /\ SnapshotInJournal /\ TimesAgree

(* A bar is committed by a minute of the bar right after it.                *)
LEMMA BoundaryIsNextBar ==
  ASSUME TypeInv, TimesAgree, Boundary, pc \notin AfterPrice \cup {"arm", "price"}
  PROVE  Bar(minute) = eng.forming + 1
<1>1. minute = eng.last + 1 /\ eng.forming = Bar(eng.last) /\ Bar(minute) # eng.forming
  BY DEF Boundary, TimesAgree, Consumed
<1>2. eng.last \in Int
  BY DEF TypeInv, TypeOK, Engine
<1>3. Bar(eng.last + 1) \in {Bar(eng.last), Bar(eng.last) + 1}
  BY <1>2, BarOfNext
<1> QED
  BY <1>1, <1>3

(* So the engine never gives its orders up (_discard_orders).               *)
LEMMA NothingIsSkipped ==
  ASSUME TypeInv, TimesAgree, pc \notin AfterPrice \cup {"arm", "price"}
  PROVE  ~Skipped
<1>1. eng.forming \in Int
  BY DEF TypeInv, TypeOK, Engine
<1> QED
  BY <1>1, BoundaryIsNextBar DEF Skipped

(* DiscardOrder is a step of runs with failing writes only.                 *)
LEMMA NothingIsDiscarded ==
  ASSUME FaultlessInv
  PROVE  ~\E ok \in BOOLEAN, o \in visit : DiscardOrder(o, ok)
<1>1. pc = "commit" => ~Skipped
  BY NothingIsSkipped DEF FaultlessInv, AfterPrice
<1>2. ASSUME NEW ok \in BOOLEAN, NEW o \in visit, DiscardOrder(o, ok) PROVE FALSE
  BY <1>1, <1>2 DEF DiscardOrder
<1> QED
  BY <1>2

(* The journal of a first start is empty, so nothing in memory disagrees    *)
(* with it.                                                                 *)
LEMMA InitFaultless == Init => FaultlessInv
<1> SUFFICES ASSUME Init PROVE FaultlessInv
  OBVIOUS
<1>1. TypeInv /\ NoFailure /\ RowsInOrder
  BY InitType DEF Init, NoFailure, RowsInOrder
<1>2. OrdersInJournal /\ LoopsAreOrderly
  BY DEF Init, NoEngine, OrdersInJournal, LoopsAreOrderly
<1>3. FillsInJournal /\ SnapshotInJournal
  BY DEF Init, FillsInJournal, SnapshotInJournal, Unjudged, Handling
<1>4. TimesAgree
  BY DEF Init, NoEngine, TimesAgree, Consumed, InMinute, AfterPrice
<1> QED
  BY <1>1, <1>2, <1>3, <1>4 DEF FaultlessInv

(* The journal of a first start is OrderLifecycle's: no row is placed.      *)
LEMMA InitLife == Init => Journal!Init
  BY DEF Init, Journal!Init, life, Rows

(* A write to one row moves the life of that row only.                      *)
LEMMA LifeChange ==
  ASSUME NEW r \in Rows, \A q \in Rows \ {r} : journal'[q] = journal[q]
  PROVE  life' = [life EXCEPT ![r] = life'[r]]
  BY DEF life

(* A pending row that is marked is closed, or filled.                       *)
LEMMA MarkedLife ==
  ASSUME journal \in [Rows -> Row], RowsInOrder, NEW r \in Rows,
         journal[r].status = "pending",
         NEW status \in Status \ {"pending"}, journal' = Marked(r, status)
  PROVE  /\ Journal!Next
         /\ \A q \in Rows \ {r} : journal'[q] = journal[q]
         /\ journal'[r].status = status /\ journal'[r].entry = "null"
<1>0. r # 0
  BY DEF Rows
<1>1. /\ \A q \in Rows \ {r} : journal'[q] = journal[q]
      /\ journal'[r].status = status /\ journal'[r].entry = "null"
  BY <1>0 DEF Marked, RowsInOrder, Row
<1>2. life' = [life EXCEPT ![r] = life'[r]]
  BY <1>1, LifeChange
<1>3. life[r] = "pending" /\ life'[r] = IF status = "filled" THEN "filled" ELSE "closed"
  BY <1>1 DEF life, Status
<1>4. Journal!Close(r) \/ Journal!Fill(r)
  BY <1>2, <1>3 DEF Journal!Close, Journal!Fill, Journal!Move
<1> QED
  BY <1>1, <1>4 DEF Journal!Next

(* One step of a loop over the orders.                                      *)
LEMMA Visited ==
  ASSUME FaultlessInv, pc \in {"feed", "commit", "price"}, NEW o \in visit,
         NEW o2 \in Order, o2.row = o.row, o2.zone = o.zone,
         eng' = Swap(o, o2), visit' = visit \ {o},
         journal' = IF Pending(o2) THEN journal ELSE Marked(o2.row, o2.status),
         UNCHANGED <<pc, minute, failures, nextRow, snap, world>>
  PROVE  /\ NoFailure' /\ RowsInOrder' /\ OrdersInJournal' /\ LoopsAreOrderly'
         /\ SnapshotInJournal'
         /\ [Journal!Next]_life
         /\ \A q \in Rows : journal[q].status # "pending" => journal'[q] = journal[q]
         /\ journal[o.row].status = "pending" /\ o.row \in Rows
         /\ ~Pending(o2) => /\ journal'[o.row].status = o2.status
                            /\ journal'[o.row].entry = "null"
<1>1. /\ o \in Order /\ o \in eng.orders /\ Pending(o) /\ o.row \in Rows
      /\ journal[o.row].status = "pending"
  BY TimeAssumption DEF FaultlessInv, LoopsAreOrderly, OrdersInJournal, TypeInv, TypeOK, Order, Rows
<1>2. /\ journal \in [Rows -> Row] /\ nextRow \in Nat /\ eng.orders \subseteq Order
      /\ \A p \in Order : p.row \in 0..MaxRows
  BY TimeAssumption DEF FaultlessInv, TypeInv, TypeOK, Engine, Order
<1>3. /\ \A q \in Rows \ {o.row} : journal'[q] = journal[q]
      /\ [Journal!Next]_life
      /\ ~Pending(o2) => /\ journal'[o.row].status = o2.status
                         /\ journal'[o.row].entry = "null"
      /\ Pending(o2) => journal' = journal
  <2>1. CASE Pending(o2)
    BY <2>1 DEF life
  <2>2. CASE ~Pending(o2)
    <3>1. o2.status \in Status \ {"pending"}
      BY <2>2 DEF Order, Pending
    <3> QED
      BY <1>1, <1>2, <2>2, <3>1, MarkedLife DEF FaultlessInv
  <2> QED
    BY <2>1, <2>2
<1>4. /\ eng'.orders = (eng.orders \ {o}) \cup {o2}
      /\ eng'.htf = eng.htf /\ eng'.forming = eng.forming /\ eng'.last = eng.last
  BY DEF Swap, FaultlessInv, TypeInv, TypeOK, Engine
<1>5. NoFailure' /\ SnapshotInJournal'
  BY DEF FaultlessInv, NoFailure, SnapshotInJournal, Pending
<1>6. RowsInOrder'
  BY <1>1, <1>2, <1>3 DEF FaultlessInv, RowsInOrder, OrdersInJournal
<1>7. OrdersInJournal'
  BY <1>1, <1>2, <1>3, <1>4 DEF FaultlessInv, OrdersInJournal, Pending, Rows
<1>8. LoopsAreOrderly'
  BY <1>1, <1>4 DEF FaultlessInv, LoopsAreOrderly, Pending, FeedTarget, Gone, Until, Boundary,
     LastBar, Closed, world
<1> QED
  BY <1>1, <1>3, <1>5, <1>6, <1>7, <1>8

(* When no write raises, no step lets the clocks part.                      *)
LEMMA TimesStep ==
  ASSUME MaxFailures = 0, FaultlessInv, [Next]_vars
  PROVE  TimesAgree'
<1> USE DEF durable, loops, wallet, world
<1>0. /\ eng \in Engine /\ minute \in Int /\ cursor \in Int /\ eng.last \in Int
      /\ TypeInv /\ TimesAgree
  BY DEF FaultlessInv, TypeInv, TypeOK, Engine
<1>ok. \A ok \in BOOLEAN : Attempt(ok) => ok
  BY DEF Attempt, FaultlessInv, NoFailure
<1>swap. \A o, o2 : Swap(o, o2).last = eng.last /\ Swap(o, o2).forming = eng.forming
  BY <1>0 DEF Swap, Engine
(* A step within one part of the minute, or outside of it.                  *)
<1>steady. ASSUME UNCHANGED <<cursor, minute, snap>>, eng'.last = eng.last,
                  eng'.forming = eng.forming,
                  pc \in InMinute <=> pc' \in InMinute,
                  pc \in AfterPrice <=> pc' \in AfterPrice,
                  pc \in {"arm", "price"} <=> pc' \in {"arm", "price"}
           PROVE  TimesAgree'
  BY <1>0, <1>steady DEF TimesAgree, Consumed, Bar
<1>1. ASSUME NEW o \in visit, NEW ok \in BOOLEAN,
             CancelInvalidated(o, ok) \/ CommitOrder(o, ok) \/ FillOrder(o, ok) \/ EndOrder(o, ok)
      PROVE  TimesAgree'
  <2>1. pc \in {"feed", "commit", "price"} /\ o.status = "pending"
    BY <1>1 DEF CancelInvalidated, CommitOrder, FillOrder, EndOrder, FaultlessInv, LoopsAreOrderly,
       Pending
  <2>2. UNCHANGED <<cursor, snap>> /\ eng'.last = eng.last /\ eng'.forming = eng.forming
    BY <1>1, <1>swap DEF CancelInvalidated, CommitOrder, FillOrder, EndOrder, Settled
  <2>3. UNCHANGED <<pc, minute>>
    BY <1>1, <1>ok, <2>1 DEF CancelInvalidated, CommitOrder, FillOrder, EndOrder, Settled
  <2> QED
    BY <1>steady, <2>2, <2>3
<1>2. ASSUME NEW o \in visit, NEW ok \in BOOLEAN, DiscardOrder(o, ok) PROVE TimesAgree'
  BY <1>0, <1>2, NothingIsSkipped DEF DiscardOrder, AfterPrice
<1>3. ASSUME NEW ok \in BOOLEAN, NEW z \in Zones, ArmZone(z, ok) PROVE TimesAgree'
  <2>1. /\ eng'.last = eng.last /\ eng'.forming = eng.forming
        /\ UNCHANGED <<pc, minute, cursor, snap>>
    BY <1>0, <1>3, <1>ok DEF ArmZone, Engine
  <2> QED
    BY <1>steady, <2>1
<1>4. ASSUME NEW ok \in BOOLEAN,
             \/ CheckExits \/ RecordOpen(ok) \/ RemoveOpen(ok) \/ EndArm
             \/ \E o \in visit : Judge(o) \/ RecordEntryResult(o, ok) \/ KeepOrder(o)
             \/ \E o \in fills : TakeFill(o, ok)
             \/ \E p \in closing : PersistTrade(p, ok)
      PROVE  TimesAgree'
  <2>1. /\ UNCHANGED <<eng, cursor, snap, minute>>
        /\ \/ pc \in AfterPrice /\ pc' \in AfterPrice
           \/ pc \in {"arm", "price"} /\ pc' \in {"arm", "price"}
    BY <1>4, <1>ok DEF CheckExits, RecordOpen, RemoveOpen, EndArm, Judge, RecordEntryResult,
       KeepOrder, TakeFill, PersistTrade, Settle, AfterPrice
  <2> QED
    BY <1>steady, <2>1 DEF InMinute, AfterPrice
<1>5. ASSUME NEW o \in visit, NEW ok \in BOOLEAN, Fallback(o, ok) PROVE TimesAgree'
  BY <1>5 DEF Fallback, FaultlessInv, NoFailure
<1>6. ASSUME NEW o \in eng.orders, ExpireOverdue(o) PROVE TimesAgree'
  <2>1. eng'.last = eng.last /\ eng'.forming = eng.forming
    BY <1>0, <1>6 DEF ExpireOverdue, Engine
  <2> QED
    BY <1>6, <1>steady, <2>1 DEF ExpireOverdue
<1>7. CASE Tick
  BY <1>7, <1>steady DEF Tick
<1>8. CASE BeginMinute \/ BeginTail
  <2>1. /\ UNCHANGED <<eng, cursor, snap>> /\ pc = "idle" /\ pc' = "feed"
        /\ minute' = minute \/ minute' = NextMinute
    BY <1>8 DEF BeginMinute, BeginTail, BeginFeed
  <2> QED
    BY <1>0, <2>1 DEF TimesAgree, Consumed, InMinute, AfterPrice, NextMinute, Bar
<1>9. CASE EndFeed
  <2>1. /\ eng'.last = eng.last /\ eng'.forming = eng.forming /\ UNCHANGED <<cursor, snap, minute>>
        /\ pc = "feed" /\ pc' = (IF minute = None THEN "overdue" ELSE "commit")
    BY <1>0, <1>9 DEF EndFeed, Engine
  <2> QED
    BY <1>0, <2>1 DEF TimesAgree, Consumed, InMinute, AfterPrice, Bar
<1>10. CASE EndCommit
  <2>1. /\ pc = "commit" /\ pc' = "arm" /\ UNCHANGED <<cursor, snap, minute>>
        /\ eng'.last = eng.last /\ eng'.forming = Bar(minute)
    BY <1>0, <1>10 DEF EndCommit, Engine
  <2> QED
    BY <1>0, <2>1 DEF TimesAgree, Consumed, InMinute, AfterPrice, Bar
<1>11. CASE EndPrice
  <2>1. /\ pc = "price" /\ pc' = "handle" /\ UNCHANGED <<cursor, snap, minute>>
        /\ eng'.last = minute /\ eng'.forming = eng.forming
    BY <1>0, <1>11 DEF EndPrice, Engine
  <2> QED
    BY <1>0, <2>1 DEF TimesAgree, Consumed, InMinute, AfterPrice, Bar
<1>snapshot. \A s \in Snapshot : s.cursor = eng.last /\ s.eng.last = eng.last
                                 /\ s.eng.forming = eng.forming
  BY <1>0 DEF Snapshot, Engine
<1>12. ASSUME NEW ok \in BOOLEAN, SaveState(ok) PROVE TimesAgree'
  <2>1. /\ pc = "save" /\ pc' = "idle" /\ minute' = None /\ cursor' = minute
        /\ eng' = eng /\ snap' \in {snap, Snapshot}
    BY <1>12, <1>ok DEF SaveState, Store
  <2>2. minute # None /\ eng.last = minute /\ eng.forming = Bar(eng.last)
    BY <1>0, <2>1 DEF TimesAgree, Consumed, InMinute, AfterPrice
  <2> QED
    BY <1>0, <1>snapshot, <2>1, <2>2 DEF TimesAgree, Consumed, InMinute, AfterPrice, Bar
<1>13. CASE EndPoll
  <2>1. /\ pc = "overdue" /\ pc' = "idle" /\ UNCHANGED <<cursor, minute, eng>>
        /\ snap' = snap \/ (eng.last # None /\ snap' = Snapshot)
    BY <1>13 DEF EndPoll, Store
  <2> QED
    BY <1>0, <1>snapshot, <2>1 DEF TimesAgree, Consumed, InMinute, AfterPrice, Bar
<1>14. CASE Boot
  <2>1. /\ pc' = "boot" /\ minute' = None /\ snap' \subseteq snap
        /\ \/ cursor' = None /\ eng' = NoEngine
           \/ \E s \in snap : cursor' = s.cursor /\ eng' = Restored(s)
    BY <1>0, <1>14 DEF Boot, TypeInv
  <2>2. \A s \in snap : Restored(s).last = s.eng.last /\ Restored(s).forming = s.eng.forming
    BY <1>0 DEF Restored, TypeInv, TypeOK, Engine
  <2> QED
    BY <1>0, <2>1, <2>2 DEF TimesAgree, Consumed, InMinute, AfterPrice, NoEngine, Bar
<1>15. CASE DiscardStale \/ \E r \in Rows : ExpireStale(r)
  BY <1>15, <1>steady DEF DiscardStale, ExpireStale, InMinute, AfterPrice
<1>16. CASE Crash
  BY <1>0, <1>16 DEF Crash, NoEngine, TimesAgree, Consumed, InMinute, AfterPrice, Bar
<1>17. CASE UNCHANGED vars
  BY <1>17, <1>steady DEF vars
<1> QED
  BY <1>1, <1>2, <1>3, <1>4, <1>5, <1>6, <1>7, <1>8, <1>9, <1>10, <1>11, <1>12, <1>13, <1>14,
     <1>15, <1>16, <1>17 DEF Next, Poll, Start

(* When no write raises, every step leaves the memory and the journal in    *)
(* agreement.                                                               *)
LEMMA FaultlessStep ==
  ASSUME MaxFailures = 0, FaultlessInv, [Next]_vars
  PROVE  FaultlessInv' /\ [Journal!Next]_life
<1> USE DEF durable, loops, wallet, world
<1> DEFINE Inv == NoFailure /\ RowsInOrder /\ OrdersInJournal /\ LoopsAreOrderly
                  /\ FillsInJournal /\ SnapshotInJournal
           Goal == Inv' /\ [Journal!Next]_life
<1> SUFFICES Goal
  BY TypeStep, TimesStep DEF FaultlessInv
<1>0. /\ TypeInv /\ NoFailure /\ RowsInOrder /\ OrdersInJournal /\ LoopsAreOrderly
      /\ FillsInJournal /\ SnapshotInJournal
      /\ journal \in [Rows -> Row] /\ nextRow \in Nat
      /\ eng \in Engine /\ visit \subseteq Order /\ fills \subseteq Order
      /\ \A o \in Order : o.row \in 0..MaxRows
  BY DEF FaultlessInv, TypeInv, TypeOK, Order
<1>skip. pc = "commit" => ~Skipped
  BY NothingIsSkipped DEF FaultlessInv, AfterPrice
<1>rows. \A r \in 0..MaxRows : r # 0 => r \in Rows
  BY TimeAssumption DEF Rows
<1>ok. \A ok \in BOOLEAN : Attempt(ok) => ok /\ failures' = failures
  BY <1>0 DEF Attempt, NoFailure
<1>quiet. journal' = journal => life' = life
  BY DEF life
<1>1. CASE Tick
  <2>1. OrdersInJournal' /\ LoopsAreOrderly' /\ SnapshotInJournal'
    BY <1>0, <1>1 DEF Tick, OrdersInJournal, LoopsAreOrderly, SnapshotInJournal, Pending
  <2>2. NoFailure' /\ RowsInOrder' /\ FillsInJournal'
    BY <1>0, <1>1 DEF Tick, NoFailure, RowsInOrder, FillsInJournal, Unjudged, Handling
  <2> QED
    BY <1>1, <1>quiet, <2>1, <2>2 DEF Tick
<1>2. ASSUME NEW h, pc = "idle", BeginFeed(h), h = FeedTarget' PROVE Goal
  <2>1. LoopsAreOrderly'
    BY <1>0, <1>2 DEF BeginFeed, LoopsAreOrderly, Pending, Gone, Until
  <2>2. OrdersInJournal' /\ SnapshotInJournal'
    BY <1>0, <1>2 DEF BeginFeed, OrdersInJournal, SnapshotInJournal, Pending
  <2>3. NoFailure' /\ RowsInOrder' /\ FillsInJournal'
    BY <1>0, <1>2 DEF BeginFeed, NoFailure, RowsInOrder, FillsInJournal, Unjudged, Handling
  <2> QED
    BY <1>2, <1>quiet, <2>1, <2>2, <2>3 DEF BeginFeed
<1>3. CASE BeginMinute
  <2>1. minute' # None /\ minute' = NextMinute
    BY <1>0, <1>3 DEF BeginMinute, TypeInv, TypeOK, None
  <2> QED
    BY <1>2, <1>3, <2>1 DEF BeginMinute, FeedTarget
<1>4. CASE BeginTail
  <2>1. minute = None /\ minute' = None
    BY <1>0, <1>4 DEF BeginTail, TypeInv
  <2>2. LastBar' = LastBar
    BY <1>4 DEF BeginTail, BeginFeed, LastBar, Closed
  <2> QED
    BY <1>2, <1>4, <2>1, <2>2 DEF BeginTail, FeedTarget
<1>5. CASE EndFeed
  <2> DEFINE h == IF FeedTarget > eng.htf THEN FeedTarget ELSE eng.htf
             alive == {o \in eng.orders : o.zone \notin Gone(h)}
  <2>1. /\ eng'.orders = alive /\ eng'.forming = eng.forming /\ eng'.last = eng.last
        /\ visit' = IF Boundary THEN alive ELSE {}
        /\ pc' = (IF minute = None THEN "overdue" ELSE "commit")
        /\ pc = "feed" /\ UNCHANGED <<journal, nextRow, snap, failures, fills, minute>>
    BY <1>0, <1>5 DEF EndFeed, Engine
  <2>2. \A o \in alive : Pending(o)
    BY <1>0, <2>1 DEF LoopsAreOrderly
  <2>3. LoopsAreOrderly'
    BY <2>1, <2>2 DEF LoopsAreOrderly, Pending, Boundary
  <2>4. OrdersInJournal' /\ SnapshotInJournal'
    BY <1>0, <2>1 DEF OrdersInJournal, SnapshotInJournal, Pending
  <2>5. NoFailure' /\ RowsInOrder' /\ FillsInJournal'
    BY <1>0, <2>1 DEF NoFailure, RowsInOrder, FillsInJournal, Unjudged, Handling
  <2> QED
    BY <1>quiet, <2>1, <2>3, <2>4, <2>5
<1>6. CASE EndCommit \/ EndPrice
  <2>1. /\ eng'.orders \subseteq eng.orders /\ \A o \in eng'.orders : Pending(o)
        /\ pc \in {"commit", "price"} /\ pc' \in {"arm", "handle"} /\ visit' = {}
        /\ UNCHANGED <<journal, nextRow, snap, failures, fills>>
    BY <1>0, <1>6, <1>skip DEF EndCommit, EndPrice, Engine, LoopsAreOrderly
  <2>2. LoopsAreOrderly' /\ OrdersInJournal' /\ SnapshotInJournal'
    BY <1>0, <2>1 DEF LoopsAreOrderly, OrdersInJournal, SnapshotInJournal, Pending
  <2>3. NoFailure' /\ RowsInOrder' /\ FillsInJournal'
    BY <1>0, <2>1 DEF NoFailure, RowsInOrder, FillsInJournal, Unjudged, Handling
  <2> QED
    BY <1>quiet, <2>1, <2>2, <2>3
<1>7. CASE EndArm
  <2>1. LoopsAreOrderly' /\ OrdersInJournal' /\ SnapshotInJournal'
    BY <1>0, <1>7 DEF EndArm, LoopsAreOrderly, OrdersInJournal, SnapshotInJournal, Pending
  <2>2. NoFailure' /\ RowsInOrder' /\ FillsInJournal'
    BY <1>0, <1>7 DEF EndArm, NoFailure, RowsInOrder, FillsInJournal, Unjudged, Handling
  <2> QED
    BY <1>7, <1>quiet, <2>1, <2>2 DEF EndArm
(* What happens to the fills, and to the positions, leaves the orders alone. *)
<1>8. ASSUME pc \notin {"feed", "commit", "price"}, pc' \notin {"feed", "commit", "price"},
             pc' \notin {"entered_fallback", "rejected_fallback"},
             pc' = "handle" => visit' = {},
             UNCHANGED <<journal, nextRow, snap, eng, failures>>,
             FillsInJournal'
      PROVE  Goal
  <2>1. LoopsAreOrderly' /\ OrdersInJournal' /\ SnapshotInJournal'
    BY <1>0, <1>8 DEF LoopsAreOrderly, OrdersInJournal, SnapshotInJournal, Pending
  <2>2. NoFailure' /\ RowsInOrder'
    BY <1>0, <1>8 DEF NoFailure, RowsInOrder
  <2> QED
    BY <1>8, <1>quiet, <2>1, <2>2
<1>9. CASE CheckExits
  <2>1. FillsInJournal'
    BY <1>0, <1>9 DEF CheckExits, Settle, LoopsAreOrderly, FillsInJournal, Unjudged, Handling
  <2> QED
    BY <1>8, <1>9, <2>1 DEF CheckExits, Settle
<1>10. ASSUME NEW o \in fills, NEW ok \in BOOLEAN, TakeFill(o, ok) PROVE Goal
  <2>1. /\ pc = "handle" /\ fills' = fills \ {o} /\ visit' = {o}
        /\ pc' \in {"persist", "judge"} /\ UNCHANGED <<journal, failures>>
    BY <1>10, <1>ok DEF TakeFill, Settle
  <2>2. FillsInJournal'
    BY <1>0, <2>1 DEF FillsInJournal, Unjudged, Handling
  <2> QED
    BY <1>8, <1>10, <2>1, <2>2 DEF TakeFill
<1>11. ASSUME NEW p \in closing, NEW ok \in BOOLEAN, PersistTrade(p, ok) PROVE Goal
  <2>1. FillsInJournal'
    BY <1>0, <1>11 DEF PersistTrade, FillsInJournal, Unjudged, Handling
  <2> QED
    BY <1>8, <1>11, <1>ok, <2>1 DEF PersistTrade
<1>12. ASSUME NEW ok \in BOOLEAN, RecordOpen(ok) \/ RemoveOpen(ok) PROVE Goal
  <2>1. /\ pc \in {"open", "remove"} /\ pc' \in {"entered", "save", "judge"}
        /\ pc' = "save" => visit = {}
        /\ UNCHANGED <<journal, nextRow, snap, eng, failures, visit, fills>>
    BY <1>12, <1>ok DEF RecordOpen, RemoveOpen
  <2>2. FillsInJournal'
    BY <1>0, <2>1 DEF FillsInJournal, Unjudged, Handling
  <2> QED
    BY <1>8, <2>1, <2>2
<1>13. ASSUME NEW o \in visit, Judge(o) PROVE Goal
  <2>1. FillsInJournal'
    BY <1>0, <1>13 DEF Judge, FillsInJournal, Unjudged, Handling
  <2> QED
    BY <1>8, <1>13, <2>1 DEF Judge
<1>14. ASSUME NEW o \in visit, KeepOrder(o) PROVE Goal
  <2>1. LoopsAreOrderly' /\ OrdersInJournal' /\ SnapshotInJournal'
    BY <1>0, <1>14 DEF KeepOrder, LoopsAreOrderly, OrdersInJournal, SnapshotInJournal, Pending
  <2>2. NoFailure' /\ RowsInOrder' /\ FillsInJournal'
    BY <1>0, <1>14 DEF KeepOrder, NoFailure, RowsInOrder, FillsInJournal, Unjudged, Handling
  <2> QED
    BY <1>14, <1>quiet, <2>1, <2>2 DEF KeepOrder
<1>snap. pc \notin {"feed", "commit", "price"} =>
         \A s \in Snapshot :
           /\ \A o \in s.eng.orders : o.row # 0 /\ o.row < nextRow /\ Pending(o)
           /\ \A o, p \in s.eng.orders : o.row = p.row => o = p
  <2> DEFINE paused(o) == [o EXCEPT !.status = "pending"]
             S == {paused(o) : o \in eng.orders}
  <2>1. \A s \in Snapshot : s.eng.orders = S
    BY <1>0 DEF Snapshot, Engine
  <2>2. \A o \in eng.orders : paused(o).row = o.row /\ paused(o).status = "pending"
    BY <1>0 DEF Engine, Order
  <2>3. \A o, p \in eng.orders : paused(o).row = paused(p).row => o = p
    BY <1>0, <2>2 DEF OrdersInJournal
  <2> HIDE DEF paused
  <2>4. ASSUME pc \notin {"feed", "commit", "price"}
        PROVE  /\ \A o \in S : o.row # 0 /\ o.row < nextRow /\ o.status = "pending"
               /\ \A o, p \in S : o.row = p.row => o = p
    BY <1>0, <2>2, <2>3 DEF OrdersInJournal
  <2> QED
    BY <2>1, <2>4 DEF Pending
<1>15. ASSUME NEW ok \in BOOLEAN, SaveState(ok) PROVE Goal
  <2>1. /\ pc = "save" /\ pc' = "idle" /\ snap' \in {Snapshot, snap}
        /\ UNCHANGED <<journal, nextRow, eng, failures, visit, fills>>
    BY <1>15, <1>ok DEF SaveState, Store
  <2>2. LoopsAreOrderly' /\ OrdersInJournal'
    BY <1>0, <2>1 DEF LoopsAreOrderly, OrdersInJournal, Pending
  <2>3. SnapshotInJournal'
    BY <1>0, <1>snap, <2>1 DEF SnapshotInJournal, Pending
  <2>4. NoFailure' /\ RowsInOrder' /\ FillsInJournal'
    BY <1>0, <2>1 DEF NoFailure, RowsInOrder, FillsInJournal, Unjudged, Handling
  <2> QED
    BY <1>quiet, <2>1, <2>2, <2>3, <2>4
<1>16. CASE EndPoll
  <2>1. /\ pc = "overdue" /\ pc' = "idle" /\ snap' \in {Snapshot, snap}
        /\ UNCHANGED <<journal, nextRow, eng, failures, visit, fills>>
    BY <1>16 DEF EndPoll, Store
  <2>2. LoopsAreOrderly' /\ OrdersInJournal'
    BY <1>0, <2>1 DEF LoopsAreOrderly, OrdersInJournal, Pending
  <2>3. SnapshotInJournal'
    BY <1>0, <1>snap, <2>1 DEF SnapshotInJournal, Pending
  <2>4. NoFailure' /\ RowsInOrder' /\ FillsInJournal'
    BY <1>0, <2>1 DEF NoFailure, RowsInOrder, FillsInJournal, Unjudged, Handling
  <2> QED
    BY <1>quiet, <2>1, <2>2, <2>3, <2>4
<1>17. ASSUME NEW z \in Zones, NEW ok \in BOOLEAN, ArmZone(z, ok) PROVE Goal
  <2> DEFINE o == [row |-> nextRow, zone |-> z, placed |-> minute, elapsed |-> 0,
                   status |-> "pending"]
  <2>1. /\ pc = "arm" /\ pc' = "arm" /\ nextRow \in Rows /\ nextRow # 0
        /\ eng'.orders = eng.orders \cup {o}
        /\ journal' = [journal EXCEPT ![nextRow] =
                         [status |-> "pending", entry |-> "null", placed |-> minute]]
        /\ nextRow' = nextRow + 1
        /\ UNCHANGED <<snap, failures, visit, fills>>
    <3>1. nextRow \in 1..MaxRows
      BY <1>0, <1>17, TimeAssumption DEF ArmZone, TypeInv, TypeOK
    <3> QED
      BY <1>0, <1>17, <1>ok, <3>1 DEF ArmZone, Rows, Engine
  <2>2. /\ journal[nextRow].status = "none"
        /\ journal'[nextRow].status = "pending" /\ journal'[nextRow].entry = "null"
        /\ \A q \in Rows \ {nextRow} : journal'[q] = journal[q]
    BY <1>0, <2>1 DEF RowsInOrder
  <2>3. NoFailure' /\ RowsInOrder'
    BY <1>0, <2>1, <2>2 DEF NoFailure, RowsInOrder, Rows
  <2>4. OrdersInJournal'
    <3>1. \A p \in eng.orders :
            /\ p.row \in Rows /\ p.row # 0
            /\ p.row # nextRow /\ p.row < nextRow'
      BY <1>0, <1>rows, <2>1 DEF OrdersInJournal, Engine
    <3>2. nextRow < nextRow'
      BY <1>0, <2>1
    <3>3. o.row = nextRow /\ o.status = "pending"
      OBVIOUS
    <3> HIDE DEF o
    <3>4. \A x \in eng'.orders :
            /\ x.row # 0 /\ x.row < nextRow'
            /\ x.status = "pending" => journal'[x.row].status = "pending"
      BY <1>0, <2>1, <2>2, <3>1, <3>2, <3>3 DEF OrdersInJournal, Pending
    <3>5. \A x, y \in eng'.orders : x.row = y.row => x = y
      BY <1>0, <2>1, <3>1, <3>3 DEF OrdersInJournal
    <3> QED
      BY <3>4, <3>5 DEF OrdersInJournal, Pending
  <2>5. LoopsAreOrderly'
    BY <1>0, <2>1 DEF LoopsAreOrderly, Pending
  <2>6. SnapshotInJournal'
    BY <1>0, <2>1 DEF SnapshotInJournal, Pending, TypeInv, TypeOK, Engine
  <2>7. FillsInJournal'
    BY <1>0, <1>rows, <2>1, <2>2 DEF FillsInJournal, Unjudged, Handling
  <2>8. Journal!Place(nextRow)
    <3>1. life' = [life EXCEPT ![nextRow] = life'[nextRow]]
      BY <2>1, <2>2, LifeChange
    <3>2. life[nextRow] = "none" /\ life'[nextRow] = "pending"
      BY <2>1, <2>2 DEF life
    <3> QED
      BY <3>1, <3>2 DEF Journal!Place, Journal!Move
  <2> QED
    BY <2>1, <2>3, <2>4, <2>5, <2>6, <2>7, <2>8 DEF Journal!Next
<1>18. ASSUME NEW o \in visit, NEW ok \in BOOLEAN,
              CancelInvalidated(o, ok) \/ CommitOrder(o, ok) \/ EndOrder(o, ok)
       PROVE  Goal
  <2>1. pc \in {"feed", "commit", "price"}
    BY <1>18 DEF CancelInvalidated, CommitOrder, EndOrder
  <2>2. o \in Order /\ Pending(o) /\ o.status \in Status
    BY <1>0, <2>1 DEF LoopsAreOrderly, Order
  <2>3. \E o2 \in Order : /\ Settled(o, o2, ok)
                          /\ o2.row = o.row /\ o2.zone = o.zone /\ o2.status # "filled"
    <3>1. \A status \in Status :
            /\ [o EXCEPT !.status = status] \in Order
            /\ [o EXCEPT !.elapsed = o.elapsed + 1, !.status = status] \in Order
      <4>1. o.elapsed + 1 \in Int
        BY <2>2 DEF Order
      <4> QED
        BY <2>2, <4>1 DEF Order
    <3>2. CASE CancelInvalidated(o, ok)
      BY <2>2, <3>1, <3>2 DEF CancelInvalidated, Status, Order
    <3>3. CASE CommitOrder(o, ok)
      <4> DEFINE status == IF o.elapsed + 1 >= LimitValidBars THEN "cancelled_expired"
                                                              ELSE o.status
                 o2 == [o EXCEPT !.elapsed = o.elapsed + 1, !.status = status]
      <4>1. Settled(o, o2, ok)
        BY <2>2, <3>3 DEF CommitOrder
      <4>2. o2 \in Order /\ o2.row = o.row /\ o2.zone = o.zone /\ o2.status # "filled"
        BY <2>2, <3>1 DEF Status, Order, Pending
      <4> QED
        BY <4>1, <4>2
    <3>4. CASE EndOrder(o, ok)
      BY <2>2, <3>1, <3>4 DEF EndOrder, Status, Order
    <3> QED
      BY <1>18, <3>2, <3>3, <3>4
  <2>4. PICK o2 \in Order : /\ Settled(o, o2, ok)
                            /\ o2.row = o.row /\ o2.zone = o.zone /\ o2.status # "filled"
    BY <2>3
  <2>5. /\ eng' = Swap(o, o2) /\ visit' = visit \ {o}
        /\ journal' = IF Pending(o2) THEN journal ELSE Marked(o2.row, o2.status)
        /\ UNCHANGED <<pc, minute, failures, fills>>
    BY <1>ok, <2>2, <2>4 DEF Settled, Pending
  <2>6. UNCHANGED <<nextRow, snap, world>>
    BY <1>18 DEF CancelInvalidated, CommitOrder, EndOrder
  <2>7. /\ NoFailure' /\ RowsInOrder' /\ OrdersInJournal' /\ LoopsAreOrderly'
        /\ SnapshotInJournal'
        /\ [Journal!Next]_life
        /\ \A q \in Rows : journal[q].status # "pending" => journal'[q] = journal[q]
    BY <2>1, <2>4, <2>5, <2>6, Visited
  <2>8. FillsInJournal'
    BY <1>0, <1>rows, <2>1, <2>5, <2>7 DEF FillsInJournal, Unjudged, Handling
  <2> QED
    BY <2>7, <2>8
<1>19. ASSUME NEW o \in visit, NEW ok \in BOOLEAN, FillOrder(o, ok) PROVE Goal
  <2> DEFINE o2 == [o EXCEPT !.status = "filled"]
  <2>1. o2 \in Order /\ o2.row = o.row /\ o2.zone = o.zone /\ o2.status = "filled"
    BY <1>0 DEF Order, Status
  <2>2. /\ pc = "price" /\ fills' = fills \cup {o2}
        /\ eng' = Swap(o, o2) /\ visit' = visit \ {o}
        /\ journal' = IF Pending(o2) THEN journal ELSE Marked(o2.row, o2.status)
        /\ UNCHANGED <<pc, minute, failures, nextRow, snap, world>>
    BY <1>19, <1>ok, <2>1 DEF FillOrder, Pending, Settled
  <2>3. /\ NoFailure' /\ RowsInOrder' /\ OrdersInJournal' /\ LoopsAreOrderly'
        /\ SnapshotInJournal'
        /\ [Journal!Next]_life
        /\ \A q \in Rows : journal[q].status # "pending" => journal'[q] = journal[q]
        /\ journal[o.row].status = "pending" /\ o.row \in Rows
        /\ journal'[o.row].status = "filled" /\ journal'[o.row].entry = "null"
    BY <2>1, <2>2, Visited DEF Pending
  <2> HIDE DEF o2
  <2>4. FillsInJournal'
    <3>1. Unjudged = fills /\ Unjudged' = fills \cup {o2} /\ ~Handling'
      BY <2>2 DEF Unjudged, Handling
    <3>2. \A u \in fills : /\ u.row # 0 /\ u.row # o.row
                          /\ journal'[u.row] = journal[u.row]
                          /\ journal[u.row].status = "filled" /\ journal[u.row].entry = "null"
      BY <1>0, <1>rows, <2>3, <3>1 DEF FillsInJournal
    <3>3. o.row # 0
      BY <2>3 DEF Rows
    <3> QED
      BY <1>0, <2>1, <2>3, <3>1, <3>2, <3>3 DEF FillsInJournal
  <2> QED
    BY <2>3, <2>4
<1>20. ASSUME NEW o \in visit, NEW ok \in BOOLEAN, RecordEntryResult(o, ok) PROVE Goal
  <2>1. /\ pc \in {"entered", "rejected"} /\ pc' = "handle" /\ visit' = {}
        /\ journal' = Judged(o.row, pc)
        /\ UNCHANGED <<nextRow, snap, eng, failures, fills>>
    BY <1>20, <1>ok DEF RecordEntryResult
  <2>2. /\ o \in Unjudged /\ o.row # 0 /\ o.row \in Rows
        /\ journal[o.row].status = "filled" /\ journal[o.row].entry = "null"
    BY <1>0, <1>rows, <2>1 DEF FillsInJournal, Unjudged, Handling
  <2>3. /\ \A q \in Rows \ {o.row} : journal'[q] = journal[q]
        /\ journal'[o.row].status = "filled" /\ journal'[o.row].entry = pc
    BY <1>0, <2>1, <2>2 DEF Judged, Row
  <2>4. NoFailure' /\ RowsInOrder'
    BY <1>0, <2>1, <2>2, <2>3 DEF NoFailure, RowsInOrder
  <2>5. OrdersInJournal' /\ LoopsAreOrderly' /\ SnapshotInJournal'
    BY <1>0, <1>rows, <2>1, <2>2, <2>3
       DEF OrdersInJournal, LoopsAreOrderly, SnapshotInJournal, Pending, Engine
  <2>6. FillsInJournal'
    BY <1>0, <1>rows, <2>1, <2>2, <2>3 DEF FillsInJournal, Unjudged, Handling
  <2>7. Journal!Judge(o.row)
    <3>1. life' = [life EXCEPT ![o.row] = life'[o.row]]
      BY <2>2, <2>3, LifeChange
    <3>2. life[o.row] = "filled" /\ life'[o.row] = pc
      BY <2>1, <2>2, <2>3 DEF life
    <3> QED
      BY <2>1, <3>1, <3>2 DEF Journal!Judge, Journal!Move
  <2> QED
    BY <2>2, <2>4, <2>5, <2>6, <2>7 DEF Journal!Next
<1>21. ASSUME NEW o \in visit, NEW ok \in BOOLEAN, Fallback(o, ok) PROVE Goal
  BY <1>0, <1>21 DEF Fallback, NoFailure
<1>22. ASSUME NEW o \in eng.orders, ExpireOverdue(o) PROVE Goal
  <2>1. /\ pc = "overdue" /\ pc' = "overdue" /\ eng'.orders = eng.orders \ {o}
        /\ journal' = Marked(o.row, "cancelled_expired")
        /\ UNCHANGED <<nextRow, snap, failures, visit, fills>>
    BY <1>0, <1>22 DEF ExpireOverdue, Engine
  <2>2. o.row \in Rows /\ journal[o.row].status = "pending"
    BY <1>0, <1>rows, <2>1 DEF LoopsAreOrderly, OrdersInJournal, Engine
  <2>3. /\ Journal!Next
        /\ \A q \in Rows \ {o.row} : journal'[q] = journal[q]
        /\ journal'[o.row].status = "cancelled_expired" /\ journal'[o.row].entry = "null"
    BY <1>0, <2>1, <2>2, MarkedLife DEF Status
  <2>4. NoFailure' /\ RowsInOrder'
    BY <1>0, <2>1, <2>2, <2>3 DEF NoFailure, RowsInOrder
  <2>5. OrdersInJournal' /\ LoopsAreOrderly' /\ SnapshotInJournal'
    BY <1>0, <1>rows, <2>1, <2>2, <2>3
       DEF OrdersInJournal, LoopsAreOrderly, SnapshotInJournal, Pending, Engine
  <2>6. FillsInJournal'
    BY <1>0, <1>rows, <2>1, <2>2, <2>3 DEF FillsInJournal, Unjudged, Handling
  <2> QED
    BY <2>3, <2>4, <2>5, <2>6
<1>23. CASE Boot
  <2>1. \A o \in eng'.orders : /\ o.row # 0 /\ o.row < nextRow /\ Pending(o)
                               /\ journal[o.row].status = "pending"
    BY <1>0, <1>23 DEF Boot, Restored, NoEngine, PendingRows, SnapshotInJournal, TypeInv, TypeOK,
       Engine
  <2>2. \A o, p \in eng'.orders : o.row = p.row => o = p
    BY <1>0, <1>23 DEF Boot, Restored, NoEngine, SnapshotInJournal, TypeInv, TypeOK, Engine
  <2>3. /\ pc' = "boot" /\ snap' \subseteq snap
        /\ UNCHANGED <<journal, nextRow, failures, visit, fills>>
    BY <1>23 DEF Boot
  <2>4. OrdersInJournal' /\ LoopsAreOrderly' /\ SnapshotInJournal'
    BY <1>0, <2>1, <2>2, <2>3 DEF OrdersInJournal, LoopsAreOrderly, SnapshotInJournal, Pending
  <2>5. NoFailure' /\ RowsInOrder' /\ FillsInJournal'
    BY <1>0, <2>3 DEF NoFailure, RowsInOrder, FillsInJournal, Unjudged, Handling
  <2> QED
    BY <1>quiet, <2>3, <2>4, <2>5
<1>stale. \A r \in Stale : /\ r \in Rows /\ journal[r].status = "pending"
                           /\ \A o \in eng.orders : o.row # r
  BY <1>0 DEF Stale, PendingRows, RowsOf, OrdersInJournal
<1>24. ASSUME NEW S \in SUBSET Stale,
              pc = "boot", pc' \in {"boot", "idle"},
              \A r \in Rows : IF r \in S THEN /\ journal'[r].status \notin {"none", "pending", "filled"}
                                              /\ journal'[r].entry = journal[r].entry
                                         ELSE journal'[r] = journal[r],
              UNCHANGED <<nextRow, snap, eng, failures, visit, fills>>
       PROVE  Goal
  <2>1. NoFailure' /\ RowsInOrder'
    BY <1>0, <1>24, <1>stale DEF NoFailure, RowsInOrder
  <2>2. OrdersInJournal' /\ LoopsAreOrderly' /\ SnapshotInJournal'
    BY <1>0, <1>24, <1>rows, <1>stale
       DEF OrdersInJournal, LoopsAreOrderly, SnapshotInJournal, Pending, Engine
  <2>3. FillsInJournal'
    BY <1>0, <1>24, <1>rows, <1>stale DEF FillsInJournal, Unjudged, Handling
  <2>4. Journal!CloseAll(S) /\ S \in SUBSET Rows
    <3>1. \A r \in S : life[r] = "pending" /\ r \in Rows
      BY <1>24, <1>stale DEF life
    <3>2. \A r \in Rows : life'[r] = IF r \in S THEN "closed" ELSE life[r]
      BY <1>24, <1>stale DEF life
    <3>3. life' = [r \in Rows |-> life'[r]]
      BY DEF life
    <3> QED
      BY <3>1, <3>2, <3>3 DEF Journal!CloseAll
  <2> QED
    BY <2>1, <2>2, <2>3, <2>4 DEF Journal!Next
<1>25. CASE DiscardStale
  <2>1. \A r \in Rows : IF r \in Stale
                         THEN /\ journal'[r].status \notin {"none", "pending", "filled"}
                              /\ journal'[r].entry = journal[r].entry
                         ELSE journal'[r] = journal[r]
    BY <1>0, <1>25 DEF DiscardStale, Row
  <2>2. /\ pc = "boot" /\ pc' = "idle"
        /\ UNCHANGED <<nextRow, snap, eng, failures, visit, fills>>
    BY <1>25 DEF DiscardStale
  <2> QED
    BY <1>24, <2>1, <2>2
<1>26. ASSUME NEW r \in Rows, ExpireStale(r) PROVE Goal
  <2>1. {r} \in SUBSET Stale
    BY <1>26 DEF ExpireStale
  <2>2. \A q \in Rows : IF q \in {r} THEN /\ journal'[q].status \notin {"none", "pending", "filled"}
                                          /\ journal'[q].entry = journal[q].entry
                                     ELSE journal'[q] = journal[q]
    BY <1>0, <1>26 DEF ExpireStale, Row
  <2> QED
    BY <1>24, <1>26, <2>1, <2>2 DEF ExpireStale
<1>27. CASE Crash
  <2>1. /\ pc' = "down" /\ eng'.orders = {} /\ visit' = {} /\ fills' = {}
        /\ UNCHANGED <<journal, nextRow, snap, failures>>
    BY <1>27 DEF Crash, NoEngine
  <2>2. OrdersInJournal' /\ LoopsAreOrderly' /\ SnapshotInJournal'
    BY <1>0, <2>1 DEF OrdersInJournal, LoopsAreOrderly, SnapshotInJournal, Pending
  <2>3. NoFailure' /\ RowsInOrder' /\ FillsInJournal'
    BY <1>0, <2>1 DEF NoFailure, RowsInOrder, FillsInJournal, Unjudged, Handling
  <2> QED
    BY <1>quiet, <2>1, <2>2, <2>3
<1>29. ASSUME NEW o \in visit, NEW ok \in BOOLEAN, DiscardOrder(o, ok) PROVE Goal
  BY <1>skip, <1>29 DEF DiscardOrder
<1>28. CASE UNCHANGED vars
  <2>1. OrdersInJournal' /\ LoopsAreOrderly' /\ SnapshotInJournal'
    BY <1>0, <1>28 DEF vars, OrdersInJournal, LoopsAreOrderly, SnapshotInJournal, Pending,
       Boundary, FeedTarget, LastBar, Closed, Gone, Until
  <2>2. NoFailure' /\ RowsInOrder' /\ FillsInJournal'
    BY <1>0, <1>28 DEF vars, NoFailure, RowsInOrder, FillsInJournal, Unjudged, Handling
  <2> QED
    BY <1>28, <1>quiet, <2>1, <2>2 DEF vars
<1> QED
  BY <1>1, <1>3, <1>4, <1>5, <1>6, <1>7, <1>9, <1>10, <1>11, <1>12, <1>13, <1>14, <1>15, <1>16,
     <1>17, <1>18, <1>19, <1>20, <1>21, <1>22, <1>23, <1>25, <1>26, <1>27, <1>28, <1>29
     DEF Next, Poll, Start

(* While no write raises, whatever crashes and restarts come between two    *)
(* writes, the journal keeps its promise: a row is placed once, resolved    *)
(* once, and only a fill is judged, once (the ValueError guards of          *)
(* live.order_journal never fire).                                          *)
THEOREM LifecycleImplemented ==
  ASSUME MaxFailures = 0
  PROVE  Spec => ImplementsOrderLifecycle
<1>1. FaultlessInv /\ [Next]_vars => FaultlessInv' /\ [Journal!Next]_life
  BY FaultlessStep
<1> QED
  BY <1>1, InitFaultless, InitLife, PTL DEF Spec, ImplementsOrderLifecycle, Journal!Spec
------------------------------------------------------------------------------
(* What EngineStateStore remembers of its last write, failing writes and    *)
(* crashes included.                                                        *)

(* The first minute is not in the first bar, so a cell that was fed once    *)
(* has seen a bar close: end_poll never passes over a state it has saved.   *)
MemoryInv ==
  /\ now >= BarMinutes /\ \A m \in DOMAIN tape : m >= BarMinutes
  /\ eng.htf >= None /\ \A s \in snap : s.eng.htf >= None
  /\ pc \in {"down", "boot"} => written = {}
  /\ written \in {{}, snap}
  /\ written # {} => eng.last # None /\ eng.htf >= 0
  /\ pc \in InMinute => eng.htf >= 0 /\ minute # None
  /\ pc \in AfterPrice => eng.last # None
  /\ pc = "idle" /\ written # {} => written = Snapshot

(* A save leaves the present state in the database, written or skipped      *)
(* (EngineStateStore.save).                                                 *)
LEMMA StoreWrites ==
  ASSUME written \in {{}, snap}, Store
  PROVE  snap' = Snapshot /\ written' = Snapshot
<1>1. Snapshot # {}
  BY DEF Snapshot
<1> QED
  BY <1>1 DEF Store

(* A minute of a later bar than the first is in a bar that is not the first.*)
LEMMA BarOfLaterMinute ==
  ASSUME NEW m \in Int, m >= BarMinutes
  PROVE  Bar(m) - 1 >= 0
<1> DEFINE q == m \div BarMinutes
<1>1. BarMinutes \in Int /\ BarMinutes > 0
  BY TimeAssumption
<1>2. q \in Int /\ BarMinutes * q <= m /\ m < BarMinutes * q + BarMinutes
  BY <1>1
<1>3. ~(q <= 0)
  <2>1. q <= 0 => BarMinutes * q <= 0
    BY <1>1, <1>2
  <2> QED
    BY <1>1, <1>2, <2>1
<1> QED
  BY <1>2, <1>3 DEF Bar

(* A step that neither saves nor enters a later part of the minute.         *)
LEMMA SteadyStep ==
  ASSUME MemoryInv, UNCHANGED <<snap, written, now, tape>>,
         eng'.last = eng.last, eng'.htf = eng.htf, pc' \notin {"down", "boot", "idle"},
         pc' \in InMinute => pc \in InMinute /\ minute' = minute,
         pc' \in AfterPrice => pc \in AfterPrice
  PROVE  MemoryInv'
BY DEF MemoryInv

(* Every step keeps the memory of the store true.                           *)
LEMMA MemoryStep == TypeInv /\ MemoryInv /\ [Next]_vars => MemoryInv'
<1> SUFFICES ASSUME TypeInv, MemoryInv, [Next]_vars PROVE MemoryInv'
  OBVIOUS
<1> USE DEF durable, loops, wallet, world
<1>0. eng \in Engine /\ minute \in Int /\ now \in Nat
  BY DEF TypeInv, TypeOK
<1>swap. \A o, o2 : Swap(o, o2).last = eng.last /\ Swap(o, o2).htf = eng.htf
  BY <1>0 DEF Swap, Engine
<1>saved. \A s \in Snapshot : s.eng.htf = eng.htf
  BY <1>0 DEF Snapshot, Engine
<1>settled. ASSUME NEW o \in visit, NEW o2, NEW ok \in BOOLEAN, Settled(o, o2, ok),
                   pc \in {"feed", "commit", "price"}, UNCHANGED <<snap, world>>
            PROVE  MemoryInv'
  <2>1. /\ eng'.last = eng.last /\ eng'.htf = eng.htf
        /\ pc' = "overdue" \/ UNCHANGED <<pc, minute>>
    BY <1>settled, <1>swap DEF Settled, Abort
  <2> QED
    BY <1>settled, <2>1, SteadyStep DEF InMinute, AfterPrice
<1>1. ASSUME NEW ok \in BOOLEAN, NEW o \in visit,
             CancelInvalidated(o, ok) \/ CommitOrder(o, ok) \/ EndOrder(o, ok)
      PROVE  MemoryInv'
  <2>1. CASE CancelInvalidated(o, ok)
    BY <1>settled, <2>1 DEF CancelInvalidated
  <2>2. CASE CommitOrder(o, ok)
    BY <1>settled, <2>2 DEF CommitOrder
  <2>3. CASE EndOrder(o, ok)
    BY <1>settled, <2>3 DEF EndOrder
  <2> QED
    BY <1>1, <2>1, <2>2, <2>3
<1>2. ASSUME NEW ok \in BOOLEAN, NEW o \in visit, FillOrder(o, ok) PROVE MemoryInv'
  <2> DEFINE o2 == [o EXCEPT !.status = "filled"]
  <2>1. CASE Settled(o, o2, ok)
    BY <1>2, <1>settled, <2>1 DEF FillOrder
  <2>2. CASE eng' = Swap(o, o2) /\ UNCHANGED <<pc, minute>>
    BY <1>2, <1>swap, <2>2, SteadyStep DEF FillOrder, InMinute, AfterPrice
  <2> QED
    BY <1>2, <2>1, <2>2 DEF FillOrder
<1>3. ASSUME NEW ok \in BOOLEAN, NEW z \in Zones, ArmZone(z, ok) PROVE MemoryInv'
  <2>1. eng'.last = eng.last /\ eng'.htf = eng.htf
    BY <1>0, <1>3 DEF ArmZone, Engine
  <2> QED
    BY <1>3, <2>1, SteadyStep DEF ArmZone, Abort, InMinute, AfterPrice
<1>4. CASE BeginMinute \/ BeginTail
  BY <1>4, SteadyStep DEF BeginMinute, BeginTail, BeginFeed, InMinute, AfterPrice
<1>5. CASE EndFeed
  <2> DEFINE h == IF FeedTarget > eng.htf THEN FeedTarget ELSE eng.htf
  <2>1. FeedTarget \in Int /\ eng.htf \in Int
    <3>1. Closed \in Int
      BY <1>0, TimeAssumption DEF Closed
    <3>2. Bar(Closed) \in Int /\ Bar(minute) \in Int
      BY <1>0, <3>1, BarType
    <3> QED
      BY <1>0, <3>2 DEF FeedTarget, LastBar, Engine
  <2>2. FeedTarget >= None /\ (minute # None => FeedTarget >= 0)
    <3>1. minute # None => minute >= BarMinutes
      BY <1>5 DEF EndFeed, TypeInv, MemoryInv
    <3>2. Closed \in Nat
      BY <1>0, TimeAssumption DEF Closed
    <3>3. Bar(Closed) - 1 >= None
      BY <3>2, TimeAssumption DEF Bar, None
    <3>4. minute # None => Bar(minute) - 1 >= 0
      BY <1>0, <3>1, BarOfLaterMinute
    <3>5. Bar(minute) \in Int
      BY <1>0, BarType
    <3> QED
      BY <3>3, <3>4, <3>5 DEF FeedTarget, LastBar, None
  <2>3. h \in Int /\ h >= eng.htf /\ h >= None /\ (minute # None => h >= 0)
    BY <2>1, <2>2 DEF None
  <2>4. eng'.htf = h /\ eng'.last = eng.last
    BY <1>0, <1>5 DEF EndFeed, Engine
  <2>5. /\ pc' \in {"overdue", "commit"} /\ (pc' = "commit" => minute # None)
        /\ UNCHANGED <<snap, written, now, tape, minute>>
    BY <1>5 DEF EndFeed
  <2> QED
    BY <2>1, <2>3, <2>4, <2>5 DEF MemoryInv, InMinute, AfterPrice
<1>6. CASE EndCommit \/ EndArm
  <2>1. eng'.last = eng.last /\ eng'.htf = eng.htf
    BY <1>0, <1>6 DEF EndCommit, EndArm, Engine
  <2> QED
    BY <1>6, <2>1, SteadyStep DEF EndCommit, EndArm, InMinute, AfterPrice
<1>7. CASE EndPrice
  <2>1. eng'.last = minute /\ eng'.htf = eng.htf
    BY <1>0, <1>7 DEF EndPrice, Engine
  <2> QED
    BY <1>7, <2>1 DEF EndPrice, MemoryInv, InMinute, AfterPrice
<1>22. ASSUME NEW ok \in BOOLEAN, NEW o \in visit, DiscardOrder(o, ok) PROVE MemoryInv'
  BY <1>22, SteadyStep DEF DiscardOrder, Abort, InMinute, AfterPrice
<1>8. ASSUME NEW o \in visit, KeepOrder(o) \/ Judge(o) PROVE MemoryInv'
  BY <1>8, SteadyStep DEF KeepOrder, Judge, InMinute, AfterPrice
<1>9. ASSUME NEW ok \in BOOLEAN, RecordOpen(ok) \/ RemoveOpen(ok) PROVE MemoryInv'
  BY <1>9, SteadyStep DEF RecordOpen, RemoveOpen, Abort, InMinute, AfterPrice
<1>10. ASSUME NEW ok \in BOOLEAN, NEW o \in visit, RecordEntryResult(o, ok) \/ Fallback(o, ok)
       PROVE  MemoryInv'
  BY <1>10, SteadyStep DEF RecordEntryResult, Fallback, Abort, InMinute, AfterPrice
<1>11. ASSUME NEW ok \in BOOLEAN, NEW o \in fills, TakeFill(o, ok) PROVE MemoryInv'
  BY <1>11, SteadyStep DEF TakeFill, Settle, Abort, InMinute, AfterPrice
<1>12. ASSUME NEW ok \in BOOLEAN, NEW p \in closing, PersistTrade(p, ok) PROVE MemoryInv'
  BY <1>12, SteadyStep DEF PersistTrade, InMinute, AfterPrice
<1>13. CASE CheckExits
  BY <1>13, SteadyStep DEF CheckExits, Settle, InMinute, AfterPrice
<1>14. ASSUME NEW o \in eng.orders, ExpireOverdue(o) PROVE MemoryInv'
  <2>1. eng'.last = eng.last /\ eng'.htf = eng.htf
    BY <1>0, <1>14 DEF ExpireOverdue, Engine
  <2> QED
    BY <1>14, <2>1, SteadyStep DEF ExpireOverdue, InMinute, AfterPrice
<1>15. ASSUME NEW ok \in BOOLEAN, SaveState(ok) PROVE MemoryInv'
  <2>1. CASE ok
    <3>1. snap' = Snapshot /\ written' = Snapshot
      BY <1>15, <2>1, StoreWrites DEF SaveState, MemoryInv
    <3>2. /\ pc = "save" /\ pc' = "idle" /\ UNCHANGED <<eng, now>>
          /\ DOMAIN tape' \subseteq DOMAIN tape
      BY <1>15, <2>1 DEF SaveState, Forget
    <3>3. Snapshot' = Snapshot
      BY <3>2 DEF Snapshot
    <3> QED
      BY <1>saved, <3>1, <3>2, <3>3 DEF MemoryInv, InMinute, AfterPrice
  <2>2. CASE ~ok
    BY <1>15, <2>2, SteadyStep DEF SaveState, Abort, InMinute, AfterPrice
  <2> QED
    BY <2>1, <2>2
<1>16. CASE EndPoll
  <2>1. pc' = "idle" /\ UNCHANGED <<eng, now, tape, minute>>
    BY <1>16 DEF EndPoll
  <2>2. Snapshot' = Snapshot
    BY <2>1 DEF Snapshot
  <2>3. CASE eng.last # None /\ eng.htf # None
    <3>1. snap' = Snapshot /\ written' = Snapshot
      BY <1>16, <2>3, StoreWrites DEF EndPoll, MemoryInv
    <3>2. eng.htf >= 0
      BY <1>0, <2>3 DEF MemoryInv, Engine, None
    <3> QED
      BY <1>saved, <2>1, <2>2, <2>3, <3>1, <3>2 DEF MemoryInv, InMinute, AfterPrice
  <2>4. CASE ~(eng.last # None /\ eng.htf # None)
    <3>1. UNCHANGED <<snap, written>> /\ written = {}
      BY <1>16, <2>4 DEF EndPoll, MemoryInv, None
    <3> QED
      BY <2>1, <3>1 DEF MemoryInv, InMinute, AfterPrice
  <2> QED
    BY <2>3, <2>4
<1>17. CASE Tick
  <2>1. \A m \in DOMAIN tape' : m \in DOMAIN tape \/ m = now
    BY <1>17 DEF Tick
  <2>2. now' = now + 1 /\ UNCHANGED <<snap, written, eng, pc, minute>>
    BY <1>17 DEF Tick
  <2>3. Snapshot' = Snapshot
    BY <2>2 DEF Snapshot
  <2> QED
    BY <1>0, <2>1, <2>2, <2>3, TimeAssumption DEF MemoryInv
<1>18. CASE Boot
  <2>1. written = {} /\ UNCHANGED <<written, now, tape>> /\ pc' = "boot"
    BY <1>18 DEF Boot, MemoryInv
  <2>2. eng'.htf >= None /\ snap' \subseteq snap
    <3>1. \A s \in snap : Restored(s).htf = s.eng.htf
      BY DEF Restored, TypeInv, TypeOK, Engine
    <3> QED
      BY <1>18, <3>1 DEF Boot, NoEngine, MemoryInv, None
  <2> QED
    BY <2>1, <2>2 DEF MemoryInv, InMinute, AfterPrice
<1>19. CASE DiscardStale \/ \E r \in Rows : ExpireStale(r)
  <2>1. written = {} /\ UNCHANGED <<written, snap, now, tape, eng>> /\ pc' \in {"boot", "idle"}
    BY <1>19 DEF DiscardStale, ExpireStale, MemoryInv
  <2> QED
    BY <2>1 DEF MemoryInv, InMinute, AfterPrice
<1>20. CASE Crash
  BY <1>20 DEF Crash, NoEngine, None, MemoryInv, InMinute, AfterPrice
<1>21. CASE UNCHANGED vars
  BY <1>21 DEF vars, MemoryInv, Snapshot
<1> QED
  BY <1>1, <1>2, <1>3, <1>4, <1>5, <1>6, <1>7, <1>8, <1>9, <1>10, <1>11, <1>12, <1>13, <1>14,
     <1>15, <1>16, <1>17, <1>18, <1>19, <1>20, <1>21, <1>22
     DEF Next, Poll, Start

(* Between polls the database holds the state the runner would save now,    *)
(* whatever writes failed before: skipping a write on the strength of the   *)
(* store's memory never leaves an old state behind.                         *)
THEOREM SavedStateIsCurrent == Spec => []StoreIsCurrent
<1>1. Init => MemoryInv
  BY TimeAssumption DEF Init, NoEngine, None, MemoryInv, InMinute, AfterPrice
<1>2. Spec => []MemoryInv
  BY <1>1, InitType, TypeStep, MemoryStep, PTL DEF Spec
<1>3. MemoryInv => StoreIsCurrent
  BY DEF MemoryInv, StoreIsCurrent
<1> QED
  BY <1>2, <1>3, PTL
=============================================================================
