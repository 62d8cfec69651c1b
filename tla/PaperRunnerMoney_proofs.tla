---------------------- MODULE PaperRunnerMoney_proofs ----------------------
(***************************************************************************)
(* The position of one cell and its money: the engine's book against       *)
(* open_positions, fills against trades, the wallet against the ledger.    *)
(*                                                                         *)
(* MoneyInv (the book is stored, nothing rejected is held) is inductive    *)
(* when no write raises, crashes or not.  LifeInv adds what one life of    *)
(* the process that no write fails in keeps: each fill is judged once,     *)
(* booked at most once, and held no longer than the hold.  A crash breaks  *)
(* those, which the violation runs of PaperRunner show.                    *)
(***************************************************************************)
EXTENDS PaperRunnerOrders_proofs

(***************************************************************************)
(* The position of the cell, in memory and in open_positions.              *)
(***************************************************************************)

(* The engine's book and open_positions part only while a position is being *)
(* opened or closed, and in a dead process.                                 *)
BookInv ==
  /\ pc \notin {"down", "open", "persist", "remove"} => book = openPos
  /\ pc = "open" => openPos = {}
  /\ pc \in {"persist", "remove"} => book = {}
  /\ closing = IF pc = "persist" THEN openPos ELSE {}

(* When no write raises, every step keeps the two together.                 *)
LEMMA BookStep ==
  ASSUME MaxFailures = 0, FaultlessInv, BookInv, [Next]_vars
  PROVE  BookInv'
<1> USE DEF durable, loops, wallet, world
<1>ok. \A ok \in BOOLEAN : Attempt(ok) => ok
  BY DEF Attempt, FaultlessInv, NoFailure
<1>steady. ASSUME UNCHANGED <<book, openPos, closing>>,
                  pc' = pc \/ {pc, pc'} \cap {"down", "open", "persist", "remove"} = {}
           PROVE  BookInv'
  BY <1>steady DEF BookInv
<1>settle. ASSUME pc = "handle", Settle, UNCHANGED openPos PROVE BookInv'
  BY <1>settle DEF BookInv, Settle
<1>1. ASSUME NEW ok \in BOOLEAN, NEW o \in visit,
             CancelInvalidated(o, ok) \/ CommitOrder(o, ok) \/ EndOrder(o, ok) \/ FillOrder(o, ok)
      PROVE  BookInv'
  <2>1. pc \in {"feed", "commit", "price"} /\ UNCHANGED <<book, openPos>>
    BY <1>1 DEF CancelInvalidated, CommitOrder, EndOrder, FillOrder
  <2>2. Pending(o) /\ o.status # "filled"
    BY <2>1 DEF FaultlessInv, LoopsAreOrderly, Pending
  <2>3. UNCHANGED <<pc, closing>>
    BY <1>1, <1>ok, <2>2 DEF CancelInvalidated, CommitOrder, EndOrder, FillOrder, Settled
  <2> QED
    BY <1>steady, <2>1, <2>3
<1>2. ASSUME NEW ok \in BOOLEAN, NEW o \in fills, TakeFill(o, ok) PROVE BookInv'
  <2>1. pc = "handle" /\ UNCHANGED openPos
        /\ (Settle \/ (pc' = "judge" /\ UNCHANGED <<closing, wallet>>))
    BY <1>2, <1>ok DEF TakeFill
  <2> QED
    BY <1>settle, <1>steady, <2>1
<1>3. CASE CheckExits
  <2>1. pc = "handle" /\ UNCHANGED openPos
        /\ (Settle \/ (pc' = "save" /\ UNCHANGED <<closing, wallet>>))
    BY <1>3 DEF CheckExits
  <2> QED
    BY <1>settle, <1>steady, <2>1
<1>4. ASSUME NEW o \in visit, Judge(o) PROVE BookInv'
  BY <1>4 DEF Judge, BookInv
<1>5. ASSUME NEW ok \in BOOLEAN, RecordOpen(ok) PROVE BookInv'
  BY <1>5, <1>ok DEF RecordOpen, BookInv
<1>6. ASSUME NEW ok \in BOOLEAN, NEW p \in closing, PersistTrade(p, ok) PROVE BookInv'
  BY <1>6 DEF PersistTrade, BookInv
<1>7. ASSUME NEW ok \in BOOLEAN, RemoveOpen(ok) PROVE BookInv'
  BY <1>7, <1>ok DEF RemoveOpen, BookInv
<1>8. CASE Boot \/ Crash
  BY <1>8 DEF Boot, Crash, BookInv
<1>9. ASSUME NEW ok \in BOOLEAN,
             \/ Tick \/ BeginMinute \/ BeginTail \/ EndFeed \/ EndCommit \/ EndArm \/ EndPrice
             \/ EndPoll \/ SaveState(ok) \/ DiscardStale \/ UNCHANGED vars
             \/ \E o \in visit : KeepOrder(o) \/ RecordEntryResult(o, ok) \/ Fallback(o, ok)
             \/ \E z \in Zones : ArmZone(z, ok)
             \/ \E o \in eng.orders : ExpireOverdue(o)
             \/ \E r \in Rows : ExpireStale(r)
      PROVE  BookInv'
  <2>1. UNCHANGED <<book, openPos, closing>>
    BY <1>9, <1>ok DEF Tick, BeginMinute, BeginTail, BeginFeed, EndFeed, EndCommit, EndArm, EndPrice,
       EndPoll, SaveState, DiscardStale, vars, KeepOrder, RecordEntryResult, Fallback, FaultlessInv,
       NoFailure, ArmZone, ExpireOverdue, ExpireStale
  <2>2. pc' = pc \/ {pc, pc'} \cap {"down", "open", "persist", "remove"} = {}
    BY <1>9, <1>ok DEF Tick, BeginMinute, BeginTail, BeginFeed, EndFeed, EndCommit, EndArm, EndPrice,
       EndPoll, SaveState, DiscardStale, vars, KeepOrder, RecordEntryResult, Fallback, FaultlessInv,
       NoFailure, ArmZone, ExpireOverdue, ExpireStale
  <2> QED
    BY <1>steady, <2>1, <2>2
<1>discard. ~\E ok \in BOOLEAN, o \in visit : DiscardOrder(o, ok)
  BY NothingIsDiscarded
<1> QED
  BY <1>1, <1>2, <1>3, <1>4, <1>5, <1>6, <1>7, <1>8, <1>9, <1>discard DEF Next, Poll, Start

(* While no write raises, the engine's book between polls is what           *)
(* open_positions says, wherever a crash came in.                           *)
THEOREM BookIsStored ==
  ASSUME MaxFailures = 0
  PROVE  Spec => []BookMatchesStore
<1>1. Init => FaultlessInv /\ BookInv
  BY InitFaultless DEF Init, BookInv
<1>2. FaultlessInv /\ BookInv /\ [Next]_vars => (FaultlessInv /\ BookInv)'
  BY FaultlessStep, BookStep
<1>3. BookInv => BookMatchesStore
  BY DEF BookInv, BookMatchesStore
<1> QED
  BY <1>1, <1>2, <1>3, PTL DEF Spec

------------------------------------------------------------------------------
(***************************************************************************)
(* What a row that was filled goes through.                                *)
(***************************************************************************)

(* A filled row stays filled, and its verdict is written by the handler of  *)
(* its fill; a row becomes filled by the price loop.                        *)
FillMoves(r) ==
  /\ journal[r].status = "filled" =>
       /\ journal'[r].status = "filled"
       /\ \/ journal'[r].entry = journal[r].entry
          \/ \E o \in visit : RecordEntryResult(o, TRUE) /\ o.row = r /\ journal'[r].entry = pc
  /\ journal[r].status # "filled" /\ journal'[r].status = "filled" =>
       \E o \in visit : FillOrder(o, TRUE) /\ o.row = r

(* When no write raises, no step moves a filled row in another way.         *)
LEMMA FilledRows ==
  ASSUME MaxFailures = 0, FaultlessInv, [Next]_vars, NEW r \in Rows
  PROVE  FillMoves(r)
<1> USE DEF durable, loops, wallet, world
<1>0. /\ journal \in [Rows -> Row] /\ eng.orders \subseteq Order /\ visit \subseteq Order
      /\ \A o \in Order : o.row \in 0..MaxRows
  BY DEF FaultlessInv, TypeInv, TypeOK, Order, Engine
<1>ok. \A ok \in BOOLEAN : Attempt(ok) => ok
  BY DEF Attempt, FaultlessInv, NoFailure
<1>pending. \A o \in eng.orders : Pending(o) => o.row \in Rows /\ journal[o.row].status = "pending"
  BY <1>0, TimeAssumption DEF FaultlessInv, OrdersInJournal, Rows
<1>ended. \A q \in Rows, status \in Status \ {"filled"} :
            journal[q].status = "pending" /\ journal' = Marked(q, status) => FillMoves(r)
  BY <1>0 DEF Marked, Row, FillMoves
<1>same. journal'[r] = journal[r] => FillMoves(r)
  BY DEF FillMoves
<1>1. ASSUME NEW o \in visit, NEW ok \in BOOLEAN,
             CancelInvalidated(o, ok) \/ CommitOrder(o, ok) \/ EndOrder(o, ok) \/ FillOrder(o, ok)
      PROVE  FillMoves(r)
  <2>1. pc \in {"feed", "commit", "price"}
    BY <1>1 DEF CancelInvalidated, CommitOrder, EndOrder, FillOrder
  <2>2. /\ o \in Order /\ Pending(o) /\ o \in eng.orders /\ o.status = "pending"
        /\ o.row \in Rows /\ journal[o.row].status = "pending"
    BY <1>0, <1>pending, <2>1 DEF FaultlessInv, LoopsAreOrderly, Pending
  <2>settled. \A o2 \in Order : Settled(o, o2, ok) /\ o2.row = o.row /\ o2.status # "filled" => FillMoves(r)
    <3> SUFFICES ASSUME NEW o2 \in Order, Settled(o, o2, ok), o2.row = o.row, o2.status # "filled"
                 PROVE  FillMoves(r)
      OBVIOUS
    <3>1. journal' = IF Pending(o2) THEN journal ELSE Marked(o2.row, o2.status)
      BY <1>ok, <2>2 DEF Settled
    <3>2. o2.status \in Status
      BY DEF Order
    <3> QED
      BY <1>ended, <1>same, <2>2, <3>1, <3>2
  <2>3. o.elapsed \in Int /\ o.elapsed + 1 \in Int
    BY <2>2 DEF Order
  <2>4. CASE CancelInvalidated(o, ok)
    <3> DEFINE o2 == [o EXCEPT !.status = "cancelled_invalidated"]
    <3>1. /\ Settled(o, o2, ok) /\ o2 \in Order
          /\ o2.row = o.row /\ o2.status = "cancelled_invalidated"
      BY <2>2, <2>4 DEF CancelInvalidated, Order, Status
    <3> QED
      BY <2>settled, <3>1
  <2>5. CASE CommitOrder(o, ok)
    <3> DEFINE status == IF o.elapsed + 1 >= LimitValidBars THEN "cancelled_expired" ELSE o.status
               o2 == [o EXCEPT !.elapsed = o.elapsed + 1, !.status = status]
    <3>1. Settled(o, o2, ok)
      BY <2>2, <2>5 DEF CommitOrder
    <3>2. o2 \in Order /\ o2.row = o.row /\ o2.status = status
      BY <2>2, <2>3 DEF Order, Status
    <3>3. status # "filled"
      BY <2>2
    <3> QED
      BY <2>settled, <3>1, <3>2, <3>3
  <2>6. CASE EndOrder(o, ok)
    <3> DEFINE o2 == [o EXCEPT !.status = "cancelled_condition_failed"]
    <3>1. /\ Settled(o, o2, ok) /\ o2 \in Order
          /\ o2.row = o.row /\ o2.status = "cancelled_condition_failed"
      BY <2>2, <2>6 DEF EndOrder, Order, Status
    <3> QED
      BY <2>settled, <3>1
  <2>7. CASE FillOrder(o, ok)
    <3>1. ok = TRUE
      BY <1>ok, <2>7 DEF FillOrder, Settled
    <3>2. journal' = Marked(o.row, "filled")
      BY <2>7, <3>1 DEF FillOrder
    <3>3. \A q \in Rows \ {o.row} : journal'[q] = journal[q]
      BY <1>0, <3>2 DEF Marked
    <3>4. r = o.row => FillMoves(r)
      BY <2>2, <2>7, <3>1 DEF FillMoves
    <3> QED
      BY <1>same, <3>3, <3>4
  <2> QED
    BY <1>1, <2>4, <2>5, <2>6, <2>7
<1>2. ASSUME NEW ok \in BOOLEAN, NEW o \in visit, RecordEntryResult(o, ok) PROVE FillMoves(r)
  <2>1. ok = TRUE /\ journal' = Judged(o.row, pc) /\ pc \in {"entered", "rejected"}
    BY <1>2, <1>ok DEF RecordEntryResult
  <2>2. \/ journal'[r] = journal[r]
        \/ o.row = r /\ journal'[r].status = journal[r].status /\ journal'[r].entry = pc
    BY <1>0, <2>1 DEF Judged, Row
  <2> QED
    BY <1>2, <1>same, <2>1, <2>2 DEF FillMoves
<1>3. ASSUME NEW ok \in BOOLEAN, NEW z \in Zones, ArmZone(z, ok) PROVE FillMoves(r)
  <2>1. nextRow \in Rows /\ journal[nextRow].status = "none"
    <3>1. nextRow \in 1..(MaxRows + 1) /\ nextRow <= MaxRows
      BY <1>3 DEF ArmZone, FaultlessInv, TypeInv, TypeOK
    <3>2. nextRow \in Rows
      BY <3>1, TimeAssumption DEF Rows
    <3> QED
      BY <3>1, <3>2 DEF FaultlessInv, RowsInOrder
  <2>2. journal' = [journal EXCEPT ![nextRow] =
                      [status |-> "pending", entry |-> "null", placed |-> minute]]
    BY <1>3, <1>ok DEF ArmZone
  <2>3. r = nextRow => journal[r].status = "none" /\ journal'[r].status = "pending"
    BY <1>0, <2>1, <2>2
  <2>4. r # nextRow => journal'[r] = journal[r]
    BY <1>0, <2>2
  <2> QED
    BY <1>same, <2>3, <2>4 DEF FillMoves
<1>4. ASSUME NEW o \in eng.orders, ExpireOverdue(o) PROVE FillMoves(r)
  <2>1. Pending(o) /\ journal' = Marked(o.row, "cancelled_expired")
    BY <1>4 DEF ExpireOverdue, FaultlessInv, LoopsAreOrderly
  <2> QED
    BY <1>ended, <1>pending, <2>1 DEF Status
<1>5. CASE DiscardStale \/ \E q \in Rows : ExpireStale(q)
  <2>1. \/ journal'[r] = journal[r]
        \/ journal[r].status = "pending" /\ journal'[r].status # "filled"
    BY <1>0, <1>5 DEF DiscardStale, ExpireStale, Row, Stale, PendingRows
  <2> QED
    BY <1>same, <2>1 DEF FillMoves
<1>6. CASE \/ Tick \/ BeginMinute \/ BeginTail \/ EndFeed \/ EndCommit \/ EndArm \/ EndPrice
           \/ CheckExits \/ EndPoll \/ Boot \/ Crash \/ UNCHANGED vars
           \/ \E o \in visit : KeepOrder(o) \/ Judge(o)
  <2>1. journal' = journal
    BY <1>6 DEF Tick, BeginMinute, BeginTail, BeginFeed, EndFeed, EndCommit, EndArm, EndPrice,
       CheckExits, EndPoll, Boot, Crash, vars, KeepOrder, Judge
  <2> QED
    BY <1>same, <2>1
<1>7. ASSUME NEW ok \in BOOLEAN,
             \/ RecordOpen(ok) \/ RemoveOpen(ok) \/ SaveState(ok)
             \/ \E o \in fills : TakeFill(o, ok)
             \/ \E p \in closing : PersistTrade(p, ok)
      PROVE  FillMoves(r)
  <2>1. journal' = journal
    BY <1>7 DEF RecordOpen, RemoveOpen, SaveState, TakeFill, PersistTrade
  <2> QED
    BY <1>same, <2>1
<1>8. ASSUME NEW ok \in BOOLEAN, NEW o \in visit, Fallback(o, ok) PROVE FALSE
  BY <1>8 DEF Fallback, FaultlessInv, NoFailure
<1>9. Tick \/ Start \/ Crash \/ UNCHANGED vars => FillMoves(r)
  BY <1>5, <1>6 DEF Start
<1>discard. ~\E ok \in BOOLEAN, o \in visit : DiscardOrder(o, ok)
  BY NothingIsDiscarded
<1>10. CASE Poll
  <2>1. ASSUME NEW ok \in BOOLEAN, NEW o \in visit,
               \/ CancelInvalidated(o, ok) \/ CommitOrder(o, ok)
               \/ FillOrder(o, ok) \/ EndOrder(o, ok)
               \/ RecordEntryResult(o, ok) \/ Fallback(o, ok)
        PROVE  FillMoves(r)
    BY <1>1, <1>2, <1>8, <2>1
  <2> QED
    BY <1>3, <1>4, <1>6, <1>7, <1>10, <1>discard, <2>1 DEF Poll
<1> QED
  BY <1>9, <1>10 DEF Next

(* A fill comes to be handled when its row is filled, and leaves when its   *)
(* verdict is recorded, or with the process.                                *)
UnjudgedMove ==
  /\ \A o \in Unjudged' \ Unjudged : o.row \in Rows /\ journal[o.row].status = "pending"
  /\ \A o \in Unjudged \ Unjudged' : Crash \/ \E q \in visit : RecordEntryResult(q, TRUE)

(* When no write raises, no fill comes or goes in another way.              *)
LEMMA UnjudgedMoves ==
  ASSUME MaxFailures = 0, FaultlessInv, [Next]_vars
  PROVE  UnjudgedMove
<1> USE DEF durable, loops, wallet, world
<1>ok. \A ok \in BOOLEAN : Attempt(ok) => ok
  BY DEF Attempt, FaultlessInv, NoFailure
<1>steady. Unjudged' = Unjudged => UnjudgedMove
  BY DEF UnjudgedMove
<1>quiet. ~Handling /\ ~Handling' /\ fills' = fills => UnjudgedMove
  BY DEF Unjudged, UnjudgedMove
<1>1. ASSUME NEW o \in visit, NEW ok \in BOOLEAN,
             CancelInvalidated(o, ok) \/ CommitOrder(o, ok) \/ EndOrder(o, ok) \/ FillOrder(o, ok)
      PROVE  UnjudgedMove
  <2>1. pc \in {"feed", "commit", "price"}
    BY <1>1 DEF CancelInvalidated, CommitOrder, EndOrder, FillOrder
  <2>2. /\ Pending(o) /\ o.status # "filled" /\ o \in eng.orders /\ eng.orders \subseteq Order
    BY <2>1 DEF FaultlessInv, LoopsAreOrderly, Pending, TypeInv, TypeOK, Engine
  <2>3. UNCHANGED pc /\ (fills' = fills \/ fills' = fills \cup {[o EXCEPT !.status = "filled"]})
    BY <1>1, <1>ok, <2>2 DEF CancelInvalidated, CommitOrder, EndOrder, FillOrder, Settled
  <2>4. o.row \in Rows /\ journal[o.row].status = "pending"
        /\ [o EXCEPT !.status = "filled"].row = o.row
    BY <2>2, TimeAssumption DEF FaultlessInv, OrdersInJournal, Rows, Order
  <2> QED
    BY <2>1, <2>3, <2>4 DEF Unjudged, Handling, UnjudgedMove
<1>2. ASSUME NEW ok \in BOOLEAN, NEW o \in fills, TakeFill(o, ok) PROVE UnjudgedMove
  <2>1. /\ pc = "handle" /\ fills' = fills \ {o} /\ visit' = {o} /\ pc' \in {"judge", "persist"}
    BY <1>2, <1>ok DEF TakeFill, Settle
  <2> QED
    BY <2>1 DEF Unjudged, Handling, UnjudgedMove
<1>3. CASE CheckExits
  <2>1. /\ pc = "handle" /\ visit = {} /\ UNCHANGED <<fills, visit>> /\ pc' \in {"save", "persist"}
    BY <1>3 DEF CheckExits, Settle, FaultlessInv, LoopsAreOrderly
  <2> QED
    BY <2>1 DEF Unjudged, Handling, UnjudgedMove
<1>4. ASSUME NEW ok \in BOOLEAN,
             \/ \E o \in visit : Judge(o)
             \/ RecordOpen(ok)
             \/ \E p \in closing : PersistTrade(p, ok)
      PROVE  UnjudgedMove
  <2>1. Handling /\ Handling' /\ UNCHANGED <<fills, visit>>
    BY <1>4, <1>ok DEF Judge, RecordOpen, PersistTrade, Handling
  <2> QED
    BY <2>1 DEF Unjudged, UnjudgedMove
<1>5. ASSUME NEW ok \in BOOLEAN, RemoveOpen(ok) PROVE UnjudgedMove
  <2>1. /\ pc = "remove" /\ UNCHANGED <<fills, visit>>
        /\ pc' = IF visit = {} THEN "save" ELSE "judge"
    BY <1>5, <1>ok DEF RemoveOpen
  <2> QED
    BY <2>1 DEF Unjudged, Handling, UnjudgedMove
<1>6. ASSUME NEW ok \in BOOLEAN, NEW o \in visit, RecordEntryResult(o, ok) PROVE UnjudgedMove
  <2>1. ok = TRUE /\ pc' = "handle" /\ fills' = fills
    BY <1>6, <1>ok DEF RecordEntryResult
  <2> QED
    BY <1>6, <2>1 DEF Unjudged, Handling, UnjudgedMove
<1>7. CASE Crash
  BY <1>7 DEF Crash, Unjudged, Handling, UnjudgedMove
<1>8. ASSUME \/ Tick \/ BeginMinute \/ BeginTail \/ EndFeed \/ EndCommit \/ EndArm \/ EndPrice
             \/ EndPoll \/ Boot \/ DiscardStale
             \/ \E o \in visit : KeepOrder(o)
             \/ \E ok \in BOOLEAN : SaveState(ok) \/ \E z \in Zones : ArmZone(z, ok)
             \/ \E o \in eng.orders : ExpireOverdue(o)
             \/ \E r \in Rows : ExpireStale(r)
      PROVE  UnjudgedMove
  <2>1. ~Handling /\ ~Handling'
    BY <1>8, <1>ok DEF Tick, BeginMinute, BeginTail, BeginFeed, EndFeed, EndCommit, EndArm, EndPrice,
       EndPoll, SaveState, Boot, DiscardStale, KeepOrder, ArmZone, ExpireOverdue, ExpireStale, Handling
  <2>2. fills' = fills
    BY <1>8, <1>ok DEF Tick, BeginMinute, BeginTail, BeginFeed, EndFeed, EndCommit, EndArm, EndPrice,
       EndPoll, SaveState, Boot, DiscardStale, KeepOrder, ArmZone, ExpireOverdue, ExpireStale
  <2> QED
    BY <1>quiet, <2>1, <2>2
<1>9. CASE UNCHANGED vars
  BY <1>9, <1>steady DEF vars, Unjudged, Handling
<1>10. ASSUME NEW ok \in BOOLEAN, NEW o \in visit, Fallback(o, ok) PROVE FALSE
  BY <1>10 DEF Fallback, FaultlessInv, NoFailure
<1>discard. ~\E ok \in BOOLEAN, o \in visit : DiscardOrder(o, ok)
  BY NothingIsDiscarded
<1>11. Poll => UnjudgedMove
  BY <1>1, <1>2, <1>3, <1>4, <1>5, <1>6, <1>8, <1>10, <1>discard DEF Poll
<1>12. Tick \/ Start \/ Crash \/ UNCHANGED vars => UnjudgedMove
  BY <1>7, <1>8, <1>9 DEF Start
<1> QED
  BY <1>11, <1>12 DEF Next

------------------------------------------------------------------------------
(***************************************************************************)
(* What was opened was not written off.                                    *)
(***************************************************************************)

(* Rows that a position or a trade goes back to.                            *)
HeldRows == {p.row : p \in openPos \cup book \cup trades}

(* The fills that may yet be refused: while a position is being opened, its *)
(* own fill is not.                                                         *)
Opening == pc \in {"open", "entered"}
Refusable == IF Opening THEN fills ELSE Unjudged

(* A held row was filled, not refused, and nothing can refuse it any more.  *)
HeldInv ==
  /\ \A r \in HeldRows :
       /\ r \in Rows /\ journal[r].status = "filled" /\ journal[r].entry # "rejected"
       /\ \A o \in Refusable : o.row # r
  /\ Handling => \A x, y \in visit : x = y
  /\ Opening => \A o \in visit : /\ \A p \in book : p.row = o.row
                                 /\ \A t \in trades : t.row # o.row

(* A step that holds no row that was not held.                              *)
LEMMA HeldSteady ==
  ASSUME MaxFailures = 0, FaultlessInv, HeldInv, [Next]_vars,
         HeldRows' \subseteq HeldRows, ~Opening, ~Opening',
         Handling' => \A x, y \in visit' : x = y
  PROVE  HeldInv'
<1>1. ASSUME NEW r \in HeldRows'
      PROVE  /\ r \in Rows /\ journal'[r].status = "filled" /\ journal'[r].entry # "rejected"
             /\ \A o \in Refusable' : o.row # r
  <2>1. /\ r \in Rows /\ journal[r].status = "filled" /\ journal[r].entry # "rejected"
        /\ \A o \in Unjudged : o.row # r
    BY <1>1 DEF HeldInv, Refusable
  <2>2. FillMoves(r) /\ UnjudgedMove
    BY <2>1, FilledRows, UnjudgedMoves
  <2>3. journal'[r].status = "filled" /\ journal'[r].entry # "rejected"
    <3>1. ~\E o \in visit : RecordEntryResult(o, TRUE) /\ o.row = r
      BY <2>1 DEF RecordEntryResult, Unjudged, Handling
    <3> QED
      BY <2>1, <2>2, <3>1 DEF FillMoves
  <2>4. \A o \in Unjudged' : o.row # r
    BY <2>1, <2>2 DEF UnjudgedMove
  <2> QED
    BY <2>1, <2>3, <2>4 DEF Refusable
<1> QED
  BY <1>1 DEF HeldInv

(* When no write raises, no step holds a row that is, or will be, refused.  *)
LEMMA HeldStep ==
  ASSUME MaxFailures = 0, FaultlessInv, BookInv, HeldInv, [Next]_vars
  PROVE  HeldInv'
<1> USE DEF durable, loops, wallet, world
<1>ok. \A ok \in BOOLEAN : Attempt(ok) => ok
  BY DEF Attempt, FaultlessInv, NoFailure
<1>1. ASSUME NEW o \in visit, NEW ok \in BOOLEAN,
             CancelInvalidated(o, ok) \/ CommitOrder(o, ok) \/ EndOrder(o, ok) \/ FillOrder(o, ok)
      PROVE  HeldInv'
  <2>1. pc \in {"feed", "commit", "price"} /\ UNCHANGED <<book, openPos, trades>>
    BY <1>1 DEF CancelInvalidated, CommitOrder, EndOrder, FillOrder
  <2>2. Pending(o) /\ o.status # "filled"
    BY <2>1 DEF FaultlessInv, LoopsAreOrderly, Pending
  <2>3. UNCHANGED pc
    BY <1>1, <1>ok, <2>2 DEF CancelInvalidated, CommitOrder, EndOrder, FillOrder, Settled
  <2>4. ~Opening /\ ~Opening' /\ ~Handling' /\ HeldRows' = HeldRows
    BY <2>1, <2>3 DEF Opening, Handling, HeldRows
  <2> QED
    BY <2>4, HeldSteady
<1>2. ASSUME NEW ok \in BOOLEAN, NEW o \in fills, TakeFill(o, ok) PROVE HeldInv'
  <2>1. /\ pc = "handle" /\ pc' \in {"judge", "persist"} /\ UNCHANGED <<openPos, trades>>
        /\ book' \subseteq book /\ visit' = {o}
    BY <1>2, <1>ok DEF TakeFill, Settle
  <2>2. ~Opening /\ ~Opening' /\ HeldRows' \subseteq HeldRows
    BY <2>1 DEF Opening, HeldRows
  <2> QED
    BY <2>1, <2>2, HeldSteady
<1>3. CASE CheckExits
  <2>1. /\ pc = "handle" /\ pc' \in {"save", "persist"} /\ UNCHANGED <<openPos, trades>>
        /\ book' \subseteq book /\ visit' = {}
    BY <1>3 DEF CheckExits, Settle, FaultlessInv, LoopsAreOrderly
  <2>2. ~Opening /\ ~Opening' /\ HeldRows' \subseteq HeldRows
    BY <2>1 DEF Opening, HeldRows
  <2> QED
    BY <2>1, <2>2, HeldSteady
<1>4. ASSUME NEW o \in visit, Judge(o) PROVE HeldInv'
  <2>1. pc = "judge" /\ UNCHANGED <<openPos, trades, visit, fills, journal>>
    BY <1>4 DEF Judge
  <2>2. \A x, y \in visit : x = y
    BY <2>1 DEF HeldInv, Handling
  <2>3. CASE pc' = "rejected" /\ UNCHANGED book
    <3>1. ~Opening /\ ~Opening' /\ HeldRows' = HeldRows
      BY <2>1, <2>3 DEF Opening, HeldRows
    <3> QED
      BY <2>1, <2>2, <3>1, HeldSteady
  <2>4. CASE book' = {[row |-> o.row, zone |-> o.zone, entry |-> minute]} /\ pc' = "open"
    <3>1. HeldRows' \subseteq HeldRows \cup {o.row} /\ Refusable' = fills /\ Opening'
      BY <2>1, <2>4 DEF HeldRows, Refusable, Opening
    <3>2. Refusable = fills \cup visit
      BY <2>1 DEF Refusable, Opening, Unjudged, Handling
    <3>3. /\ o \in Order /\ o.row # 0
          /\ journal[o.row].status = "filled" /\ journal[o.row].entry = "null"
          /\ \A q \in fills : q.row # o.row
      BY <2>1 DEF FaultlessInv, FillsInJournal, Unjudged, Handling, TypeInv, TypeOK
    <3>4. o.row \in Rows
      BY <3>3, TimeAssumption DEF Order, Rows
    <3>5. \A t \in trades : t.row # o.row
      BY <3>2 DEF HeldInv, HeldRows
    <3>6. \A r \in HeldRows' :
            /\ r \in Rows /\ journal'[r].status = "filled" /\ journal'[r].entry # "rejected"
            /\ \A q \in Refusable' : q.row # r
      BY <2>1, <3>1, <3>2, <3>3, <3>4 DEF HeldInv
    <3>7. \A q \in visit' : /\ \A p \in book' : p.row = q.row
                            /\ \A t \in trades' : t.row # q.row
      BY <2>1, <2>2, <2>4, <3>5
    <3> QED
      BY <2>1, <2>2, <3>6, <3>7 DEF HeldInv
  <2> QED
    BY <1>4, <2>3, <2>4 DEF Judge
<1>5. ASSUME NEW ok \in BOOLEAN, RecordOpen(ok) PROVE HeldInv'
  <2>1. /\ pc = "open" /\ pc' = "entered" /\ openPos' = book
        /\ UNCHANGED <<journal, book, trades, visit, fills>>
    BY <1>5, <1>ok DEF RecordOpen
  <2>2. HeldRows' \subseteq HeldRows /\ Refusable' = Refusable
    BY <2>1 DEF HeldRows, Refusable, Opening
  <2> QED
    BY <2>1, <2>2 DEF HeldInv, Opening, Handling
<1>6. ASSUME NEW ok \in BOOLEAN, NEW p \in closing, PersistTrade(p, ok) PROVE HeldInv'
  <2>1. /\ pc = "persist" /\ pc' = "remove" /\ UNCHANGED <<openPos, book, visit>>
        /\ trades' = Upsert([row |-> p.row, entry |-> p.entry, exit |-> minute])
    BY <1>6, <1>ok DEF PersistTrade
  <2>2. p \in openPos
    BY <2>1 DEF BookInv
  <2>3. ~Opening /\ ~Opening' /\ HeldRows' \subseteq HeldRows
    BY <2>1, <2>2 DEF Opening, HeldRows, Upsert
  <2>4. \A x, y \in visit : x = y
    BY <2>1 DEF HeldInv, Handling
  <2> QED
    BY <2>1, <2>3, <2>4, HeldSteady
<1>7. ASSUME NEW ok \in BOOLEAN, RemoveOpen(ok) PROVE HeldInv'
  <2>1. /\ pc = "remove" /\ pc' \in {"save", "judge"} /\ openPos' = {}
        /\ UNCHANGED <<book, trades, visit>>
    BY <1>7, <1>ok DEF RemoveOpen
  <2>2. ~Opening /\ ~Opening' /\ HeldRows' \subseteq HeldRows
    BY <2>1 DEF Opening, HeldRows
  <2>3. \A x, y \in visit : x = y
    BY <2>1 DEF HeldInv, Handling
  <2> QED
    BY <2>1, <2>2, <2>3, HeldSteady
<1>8. ASSUME NEW o \in visit, NEW ok \in BOOLEAN, RecordEntryResult(o, ok) PROVE HeldInv'
  <2>1. /\ pc \in {"entered", "rejected"} /\ pc' = "handle" /\ visit' = {}
        /\ journal' = Judged(o.row, pc)
        /\ UNCHANGED <<openPos, book, trades, fills>>
    BY <1>8, <1>ok DEF RecordEntryResult
  <2>2. CASE pc = "rejected"
    <3>1. ~Opening /\ ~Opening' /\ HeldRows' = HeldRows
      BY <2>1, <2>2 DEF Opening, HeldRows
    <3> QED
      BY <2>1, <3>1, HeldSteady
  <2>3. CASE pc = "entered"
    <3>1. HeldRows' = HeldRows /\ Refusable' = fills /\ Refusable = fills
      BY <2>1, <2>3 DEF HeldRows, Refusable, Opening, Unjudged, Handling
    <3>2. journal \in [Rows -> Row]
      BY DEF FaultlessInv, TypeInv, TypeOK
    <3>3. \A r \in Rows : /\ journal'[r].status = journal[r].status
                          /\ journal'[r].entry \in {journal[r].entry, "entered"}
      BY <2>1, <2>3, <3>2 DEF Judged, Row
    <3>4. \A r \in HeldRows' :
            /\ r \in Rows /\ journal'[r].status = "filled" /\ journal'[r].entry # "rejected"
            /\ \A q \in Refusable' : q.row # r
      BY <3>1, <3>3 DEF HeldInv
    <3> QED
      BY <2>1, <3>4 DEF HeldInv, Opening, Handling
  <2> QED
    BY <2>1, <2>2, <2>3
<1>crash. ASSUME HeldRows' \subseteq HeldRows, Unjudged' = {}, journal' = journal,
                 ~Opening', ~Handling'
          PROVE  HeldInv'
  BY <1>crash DEF HeldInv, Refusable
<1>9. CASE Crash
  <2>1. /\ pc' = "down" /\ fills' = {} /\ book' = {} /\ UNCHANGED <<openPos, trades, journal>>
    BY <1>9 DEF Crash
  <2>2. HeldRows' \subseteq HeldRows /\ Unjudged' = {} /\ ~Opening' /\ ~Handling'
    BY <2>1 DEF HeldRows, Unjudged, Opening, Handling
  <2> QED
    BY <1>crash, <2>1, <2>2
<1>10. CASE Boot
  <2>1. /\ pc = "down" /\ pc' = "boot" /\ book' = openPos /\ UNCHANGED <<openPos, trades>>
    BY <1>10 DEF Boot
  <2>2. HeldRows' \subseteq HeldRows /\ ~Opening /\ ~Opening' /\ ~Handling'
    BY <2>1 DEF HeldRows, Opening, Handling
  <2> QED
    BY <2>2, HeldSteady
<1>11. ASSUME NEW ok \in BOOLEAN,
              \/ Tick \/ BeginMinute \/ BeginTail \/ EndFeed \/ EndCommit \/ EndArm \/ EndPrice
              \/ EndPoll \/ SaveState(ok) \/ DiscardStale
              \/ \E o \in visit : KeepOrder(o)
              \/ \E z \in Zones : ArmZone(z, ok)
              \/ \E o \in eng.orders : ExpireOverdue(o)
              \/ \E r \in Rows : ExpireStale(r)
       PROVE  HeldInv'
  <2>1. ~Opening /\ ~Opening' /\ ~Handling'
    BY <1>11, <1>ok DEF Tick, BeginMinute, BeginTail, BeginFeed, EndFeed, EndCommit, EndArm, EndPrice,
       EndPoll, SaveState, DiscardStale, KeepOrder, ArmZone, ExpireOverdue, ExpireStale, Handling,
       Opening
  <2>2. UNCHANGED <<book, openPos, trades>>
    BY <1>11, <1>ok DEF Tick, BeginMinute, BeginTail, BeginFeed, EndFeed, EndCommit, EndArm, EndPrice,
       EndPoll, SaveState, DiscardStale, KeepOrder, ArmZone, ExpireOverdue, ExpireStale
  <2>3. HeldRows' = HeldRows
    BY <2>2 DEF HeldRows
  <2> QED
    BY <2>1, <2>3, HeldSteady
<1>12. CASE UNCHANGED vars
  BY <1>12 DEF vars, HeldInv, HeldRows, Refusable, Unjudged, Opening, Handling
<1>13. ASSUME NEW ok \in BOOLEAN, NEW o \in visit, Fallback(o, ok) PROVE FALSE
  BY <1>13 DEF Fallback, FaultlessInv, NoFailure
<1>discard. ~\E ok \in BOOLEAN, o \in visit : DiscardOrder(o, ok)
  BY NothingIsDiscarded
<1> QED
  BY <1>1, <1>2, <1>3, <1>4, <1>5, <1>6, <1>7, <1>8, <1>9, <1>10, <1>11, <1>12, <1>13, <1>discard
     DEF Next, Poll, Start

MoneyInv == FaultlessInv /\ BookInv /\ HeldInv

(* When no write raises, every step keeps the position where it is.         *)
LEMMA MoneyInvStep ==
  ASSUME MaxFailures = 0
  PROVE  /\ Init => MoneyInv
         /\ MoneyInv /\ [Next]_vars => MoneyInv'
<1>1. Init => MoneyInv
  BY InitFaultless DEF Init, BookInv, HeldInv, HeldRows, Handling, Opening, MoneyInv
<1>2. MoneyInv /\ [Next]_vars => MoneyInv'
  BY FaultlessStep, BookStep, HeldStep DEF MoneyInv
<1> QED
  BY <1>1, <1>2

(* While no write raises, and wherever the process dies, what the journal   *)
(* calls rejected holds no position and has no trade.                       *)
THEOREM NothingRejectedIsHeld ==
  ASSUME MaxFailures = 0
  PROVE  Spec => []RejectedHoldsNothing
<1>1. MoneyInv => RejectedHoldsNothing
  BY DEF MoneyInv, BookInv, HeldInv, HeldRows, RejectedHoldsNothing
<1> QED
  BY <1>1, MoneyInvStep, PTL DEF Spec

------------------------------------------------------------------------------
(***************************************************************************)
(* One life of the process.                                                *)
(***************************************************************************)

OneLife == crashes = 0 /\ pc \notin {"down", "boot"}

(* Every fill without a verdict is in the hands of the minute's handlers,   *)
(* and they are done before the minute is saved.                            *)
JudgeInv ==
  /\ \A r \in Rows : journal[r].status = "filled" /\ journal[r].entry = "null"
                      => \E o \in Unjudged : o.row = r
  /\ pc \notin {"price", "handle"} /\ ~Handling => fills = {}
  /\ pc \in {"persist", "remove"} /\ visit = {} => fills = {}

(* The process lives on when it may not crash.                              *)
LEMMA LifeStep ==
  ASSUME MaxCrashes = 0, MaxFailures = 0, FaultlessInv, OneLife, [Next]_vars
  PROVE  OneLife' /\ ~Crash /\ ~Start
<1> USE DEF durable, loops, wallet, world
<1>1. ~Crash /\ ~Start
  BY DEF Crash, Start, Boot, DiscardStale, ExpireStale, OneLife
<1>2. ASSUME NEW ok \in BOOLEAN, NEW o \in visit,
             \/ CancelInvalidated(o, ok) \/ CommitOrder(o, ok) \/ EndOrder(o, ok) \/ FillOrder(o, ok)
      PROVE  OneLife'
  BY <1>2 DEF CancelInvalidated, CommitOrder, EndOrder, FillOrder, Settled, Abort, OneLife
<1>3. ASSUME NEW ok \in BOOLEAN,
             \/ Tick \/ BeginMinute \/ BeginTail \/ EndFeed \/ EndCommit \/ EndArm \/ EndPrice
             \/ CheckExits \/ EndPoll \/ RecordOpen(ok) \/ RemoveOpen(ok) \/ SaveState(ok)
             \/ UNCHANGED vars
             \/ \E o \in visit : KeepOrder(o) \/ Judge(o) \/ RecordEntryResult(o, ok) \/ Fallback(o, ok)
             \/ \E o \in fills : TakeFill(o, ok)
             \/ \E p \in closing : PersistTrade(p, ok)
             \/ \E z \in Zones : ArmZone(z, ok)
             \/ \E o \in eng.orders : ExpireOverdue(o)
      PROVE  OneLife'
  BY <1>3 DEF Tick, BeginMinute, BeginTail, BeginFeed, EndFeed, EndCommit, EndArm, EndPrice, CheckExits,
     EndPoll, RecordOpen, RemoveOpen, SaveState, vars, KeepOrder, Judge, RecordEntryResult, Fallback,
     TakeFill, PersistTrade, ArmZone, ExpireOverdue, Settle, Abort, OneLife
<1>discard. ~\E ok \in BOOLEAN, o \in visit : DiscardOrder(o, ok)
  BY NothingIsDiscarded
<1> QED
  BY <1>1, <1>2, <1>3, <1>discard DEF Next, Poll

(* In one life in which no write raises, no fill is left behind.            *)
LEMMA JudgeStep ==
  ASSUME MaxCrashes = 0, MaxFailures = 0, MoneyInv, OneLife, JudgeInv, [Next]_vars
  PROVE  JudgeInv'
<1> USE DEF durable, loops, wallet, world
<1>ok. \A ok \in BOOLEAN : Attempt(ok) => ok
  BY DEF Attempt, MoneyInv, FaultlessInv, NoFailure
<1>life. OneLife' /\ ~Crash /\ ~Start /\ FaultlessInv
  BY LifeStep DEF MoneyInv
<1>0. journal \in [Rows -> Row]
  BY <1>life DEF FaultlessInv, TypeInv, TypeOK
<1>rows. ASSUME NEW r \in Rows, journal'[r].status = "filled", journal'[r].entry = "null"
         PROVE  \E o \in Unjudged' : o.row = r
  <2>1. FillMoves(r) /\ UnjudgedMove
    BY <1>life, FilledRows, UnjudgedMoves
  <2>2. CASE journal[r].status # "filled"
    <3>1. PICK o \in visit : FillOrder(o, TRUE) /\ o.row = r
      BY <1>rows, <2>1, <2>2 DEF FillMoves
    <3> DEFINE o2 == [o EXCEPT !.status = "filled"]
    <3>2. o \in Order /\ Pending(o) /\ o.status # "filled" /\ pc = "price"
      BY <1>life, <3>1 DEF FillOrder, FaultlessInv, LoopsAreOrderly, Pending, TypeInv, TypeOK
    <3>3. fills' = fills \cup {o2} /\ o2.row = r
      BY <3>1, <3>2 DEF FillOrder, Order
    <3> QED
      BY <3>3 DEF Unjudged
  <2>3. CASE journal[r].status = "filled"
    <3>1. ASSUME NEW q \in visit, RecordEntryResult(q, TRUE)
          PROVE  q.row # r /\ \A o \in Unjudged \ {q} : o \in Unjudged'
      <4>1. /\ pc \in {"entered", "rejected"} /\ fills' = fills /\ pc' = "handle"
            /\ journal' = Judged(q.row, pc) /\ \A x \in visit : x = q
        BY <3>1 DEF RecordEntryResult, MoneyInv, HeldInv, Handling
      <4>2. q.row = r => journal'[r].entry = pc
        BY <1>0, <4>1 DEF Judged, Rows
      <4> QED
        BY <1>rows, <4>1, <4>2 DEF Unjudged
    <3>2. journal[r].entry = "null"
      BY <1>rows, <2>1, <2>3 DEF FillMoves, RecordEntryResult
    <3>3. PICK o \in Unjudged : o.row = r
      BY <2>3, <3>2 DEF JudgeInv
    <3> QED
      BY <1>life, <2>1, <3>1, <3>3 DEF UnjudgedMove
  <2> QED
    BY <2>2, <2>3
<1>done. ASSUME \/ UNCHANGED fills /\ (pc' \in {"price", "handle"} \/ (~Handling /\ pc \notin {"price", "handle"} /\ ~Handling'))
                \/ pc' \in {"price", "handle", "judge", "open", "entered", "rejected"}
                \/ fills' = {}
         PROVE  JudgeInv'
  BY <1>rows, <1>done DEF JudgeInv, Handling
<1>1. ASSUME NEW o \in visit, NEW ok \in BOOLEAN,
             CancelInvalidated(o, ok) \/ CommitOrder(o, ok) \/ EndOrder(o, ok) \/ FillOrder(o, ok)
      PROVE  JudgeInv'
  <2>1. pc \in {"feed", "commit", "price"}
    BY <1>1 DEF CancelInvalidated, CommitOrder, EndOrder, FillOrder
  <2>2. Pending(o) /\ o.status # "filled"
    BY <1>life, <2>1 DEF FaultlessInv, LoopsAreOrderly, Pending
  <2>3. UNCHANGED pc /\ (pc = "price" \/ UNCHANGED fills)
    BY <1>1, <1>ok, <2>2 DEF CancelInvalidated, CommitOrder, EndOrder, FillOrder, Settled
  <2> QED
    BY <1>done, <2>1, <2>3 DEF Handling
<1>2. ASSUME NEW ok \in BOOLEAN, NEW o \in fills, TakeFill(o, ok) PROVE JudgeInv'
  <2>1. pc' \in {"judge", "persist"} /\ visit' = {o}
    BY <1>2, <1>ok DEF TakeFill, Settle
  <2> QED
    BY <1>rows, <2>1 DEF JudgeInv, Handling
<1>3. CASE CheckExits
  <2>1. fills' = {}
    BY <1>3 DEF CheckExits
  <2> QED
    BY <1>done, <2>1
<1>4. ASSUME NEW ok \in BOOLEAN, NEW p \in closing, PersistTrade(p, ok) PROVE JudgeInv'
  <2>1. pc = "persist" /\ pc' = "remove" /\ UNCHANGED <<fills, visit>>
    BY <1>4 DEF PersistTrade
  <2> QED
    BY <1>rows, <2>1 DEF JudgeInv, Handling
<1>5. ASSUME NEW ok \in BOOLEAN, RemoveOpen(ok) PROVE JudgeInv'
  <2>1. pc = "remove" /\ (pc' = IF visit = {} THEN "save" ELSE "judge") /\ UNCHANGED <<fills, visit>>
    BY <1>5, <1>ok DEF RemoveOpen
  <2> QED
    BY <1>rows, <2>1 DEF JudgeInv, Handling
<1>6. ASSUME NEW ok \in BOOLEAN,
             \/ EndArm \/ EndPrice \/ RecordOpen(ok)
             \/ \E o \in visit : KeepOrder(o) \/ Judge(o) \/ RecordEntryResult(o, ok)
      PROVE  JudgeInv'
  <2>1. pc' \in {"price", "handle", "judge", "open", "entered", "rejected"}
    BY <1>6, <1>ok DEF EndArm, EndPrice, RecordOpen, KeepOrder, Judge, RecordEntryResult
  <2> QED
    BY <1>done, <2>1
<1>7. ASSUME NEW ok \in BOOLEAN,
             \/ Tick \/ BeginMinute \/ BeginTail \/ EndFeed \/ EndCommit \/ EndPoll \/ SaveState(ok)
             \/ \E z \in Zones : ArmZone(z, ok)
             \/ \E o \in eng.orders : ExpireOverdue(o)
      PROVE  JudgeInv'
  <2>1. UNCHANGED fills
    BY <1>7, <1>ok DEF Tick, BeginMinute, BeginTail, BeginFeed, EndFeed, EndCommit, EndPoll, SaveState,
       ArmZone, ExpireOverdue
  <2>2. ~Handling /\ pc \notin {"price", "handle"} /\ ~Handling'
    BY <1>7, <1>ok DEF Tick, BeginMinute, BeginTail, BeginFeed, EndFeed, EndCommit, EndPoll, SaveState,
       ArmZone, ExpireOverdue, Handling
  <2> QED
    BY <1>done, <2>1, <2>2
<1>8. CASE UNCHANGED vars
  BY <1>rows, <1>8 DEF vars, JudgeInv, Handling
<1>9. ASSUME NEW ok \in BOOLEAN, NEW o \in visit, Fallback(o, ok) PROVE FALSE
  BY <1>9, <1>life DEF Fallback, FaultlessInv, NoFailure
<1>discard. ~\E ok \in BOOLEAN, o \in visit : DiscardOrder(o, ok)
  BY <1>life, NothingIsDiscarded
<1> QED
  BY <1>1, <1>2, <1>3, <1>4, <1>5, <1>6, <1>7, <1>8, <1>9, <1>life, <1>discard DEF Next, Poll

(* In one life in which no write raises, every fill has its verdict by the  *)
(* end of the poll.                                                         *)
THEOREM EveryFillIsJudged ==
  ASSUME MaxCrashes = 0, MaxFailures = 0
  PROVE  Spec => []FillsAreJudged
<1>1. Init => MoneyInv /\ OneLife /\ JudgeInv
  BY MoneyInvStep DEF Init, OneLife, JudgeInv
<1>2. MoneyInv /\ OneLife /\ JudgeInv /\ [Next]_vars => (MoneyInv /\ OneLife /\ JudgeInv)'
  BY MoneyInvStep, LifeStep, JudgeStep DEF MoneyInv
<1>3. JudgeInv => FillsAreJudged
  BY DEF JudgeInv, FillsAreJudged, Unjudged, Handling
<1> QED
  BY <1>1, <1>2, <1>3, PTL DEF Spec

------------------------------------------------------------------------------
(***************************************************************************)
(* The trades of one life.                                                 *)
(***************************************************************************)

(* The minute at which the holding period of a position, or a trade, ends.  *)
Due(p) == (Bar(p.entry) + HoldBars) * BarMinutes

(* A fill has its place in the ledger once, and not while it is held.       *)
TradeInv ==
  /\ \A t, u \in trades : t.row = u.row => t = u
  /\ \A t \in trades, p \in book \cup closing : t.row # p.row

(* No position outlives its holding period: what is held has a minute to    *)
(* come yet, and what is past its last one is not on the book when the      *)
(* minute is saved.                                                         *)
HoldInv ==
  /\ \A t \in trades : t.exit < Due(t)
  /\ minute # None => \A p \in book \cup closing : minute < Due(p)
  /\ pc = "save" => \A p \in book : minute + 1 < Due(p)
  /\ pc \notin AfterPrice => \A p \in book : cursor # None /\ cursor + 1 < Due(p)

LifeInv == OrdersInv /\ MoneyInv /\ OneLife

(* A step that neither opens, settles, books nor saves.                     *)
Idles ==
  /\ UNCHANGED <<book, closing, trades, equity, cursor, minute>>
  /\ pc' # "save" /\ (pc' = "persist" <=> pc = "persist")
  /\ pc' \notin AfterPrice => pc \notin AfterPrice

(* In one life few steps touch the book or the ledger.                      *)
LEMMA MostStepsIdle ==
  ASSUME MaxCrashes = 0, MaxFailures = 0, LifeInv, [Next]_vars
  PROVE  \/ Idles
         \/ BeginMinute
         \/ UNCHANGED vars
         \/ pc = "handle" /\ Settle /\ UNCHANGED <<trades, minute>>
         \/ CheckExits
         \/ \E o \in visit : Judge(o)
         \/ \E p \in closing : PersistTrade(p, TRUE)
         \/ RemoveOpen(TRUE)
         \/ SaveState(TRUE)
<1> USE DEF durable, loops, wallet, world
<1>ok. \A ok \in BOOLEAN : Attempt(ok) => ok
  BY DEF Attempt, LifeInv, MoneyInv, FaultlessInv, NoFailure
<1>life. OneLife /\ OneLife' /\ ~Crash /\ ~Start /\ FaultlessInv
  BY LifeStep DEF LifeInv, MoneyInv
<1>1. ASSUME NEW o \in visit, NEW ok \in BOOLEAN,
             CancelInvalidated(o, ok) \/ CommitOrder(o, ok) \/ EndOrder(o, ok) \/ FillOrder(o, ok)
      PROVE  Idles
  <2>1. pc \in {"feed", "commit", "price"} /\ UNCHANGED <<trades, wallet, cursor>>
    BY <1>1 DEF CancelInvalidated, CommitOrder, EndOrder, FillOrder
  <2>2. Pending(o) /\ o.status # "filled"
    BY <1>life, <2>1 DEF FaultlessInv, LoopsAreOrderly, Pending
  <2>3. UNCHANGED <<pc, closing, minute>>
    BY <1>1, <1>ok, <2>2 DEF CancelInvalidated, CommitOrder, EndOrder, FillOrder, Settled
  <2> QED
    BY <2>1, <2>3 DEF Idles, AfterPrice
<1>2. ASSUME NEW ok \in BOOLEAN, NEW o \in fills, TakeFill(o, ok)
      PROVE  Idles \/ (pc = "handle" /\ Settle /\ UNCHANGED <<trades, minute>>)
  <2>1. /\ pc = "handle" /\ UNCHANGED <<trades, minute, cursor>>
        /\ Settle \/ (pc' = "judge" /\ UNCHANGED <<closing, wallet>>)
    BY <1>2, <1>ok DEF TakeFill
  <2> QED
    BY <2>1 DEF Idles, AfterPrice
<1>3. ASSUME NEW ok \in BOOLEAN, NEW p \in closing, PersistTrade(p, ok) PROVE PersistTrade(p, TRUE)
  <2>1. ok = TRUE
    BY <1>3, <1>ok DEF PersistTrade
  <2> QED
    BY <1>3, <2>1
<1>4. ASSUME NEW ok \in BOOLEAN, RemoveOpen(ok) PROVE RemoveOpen(TRUE)
  <2>1. ok = TRUE
    BY <1>4, <1>ok DEF RemoveOpen
  <2> QED
    BY <1>4, <2>1
<1>5. ASSUME NEW ok \in BOOLEAN, SaveState(ok) PROVE SaveState(TRUE)
  <2>1. ok = TRUE
    BY <1>5, <1>ok DEF SaveState
  <2> QED
    BY <1>5, <2>1
<1>6. ASSUME NEW ok \in BOOLEAN, RecordOpen(ok) \/ \E o \in visit : RecordEntryResult(o, ok)
      PROVE  Idles
  BY <1>6, <1>ok DEF RecordOpen, RecordEntryResult, Idles, AfterPrice
<1>7. CASE \/ Tick \/ BeginTail \/ EndFeed \/ EndCommit \/ EndArm \/ EndPrice \/ EndPoll
           \/ \E o \in visit : KeepOrder(o)
           \/ \E o \in eng.orders : ExpireOverdue(o)
  <2>1. UNCHANGED <<book, closing, trades, equity, cursor, minute>>
    BY <1>7 DEF Tick, BeginTail, BeginFeed, EndFeed, EndCommit, EndArm, EndPrice, EndPoll, KeepOrder,
       ExpireOverdue
  <2>2. /\ pc' # "save" /\ (pc' = "persist" <=> pc = "persist")
        /\ (pc' \notin AfterPrice => pc \notin AfterPrice)
    BY <1>7 DEF Tick, BeginTail, BeginFeed, EndFeed, EndCommit, EndArm, EndPrice, EndPoll, KeepOrder,
       ExpireOverdue, AfterPrice
  <2> QED
    BY <2>1, <2>2 DEF Idles
<1>8. ASSUME NEW ok \in BOOLEAN, NEW z \in Zones, ArmZone(z, ok) PROVE Idles
  BY <1>8, <1>ok DEF ArmZone, Idles, AfterPrice
<1>9. ASSUME NEW ok \in BOOLEAN, NEW o \in visit, Fallback(o, ok) PROVE FALSE
  BY <1>9, <1>life DEF Fallback, FaultlessInv, NoFailure
<1>discard. ~\E ok \in BOOLEAN, o \in visit : DiscardOrder(o, ok)
  BY <1>life, NothingIsDiscarded
<1>10. CASE Poll
  <2>1. ASSUME NEW ok \in BOOLEAN, NEW o \in visit,
               \/ CancelInvalidated(o, ok) \/ CommitOrder(o, ok)
               \/ FillOrder(o, ok) \/ EndOrder(o, ok)
               \/ RecordEntryResult(o, ok) \/ Fallback(o, ok)
        PROVE  Idles
    BY <1>1, <1>6, <1>9, <2>1
  <2> QED
    BY <1>2, <1>3, <1>4, <1>5, <1>6, <1>7, <1>8, <1>10, <1>discard, <2>1 DEF Poll
<1>11. CASE Tick
  BY <1>7, <1>11
<1> QED
  BY <1>10, <1>11, <1>life DEF Next

(* In one life, what is booked is off the book.                             *)
LEMMA TradeStep ==
  ASSUME MaxCrashes = 0, MaxFailures = 0, LifeInv, TradeInv, [Next]_vars
  PROVE  TradeInv'
<1> USE DEF durable, loops, wallet
<1>book. BookInv /\ HeldInv /\ FaultlessInv
  BY DEF LifeInv, MoneyInv
<1>1. CASE pc = "handle" /\ Settle /\ UNCHANGED <<trades, minute>>
  BY <1>1 DEF Settle, TradeInv
<1>2. CASE CheckExits
  <2>1. UNCHANGED trades /\ (Settle \/ UNCHANGED <<book, closing>>)
    BY <1>2 DEF CheckExits
  <2> QED
    BY <2>1 DEF Settle, TradeInv
<1>3. ASSUME NEW o \in visit, Judge(o) PROVE TradeInv'
  <2>1. /\ pc = "judge" /\ UNCHANGED <<closing, trades>>
        /\ book' = book \/ book' = {[row |-> o.row, zone |-> o.zone, entry |-> minute]}
    BY <1>3 DEF Judge
  <2>2. \A t \in trades : t.row # o.row
    BY <1>book, <2>1 DEF HeldInv, HeldRows, Refusable, Opening, Unjudged, Handling
  <2> QED
    BY <2>1, <2>2 DEF TradeInv
<1>4. ASSUME NEW p \in closing, PersistTrade(p, TRUE) PROVE TradeInv'
  <2> DEFINE t == [row |-> p.row, entry |-> p.entry, exit |-> minute]
  <2>1. /\ pc = "persist" /\ closing' = {} /\ book' = book /\ trades' \subseteq trades \cup {t}
    BY <1>4 DEF PersistTrade, Upsert
  <2>2. book = {} /\ t.row = p.row
    BY <1>book, <2>1 DEF BookInv
  <2>3. \A u \in trades : u.row # t.row
    BY <2>2 DEF TradeInv
  <2> HIDE DEF t
  <2> QED
    BY <2>1, <2>2, <2>3 DEF TradeInv
<1>5. CASE Idles \/ BeginMinute \/ UNCHANGED vars \/ RemoveOpen(TRUE) \/ SaveState(TRUE)
  <2>1. UNCHANGED <<book, closing, trades>>
    BY <1>5, <1>book DEF Idles, BeginMinute, BeginFeed, vars, RemoveOpen, SaveState, Attempt, Abort,
       FaultlessInv, NoFailure
  <2> QED
    BY <2>1 DEF TradeInv
<1> QED
  BY <1>1, <1>2, <1>3, <1>4, <1>5, MostStepsIdle

(* The holding period ends in whole minutes.                                *)
LEMMA DueType ==
  ASSUME TypeInv
  PROVE  /\ \A p \in book \cup closing : Due(p) \in Int
         /\ \A t \in trades : Due(t) \in Int /\ t.exit \in Int
<1>1. BarMinutes \in Int /\ HoldBars \in Int
  BY TimeAssumption
<1>2. \A p \in book \cup closing : p.entry \in Int
  BY DEF TypeInv, TypeOK, Position
<1>3. \A t \in trades : t.entry \in Int /\ t.exit \in Int
  BY DEF TypeInv, TypeOK, Trade
<1>4. \A m \in Int : Bar(m) + HoldBars \in Int
  BY <1>1, BarType
<1> QED
  BY <1>1, <1>2, <1>3, <1>4 DEF Due

(* In one life, with a holding period of a bar at least, the exit comes in  *)
(* time.                                                                    *)
LEMMA HoldStep ==
  ASSUME MaxCrashes = 0, MaxFailures = 0, HoldBars # 0, LifeInv, HoldInv, [Next]_vars
  PROVE  HoldInv'
<1> USE DEF durable, loops, wallet
<1>0. /\ BookInv /\ HeldInv /\ FaultlessInv /\ TypeInv /\ MemoryInv
      /\ minute \in Int /\ cursor \in Int
      /\ HoldBars \in Nat \ {0} /\ BarMinutes \in Nat \ {0}
  BY TimeAssumption DEF LifeInv, OrdersInv, MoneyInv, FaultlessInv, TypeInv, TypeOK
<1>due. /\ \A p \in book \cup closing : Due(p) \in Int
        /\ \A p : Due(p)' = Due(p)
  BY <1>0, DueType DEF Due, Bar
<1>settle. ASSUME pc = "handle", Settle, UNCHANGED <<trades, minute>> PROVE HoldInv'
  BY <1>settle DEF Settle, HoldInv, AfterPrice, Due, Bar
<1>1. CASE CheckExits
  <2>1. CASE \E p \in book : StopHit(p) \/ TimeExit(p)
    BY <1>1, <1>settle, <2>1 DEF CheckExits
  <2>2. CASE ~\E p \in book : StopHit(p) \/ TimeExit(p)
    <3>1. /\ pc = "handle" /\ pc' = "save" /\ UNCHANGED <<book, closing, trades, minute>>
      BY <1>1, <2>2 DEF CheckExits
    <3>2. \A p \in book : minute + 1 < Due(p)
      BY <1>0, <1>due, <2>2 DEF TimeExit, Due
    <3> QED
      BY <3>1, <3>2 DEF HoldInv, AfterPrice, Due, Bar
  <2> QED
    BY <2>1, <2>2
<1>2. ASSUME NEW o \in visit, Judge(o) PROVE HoldInv'
  <2> DEFINE p == [row |-> o.row, zone |-> o.zone, entry |-> minute]
  <2>1. /\ pc = "judge" /\ pc' \in {"rejected", "open"} /\ UNCHANGED <<closing, trades, minute>>
        /\ book' = book \/ book' = {p}
    BY <1>2 DEF Judge
  <2>2. minute < Due(p)
    <3>1. Bar(minute) \in Int /\ Bar(minute) + HoldBars \in Int
          /\ ~(Bar(minute) + HoldBars <= Bar(minute))
      BY <1>0, BarType
    <3>2. ~((Bar(minute) + HoldBars) * BarMinutes <= minute)
      BY <1>0, <3>1, BarHasBegun
    <3>3. Due(p) = (Bar(minute) + HoldBars) * BarMinutes
      BY DEF Due
    <3>4. (Bar(minute) + HoldBars) * BarMinutes \in Int
      BY <1>0, <3>1
    <3> QED
      BY <1>0, <3>2, <3>3, <3>4
  <2>4. \A q : q = p => minute < Due(q)
    BY <2>2
  <2> HIDE DEF p
  <2> QED
    BY <2>1, <2>4 DEF HoldInv, AfterPrice, Due, Bar
<1>3. ASSUME NEW p \in closing, PersistTrade(p, TRUE) PROVE HoldInv'
  <2> DEFINE t == [row |-> p.row, entry |-> p.entry, exit |-> minute]
  <2>1. /\ pc = "persist" /\ pc' = "remove" /\ closing' = {} /\ UNCHANGED <<book, minute>>
        /\ trades' \subseteq trades \cup {t}
    BY <1>3 DEF PersistTrade, Upsert
  <2>2. minute # None
    BY <1>0, <2>1 DEF MemoryInv, InMinute, AfterPrice
  <2>3. t.exit < Due(t)
    <3>1. t.exit = minute /\ t.entry = p.entry
      OBVIOUS
    <3>2. Due(t) = Due(p)
      BY <3>1 DEF Due
    <3> QED
      BY <2>2, <3>1, <3>2 DEF HoldInv
  <2> HIDE DEF t
  <2> QED
    BY <2>1, <2>3 DEF HoldInv, AfterPrice, Due, Bar
<1>4. CASE RemoveOpen(TRUE)
  <2>1. /\ pc = "remove" /\ pc' \in {"save", "judge"} /\ UNCHANGED <<book, closing, trades, minute>>
    BY <1>0, <1>4 DEF RemoveOpen, Attempt, FaultlessInv, NoFailure
  <2>2. book = {}
    BY <1>0, <2>1 DEF BookInv
  <2> QED
    BY <2>1, <2>2 DEF HoldInv, AfterPrice, Due, Bar
<1>5. CASE SaveState(TRUE)
  <2>1. /\ pc = "save" /\ pc' = "idle" /\ cursor' = minute /\ minute' = None
        /\ UNCHANGED <<book, closing, trades>>
    BY <1>5 DEF SaveState
  <2>2. minute # None
    BY <1>0, <2>1 DEF MemoryInv, InMinute, AfterPrice
  <2> QED
    BY <2>1, <2>2 DEF HoldInv, AfterPrice, Due, Bar
<1>6. CASE BeginMinute
  <2>1. /\ pc = "idle" /\ pc' = "feed" /\ minute' = NextMinute
        /\ UNCHANGED <<book, closing, trades, cursor>>
    BY <1>6 DEF BeginMinute, BeginFeed
  <2>2. closing = {}
    BY <1>0, <2>1 DEF BookInv
  <2>3. \A p \in book : NextMinute < Due(p)
    BY <2>1 DEF HoldInv, NextMinute, AfterPrice
  <2> QED
    BY <2>1, <2>2, <2>3 DEF HoldInv, AfterPrice, Due, Bar
<1>7. CASE Idles
  BY <1>7 DEF Idles, HoldInv, Due, Bar
<1>8. CASE UNCHANGED vars
  BY <1>8 DEF vars, HoldInv, Due, Bar
<1> QED
  BY <1>1, <1>2, <1>3, <1>4, <1>5, <1>6, <1>7, <1>8, <1>settle, MostStepsIdle

(* In a life with no crash and no failing write, every step keeps it all.   *)
LEMMA LifeInvStep ==
  ASSUME MaxCrashes = 0, MaxFailures = 0
  PROVE  /\ Init => LifeInv
         /\ LifeInv /\ [Next]_vars => LifeInv'
<1>1. Init => LifeInv
  BY OrdersInvStep, MoneyInvStep DEF Init, OneLife, LifeInv
<1>2. LifeInv /\ [Next]_vars => LifeInv'
  BY OrdersInvStep, MoneyInvStep, LifeStep DEF LifeInv, MoneyInv
<1> QED
  BY <1>1, <1>2

(* In one life in which no write raises, a fill is in the ledger at most    *)
(* once, whatever is entered, stopped and entered again.                    *)
THEOREM NoFillIsBookedTwice ==
  ASSUME MaxCrashes = 0, MaxFailures = 0
  PROVE  Spec => []OneTradePerFill
<1>1. Init => TradeInv
  BY DEF Init, TradeInv
<1>2. LifeInv /\ TradeInv /\ [Next]_vars => (LifeInv /\ TradeInv)'
  BY LifeInvStep, TradeStep
<1>3. TradeInv => OneTradePerFill
  BY DEF TradeInv, OneTradePerFill
<1> QED
  BY <1>1, <1>2, <1>3, LifeInvStep, PTL DEF Spec

(* In one life in which no write raises, and with a holding period of a bar *)
(* at least, no position is held into the minute of its time exit, and the  *)
(* ledger books no later exit.                                              *)
THEOREM HoldEndsInTime ==
  ASSUME MaxCrashes = 0, MaxFailures = 0, HoldBars # 0
  PROVE  Spec => []HoldIsBounded
<1>1. Init => HoldInv
  BY DEF Init, HoldInv
<1>2. LifeInv /\ HoldInv /\ [Next]_vars => (LifeInv /\ HoldInv)'
  BY LifeInvStep, HoldStep
<1>3. LifeInv /\ HoldInv => HoldIsBounded
  BY DEF LifeInv, MoneyInv, BookInv, HoldInv, HoldIsBounded, AfterPrice, Due
<1> QED
  BY <1>1, <1>2, <1>3, LifeInvStep, PTL DEF Spec

(* The wallet is ahead of the ledger by the trade that is being booked.     *)
WalletInv == equity = Cardinality(trades) + (IF pc = "persist" THEN 1 ELSE 0)

(* In one life, a trade that replaces no other makes the ledger longer by   *)
(* one.                                                                     *)
LEMMA WalletStep ==
  ASSUME MaxCrashes = 0, MaxFailures = 0, LifeInv, TradeInv, WalletInv, [Next]_vars,
         [\A t \in trades : \E u \in trades' : u.row = t.row]_vars
  PROVE  WalletInv'
<1> USE DEF durable, loops, wallet
<1>0. /\ FaultlessInv /\ IsFiniteSet(trades) /\ equity \in Nat
  BY DEF LifeInv, MoneyInv, FaultlessInv, TypeInv, TypeOK
<1>1. Cardinality(trades) \in Nat
  BY <1>0, FS_CardinalityType
<1>settle. ASSUME pc = "handle", Settle, UNCHANGED trades PROVE WalletInv'
  BY <1>1, <1>settle DEF Settle, WalletInv
<1>2. CASE CheckExits
  <2>1. pc = "handle" /\ UNCHANGED trades /\ (Settle \/ (pc' = "save" /\ UNCHANGED equity))
    BY <1>2 DEF CheckExits
  <2> QED
    BY <1>settle, <2>1 DEF WalletInv
<1>3. ASSUME NEW p \in closing, PersistTrade(p, TRUE) PROVE WalletInv'
  <2> DEFINE t == [row |-> p.row, entry |-> p.entry, exit |-> minute]
             K == {u \in trades : <<u.entry, u.exit>> # <<t.entry, t.exit>>}
  <2>1. /\ pc = "persist" /\ pc' = "remove" /\ UNCHANGED equity /\ trades' = K \cup {t}
    BY <1>3 DEF PersistTrade, Upsert
  <2>2. \A u \in trades : u.row # t.row
    <3>1. t.row = p.row
      OBVIOUS
    <3> QED
      BY <3>1 DEF TradeInv
  <2>3. K = trades
    <3>1. \A u \in trades : \E v \in trades' : v.row = u.row
      BY <2>1 DEF vars
    <3>2. \A u \in trades : \E v \in K : v.row = u.row
      BY <2>1, <2>2, <3>1
    <3> QED
      BY <3>2 DEF TradeInv
  <2>4. t \notin trades
    BY <2>2
  <2> HIDE DEF t, K
  <2>5. Cardinality(trades') = Cardinality(trades) + 1
    BY <1>0, <2>1, <2>3, <2>4, FS_AddElement
  <2> QED
    BY <1>1, <2>1, <2>5 DEF WalletInv
<1>4. ASSUME NEW o \in visit, Judge(o) PROVE WalletInv'
  BY <1>4 DEF Judge, WalletInv
<1>5. CASE RemoveOpen(TRUE) \/ SaveState(TRUE)
  <2>1. pc \in {"remove", "save"} /\ pc' \in {"save", "judge", "idle"} /\ UNCHANGED <<trades, equity>>
    BY <1>0, <1>5 DEF RemoveOpen, SaveState, Attempt, FaultlessInv, NoFailure
  <2> QED
    BY <2>1 DEF WalletInv
<1>6. CASE BeginMinute \/ Idles \/ UNCHANGED vars
  <2>1. UNCHANGED <<trades, equity>> /\ (pc' = "persist" <=> pc = "persist")
    BY <1>6 DEF BeginMinute, BeginFeed, Idles, vars
  <2> QED
    BY <2>1 DEF WalletInv
<1> QED
  BY <1>2, <1>3, <1>4, <1>5, <1>6, <1>settle, MostStepsIdle

(* In one life in which no write raises, the wallet and the ledger part     *)
(* only when a trade replaces another in the ledger: as long as the primary *)
(* key names a trade, the ledger sums up to the wallet between polls.       *)
THEOREM WalletPartsOnlyByTheKey ==
  ASSUME MaxCrashes = 0, MaxFailures = 0
  PROVE  Spec /\ KeyNamesATrade => []WalletIsLedger
<1>1. Init => TradeInv /\ WalletInv
  BY FS_EmptySet DEF Init, TradeInv, WalletInv
<1>2. LifeInv /\ TradeInv /\ WalletInv /\ [Next]_vars
        /\ [\A t \in trades : \E u \in trades' : u.row = t.row]_vars
      => (LifeInv /\ TradeInv /\ WalletInv)'
  BY LifeInvStep, TradeStep, WalletStep
<1>3. LifeInv /\ WalletInv => WalletIsLedger
  <2> SUFFICES ASSUME LifeInv, WalletInv, pc = "idle" PROVE equity = Cardinality(trades)
    BY DEF WalletIsLedger
  <2>1. Cardinality(trades) \in Nat
    BY FS_CardinalityType DEF LifeInv, MoneyInv, FaultlessInv, TypeInv
  <2> QED
    BY <2>1 DEF WalletInv
<1> QED
  BY <1>1, <1>2, <1>3, LifeInvStep, PTL DEF Spec, KeyNamesATrade
=============================================================================
