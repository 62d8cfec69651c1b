--------------------------- MODULE SharedBook_proofs ---------------------------
(***************************************************************************)
(* What is proved of the cells together, for any number of cells, zones,   *)
(* weeks and deaths of the process: entries belong to the list of their    *)
(* week, no cell with a position or an order is dropped, what is open      *)
(* together stays under its cap, a verdict is told of the whole crowd, and *)
(* no minute of a cell is judged twice.                                    *)
(*                                                                         *)
(* PlaceInv says of every cell the first minute a poll may yet judge it    *)
(* on; that sums of what is open can be split is proved in NumberFacts.    *)
(***************************************************************************)
EXTENDS SharedBook, NumberFacts

------------------------------------------------------------------------------
(* What the two invariants need of the other variables: the cells of a poll *)
(* are watched, a minute is judged for one of them, weeks are numbered.     *)
Shape ==
  /\ now \in Nat /\ at \in Nat
  /\ DOMAIN lists \subseteq Nat /\ \A w \in DOMAIN lists : lists[w] \subseteq Cells
  /\ watched \subseteq Cells /\ next \in [Cells -> {Never} \cup Nat]
  /\ DOMAIN held = Cells /\ DOMAIN pending = Cells
  /\ todo \subseteq watched /\ (pc = "down" => todo = {})
  /\ pc \notin {"down", "idle", "cells"} => todo # {}

BookInv == Shape /\ OpenCellsAreWatched /\ EntriesAreListed

(* Weeks, and the first minutes of bars, are naturals.                      *)
LEMMA WeekOfMinute == \A m \in Nat : Week(m) \in Nat /\ Bar(m) * BarMinutes \in Nat
  BY BookAssumption DEF Week, Bar

(* The gate passes only cells of the list of the week itself.               *)
LEMMA GateIsOfTheWeek ==
  ASSUME Shape, NEW c \in Cells, NEW m \in Nat, RotationGate(c, m)
  PROVE  Week(m) \in DOMAIN lists /\ c \in lists[Week(m)]
<1> DEFINE saved == {w \in DOMAIN lists : w <= Week(m)}
<1>1. Week(m) \in Nat /\ Week(m) # Never
  BY WeekOfMinute DEF Never
<1>2. ListAt(m) = IF saved = {} THEN [week |-> Never, members |-> {}]
                  ELSE [week |-> Max(saved), members |-> lists[Max(saved)]]
  BY DEF ListAt
<1>3. ListAt(m).week = Week(m) /\ c \in ListAt(m).members
  BY DEF RotationGate
<1>4. saved # {}
  BY <1>1, <1>2, <1>3
<1>5. saved \in SUBSET (0..Week(m))
  BY <1>1 DEF Shape
<1>6. Max(saved) \in saved
  BY <1>1, <1>4, <1>5, MaxIsGreatest
<1> QED
  BY <1>2, <1>3, <1>4, <1>6

(* The cell a poll is at is one it has yet to finish.                       *)
LEMMA CellIsWatched ==
  ASSUME Shape, todo # {}
  PROVE  Cell \in todo /\ Cell \in watched /\ Cell \in Cells
<1>1. Cells \subseteq Nat /\ todo \subseteq Cells
  BY BookAssumption DEF Shape, Cells
<1> QED
  BY <1>1, MinIsLeast DEF Cell, Shape

(* What desired_series asks for are cells, and the open ones are among them.*)
LEMMA DesiredHoldsTheOpen ==
  ASSUME Shape, NEW orders
  PROVE  /\ Desired(orders) \subseteq Cells
         /\ \A c \in Cells : held[c] # Flat \/ orders[c] # NoZone => c \in Desired(orders)
<1>1. ListAt(now).members \subseteq Cells
  <2> DEFINE saved == {w \in DOMAIN lists : w <= Week(now)}
  <2>1. CASE saved = {}
    BY <2>1 DEF ListAt
  <2>2. CASE saved # {}
    <3>1. Week(now) \in Nat
      BY WeekOfMinute DEF Shape
    <3>2. saved \in SUBSET (0..Week(now))
      BY <3>1 DEF Shape
    <3>3. Max(saved) \in saved
      BY <2>2, <3>1, <3>2, MaxIsGreatest
    <3>4. ListAt(now).members = lists[Max(saved)]
      BY <2>2 DEF ListAt
    <3> QED
      BY <3>3, <3>4 DEF Shape
  <2> QED
    BY <2>1, <2>2
<1> QED
  BY <1>1 DEF Desired, Holders

(* Nothing is watched, open or judged at the first start.                   *)
LEMMA InitBook == Init => BookInv
  BY BookAssumption DEF Init, BookInv, Shape, OpenCellsAreWatched, EntriesAreListed, Cells

(* Steps that touch neither the lists, the series nor the poll's place, and *)
(* neither open anything nor judge.                                         *)
LEMMA QuietStep ==
  ASSUME BookInv, now' \in Nat, at' \in Nat, UNCHANGED <<lists, watched, verdicts, signals>>,
         next' \in [Cells -> {Never} \cup Nat], todo' \subseteq todo,
         DOMAIN held' = Cells, DOMAIN pending' = Cells,
         \A c \in Cells : /\ held'[c] # Flat => held[c] # Flat
                          /\ pending'[c] # NoZone => pending[c] # NoZone,
         (pc # "down" /\ pc' # "down") \/ pc' = pc,
         pc' \notin {"down", "idle", "cells"} => todo' # {}
  PROVE  BookInv'
<1>1. Shape'
  BY DEF BookInv, Shape
<1>2. OpenCellsAreWatched'
  BY DEF BookInv, OpenCellsAreWatched
<1>3. EntriesAreListed'
  BY WeekOfMinute DEF BookInv, EntriesAreListed, Week
<1> QED
  BY <1>1, <1>2, <1>3 DEF BookInv

(* Every step keeps the invariant, one case for each action.                *)
LEMMA BookStep == BookInv /\ [Next]_vars => BookInv'
<1> SUFFICES ASSUME BookInv, [Next]_vars PROVE BookInv'
  OBVIOUS
<1> USE DEF market, series, money, record, visit, poll
<1>shape. Shape /\ OpenCellsAreWatched /\ EntriesAreListed
  BY DEF BookInv
<1>cell. todo # {} => Cell \in todo /\ Cell \in watched /\ Cell \in Cells
  BY <1>shape, CellIsWatched
<1>1. CASE UNCHANGED vars
  BY <1>1, <1>shape, QuietStep DEF vars, Shape
<1>2. CASE Tick
  BY <1>2, <1>shape DEF Tick, Shape, OpenCellsAreWatched, EntriesAreListed, BookInv, Week
<1>3. ASSUME NEW members \in SUBSET Cells, SaveList(members) PROVE BookInv'
  <2>1. Week(now) \in Nat
    BY <1>shape, WeekOfMinute DEF Shape
  <2>2. Shape' /\ OpenCellsAreWatched'
    BY <1>3, <1>shape, <2>1 DEF SaveList, Shape, OpenCellsAreWatched
  <2>3. \A w \in DOMAIN lists : w \in DOMAIN lists' /\ lists'[w] = lists[w]
    BY <1>3 DEF SaveList
  <2>4. EntriesAreListed'
    BY <1>3, <1>shape, <2>3 DEF SaveList, EntriesAreListed, Week
  <2> QED
    BY <2>2, <2>4 DEF BookInv
<1>4. CASE Boot
  <2> DEFINE live   == {c \in Cells : next[c] # Never /\ now - next[c] < CatchupMax}
             orders == [c \in Cells |->
                          IF c \in live /\ kept[c] = pending[c] THEN pending[c] ELSE NoZone]
  <2>1. /\ pending' = orders /\ watched' = Desired(orders) /\ pc' = "idle"
        /\ next' = [c \in Cells |-> IF c \in Desired(orders)
                      THEN [d \in Cells |-> IF d \in live THEN next[d] ELSE Never][c] ELSE Never]
        /\ UNCHANGED <<now, lists, held, signals, verdicts, todo, at, reach>>
    BY <1>4 DEF Boot, SyncSeries
  <2>2. DOMAIN pending' = Cells /\ next' \in [Cells -> {Never} \cup Nat]
    BY <2>1, <1>shape DEF Shape
  <2> HIDE DEF orders, live
  <2>3. /\ watched' \subseteq Cells
        /\ \A c \in Cells : held'[c] # Flat \/ pending'[c] # NoZone => c \in watched'
    BY <2>1, <1>shape, DesiredHoldsTheOpen
  <2>4. todo = {}
    BY <1>4, <1>shape DEF Boot, Shape
  <2> QED
    BY <2>1, <2>2, <2>3, <2>4, <1>shape DEF Shape, OpenCellsAreWatched, EntriesAreListed, BookInv, Week
<1>5. CASE Crash
  BY <1>5, <1>shape DEF Crash, Shape, OpenCellsAreWatched, EntriesAreListed, BookInv, Week
<1>6. CASE BeginPoll
  <2>1. /\ watched' = Desired(pending) /\ todo' = Desired(pending) /\ pc' = "cells"
        /\ next' = [c \in Cells |-> IF c \in Desired(pending) THEN next[c] ELSE Never]
        /\ UNCHANGED <<now, lists, held, pending, signals, verdicts, at, reach>>
    BY <1>6 DEF BeginPoll, SyncSeries
  <2>2. /\ watched' \subseteq Cells
        /\ \A c \in Cells : held'[c] # Flat \/ pending'[c] # NoZone => c \in watched'
    BY <2>1, <1>shape, DesiredHoldsTheOpen
  <2> QED
    BY <2>1, <2>2, <1>shape DEF Shape, OpenCellsAreWatched, EntriesAreListed, BookInv, Week
<1>7. CASE BeginCell
  <2>1. FirstMinute(Cell) \in Nat
    BY <1>7, <1>shape, <1>cell, WeekOfMinute DEF BeginCell, FirstMinute, Shape
  <2> QED
    BY <1>7, <2>1, <1>shape, QuietStep DEF BeginCell, Shape
<1>8. CASE EndCell
  BY <1>8, <1>shape, QuietStep DEF EndCell, Shape
<1>9. CASE QuietMinute
  BY <1>9, <1>shape, QuietStep DEF QuietMinute, InMinute, Shape
<1>10. CASE EndOrder
  BY <1>10, <1>shape, <1>cell, QuietStep DEF EndOrder, InMinute, Shape
<1>11. ASSUME NEW z \in Zones, PlaceOrder(z) PROVE BookInv'
  BY <1>11, <1>shape, <1>cell
     DEF PlaceOrder, InMinute, Shape, OpenCellsAreWatched, EntriesAreListed, BookInv, Week
<1>12. CASE FillOrder
  BY <1>12, <1>shape, <1>cell, QuietStep DEF FillOrder, InMinute, Shape
<1>13. ASSUME NEW passes \in BOOLEAN, RecordSignal(passes) PROVE BookInv'
  <2>1. Shape' /\ OpenCellsAreWatched'
    BY <1>13, <1>shape DEF RecordSignal, Shape, OpenCellsAreWatched
  <2>2. todo # {} /\ at \in Nat
    BY <1>13, <1>shape DEF RecordSignal, Shape
  <2>3. CASE RotationGate(Cell, at) /\ passes
    <3>1. Week(at) \in DOMAIN lists /\ Cell \in lists[Week(at)]
      BY <2>2, <2>3, <1>shape, <1>cell, GateIsOfTheWeek
    <3>2. /\ signals' = signals \cup {[cell |-> Cell, zone |-> zone, time |-> at]}
          /\ UNCHANGED <<lists, verdicts>>
      BY <1>13, <2>3 DEF RecordSignal
    <3> QED
      BY <2>1, <3>1, <3>2, <1>shape DEF EntriesAreListed, BookInv, Week
  <2>4. CASE ~(RotationGate(Cell, at) /\ passes)
    BY <1>13, <2>1, <2>4, <1>shape DEF RecordSignal, EntriesAreListed, BookInv, Week
  <2> QED
    BY <2>3, <2>4
<1>14. ASSUME NEW result \in Results, StopFirst(result) PROVE BookInv'
  BY <1>14, <1>shape, <1>cell, QuietStep DEF StopFirst, Exit, Shape
<1>15. ASSUME NEW accepted \in BOOLEAN, NEW falling \in BOOLEAN, NEW want \in Wants,
              JudgeFill(accepted, falling, want)
       PROVE  BookInv'
  <2>1. /\ todo # {} /\ at \in Nat /\ pc # "down" /\ pc' = "exits"
        /\ UNCHANGED <<now, lists, watched, next, pending, signals, todo, at>>
    BY <1>15, <1>shape DEF JudgeFill, Shape
  <2>2. CASE RotationGate(Cell, at) /\ accepted
    <3>1. Week(at) \in DOMAIN lists /\ Cell \in lists[Week(at)]
      BY <2>1, <2>2, <1>shape, <1>cell, GateIsOfTheWeek
    <3>2. /\ verdicts' = verdicts \cup
               {[cell |-> Cell, zone |-> zone, time |-> at,
                 count |-> CrowdCount(Cell, zone, at), behind |-> BehindOf(at)]}
          /\ held' = IF CrowdAdmits(CrowdCount(Cell, zone, at), falling)
                        /\ held[Cell] = Flat /\ Size(want) > 0
                     THEN [held EXCEPT ![Cell] = [entry |-> at, notional |-> Size(want)]]
                     ELSE held
      BY <1>15, <2>2 DEF JudgeFill
    <3>3. DOMAIN held' = Cells /\ \A c \in Cells \ {Cell} : held'[c] = held[c]
      BY <3>2, <1>shape DEF Shape
    <3>4. Shape'
      BY <2>1, <3>3, <1>shape DEF Shape
    <3>5. OpenCellsAreWatched'
      BY <2>1, <3>3, <1>shape, <1>cell DEF OpenCellsAreWatched
    <3>6. EntriesAreListed'
      BY <2>1, <3>1, <3>2, <1>shape DEF EntriesAreListed, Week
    <3> QED
      BY <3>4, <3>5, <3>6 DEF BookInv
  <2>3. CASE ~(RotationGate(Cell, at) /\ accepted)
    <3>1. UNCHANGED <<verdicts, held>>
      BY <1>15, <2>3 DEF JudgeFill
    <3> QED
      BY <2>1, <3>1, <1>shape, QuietStep DEF Shape
  <2> QED
    BY <2>2, <2>3
<1>16. ASSUME NEW stopped \in BOOLEAN, NEW result \in Results, EndMinute(stopped, result)
       PROVE  BookInv'
  <2>1. /\ at' = at + 1 /\ next' = [next EXCEPT ![Cell] = at + 1]
        /\ pc = "exits" /\ pc' = "minutes"
        /\ held' = held \/ held' = [held EXCEPT ![Cell] = Flat]
        /\ UNCHANGED <<now, lists, watched, pending, signals, verdicts, todo>>
    BY <1>16 DEF EndMinute, Exit
  <2> QED
    BY <2>1, <1>shape, <1>cell, QuietStep DEF Shape
<1>17. ASSUME NEW overdue \in SUBSET {c \in Cells : pending[c] # NoZone}, EndPoll(overdue)
       PROVE  BookInv'
  BY <1>17, <1>shape, QuietStep DEF EndPoll, Shape
<1> QED
  BY <1>1, <1>2, <1>3, <1>4, <1>5, <1>6, <1>7, <1>8, <1>9, <1>10, <1>11, <1>12, <1>13, <1>14,
     <1>15, <1>16, <1>17 DEF Next, World, Poll, Minute, Fill

(* The invariant of the cells together (poll_once, sync_series, restarts).  *)
THEOREM BookInvariant == Spec => []BookInv
  BY InitBook, BookStep, PTL DEF Spec

(* Whatever was replayed how late, and however often the process died, an   *)
(* entry and a counted signal belong to the list of the week of their fill  *)
(* (rotation_decision).                                                     *)
THEOREM EntriesStayListed == Spec => []EntriesAreListed
  BY BookInvariant, PTL DEF BookInv

(* A cell with a position or an order is watched, across rotations and      *)
(* restarts (desired_series).                                               *)
THEOREM OpenCellsStayWatched == Spec => []OpenCellsAreWatched
  BY BookInvariant, PTL DEF BookInv
------------------------------------------------------------------------------
(* The types, and what they need of the poll: while a minute is judged it   *)
(* has closed, and a fill is of a zone.                                     *)
Busy == {"filled", "signalled", "judging", "exits"}

TypeInv ==
  /\ TypeOK
  /\ BookInv
  /\ IsFiniteSet(signals)
  /\ DOMAIN lists \subseteq 0..Week(now)
  /\ pc \in Busy => at < reach
  /\ pc \in Busy \ {"exits"} => zone \in Zones

(* A minute is in the bar and the week that have begun last.                *)
LEMMA UnitsOfMinute ==
  ASSUME NEW m \in Nat
  PROVE  /\ Bar(m) \in Nat /\ Bar(m) * BarMinutes \in Nat
         /\ Bar(m) * BarMinutes <= m /\ m < Bar(m) * BarMinutes + BarMinutes
         /\ Week(m) \in Nat /\ Week(m) * WeekMinutes \in Nat
         /\ Week(m) * WeekMinutes <= m /\ m < Week(m) * WeekMinutes + WeekMinutes
         /\ \A k \in Int : k <= Week(m) <=> k * WeekMinutes <= m
  BY UnitHasBegun, BookAssumption DEF Bar, Week

(* A later minute is not in an earlier week.                                *)
LEMMA WeekIsMonotone ==
  ASSUME NEW m \in Nat, NEW n \in Nat, m <= n
  PROVE  Week(m) <= Week(n)
  BY UnitsOfMinute, BookAssumption

(* What the cells hold together is the sum of a function on the cells.      *)
Notional == [c \in Cells |-> held[c].notional]

NotionalAddsUp == \E f : AddsUp(f, Notional, Cells) /\ OpenNotional = f[Cells]

(* The library's sum is such a function.                                    *)
LEMMA OpenNotionalAddsUp == held \in [Cells -> Position] => NotionalAddsUp
<1> SUFFICES ASSUME held \in [Cells -> Position] PROVE NotionalAddsUp
  OBVIOUS
<1>1. Notional \in [Cells -> Int]
  BY DEF Notional, Position, Flat
<1>2. IsFiniteSet(Cells)
  BY FS_Interval, BookAssumption DEF Cells
<1> DEFINE some(s) == CHOOSE x \in s : TRUE
           Book(f) == f = [s \in SUBSET Cells |->
                             IF s = {} THEN 0 ELSE held[some(s)].notional + f[s \ {some(s)}]]
<1>3. OpenNotional = (CHOOSE f : Book(f))[Cells]
  BY Zenon DEF OpenNotional, MapThenSumSet, MapThenFoldSet
<1>4. \A f : Book(f) <=> AddsUp(f, Notional, Cells)
  <2>1. \A s \in SUBSET Cells : s # {} => Notional[some(s)] = held[some(s)].notional
    BY DEF Notional
  <2> HIDE DEF some
  <2>2. \A f : [s \in SUBSET Cells |->
                  IF s = {} THEN 0 ELSE held[some(s)].notional + f[s \ {some(s)}]]
             = [s \in SUBSET Cells |->
                  IF s = {} THEN 0 ELSE Notional[some(s)] + f[s \ {some(s)}]]
    BY <2>1
  <2>3. \A f : Book(f) <=> f = [s \in SUBSET Cells |->
                  IF s = {} THEN 0 ELSE Notional[some(s)] + f[s \ {some(s)}]]
    BY <2>2
  <2> QED
    BY <2>3, Zenon DEF AddsUp, some
<1> HIDE DEF Book
<1>5. \E f : Book(f)
  <2>1. PICK f : AddsUp(f, Notional, Cells)
    BY <1>1, <1>2, SumExists
  <2> QED
    BY <1>4, <2>1
<1>6. Book(CHOOSE f : Book(f))
  BY <1>5, Zenon
<1> QED
  BY <1>3, <1>4, <1>6 DEF NotionalAddsUp

(* It is a natural, and changes with one cell by what that cell changes.    *)
LEMMA OpenNotionalMoves ==
  ASSUME held \in [Cells -> Position], held' \in [Cells -> Position],
         NEW c \in Cells, \A d \in Cells \ {c} : held'[d] = held[d]
  PROVE  /\ OpenNotional \in Nat /\ OpenNotional' \in Nat
         /\ OpenNotional' = OpenNotional - held[c].notional + held'[c].notional
<1>1. IsFiniteSet(Cells)
  BY FS_Interval, BookAssumption DEF Cells
<1>2. PICK f : AddsUp(f, Notional, Cells) /\ OpenNotional = f[Cells]
  BY OpenNotionalAddsUp DEF NotionalAddsUp
<1>3. /\ Notional \in [Cells -> Nat] /\ Notional' \in [Cells -> Nat]
      /\ Notional \in [Cells -> Int] /\ Notional' \in [Cells -> Int]
  BY DEF Notional, Position, Flat
<1>4. PICK g : AddsUp(g, Notional', Cells) /\ OpenNotional' = g[Cells]
  <2>1. (held \in [Cells -> Position] => NotionalAddsUp)'
    BY OpenNotionalAddsUp, PTL
  <2> QED
    BY <2>1 DEF NotionalAddsUp, AddsUp
<1>5. f \in [SUBSET Cells -> Nat] /\ g \in [SUBSET Cells -> Nat]
  BY <1>1, <1>2, <1>3, <1>4, SumType
<1>6. \A d \in Cells \ {c} : Notional[d] = Notional'[d]
  BY DEF Notional
<1>7. g[Cells] = f[Cells] - Notional[c] + Notional'[c]
  BY <1>1, <1>2, <1>3, <1>4, <1>6, SumMoves
<1>8. Notional[c] = held[c].notional /\ Notional'[c] = held'[c].notional
  BY DEF Notional
<1> QED
  BY <1>2, <1>4, <1>5, <1>7, <1>8

(* It is a natural.                                                         *)
LEMMA OpenNotionalType ==
  ASSUME held \in [Cells -> Position]
  PROVE  OpenNotional \in Nat
<1>1. IsFiniteSet(Cells)
  BY FS_Interval, BookAssumption DEF Cells
<1>2. PICK f : AddsUp(f, Notional, Cells) /\ OpenNotional = f[Cells]
  BY OpenNotionalAddsUp DEF NotionalAddsUp
<1>3. Notional \in [Cells -> Nat]
  BY DEF Notional, Position, Flat
<1>4. f \in [SUBSET Cells -> Nat]
  BY <1>1, <1>2, <1>3, SumType
<1> QED
  BY <1>2, <1>4

(* The list of a minute is the last that is saved for a week up to it.      *)
LEMMA ListAtIsTheLast ==
  ASSUME Shape, NEW m \in Nat
  PROVE  /\ ListAt(m).members \subseteq Cells
         /\ ListAt(m).week \in DOMAIN lists =>
              ListAt(m).week <= Week(m) /\ ListAt(m).members = lists[ListAt(m).week]
         /\ ListAt(m).week \notin DOMAIN lists =>
              ListAt(m).week = Never /\ ListAt(m).members = {}
         /\ \A w \in DOMAIN lists : w <= Week(m) => w <= ListAt(m).week /\ ListAt(m).week \in DOMAIN lists
<1> DEFINE saved == {w \in DOMAIN lists : w <= Week(m)}
<1>1. Week(m) \in Nat /\ saved \in SUBSET (0..Week(m)) /\ Never \notin DOMAIN lists
  BY UnitsOfMinute DEF Shape, Never
<1>2. CASE saved = {}
  BY <1>1, <1>2 DEF ListAt
<1>3. CASE saved # {}
  <2>1. Max(saved) \in saved /\ \A w \in saved : w <= Max(saved)
    BY <1>1, <1>3, MaxIsGreatest
  <2>2. ListAt(m) = [week |-> Max(saved), members |-> lists[Max(saved)]]
    BY <1>3 DEF ListAt
  <2> QED
    BY <2>1, <2>2 DEF Shape
<1> QED
  BY <1>2, <1>3

(* The same of the clock, as a fact about a state.                          *)
ListIsLast ==
  /\ ListAt(now).members \subseteq Cells
  /\ ListAt(now).week \in DOMAIN lists => ListAt(now).members = lists[ListAt(now).week]
  /\ \A w \in DOMAIN lists : w <= Week(now) =>
       w <= ListAt(now).week /\ ListAt(now).week \in DOMAIN lists /\ ListAt(now).week <= Week(now)

(* It holds whenever the lists and the clock have their types.              *)
LEMMA LastListOfClock == Shape /\ now \in Nat => ListIsLast
  BY ListAtIsTheLast DEF ListIsLast

(* A trade that is sized fits under the cap with what is open.              *)
LEMMA SizeFits ==
  ASSUME OpenNotional \in Nat, wallet \in Int, NEW want \in Nat
  PROVE  /\ Size(want) \in Nat
         /\ Size(want) > 0 => OpenNotional + Size(want) <= BookCap * wallet
<1> DEFINE trade == TradeCap * wallet
           cap   == BookCap * wallet
           room  == Min({trade, cap - OpenNotional})
<1>1. trade \in Int /\ cap \in Int /\ (wallet > 0 => trade >= 0)
  BY BookAssumption
<1>2. SyntheticOpen = trade - room
  BY DEF SyntheticOpen
<1>3. Size(want) = IF wallet <= 0 \/ OpenNotional >= cap THEN 0 ELSE Min({want, trade - (trade - room)})
  BY <1>2 DEF Size
<1> HIDE DEF trade, cap
<1>4. room = IF trade <= cap - OpenNotional THEN trade ELSE cap - OpenNotional
  BY <1>1, MinOfTwo
<1>5. room \in Int /\ room <= cap - OpenNotional /\ (wallet > 0 /\ OpenNotional < cap => room >= 0)
  BY <1>1, <1>4
<1> HIDE DEF room
<1>6. trade - (trade - room) = room
  BY <1>1, <1>5
<1>7. Min({want, room}) = IF want <= room THEN want ELSE room
  BY <1>5, MinOfTwo
<1> QED
  BY <1>1, <1>3, <1>5, <1>6, <1>7 DEF cap

(* The first minute of a cell is not after the clock.                       *)
LEMMA FirstMinuteType ==
  ASSUME now \in Nat, next \in [Cells -> {Never} \cup 0..now], NEW c \in Cells
  PROVE  FirstMinute(c) \in 0..now
  BY UnitsOfMinute DEF FirstMinute, Never

(* A fresh start has every type.                                            *)
LEMMA InitType == Init => TypeInv
<1> SUFFICES ASSUME Init PROVE TypeInv
  OBVIOUS
<1>1. TypeOK
  BY BookAssumption DEF Init, TypeOK, Minutes, Never, NoZone, Position, Flat
<1>2. BookInv
  BY InitBook
<1>3. IsFiniteSet(signals)
  BY FS_EmptySet DEF Init
<1> QED
  BY <1>1, <1>2, <1>3 DEF Init, TypeInv, Busy

(* A step that changes neither the market nor the money nor what is         *)
(* recorded, and moves the poll within its bounds.                          *)
LEMMA TypeKept ==
  ASSUME TypeInv, [Next]_vars, UNCHANGED <<now, lists, held, wallet, signals, verdicts, crashes>>,
         watched' \subseteq Cells, next' \in [Cells -> {Never} \cup 0..now],
         kept' \in [Cells -> {NoZone} \cup Zones], pending' \in [Cells -> {NoZone} \cup Zones],
         pc' \in {"down", "idle", "cells", "minutes", "filled", "signalled", "judging", "exits"},
         todo' \subseteq Cells, at' \in 0..now, reach' \in 0..now,
         pc' \notin {"down", "idle", "cells"} => todo' # {},
         zone' \in {NoZone} \cup Zones,
         pc' \in Busy => at' < reach',
         pc' \in Busy \ {"exits"} => zone' \in Zones
  PROVE  TypeInv'
<1>1. TypeOK'
  BY DEF TypeInv, TypeOK, Weeks
<1>2. BookInv'
  BY BookStep DEF TypeInv
<1> QED
  BY <1>1, <1>2 DEF TypeInv, Week

(* Every step keeps the types, one case for each action.                    *)
LEMMA TypeStep == TypeInv /\ [Next]_vars => TypeInv'
<1> SUFFICES ASSUME TypeInv, [Next]_vars PROVE TypeInv'
  OBVIOUS
<1> USE DEF market, series, money, record, visit, poll
<1>type. /\ TypeOK /\ BookInv /\ Shape /\ IsFiniteSet(signals) /\ DOMAIN lists \subseteq 0..Week(now)
         /\ now \in Nat /\ BookInv'
  BY BookStep DEF TypeInv, BookInv, Shape
<1>cell. todo # {} => Cell \in todo /\ Cell \in Cells
  BY <1>type, CellIsWatched
<1>1. CASE UNCHANGED vars
  BY <1>1, <1>type, TypeKept DEF vars, TypeInv, TypeOK
<1>2. CASE Tick
  <2>1. /\ now' = now + 1 /\ now < LastMinute
        /\ UNCHANGED <<lists, watched, next, kept, pending, held, wallet, signals, verdicts,
                       pc, todo, at, reach, zone, crashes>>
    BY <1>2 DEF Tick
  <2>2. Week(now) \in Nat /\ Week(now)' \in Nat /\ Week(now) <= Week(now)'
    <3>1. Week(now)' = Week(now + 1)
      BY <2>1 DEF Week
    <3>2. Week(now) \in Nat /\ Week(now + 1) \in Nat /\ Week(now) <= Week(now + 1)
      BY <1>type, UnitsOfMinute, WeekIsMonotone, now + 1 \in Nat, now <= now + 1
    <3> QED
      BY <3>1, <3>2
  <2>3. TypeOK'
    BY <2>1, <1>type, BookAssumption DEF TypeOK, Minutes, Weeks
  <2> QED
    BY <2>1, <2>2, <2>3, <1>type DEF TypeInv
<1>3. ASSUME NEW members \in SUBSET Cells, SaveList(members) PROVE TypeInv'
  <2>1. /\ lists' = [w \in DOMAIN lists \cup {Week(now)} |->
                       IF w = Week(now) THEN members ELSE lists[w]]
        /\ UNCHANGED <<now, watched, next, kept, pending, held, wallet, signals, verdicts,
                       pc, todo, at, reach, zone, crashes>>
    BY <1>3 DEF SaveList
  <2>2. Week(now) \in Nat /\ Week(now) \in Weeks
    <3>1. now <= LastMinute /\ LastMinute \in Nat
      BY <1>type, BookAssumption DEF TypeOK, Minutes
    <3> QED
      BY <3>1, <1>type, UnitsOfMinute, WeekIsMonotone DEF Weeks
  <2>3. TypeOK'
    BY <2>1, <2>2, <1>type DEF TypeOK
  <2> QED
    BY <2>1, <2>2, <2>3, <1>type DEF TypeInv, Week
<1>4. CASE Boot
  <2> DEFINE live   == {c \in Cells : next[c] # Never /\ now - next[c] < CatchupMax}
             orders == [c \in Cells |->
                          IF c \in live /\ kept[c] = pending[c] THEN pending[c] ELSE NoZone]
  <2>1. /\ pending' = orders /\ watched' = Desired(orders) /\ pc' = "idle"
        /\ next' = [c \in Cells |-> IF c \in Desired(orders)
                      THEN [d \in Cells |-> IF d \in live THEN next[d] ELSE Never][c] ELSE Never]
        /\ kept' = [c \in Cells |-> IF c \in Desired(orders)
                      THEN [d \in Cells |-> IF d \in live THEN kept[d] ELSE NoZone][c] ELSE NoZone]
        /\ UNCHANGED <<now, lists, held, wallet, signals, verdicts, todo, at, reach, zone, crashes>>
    BY <1>4 DEF Boot, SyncSeries
  <2>2. /\ pending' \in [Cells -> {NoZone} \cup Zones] /\ kept' \in [Cells -> {NoZone} \cup Zones]
        /\ next' \in [Cells -> {Never} \cup 0..now]
    BY <2>1, <1>type DEF TypeOK
  <2> HIDE DEF orders, live
  <2>3. watched' \subseteq Cells
    BY <2>1, <1>type, DesiredHoldsTheOpen
  <2> QED
    BY <2>1, <2>2, <2>3, <1>type, TypeKept DEF TypeInv, TypeOK, Busy
<1>5. CASE Crash
  <2>1. TypeOK'
    BY <1>5, <1>type, BookAssumption DEF Crash, TypeOK
  <2> QED
    BY <1>5, <2>1, <1>type DEF Crash, TypeInv, Busy, Week
<1>6. CASE BeginPoll
  <2>1. /\ watched' = Desired(pending) /\ todo' = Desired(pending) /\ pc' = "cells"
        /\ next' = [c \in Cells |-> IF c \in Desired(pending) THEN next[c] ELSE Never]
        /\ kept' = [c \in Cells |-> IF c \in Desired(pending) THEN kept[c] ELSE NoZone]
        /\ UNCHANGED <<now, lists, held, wallet, pending, signals, verdicts, at, reach, zone, crashes>>
    BY <1>6 DEF BeginPoll, SyncSeries
  <2>2. /\ kept' \in [Cells -> {NoZone} \cup Zones] /\ next' \in [Cells -> {Never} \cup 0..now]
        /\ watched' \subseteq Cells
    BY <2>1, <1>type, DesiredHoldsTheOpen DEF TypeOK
  <2> QED
    BY <2>1, <2>2, <1>type, TypeKept DEF TypeOK, Busy
<1>7. CASE BeginCell
  <2>1. PICK stored \in FirstMinute(Cell)..now :
          /\ at' = FirstMinute(Cell) /\ reach' = stored /\ pc' = "minutes" /\ todo # {}
          /\ UNCHANGED <<now, lists, watched, next, kept, pending, held, wallet, signals, verdicts,
                         todo, zone, crashes>>
    BY <1>7 DEF BeginCell
  <2>2. FirstMinute(Cell) \in 0..now
    BY <2>1, <1>type, <1>cell, FirstMinuteType DEF TypeOK
  <2>3. stored \in 0..now
    BY <2>1, <2>2
  <2> QED
    BY <2>1, <2>2, <2>3, <1>type, TypeKept DEF TypeOK, Busy
<1>8. CASE EndCell
  BY <1>8, <1>type, TypeKept DEF EndCell, TypeOK, Busy
<1>9. CASE QuietMinute
  BY <1>9, <1>type, TypeKept DEF QuietMinute, InMinute, TypeOK, Busy
<1>10. CASE EndOrder
  BY <1>10, <1>type, TypeKept DEF EndOrder, InMinute, TypeOK, Busy
<1>11. ASSUME NEW z \in Zones, PlaceOrder(z) PROVE TypeInv'
  BY <1>11, <1>type, TypeKept DEF PlaceOrder, InMinute, TypeOK, Busy
<1>12. CASE FillOrder
  <2>1. pending[Cell] \in Zones
    BY <1>12, <1>type, <1>cell DEF FillOrder, InMinute, TypeOK
  <2> QED
    BY <1>12, <2>1, <1>type, TypeKept DEF FillOrder, InMinute, TypeOK, Busy
<1>13. ASSUME NEW passes \in BOOLEAN, RecordSignal(passes) PROVE TypeInv'
  <2>1. /\ pc = "filled" /\ pc' = "signalled" /\ zone \in Zones /\ at < reach
        /\ signals' \in {signals, signals \cup {[cell |-> Cell, zone |-> zone, time |-> at]}}
        /\ UNCHANGED <<now, lists, watched, next, kept, pending, held, wallet, verdicts,
                       todo, at, reach, zone, crashes>>
    BY <1>13 DEF RecordSignal, TypeInv, Busy
  <2>2. at \in Minutes /\ Cell \in Cells
    BY <2>1, <1>type, <1>cell, BookAssumption DEF TypeOK, Minutes
  <2>3. signals' \subseteq Signal
    BY <2>1, <2>2, <1>type DEF TypeOK, Signal
  <2>4. IsFiniteSet(signals')
    BY <2>1, <1>type, FS_AddElement
  <2>5. TypeOK'
    BY <2>1, <2>3, <1>type DEF TypeOK
  <2> QED
    BY <2>1, <2>4, <2>5, <1>type DEF TypeInv, Busy, Week
<1>14. ASSUME NEW result \in Results, StopFirst(result) PROVE TypeInv'
  <2>1. /\ pc = "signalled" /\ pc' = "judging" /\ zone \in Zones /\ at < reach
        /\ held' \in {held, [held EXCEPT ![Cell] = Flat]} /\ wallet' \in {wallet, wallet + result}
        /\ UNCHANGED <<now, lists, watched, next, kept, pending, signals, verdicts,
                       todo, at, reach, zone, crashes>>
    BY <1>14 DEF StopFirst, Exit, TypeInv, Busy
  <2>2. held' \in [Cells -> Position] /\ wallet' \in Int
    BY <2>1, <1>type, BookAssumption DEF TypeOK, Position
  <2>3. TypeOK'
    BY <2>1, <2>2, <1>type DEF TypeOK
  <2> QED
    BY <2>1, <2>3, <1>type DEF TypeInv, Busy, Week
<1>15. ASSUME NEW accepted \in BOOLEAN, NEW falling \in BOOLEAN, NEW want \in Wants,
              JudgeFill(accepted, falling, want)
       PROVE  TypeInv'
  <2>1. /\ pc = "judging" /\ pc' = "exits" /\ zone' = NoZone /\ zone \in Zones /\ at < reach
        /\ UNCHANGED <<now, lists, watched, next, kept, pending, wallet, signals,
                       todo, at, reach, crashes>>
        /\ \/ UNCHANGED <<verdicts, held>>
           \/ /\ verdicts' = verdicts \cup
                    {[cell |-> Cell, zone |-> zone, time |-> at,
                      count |-> CrowdCount(Cell, zone, at), behind |-> BehindOf(at)]}
              /\ held' \in {held, [held EXCEPT ![Cell] = [entry |-> at, notional |-> Size(want)]]}
    BY <1>15 DEF JudgeFill, TypeInv, Busy
  <2>2. at \in Minutes /\ at \in Nat /\ Cell \in Cells
    BY <2>1, <1>type, <1>cell, BookAssumption DEF TypeOK, Minutes
  <2>3. Size(want) \in Nat
    <3>1. OpenNotional \in Nat
      BY <2>2, <1>type, OpenNotionalType DEF TypeOK
    <3> QED
      BY <3>1, <1>type, SizeFits, BookAssumption DEF TypeOK
  <2>4. held' \in [Cells -> Position]
    BY <2>1, <2>2, <2>3, <1>type DEF TypeOK, Position
  <2>5. CrowdCount(Cell, zone, at) \in Nat /\ BehindOf(at) \in SUBSET Cells
    <3>1. CrowdCount(Cell, zone, at) \in Nat
      BY <1>type, FS_Subset, FS_CardinalityType DEF CrowdCount
    <3>2. watched \subseteq Cells /\ ListAt(now).members \subseteq Cells
      BY <1>type, ListAtIsTheLast DEF Shape
    <3> QED
      BY <3>1, <3>2 DEF BehindOf
  <2>6. verdicts' \subseteq Verdict
    BY <2>1, <2>2, <2>5, <1>type DEF TypeOK, Verdict
  <2>7. TypeOK'
    BY <2>1, <2>4, <2>6, <1>type DEF TypeOK
  <2> QED
    BY <2>1, <2>7, <1>type DEF TypeInv, Busy, Week
<1>16. ASSUME NEW stopped \in BOOLEAN, NEW result \in Results, EndMinute(stopped, result)
       PROVE  TypeInv'
  <2>1. /\ pc = "exits" /\ pc' = "minutes" /\ at < reach
        /\ held' \in {held, [held EXCEPT ![Cell] = Flat]} /\ wallet' \in {wallet, wallet + result}
        /\ next' = [next EXCEPT ![Cell] = at + 1] /\ at' = at + 1
        /\ kept' = [kept EXCEPT ![Cell] = pending[Cell]]
        /\ UNCHANGED <<now, lists, watched, pending, signals, verdicts, todo, reach, zone, crashes>>
    BY <1>16 DEF EndMinute, Exit, TypeInv, Busy
  <2>2. held' \in [Cells -> Position] /\ wallet' \in Int
    BY <2>1, <1>type, BookAssumption DEF TypeOK, Position
  <2>3. at + 1 \in 0..now /\ Cell \in Cells
    BY <2>1, <1>type, <1>cell DEF TypeOK
  <2>4. TypeOK'
    BY <2>1, <2>2, <2>3, <1>type DEF TypeOK
  <2> QED
    BY <2>1, <2>4, <1>type DEF TypeInv, Busy, Week
<1>17. ASSUME NEW overdue \in SUBSET {c \in Cells : pending[c] # NoZone}, EndPoll(overdue)
       PROVE  TypeInv'
  BY <1>17, <1>type, TypeKept DEF EndPoll, TypeOK, Busy
<1> QED
  BY <1>1, <1>2, <1>3, <1>4, <1>5, <1>6, <1>7, <1>8, <1>9, <1>10, <1>11, <1>12, <1>13, <1>14,
     <1>15, <1>16, <1>17 DEF Next, World, Poll, Minute, Fill

(* The types of the shared book and of the poll (poll_once, open_positions, *)
(* arm_signals, universe_rotations).                                        *)
THEOREM TypeCorrect == Spec => []TypeOK
<1>1. Spec => []TypeInv
  BY InitType, TypeStep, PTL DEF Spec
<1> QED
  BY <1>1, PTL DEF TypeInv

(* Only the judgement of a fill opens a position.                           *)
LEMMA OnlyJudgementOpens ==
  ASSUME TypeInv, [Next]_vars, NEW c \in Cells, held[c] = Flat, held'[c] # Flat
  PROVE  \E accepted, falling \in BOOLEAN, want \in Wants : JudgeFill(accepted, falling, want)
<1> USE DEF market, series, money, record, visit, poll
<1>1. held \in [Cells -> Position] /\ (todo # {} => Cell \in Cells)
  BY CellIsWatched DEF TypeInv, TypeOK, BookInv
<1>2. ASSUME NEW result, Exit(result) PROVE FALSE
  BY <1>1, <1>2 DEF Exit
<1>3. ASSUME NEW result \in Results, StopFirst(result) PROVE FALSE
  BY <1>2, <1>3 DEF StopFirst
<1>4. ASSUME NEW stopped \in BOOLEAN, NEW result \in Results, EndMinute(stopped, result) PROVE FALSE
  BY <1>2, <1>4 DEF EndMinute
<1>5. held' # held
  OBVIOUS
<1>6. ~ (Tick \/ Boot \/ Crash \/ UNCHANGED vars)
  BY <1>5 DEF Tick, Boot, Crash, vars
<1>7. \A members \in SUBSET Cells : ~ SaveList(members)
  BY <1>5 DEF SaveList
<1>8. ~ (BeginPoll \/ BeginCell \/ EndCell \/ QuietMinute \/ EndOrder \/ FillOrder)
  BY <1>5 DEF BeginPoll, BeginCell, EndCell, QuietMinute, EndOrder, FillOrder
<1>9. /\ \A z \in Zones : ~ PlaceOrder(z)
      /\ \A passes \in BOOLEAN : ~ RecordSignal(passes)
      /\ \A overdue \in SUBSET {d \in Cells : pending[d] # NoZone} : ~ EndPoll(overdue)
  BY <1>5 DEF PlaceOrder, RecordSignal, EndPoll
<1> QED
  BY <1>3, <1>4, <1>6, <1>7, <1>8, <1>9 DEF Next, World, Poll, Minute, Fill

(* An entry keeps what is open below the cap of the book.                   *)
LEMMA EntryIsCapped ==
  ASSUME TypeInv, TypeInv', NEW accepted, NEW falling, NEW want \in Wants,
         JudgeFill(accepted, falling, want), held' # held
  PROVE  OpenNotional' <= BookCap * wallet'
<1>1. /\ held \in [Cells -> Position] /\ held' \in [Cells -> Position] /\ wallet \in Int
      /\ OpenNotional \in Nat /\ want \in Nat
  BY OpenNotionalType, BookAssumption DEF TypeInv, TypeOK
<1>2. /\ held[Cell] = Flat /\ Size(want) > 0 /\ wallet' = wallet /\ pc = "judging"
      /\ held' = [held EXCEPT ![Cell] = [entry |-> at, notional |-> Size(want)]]
  BY DEF JudgeFill, money, visit
<1>3. Cell \in Cells
  BY <1>2, CellIsWatched DEF TypeInv, BookInv, Shape
<1>4. OpenNotional' = OpenNotional - held[Cell].notional + held'[Cell].notional
  BY <1>1, <1>2, <1>3, OpenNotionalMoves
<1>5. held[Cell].notional = 0 /\ held'[Cell].notional = Size(want)
  BY <1>1, <1>2, <1>3 DEF Flat
<1>6. Size(want) \in Nat /\ OpenNotional + Size(want) <= BookCap * wallet
  BY <1>1, <1>2, SizeFits
<1> QED
  BY <1>1, <1>2, <1>4, <1>5, <1>6

(* An entry never lifts what all cells together hold above the cap of the   *)
(* book, whatever opened, closed or was restored before it                  *)
(* (resolve_book_sizing, size_with_reason).                                 *)
THEOREM BookStaysCapped == Spec => NotionalIsCapped
<1>1. TypeInv /\ [Next]_vars
        => [(\E c \in Cells : held[c] = Flat /\ held'[c] # Flat)
              => OpenNotional' <= BookCap * wallet']_vars
  BY TypeStep, OnlyJudgementOpens, EntryIsCapped
<1>2. Spec => []TypeInv
  BY InitType, TypeStep, PTL DEF Spec
<1> QED
  BY <1>1, <1>2, PTL DEF Spec, NotionalIsCapped

------------------------------------------------------------------------------
(* Where a cell goes on, seen from a verdict v: no signal before v's fill   *)
(* is left to come from minutes that are not below Floor.  A cell of v's    *)
(* list must be past the fill; another cell past the beginning of the week, *)
(* for the gate refuses it until the next one.                              *)
Floor(c, v) == IF c \in lists[Week(v.time)] THEN v.time ELSE Week(v.time) * WeekMinutes

(* A cell that is off the list and holds nothing is forgotten by the        *)
(* runner: it can only come back with the list of a later week.             *)
Left(c) ==
  /\ c \notin ListAt(now).members \cup watched
  /\ next[c] = Never /\ held[c] = Flat /\ pending[c] = NoZone

(* A minute of a cell is being replayed.                                    *)
Visiting == pc \in {"minutes"} \cup Busy

(* The verdicts whose past a cell must not go back to: those it made, and   *)
(* those that found no cell behind.                                         *)
Closed(c, v) ==
  /\ Left(c) \/ Floor(c, v) <= FirstMinute(c)
  /\ Visiting /\ c = Cell => Floor(c, v) <= at

PlaceInv ==
  /\ pc # "down" => \A c \in Cells \ watched : next[c] = Never
  /\ Visiting => at <= FirstMinute(Cell)
  /\ \A v \in verdicts, c \in Cells : v.behind = {} \/ c = v.cell => Closed(c, v)

(* What is known of a verdict: its week has a list, which stays as it is.   *)
LEMMA VerdictHasList ==
  ASSUME TypeInv, NEW v \in verdicts
  PROVE  /\ v.time \in Nat /\ v.cell \in Cells /\ Week(v.time) \in Nat
         /\ Week(v.time) \in DOMAIN lists /\ v.cell \in lists[Week(v.time)]
         /\ Week(v.time) <= Week(now)
<1>1. v.time \in Nat /\ v.cell \in Cells
  BY BookAssumption DEF TypeInv, TypeOK, Verdict, Minutes
<1>2. Week(v.time) \in DOMAIN lists /\ v.cell \in lists[Week(v.time)]
  BY DEF TypeInv, BookInv, EntriesAreListed
<1> QED
  BY <1>1, <1>2, UnitsOfMinute DEF TypeInv

(* A cell's floor is in the week of the verdict, and not after its fill.    *)
LEMMA FloorType ==
  ASSUME TypeInv, NEW v \in verdicts, NEW c \in Cells
  PROVE  /\ Floor(c, v) \in Nat /\ Floor(c, v) <= v.time
         /\ Week(v.time) * WeekMinutes <= Floor(c, v)
         /\ v.time < Week(v.time) * WeekMinutes + WeekMinutes
<1>1. v.time \in Nat
  BY VerdictHasList
<1>2. /\ Week(v.time) * WeekMinutes \in Nat /\ Week(v.time) * WeekMinutes <= v.time
      /\ v.time < Week(v.time) * WeekMinutes + WeekMinutes
  BY <1>1, UnitsOfMinute
<1> QED
  BY <1>1, <1>2 DEF Floor

(* A list that is saved is never changed, so no floor moves.                *)
LEMMA FloorIsKept ==
  ASSUME TypeInv, [Next]_vars, NEW v \in verdicts, NEW c \in Cells
  PROVE  Floor(c, v)' = Floor(c, v)
<1> USE DEF market, series, money, record, visit, poll
<1>1. Week(v.time) \in DOMAIN lists
  BY VerdictHasList
<1>2. \A members \in SUBSET Cells : SaveList(members) => lists'[Week(v.time)] = lists[Week(v.time)]
  BY <1>1 DEF SaveList
<1>3. lists' = lists \/ \E members \in SUBSET Cells : SaveList(members)
  BY DEF Next, World, Poll, Minute, Fill, Tick, Boot, Crash, BeginPoll, BeginCell, EndCell,
         QuietMinute, PlaceOrder, EndOrder, FillOrder, RecordSignal, StopFirst, JudgeFill,
         EndMinute, EndPoll, vars
<1> QED
  BY <1>1, <1>2, <1>3 DEF Floor, Week

(* As time passes the list of the clock stays, until one is saved.          *)
LEMMA ListOfClock ==
  ASSUME TypeInv, now' \in {now, now + 1}, lists' = lists
  PROVE  ListAt(now)' = ListAt(now)
<1>1. now \in Nat /\ DOMAIN lists \subseteq Nat /\ DOMAIN lists \subseteq 0..Week(now)
  BY DEF TypeInv, BookInv, Shape
<1>2. Week(now) \in Nat /\ Week(now + 1) \in Nat /\ Week(now) <= Week(now + 1)
  BY <1>1, UnitsOfMinute, WeekIsMonotone, now + 1 \in Nat, now <= now + 1
<1>3. Week(now)' \in {Week(now), Week(now + 1)}
  BY DEF Week
<1>4. \A w \in DOMAIN lists : w \in Nat /\ w <= Week(now) /\ w <= Week(now)'
  BY <1>1, <1>2, <1>3
<1>5. {w \in DOMAIN lists : w <= Week(now)'} = {w \in DOMAIN lists : w <= Week(now)}
  BY <1>4
<1> QED
  BY <1>5 DEF ListAt, Week

(* As time passes a cell does not begin earlier.                            *)
LEMMA FirstMinuteGrows ==
  ASSUME now \in Nat, now' \in {now, now + 1}, next' = next, NEW c \in Cells,
         next[c] \in {Never} \cup Nat
  PROVE  FirstMinute(c) \in Nat /\ FirstMinute(c)' \in Nat /\ FirstMinute(c) <= FirstMinute(c)'
<1>1. CASE next[c] # Never
  BY <1>1 DEF FirstMinute, Never
<1>2. CASE next[c] = Never
  <2>1. /\ FirstMinute(c) = Bar(now) * BarMinutes
        /\ FirstMinute(c)' \in {Bar(now) * BarMinutes, Bar(now + 1) * BarMinutes}
    BY <1>2 DEF FirstMinute, Bar
  <2>2. BarMinutes \in Nat \ {0}
    BY BookAssumption
  <2>3. Bar(now) \in Nat /\ Bar(now + 1) \in Nat /\ Bar(now) <= Bar(now + 1)
    <3>1. /\ Bar(now) \in Nat /\ Bar(now) * BarMinutes <= now /\ Bar(now) * BarMinutes \in Nat
      BY UnitsOfMinute
    <3>2. Bar(now) * BarMinutes <= now + 1 /\ now + 1 \in Nat
      BY <3>1
    <3> QED
      BY <2>2, <3>1, <3>2, UnitHasBegun DEF Bar
  <2>4. Bar(now) * BarMinutes <= Bar(now + 1) * BarMinutes
    BY <2>2, <2>3, ProductKeepsOrder
  <2> QED
    <3>1. Bar(now) * BarMinutes \in Nat /\ Bar(now + 1) * BarMinutes \in Nat
      BY UnitsOfMinute, now + 1 \in Nat
    <3> QED
      BY <2>1, <2>4, <3>1
<1> QED
  BY <1>1, <1>2

(* When no time passes, the series stay and the poll goes on from minute to *)
(* minute of one cell, no cell goes back.                                   *)
LEMMA PollGoesOn ==
  ASSUME TypeInv, PlaceInv, [Next]_vars, UNCHANGED <<now, lists, watched>>,
         pc = "down" <=> pc' = "down",
         \A c \in Cells \ watched : next'[c] = next[c] /\ held'[c] = held[c],
         \A c \in Cells : pending[c] = NoZone /\ c \notin watched => pending'[c] = NoZone,
         \A c \in Cells : next'[c] = next[c] \/ (Visiting /\ c = Cell /\ next'[c] = at'),
         Visiting' => Visiting /\ todo' = todo /\ (at' = at \/ next'[Cell] = at'),
         Visiting => at <= at' \/ (next' = next /\ ~ Visiting')
  PROVE  /\ pc' # "down" => \A c \in Cells \ watched' : next'[c] = Never
         /\ Visiting' => at' <= FirstMinute(Cell)'
         /\ \A v \in verdicts, c \in Cells : v.behind = {} \/ c = v.cell => Closed(c, v)'
<1>1. /\ now \in Nat /\ at \in Nat /\ at' \in Nat /\ next \in [Cells -> {Never} \cup Nat]
      /\ Visiting => todo # {} /\ Cell \in Cells /\ Cell \in watched
      /\ Cell' = (IF Visiting' THEN Cell ELSE Cell')
  <2>1. at' \in Nat
    BY BookStep DEF TypeInv, BookInv, Shape
  <2>2. Visiting => todo # {}
    BY DEF Visiting, Busy, TypeInv, BookInv, Shape
  <2>3. Visiting => Cell \in Cells /\ Cell \in watched
    BY <2>2, CellIsWatched DEF TypeInv, BookInv
  <2> QED
    BY <2>1, <2>2, <2>3 DEF TypeInv, BookInv, Shape, Cell
<1>2. ListAt(now)' = ListAt(now)
  BY ListOfClock
<1>3. \A c \in Cells : Left(c) => Left(c)'
  BY <1>1, <1>2 DEF Left
<1>4. \A c \in Cells : FirstMinute(c) \in Nat /\ (FirstMinute(c))'
                        = IF next'[c] = Never THEN Bar(now) * BarMinutes ELSE next'[c]
  BY <1>1, UnitsOfMinute DEF FirstMinute, Bar, Never
<1>5. \A c \in Cells : next'[c] = next[c] => (FirstMinute(c))' = FirstMinute(c)
  BY <1>4 DEF FirstMinute
<1>6. \A c \in Cells : next'[c] # next[c] => Visiting /\ c = Cell /\ (FirstMinute(c))' = at' /\ at <= at'
  BY <1>1, <1>4 DEF Never
<1>7. Visiting' => at' <= FirstMinute(Cell)'
  <2> SUFFICES ASSUME Visiting' PROVE at' <= FirstMinute(Cell)'
    OBVIOUS
  <2>1. Visiting /\ Cell' = Cell /\ at <= FirstMinute(Cell) /\ Cell \in Cells
    BY <1>1 DEF PlaceInv
  <2>2. FirstMinute(Cell)' = IF next'[Cell] = Never THEN Bar(now) * BarMinutes ELSE next'[Cell]
    BY <2>1 DEF FirstMinute, Bar
  <2>3. CASE next'[Cell] = at'
    BY <1>1, <2>2, <2>3 DEF Never
  <2>4. CASE next'[Cell] # at'
    BY <1>1, <2>1, <2>2, <2>4 DEF FirstMinute
  <2> QED
    BY <2>3, <2>4
<1>8. ASSUME NEW v \in verdicts, NEW c \in Cells, v.behind = {} \/ c = v.cell PROVE Closed(c, v)'
  <2>1. Closed(c, v) /\ Floor(c, v)' = Floor(c, v) /\ Floor(c, v) \in Nat
    BY <1>8, FloorIsKept, FloorType DEF PlaceInv
  <2>2. Left(c)' \/ Floor(c, v)' <= FirstMinute(c)'
    BY <1>1, <1>3, <1>4, <1>5, <1>6, <2>1 DEF Closed
  <2>3. Visiting' /\ c = Cell' => Floor(c, v)' <= at'
    BY <1>1, <2>1 DEF Closed
  <2> QED
    BY <2>2, <2>3 DEF Closed
<1>9. pc' # "down" => \A c \in Cells \ watched' : next'[c] = Never
  BY DEF PlaceInv
<1> QED
  BY <1>7, <1>8, <1>9

(* A cell that comes back with the list of a new week begins after every    *)
(* floor, if no bar is longer than a week.                                  *)
LEMMA ComesBackLater ==
  ASSUME TypeInv, BarMinutes <= WeekMinutes, Week(now) \notin DOMAIN lists,
         NEW v \in verdicts, NEW c \in Cells, c \notin ListAt(now).members
  PROVE  Floor(c, v) <= Bar(now) * BarMinutes
<1> DEFINE w == Week(v.time)
           l == ListAt(now).week
           n == Week(now)
<1>1. /\ now \in Nat /\ n \in Nat /\ DOMAIN lists \subseteq Nat /\ w \in DOMAIN lists
      /\ v.time \in Nat /\ w <= n
  BY VerdictHasList, UnitsOfMinute DEF TypeInv, BookInv, Shape
<1>2. w <= l /\ l \in DOMAIN lists /\ l <= n /\ ListAt(now).members = lists[l]
  BY <1>1, ListAtIsTheLast DEF TypeInv, BookInv
<1>3. w + 1 <= l + 1 /\ l + 1 <= n /\ l \in Nat
  BY <1>1, <1>2
<1>4. /\ Bar(now) * BarMinutes \in Nat /\ now < Bar(now) * BarMinutes + BarMinutes
      /\ n * WeekMinutes <= now /\ n * WeekMinutes \in Nat
  BY <1>1, UnitsOfMinute
<1>5. WeekMinutes \in Nat /\ BarMinutes \in Nat
  BY BookAssumption
<1>6. (l + 1) * WeekMinutes <= n * WeekMinutes /\ w * WeekMinutes <= l * WeekMinutes
      /\ (w + 1) * WeekMinutes <= (l + 1) * WeekMinutes
  BY <1>1, <1>2, <1>3, <1>5, ProductKeepsOrder
<1>7. /\ (l + 1) * WeekMinutes = l * WeekMinutes + WeekMinutes
      /\ (w + 1) * WeekMinutes = w * WeekMinutes + WeekMinutes
      /\ l * WeekMinutes \in Nat /\ w * WeekMinutes \in Nat
  BY <1>1, <1>3, <1>5
<1> DEFINE begin == Bar(now) * BarMinutes
           last  == l * WeekMinutes
           own   == w * WeekMinutes
<1>8. last <= begin /\ own <= last /\ begin \in Nat /\ last \in Nat /\ own \in Nat
  <2>1. last + WeekMinutes <= n * WeekMinutes /\ begin \in Nat /\ last \in Nat /\ own \in Nat
    BY <1>4, <1>6, <1>7
  <2>2. last + WeekMinutes <= now /\ now < begin + BarMinutes
    BY <1>4, <1>5, <2>1, <1>1
  <2>3. own <= last
    BY <1>6
  <2> HIDE DEF begin, last, own
  <2> QED
    BY <1>1, <1>5, <2>1, <2>2, <2>3
<1>9. CASE c \notin lists[w]
  <2>1. Floor(c, v) = own
    BY <1>9 DEF Floor
  <2> HIDE DEF begin, last, own
  <2> QED
    BY <1>8, <2>1 DEF begin
<1>10. CASE c \in lists[w]
  <2>1. w # l
    BY <1>2, <1>10
  <2>2. (w + 1) * WeekMinutes <= l * WeekMinutes
    BY <1>1, <1>2, <1>3, <1>5, <2>1, ProductKeepsOrder, w + 1 <= l
  <2>3. v.time < own + WeekMinutes /\ own + WeekMinutes <= last
    BY <1>1, <1>7, <2>2, UnitsOfMinute
  <2>4. Floor(c, v) = v.time
    BY <1>10 DEF Floor
  <2> HIDE DEF begin, last, own
  <2> QED
    BY <1>1, <1>5, <1>8, <2>3, <2>4 DEF begin
<1> QED
  BY <1>9, <1>10

(* A fresh start has judged nothing.                                        *)
LEMMA InitPlace == Init => PlaceInv
  BY DEF Init, PlaceInv, Visiting, Busy

(* The steps that are not of a minute, one lemma each.  Time passes:        *)
LEMMA TickKeepsPlace == TypeInv /\ PlaceInv /\ Tick => PlaceInv'
<1> SUFFICES ASSUME TypeInv, PlaceInv, Tick PROVE PlaceInv'
  OBVIOUS
<1> USE DEF market, series, money, record, visit, poll
<1>1. /\ now' = now + 1
      /\ UNCHANGED <<lists, watched, next, kept, pending, held, wallet, signals, verdicts,
                     pc, todo, at, reach, zone, crashes>>
  BY DEF Tick
<1>2. /\ now \in Nat /\ at \in Nat /\ next \in [Cells -> {Never} \cup Nat] /\ [Next]_vars
      /\ Visiting => Cell \in Cells
  BY CellIsWatched DEF TypeInv, BookInv, Shape, Visiting, Busy, Next, World
<1>3. ListAt(now)' = ListAt(now)
  BY <1>1, ListOfClock
<1>4. \A c \in Cells : FirstMinute(c) \in Nat /\ (FirstMinute(c))' \in Nat
                       /\ FirstMinute(c) <= (FirstMinute(c))'
  BY <1>1, <1>2, FirstMinuteGrows
<1>5. \A v \in verdicts, c \in Cells : Floor(c, v) \in Nat /\ Floor(c, v)' = Floor(c, v)
  BY <1>2, FloorIsKept, FloorType
<1>6. \A c \in Cells : Left(c) => Left(c)'
  BY <1>1, <1>3 DEF Left
<1>7. Visiting' = Visiting /\ Cell' = Cell
  BY <1>1 DEF Visiting, Busy, Cell
<1>8. Visiting' => at' <= FirstMinute(Cell)'
  <2> SUFFICES ASSUME Visiting PROVE at <= FirstMinute(Cell)'
    BY <1>1, <1>7
  <2>1. at <= FirstMinute(Cell) /\ Cell \in Cells
    BY <1>2 DEF PlaceInv
  <2>2. FirstMinute(Cell) <= FirstMinute(Cell)' /\ FirstMinute(Cell)' \in Nat /\ FirstMinute(Cell) \in Nat
    <3>1. PICK c \in Cells : c = Cell /\ c = Cell'
      BY <1>7, <2>1
    <3>2. FirstMinute(c)' = FirstMinute(Cell)'
      BY <3>1 DEF FirstMinute, Bar
    <3> QED
      BY <1>4, <3>1, <3>2
  <2> QED
    BY <1>2, <2>1, <2>2
<1>9. ASSUME NEW v \in verdicts, NEW c \in Cells, v.behind = {} \/ c = v.cell PROVE Closed(c, v)'
  <2>1. Closed(c, v) /\ Floor(c, v)' = Floor(c, v) /\ Floor(c, v) \in Nat
    BY <1>5, <1>9 DEF PlaceInv
  <2>2. FirstMinute(c) \in Nat /\ FirstMinute(c)' \in Nat /\ FirstMinute(c) <= FirstMinute(c)'
    BY <1>4
  <2> QED
    BY <1>1, <1>6, <1>7, <2>1, <2>2 DEF Closed
<1> QED
  BY <1>1, <1>7, <1>8, <1>9 DEF PlaceInv

(* a list is saved, and may bring back a cell that was left;                *)
LEMMA SaveKeepsPlace ==
  ASSUME TypeInv, PlaceInv, BarMinutes <= WeekMinutes,
         NEW members \in SUBSET Cells, SaveList(members)
  PROVE  PlaceInv'
<1> USE DEF market, series, money, record, visit, poll
<1>1. /\ Week(now) \notin DOMAIN lists
      /\ lists' = [w \in DOMAIN lists \cup {Week(now)} |->
                     IF w = Week(now) THEN members ELSE lists[w]]
      /\ UNCHANGED <<now, watched, next, kept, pending, held, wallet, signals, verdicts,
                     pc, todo, at, reach, zone, crashes>>
  BY DEF SaveList
<1>2. /\ now \in Nat /\ Week(now) \in Nat /\ DOMAIN lists \subseteq Nat /\ [Next]_vars
      /\ \A w \in DOMAIN lists : w <= Week(now)
  BY UnitsOfMinute DEF TypeInv, BookInv, Shape, Next, World
<1>3. ListAt(now).members' = members
  <2>1. Shape' /\ now' = now /\ Week(now)' = Week(now)
    BY <1>1, <1>2, BookStep DEF TypeInv, BookInv, Week
  <2>2. (Shape /\ now \in Nat => ListIsLast)'
    BY LastListOfClock, PTL
  <2>3. ListIsLast'
    BY <1>1, <1>2, <2>1, <2>2
  <2>4. ListAt(now).week' = Week(now)
    BY <1>1, <1>2, <2>1, <2>3 DEF ListIsLast
  <2> QED
    BY <1>1, <2>1, <2>3, <2>4 DEF ListIsLast
<1>4. \A c \in Cells : FirstMinute(c)' = FirstMinute(c)
  BY <1>1 DEF FirstMinute, Bar
<1>5. Visiting' = Visiting /\ Cell' = Cell
  BY <1>1 DEF Visiting, Busy, Cell
<1>6. Visiting' => at' <= FirstMinute(Cell)'
  BY <1>1, <1>5 DEF PlaceInv, FirstMinute, Bar
<1>7. ASSUME NEW v \in verdicts, NEW c \in Cells, v.behind = {} \/ c = v.cell PROVE Closed(c, v)'
  <2>1. Closed(c, v) /\ Floor(c, v)' = Floor(c, v)
    BY <1>2, <1>7, FloorIsKept DEF PlaceInv
  <2>2. CASE Left(c)
    <3>1. FirstMinute(c) = Bar(now) * BarMinutes /\ Floor(c, v) <= Bar(now) * BarMinutes
      BY <1>1, <2>2, ComesBackLater DEF Left, FirstMinute
    <3> QED
      BY <1>1, <1>4, <1>5, <2>1, <3>1 DEF Closed
  <2>3. CASE ~ Left(c)
    BY <1>1, <1>4, <1>5, <2>1, <2>3 DEF Closed
  <2> QED
    BY <2>2, <2>3
<1> QED
  BY <1>1, <1>6, <1>7 DEF PlaceInv

(* the runner follows the lists: what it drops is left, what it keeps and   *)
(* does not begin anew goes on where it was;                                *)
LEMMA SyncKeepsPlace ==
  ASSUME TypeInv, PlaceInv, [Next]_vars, ~ Visiting, ~ Visiting',
         UNCHANGED <<now, lists, held, verdicts>>,
         NEW orders, watched' = Desired(orders), pending' = orders,
         \A c \in Cells : pending[c] = NoZone => orders[c] = NoZone,
         \A c \in Cells \ Desired(orders) : next'[c] = Never,
         \A c \in Desired(orders) : next'[c] = next[c] \/
            (next'[c] = Never /\ next[c] \in Nat /\ next[c] <= Bar(now) * BarMinutes)
  PROVE  PlaceInv'
<1>1. /\ now \in Nat /\ next \in [Cells -> {Never} \cup Nat] /\ Bar(now) * BarMinutes \in Nat
      /\ Desired(orders) \subseteq Cells
  BY UnitsOfMinute, DesiredHoldsTheOpen DEF TypeInv, BookInv, Shape
<1>2. ListAt(now)' = ListAt(now)
  BY ListOfClock
<1>3. \A c \in Cells \ Desired(orders) : Left(c)'
  BY <1>2 DEF Left, Desired, Holders
<1>4. \A c \in Desired(orders) : ~ Left(c)
  BY <1>1 DEF Left, Desired, Holders
<1>5. \A c \in Desired(orders) : /\ FirstMinute(c) \in Nat /\ (FirstMinute(c))' \in Nat
                                 /\ FirstMinute(c) <= (FirstMinute(c))'
  BY <1>1 DEF FirstMinute, Bar, Never
<1>6. ASSUME NEW v \in verdicts, NEW c \in Cells, v.behind = {} \/ c = v.cell PROVE Closed(c, v)'
  <2>1. Closed(c, v) /\ Floor(c, v)' = Floor(c, v) /\ Floor(c, v) \in Nat
    BY <1>6, FloorIsKept, FloorType DEF PlaceInv
  <2>2. CASE c \in Desired(orders)
    BY <1>4, <1>5, <2>1, <2>2 DEF Closed
  <2>3. CASE c \notin Desired(orders)
    BY <1>3, <2>3 DEF Closed
  <2> QED
    BY <2>2, <2>3
<1> QED
  BY <1>6 DEF PlaceInv

(* a start resumes the cells that are not too old;                          *)
LEMMA BootKeepsPlace ==
  ASSUME TypeInv, PlaceInv, BarMinutes - 1 <= CatchupMax, Boot
  PROVE  PlaceInv'
<1> USE DEF market, series, money, record, visit, poll
<1> DEFINE live   == {c \in Cells : next[c] # Never /\ now - next[c] < CatchupMax}
           orders == [c \in Cells |->
                        IF c \in live /\ kept[c] = pending[c] THEN pending[c] ELSE NoZone]
<1>1. /\ pending' = orders /\ watched' = Desired(orders) /\ pc = "down" /\ pc' = "idle"
      /\ next' = [c \in Cells |-> IF c \in Desired(orders)
                    THEN [d \in Cells |-> IF d \in live THEN next[d] ELSE Never][c] ELSE Never]
      /\ UNCHANGED <<now, lists, held, verdicts>> /\ [Next]_vars
  BY DEF Boot, SyncSeries, Next
<1>2. /\ now \in Nat /\ next \in [Cells -> {Never} \cup 0..now]
      /\ BarMinutes \in Nat /\ CatchupMax \in Nat
      /\ Bar(now) * BarMinutes \in Nat /\ now < Bar(now) * BarMinutes + BarMinutes
  BY UnitsOfMinute, BookAssumption DEF TypeInv, TypeOK, BookInv, Shape
<1>3. \A c \in Cells : pending[c] = NoZone => orders[c] = NoZone
  OBVIOUS
<1>4. \A c \in Cells \ live : next[c] # Never => next[c] \in Nat /\ next[c] <= Bar(now) * BarMinutes
  BY <1>2
<1> HIDE DEF orders
<1>5. Desired(orders) \subseteq Cells
  BY DesiredHoldsTheOpen DEF TypeInv, BookInv
<1>6. \A c \in Cells \ Desired(orders) : next'[c] = Never
  BY <1>1
<1>7. \A c \in Desired(orders) : next'[c] = next[c] \/
        (next'[c] = Never /\ next[c] \in Nat /\ next[c] <= Bar(now) * BarMinutes)
  <2> SUFFICES ASSUME NEW c \in Desired(orders)
               PROVE  next'[c] = next[c] \/
                      (next'[c] = Never /\ next[c] \in Nat /\ next[c] <= Bar(now) * BarMinutes)
    OBVIOUS
  <2>1. c \in Cells /\ next'[c] = IF c \in live THEN next[c] ELSE Never
    BY <1>1, <1>5
  <2> HIDE DEF live
  <2> QED
    BY <1>4, <2>1
<1>8. ~ Visiting /\ ~ Visiting'
  BY <1>1 DEF Visiting, Busy
<1> QED
  BY <1>1, <1>3, <1>6, <1>7, <1>8, SyncKeepsPlace

(* the poll begins with the cells that are wanted;                          *)
LEMMA BeginPollKeepsPlace ==
  ASSUME TypeInv, PlaceInv, BeginPoll
  PROVE  PlaceInv'
<1> USE DEF market, series, money, record, visit, poll
<1>1. /\ pending' = pending /\ watched' = Desired(pending) /\ pc = "idle" /\ pc' = "cells"
      /\ next' = [c \in Cells |-> IF c \in Desired(pending) THEN next[c] ELSE Never]
      /\ UNCHANGED <<now, lists, held, verdicts>> /\ [Next]_vars
  BY DEF BeginPoll, SyncSeries, Next, Poll
<1>2. Desired(pending) \subseteq Cells
  BY DesiredHoldsTheOpen DEF TypeInv, BookInv
<1>3. ~ Visiting /\ ~ Visiting'
  BY <1>1 DEF Visiting, Busy
<1> QED
  BY <1>1, <1>2, <1>3, SyncKeepsPlace

(* the process dies: only what is stored counts;                            *)
LEMMA CrashKeepsPlace ==
  ASSUME TypeInv, PlaceInv, Crash
  PROVE  PlaceInv'
<1> USE DEF market, series, money, record, visit, poll
<1>1. /\ watched' = {} /\ pc' = "down" /\ [Next]_vars
      /\ UNCHANGED <<now, lists, next, held, pending, verdicts>>
  BY DEF Crash, Next
<1>2. ListAt(now)' = ListAt(now)
  BY <1>1, ListOfClock
<1>3. ASSUME NEW v \in verdicts, NEW c \in Cells, v.behind = {} \/ c = v.cell PROVE Closed(c, v)'
  <2>1. Closed(c, v) /\ Floor(c, v)' = Floor(c, v)
    BY <1>1, <1>3, FloorIsKept DEF PlaceInv
  <2>2. Left(c) => Left(c)'
    BY <1>1, <1>2 DEF Left
  <2>3. FirstMinute(c)' = FirstMinute(c)
    BY <1>1 DEF FirstMinute, Bar
  <2>4. ~ Visiting'
    BY <1>1 DEF Visiting, Busy
  <2> QED
    BY <2>1, <2>2, <2>3, <2>4 DEF Closed
<1>4. ~ Visiting'
  BY <1>1 DEF Visiting, Busy
<1> QED
  BY <1>1, <1>3, <1>4 DEF PlaceInv

(* a cell is begun where it goes on.                                        *)
LEMMA BeginCellKeepsPlace ==
  ASSUME TypeInv, PlaceInv, BeginCell
  PROVE  PlaceInv'
<1> USE DEF market, series, money, record, visit, poll
<1>1. /\ todo # {} /\ pc = "cells" /\ pc' = "minutes" /\ at' = FirstMinute(Cell) /\ [Next]_vars
      /\ UNCHANGED <<now, lists, watched, next, held, pending, verdicts, todo>>
  BY DEF BeginCell, Next, Poll
<1>2. Cell \in Cells /\ Cell \in watched /\ Cell' = Cell
  BY <1>1, CellIsWatched DEF TypeInv, BookInv, Cell
<1>3. ListAt(now)' = ListAt(now) /\ \A c \in Cells : (FirstMinute(c))' = FirstMinute(c)
  BY <1>1, ListOfClock DEF FirstMinute, Bar
<1>4. FirstMinute(Cell)' = FirstMinute(Cell) /\ FirstMinute(Cell) \in 0..now
  BY <1>1, <1>2, FirstMinuteType DEF FirstMinute, Bar, TypeInv, TypeOK, BookInv, Shape
<1>5. ASSUME NEW v \in verdicts, NEW c \in Cells, v.behind = {} \/ c = v.cell PROVE Closed(c, v)'
  <2>1. Closed(c, v) /\ Floor(c, v)' = Floor(c, v)
    BY <1>1, <1>5, FloorIsKept DEF PlaceInv
  <2>2. Left(c) => Left(c)' /\ c # Cell
    BY <1>1, <1>2, <1>3 DEF Left
  <2> QED
    BY <1>1, <1>2, <1>3, <2>1, <2>2 DEF Closed
<1> QED
  BY <1>1, <1>4, <1>5 DEF PlaceInv

(* A fill that is judged: the cells it found at it or past it, and the cell *)
(* it is of, will not go back before it.                                    *)
LEMMA JudgementIsClosed ==
  ASSUME TypeInv, TypeInv', PlaceInv, NEW accepted, NEW falling, NEW want,
         JudgeFill(accepted, falling, want),
         NEW v \in verdicts' \ verdicts, NEW c \in Cells, v.behind = {} \/ c = v.cell
  PROVE  Closed(c, v)'
<1> USE DEF market, series, money, record, visit, poll
<1>1. /\ pc = "judging" /\ pc' = "exits"
      /\ v = [cell |-> Cell, zone |-> zone, time |-> at,
              count |-> CrowdCount(Cell, zone, at), behind |-> BehindOf(at)]
      /\ held' = held \/ \E p : held' = [held EXCEPT ![Cell] = p]
      /\ UNCHANGED <<now, lists, watched, next, pending, todo, at>>
  BY DEF JudgeFill
<1>2. /\ at \in Nat /\ at <= FirstMinute(Cell) /\ Cell \in Cells /\ Cell \in watched /\ Cell' = Cell
      /\ next \in [Cells -> {Never} \cup 0..now] /\ now \in Nat /\ held \in [Cells -> Position]
  BY <1>1, CellIsWatched DEF TypeInv, TypeOK, BookInv, Shape, PlaceInv, Visiting, Busy, Cell
<1>3. Floor(c, v)' \in Nat /\ Floor(c, v)' <= at
  <2>1. Floor(c, v)' = Floor(c, v)
    BY <1>1 DEF Floor, Week
  <2>2. Week(at) * WeekMinutes \in Nat /\ Week(at) * WeekMinutes <= at /\ v.time = at
    BY <1>1, <1>2, UnitsOfMinute
  <2> QED
    BY <1>2, <2>1, <2>2 DEF Floor
<1>4. FirstMinute(c)' = FirstMinute(c) /\ FirstMinute(c) \in Nat
  BY <1>1, <1>2, FirstMinuteType DEF FirstMinute, Bar
<1>5. CASE at <= FirstMinute(c)
  BY <1>1, <1>2, <1>3, <1>4, <1>5 DEF Closed
<1>6. CASE ~ (at <= FirstMinute(c))
  <2>1. c # Cell /\ BehindOf(at) = {}
    BY <1>1, <1>2, <1>6
  <2>2. c \notin watched \cup ListAt(now).members
    BY <1>2, <1>4, <1>6, <2>1 DEF BehindOf
  <2>3. next[c] = Never /\ held[c] = Flat /\ pending[c] = NoZone
    BY <1>1, <2>2 DEF PlaceInv, TypeInv, BookInv, OpenCellsAreWatched
  <2>4. ListAt(now)' = ListAt(now)
    BY <1>1, ListOfClock
  <2>5. held'[c] = held[c]
    BY <1>1, <1>2, <2>1
  <2>6. Left(c)'
    BY <1>1, <2>2, <2>3, <2>4, <2>5 DEF Left
  <2> QED
    BY <1>2, <2>1, <2>6 DEF Closed
<1> QED
  BY <1>5, <1>6

(* Every step keeps every cell past what it has closed, if no bar is longer *)
(* than a week and an outage that is forgotten is at least a bar long.      *)
LEMMA PlaceStep ==
  ASSUME TypeInv, TypeInv', PlaceInv, [Next]_vars,
         BarMinutes <= WeekMinutes, BarMinutes - 1 <= CatchupMax
  PROVE  PlaceInv'
<1> USE DEF market, series, money, record, visit, poll
<1>0. /\ todo # {} => Cell \in Cells /\ Cell \in watched
      /\ next \in [Cells -> {Never} \cup Nat] /\ held \in [Cells -> Position]
      /\ pending \in [Cells -> {NoZone} \cup Zones] /\ at \in Nat
      /\ (Visiting => todo # {}) /\ watched \subseteq Cells
  BY CellIsWatched DEF TypeInv, TypeOK, BookInv, Shape, Visiting, Busy
<1>1. CASE UNCHANGED vars
  BY <1>0, <1>1, PollGoesOn DEF vars, PlaceInv, Visiting
<1>2. CASE Tick
  BY <1>2, TickKeepsPlace
<1>3. ASSUME NEW members \in SUBSET Cells, SaveList(members) PROVE PlaceInv'
  BY <1>3, SaveKeepsPlace
<1>4. CASE Boot
  BY <1>4, BootKeepsPlace
<1>5. CASE Crash
  BY <1>5, CrashKeepsPlace
<1>6. CASE BeginPoll
  BY <1>6, BeginPollKeepsPlace
<1>7. CASE BeginCell
  BY <1>7, BeginCellKeepsPlace
<1>8. CASE EndCell
  BY <1>0, <1>8, PollGoesOn DEF EndCell, PlaceInv, Visiting, Busy
<1>9. CASE QuietMinute
  BY <1>0, <1>9, PollGoesOn DEF QuietMinute, InMinute, PlaceInv, Visiting, Busy
<1>10. CASE EndOrder
  BY <1>0, <1>10, PollGoesOn DEF EndOrder, InMinute, PlaceInv, Visiting, Busy
<1>11. ASSUME NEW z \in Zones, PlaceOrder(z) PROVE PlaceInv'
  BY <1>0, <1>11, PollGoesOn DEF PlaceOrder, InMinute, PlaceInv, Visiting, Busy
<1>12. CASE FillOrder
  BY <1>0, <1>12, PollGoesOn DEF FillOrder, InMinute, PlaceInv, Visiting, Busy
<1>13. ASSUME NEW passes \in BOOLEAN, RecordSignal(passes) PROVE PlaceInv'
  BY <1>0, <1>13, PollGoesOn DEF RecordSignal, PlaceInv, Visiting, Busy
<1>14. ASSUME NEW result \in Results, StopFirst(result) PROVE PlaceInv'
  BY <1>0, <1>14, PollGoesOn DEF StopFirst, Exit, PlaceInv, Visiting, Busy
<1>15. ASSUME NEW accepted \in BOOLEAN, NEW falling \in BOOLEAN, NEW want \in Wants,
              JudgeFill(accepted, falling, want)
       PROVE  PlaceInv'
  <2>1. /\ pc = "judging" /\ pc' = "exits"
        /\ held' = held \/ \E p : held' = [held EXCEPT ![Cell] = p]
        /\ UNCHANGED <<now, lists, watched, next, pending, todo, at>>
    BY <1>15 DEF JudgeFill
  <2>2. /\ pc' # "down" => \A c \in Cells \ watched' : next'[c] = Never
        /\ Visiting' => at' <= FirstMinute(Cell)'
        /\ \A v \in verdicts, c \in Cells : v.behind = {} \/ c = v.cell => Closed(c, v)'
    BY <1>0, <2>1, PollGoesOn DEF Visiting, Busy
  <2>3. \A v \in verdicts' \ verdicts, c \in Cells : v.behind = {} \/ c = v.cell => Closed(c, v)'
    BY <1>15, JudgementIsClosed
  <2> QED
    BY <2>2, <2>3 DEF PlaceInv
<1>16. ASSUME NEW stopped \in BOOLEAN, NEW result \in Results, EndMinute(stopped, result)
       PROVE  PlaceInv'
  <2>1. /\ pc = "exits" /\ pc' = "minutes" /\ at' = at + 1 /\ next' = [next EXCEPT ![Cell] = at + 1]
        /\ held' = held \/ held' = [held EXCEPT ![Cell] = Flat]
        /\ UNCHANGED <<now, lists, watched, pending, verdicts, todo>>
    BY <1>16 DEF EndMinute, Exit
  <2>2. Visiting /\ Visiting'
    BY <2>1 DEF Visiting, Busy
  <2> QED
    BY <1>0, <2>1, <2>2, PollGoesOn DEF PlaceInv
<1>17. ASSUME NEW overdue \in SUBSET {c \in Cells : pending[c] # NoZone}, EndPoll(overdue)
       PROVE  PlaceInv'
  BY <1>0, <1>17, PollGoesOn DEF EndPoll, PlaceInv, Visiting, Busy
<1> QED
  BY <1>1, <1>2, <1>3, <1>4, <1>5, <1>6, <1>7, <1>8, <1>9, <1>10, <1>11, <1>12, <1>13, <1>14,
     <1>15, <1>16, <1>17 DEF Next, World, Poll, Minute, Fill

(* A signal that is recorded is not in the window of a closed verdict.      *)
LEMMA SignalIsNotMissed ==
  ASSUME TypeInv, PlaceInv, NEW passes, RecordSignal(passes),
         NEW v \in verdicts, v.behind = {}
  PROVE  Others(v)' = Others(v)
<1> USE DEF market, series, money, record, visit, poll
<1>1. CASE RotationGate(Cell, at)
  <2>1. /\ Visiting /\ at \in Nat /\ Cell \in Cells /\ v.time \in Nat
    BY CellIsWatched, VerdictHasList DEF RecordSignal, Visiting, Busy, TypeInv, BookInv, Shape
  <2>2. Floor(Cell, v) <= at
    BY <2>1 DEF PlaceInv, Closed
  <2>3. v.time <= at
    <3>1. CASE Cell \in lists[Week(v.time)]
      BY <2>2, <3>1 DEF Floor
    <3>2. CASE Cell \notin lists[Week(v.time)]
      <4>1. Week(v.time) * WeekMinutes <= at
        BY <2>2, <3>2 DEF Floor
      <4>2. Week(v.time) \in Nat /\ Week(at) \in Nat /\ Week(v.time) <= Week(at)
        BY <2>1, <4>1, UnitsOfMinute
      <4>3. Week(at) # Week(v.time)
        BY <1>1, <2>1, <3>2, GateIsOfTheWeek DEF TypeInv, BookInv
      <4>4. ~ (at <= v.time)
        BY <2>1, <4>2, <4>3, WeekIsMonotone
      <4> QED
        BY <2>1, <4>4
    <3> QED
      BY <3>1, <3>2
  <2>4. signals' \in {signals, signals \cup {[cell |-> Cell, zone |-> zone, time |-> at]}}
    BY DEF RecordSignal
  <2>5. at \notin (v.time - CrowdWindow)..(v.time - 1)
    BY <2>1, <2>3, BookAssumption
  <2> QED
    BY <2>4, <2>5 DEF Others
<1>2. CASE ~ RotationGate(Cell, at)
  BY <1>2 DEF RecordSignal, Others
<1> QED
  BY <1>1, <1>2

(* The rule counts, when it judges, the signals that are there.             *)
LEMMA CountIsOfOthers ==
  ASSUME TypeInv, NEW v, v.time \in Nat,
         v.count = CrowdCount(v.cell, v.zone, v.time)
  PROVE  v.count = Cardinality(Others(v))
<1>1. \A s \in signals : s.time \in Nat
  BY BookAssumption DEF TypeInv, TypeOK, Signal, Minutes
<1>2. \A s \in signals : (v.time - CrowdWindow <= s.time /\ s.time < v.time)
                         <=> s.time \in (v.time - CrowdWindow)..(v.time - 1)
  BY <1>1, BookAssumption
<1>3. Others(v) = {s \in signals : /\ v.time - CrowdWindow <= s.time /\ s.time < v.time
                                   /\ <<s.cell, s.zone>> # <<v.cell, v.zone>>}
  BY <1>2 DEF Others
<1> QED
  BY <1>3 DEF CrowdCount

(* So a closed verdict stays complete.                                      *)
LEMMA CrowdStep ==
  ASSUME TypeInv, PlaceInv, CrowdIsComplete, [Next]_vars
  PROVE  CrowdIsComplete'
<1> USE DEF market, series, money, record, visit, poll
<1>steady. ASSUME UNCHANGED <<signals, verdicts>> PROVE CrowdIsComplete'
  BY <1>steady DEF CrowdIsComplete, Others
<1>1. ASSUME NEW passes \in BOOLEAN, RecordSignal(passes) PROVE CrowdIsComplete'
  <2>1. verdicts' = verdicts
    BY <1>1 DEF RecordSignal
  <2>2. \A v \in verdicts : v.behind = {} => Others(v)' = Others(v)
    BY <1>1, SignalIsNotMissed
  <2> QED
    BY <2>1, <2>2 DEF CrowdIsComplete
<1>2. ASSUME NEW accepted \in BOOLEAN, NEW falling \in BOOLEAN, NEW want \in Wants,
             JudgeFill(accepted, falling, want)
      PROVE  CrowdIsComplete'
  <2>1. /\ signals' = signals
        /\ verdicts' \in {verdicts, verdicts \cup
              {[cell |-> Cell, zone |-> zone, time |-> at,
                count |-> CrowdCount(Cell, zone, at), behind |-> BehindOf(at)]}}
    BY <1>2 DEF JudgeFill
  <2>2. at \in Nat
    BY DEF TypeInv, BookInv, Shape
  <2>3. ASSUME NEW v \in verdicts', v.behind = {} PROVE v.count = Cardinality(Others(v)')
    <3>1. Others(v)' = Others(v)
      BY <2>1 DEF Others
    <3>2. CASE v \in verdicts
      BY <2>3, <3>1, <3>2 DEF CrowdIsComplete
    <3>3. CASE v \notin verdicts
      <4>1. v = [cell |-> Cell, zone |-> zone, time |-> at,
                 count |-> CrowdCount(Cell, zone, at), behind |-> BehindOf(at)]
        BY <2>1, <3>3
      <4>2. v.time \in Nat /\ v.count = CrowdCount(v.cell, v.zone, v.time)
        BY <2>2, <4>1
      <4> QED
        BY <3>1, <4>2, CountIsOfOthers
    <3> QED
      BY <3>2, <3>3
  <2> QED
    BY <2>3 DEF CrowdIsComplete
<1> QED
  BY <1>steady, <1>1, <1>2
     DEF Next, World, Poll, Minute, Fill, Tick, SaveList, Boot, Crash, BeginPoll, BeginCell, EndCell,
         QuietMinute, PlaceOrder, EndOrder, FillOrder, StopFirst, EndMinute, EndPoll, vars

(* All of it together is inductive.                                         *)
LEMMA PlaceInvariant ==
  ASSUME BarMinutes <= WeekMinutes, BarMinutes - 1 <= CatchupMax
  PROVE  Spec => [](TypeInv /\ PlaceInv /\ CrowdIsComplete)
<1>1. Init => TypeInv /\ PlaceInv /\ CrowdIsComplete
  BY InitType, InitPlace DEF Init, CrowdIsComplete
<1>2. (TypeInv /\ PlaceInv /\ CrowdIsComplete) /\ [Next]_vars
        => (TypeInv /\ PlaceInv /\ CrowdIsComplete)'
  BY TypeStep, PlaceStep, CrowdStep
<1> QED
  BY <1>1, <1>2, PTL DEF Spec

(* The crowding rule has counted every signal of its window, also those     *)
(* recorded after the verdict, unless some cell was behind when it judged:  *)
(* for any cells, windows, weeks, lists and deaths of the process, where no *)
(* bar is longer than a week, nor longer than the outage that is replayed   *)
(* (ArmSignalStore.count, crowd_decision).                                  *)
THEOREM CrowdStaysComplete ==
  ASSUME BarMinutes <= WeekMinutes, BarMinutes - 1 <= CatchupMax
  PROVE  Spec => []CrowdIsComplete
  BY PlaceInvariant, PTL

(* No minute is judged a second time, under the same two conditions: the    *)
(* run with an outage limit shorter than a bar shows that the second is     *)
(* needed (_save_state after every minute, the restart's age limit).        *)
THEOREM NoMinuteIsJudgedTwice ==
  ASSUME BarMinutes <= WeekMinutes, BarMinutes - 1 <= CatchupMax
  PROVE  Spec => []MinutesAreJudgedOnce
<1>1. TypeInv /\ PlaceInv => MinutesAreJudgedOnce
  <2> SUFFICES ASSUME TypeInv, PlaceInv, InMinute, NEW v \in verdicts, v.cell = Cell
               PROVE  v.time <= at
    BY DEF MinutesAreJudgedOnce
  <2>1. Visiting
    BY DEF InMinute, Visiting
  <2>2. v.cell \in Cells /\ Floor(v.cell, v) = v.time
    BY VerdictHasList DEF Floor
  <2> QED
    BY <2>1, <2>2 DEF PlaceInv, Closed
<1> QED
  BY <1>1, PlaceInvariant, PTL

==============================================================================
