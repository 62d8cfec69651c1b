----------------------------- MODULE SharedBook -----------------------------
(***************************************************************************)
(* The cells of the paper runner together.  They share a wallet, whose     *)
(* notional is capped, the table of signals that the crowding rule counts, *)
(* and the weekly list of members, which another process saves some time   *)
(* after the week has begun.  A poll first makes the watched cells follow  *)
(* the list, then visits them one after another; each visit replays every  *)
(* minute the cell has not seen, with the times of the data.               *)
(*                                                                         *)
(* PaperRunner models one cell write by write.  Here the writes of a step  *)
(* that no other cell can tell apart are one action, nothing raises, and a *)
(* cell has at most one pending order, at one of its zones.  Prices are    *)
(* free verdicts: whether an order is placed, filled or ended, passes the  *)
(* stop floor and %K, is stopped, and what an exit earns.  The cursor in   *)
(* memory is the one of the snapshot, which every minute writes.           *)
(***************************************************************************)
EXTENDS Integers, FiniteSets, FiniteSetsExt

CONSTANTS
  NumCells,     \* the cells the runner may watch, in the order of a poll
  Zones,        \* the zones of a cell
  BarMinutes,   \* minutes of a bar
  WeekMinutes,  \* minutes of a week
  HoldBars,     \* bars until the time exit
  CatchupMax,   \* the longest outage that is replayed, in minutes
  CrowdWindow,  \* minutes the crowding rule looks back
  SkipLow, SkipHigh, \* the counts of signals at which it skips an entry
  TradeCap,     \* notional of one trade, in units of the wallet
  BookCap,      \* notional of all open trades, in units of the wallet
  Wants,        \* the notionals the risk of a trade may ask for
  Results,      \* what an exit may earn
  Stake,        \* the wallet at the start
  LastMinute,   \* bound: the last minute
  MaxCrashes    \* bound: deaths of the process

Cells   == 1..NumCells
Minutes == 0..LastMinute
Never   == -1
NoZone  == 0

ASSUME BookAssumption ==
  /\ NumCells \in Nat /\ Zones \subseteq Nat \ {NoZone} /\ IsFiniteSet(Zones)
  /\ BarMinutes \in Nat \ {0} /\ WeekMinutes \in Nat \ {0}
  /\ HoldBars \in Nat /\ CatchupMax \in Nat /\ CrowdWindow \in Nat
  /\ SkipLow \in Nat /\ SkipHigh \in Nat
  /\ TradeCap \in Nat /\ BookCap \in Nat
  /\ Wants \subseteq Nat /\ Results \subseteq Int /\ Stake \in Nat
  /\ LastMinute \in Nat /\ MaxCrashes \in Nat

VARIABLES
  now,       \* the minutes before it have closed
  lists,     \* universe_rotations: the members of each week that is saved
  watched,   \* the runner's series
  next,      \* the first minute a cell has not seen; Never without snapshot
  kept,      \* the zone of the order in the cell's snapshot
  pending,   \* the zone of the cell's pending order in the journal
  held,      \* the open position of a cell
  wallet,
  signals,   \* arm_signals: the rows that are counted
  verdicts,  \* what the crowding rule saw, of every fill it judged
  pc, todo, at, reach, zone, \* the poll: its place, the cells it has yet to
       \* visit, the minute it is at, the end of those loaded, the zone filled
  crashes

market == <<now, lists>>
series == <<watched, next, kept>>
money  == <<held, wallet>>
record == <<signals, verdicts>>
visit  == <<todo, at, reach>>
poll   == <<pc, visit, zone>>
vars   == <<market, series, pending, money, record, poll, crashes>>

------------------------------------------------------------------------------
Week(m) == m \div WeekMinutes
Bar(m)  == m \div BarMinutes
Weeks   == 0..Week(LastMinute)

Flat     == [entry |-> Never, notional |-> 0]
Position == [entry : Minutes, notional : Nat] \cup {Flat}
Signal   == [cell : Cells, zone : Zones, time : Minutes]
Verdict  == [cell : Cells, zone : Zones, time : Minutes, count : Nat,
             behind : SUBSET Cells]

Cell    == Min(todo)
Holders == {c \in Cells : held[c] # Flat}

(* UniverseStore.at: the last list that is saved for a week up to m.        *)
ListAt(m) ==
  LET saved == {w \in DOMAIN lists : w <= Week(m)}
  IN IF saved = {} THEN [week |-> Never, members |-> {}]
     ELSE [week |-> Max(saved), members |-> lists[Max(saved)]]

(* Mutant: last week's list stands in for one that is not saved yet.        *)
RotationGateOfAnyWeek(c, m) == c \in ListAt(m).members

(* rotation_decision: the list must be that of the week of the fill.        *)
RotationGate(c, m) == LET list == ListAt(m) IN list.week = Week(m) /\ c \in list.members

(* Mutant: the members only.                                                *)
DesiredMembers(orders) == ListAt(now).members \cup {c \in Cells : orders[c] # NoZone}

(* desired_series: a cell that left the list is watched as long as it holds *)
(* a position or an order.                                                  *)
Desired(orders) ==
  ListAt(now).members \cup Holders \cup {c \in Cells : orders[c] # NoZone}

(* sync_series: a cell that is dropped loses its state and its snapshot.    *)
SyncSeries(want, cursors, orders) ==
  /\ watched' = want
  /\ next' = [c \in Cells |-> IF c \in want THEN cursors[c] ELSE Never]
  /\ kept' = [c \in Cells |-> IF c \in want THEN orders[c] ELSE NoZone]

(* A cell without a cursor begins with the bar that is forming.             *)
FirstMinute(c) == IF next[c] = Never THEN Bar(now) * BarMinutes ELSE next[c]

Init ==
  /\ now = 0 /\ lists = [w \in {} |-> {}]
  /\ watched = {} /\ next = [c \in Cells |-> Never]
  /\ kept = [c \in Cells |-> NoZone] /\ pending = [c \in Cells |-> NoZone]
  /\ held = [c \in Cells |-> Flat] /\ wallet = Stake
  /\ signals = {} /\ verdicts = {}
  /\ pc = "down" /\ todo = {} /\ at = 0 /\ reach = 0 /\ zone = NoZone
  /\ crashes = 0

------------------------------------------------------------------------------
(* The world: minutes close, the collector saves the list of the week once. *)
Tick ==
  /\ now < LastMinute /\ now' = now + 1
  /\ UNCHANGED <<lists, series, pending, money, record, poll, crashes>>

SaveList(members) ==
  /\ Week(now) \notin DOMAIN lists
  /\ lists' = [w \in DOMAIN lists \cup {Week(now)} |->
                 IF w = Week(now) THEN members ELSE lists[w]]
  /\ UNCHANGED <<now, series, pending, money, record, poll, crashes>>

(* The start: snapshots within the limit are restored with the orders the   *)
(* journal still has as pending; other orders are discarded.                *)
Boot ==
  /\ pc = "down"
  /\ LET live   == {c \in Cells : next[c] # Never /\ now - next[c] < CatchupMax}
         orders == [c \in Cells |->
                      IF c \in live /\ kept[c] = pending[c] THEN pending[c] ELSE NoZone]
     IN /\ pending' = orders
        /\ SyncSeries(Desired(orders),
                      [c \in Cells |-> IF c \in live THEN next[c] ELSE Never],
                      [c \in Cells |-> IF c \in live THEN kept[c] ELSE NoZone])
  /\ pc' = "idle"
  /\ UNCHANGED <<market, money, record, visit, zone, crashes>>

(* The process dies: memory is lost, the tables stay.                       *)
Crash ==
  /\ pc # "down" /\ crashes < MaxCrashes
  /\ crashes' = crashes + 1
  /\ watched' = {} /\ pc' = "down" /\ todo' = {} /\ at' = 0 /\ reach' = 0 /\ zone' = NoZone
  /\ UNCHANGED <<market, next, kept, pending, money, record>>

------------------------------------------------------------------------------
BeginPoll ==
  /\ pc = "idle"
  /\ SyncSeries(Desired(pending), next, kept)
  /\ todo' = Desired(pending) /\ pc' = "cells"
  /\ UNCHANGED <<market, pending, money, record, at, reach, zone, crashes>>

(* Mutant: the minute that is still forming is not filtered out.            *)
BeginCellForming ==
  /\ pc = "cells" /\ todo # {}
  /\ at' = FirstMinute(Cell) /\ reach' = now + 1 /\ pc' = "minutes"
  /\ UNCHANGED <<market, series, pending, money, record, todo, zone, crashes>>

(* poll_series loads the closed minutes of the cell that are stored: the    *)
(* collector may be late.                                                   *)
BeginCell ==
  /\ pc = "cells" /\ todo # {}
  /\ at' = FirstMinute(Cell)
  /\ \E stored \in FirstMinute(Cell)..now : reach' = stored
  /\ pc' = "minutes"
  /\ UNCHANGED <<market, series, pending, money, record, todo, zone, crashes>>

EndCell ==
  /\ pc = "minutes" /\ at = reach
  /\ todo' = todo \ {Cell} /\ at' = 0 /\ reach' = 0 /\ pc' = "cells"
  /\ UNCHANGED <<market, series, pending, money, record, zone, crashes>>

(* on_substep: a tap places an order, an order ends, or it fills.           *)
InMinute == pc = "minutes" /\ at < reach

QuietMinute ==
  /\ InMinute /\ pc' = "exits"
  /\ UNCHANGED <<market, series, pending, money, record, visit, zone, crashes>>

PlaceOrder(z) ==
  /\ InMinute /\ pending[Cell] = NoZone
  /\ pending' = [pending EXCEPT ![Cell] = z] /\ pc' = "exits"
  /\ UNCHANGED <<market, series, money, record, visit, zone, crashes>>

EndOrder ==
  /\ InMinute /\ pending[Cell] # NoZone
  /\ pending' = [pending EXCEPT ![Cell] = NoZone] /\ pc' = "exits"
  /\ UNCHANGED <<market, series, money, record, visit, zone, crashes>>

------------------------------------------------------------------------------
(* A fill, in the order of the writes: the journal, the signal, the stop of *)
(* the position before it, the verdict.                                     *)
FillOrder ==
  /\ InMinute /\ pending[Cell] # NoZone
  /\ zone' = pending[Cell] /\ pc' = "filled"
  /\ pending' = [pending EXCEPT ![Cell] = NoZone]
  /\ UNCHANGED <<market, series, money, record, visit, crashes>>

(* _record_signal: a fill of a member that passes the stop floor and %K is  *)
(* counted, once however often it is replayed.                              *)
RecordSignal(passes) ==
  /\ pc = "filled" /\ pc' = "signalled"
  /\ signals' = IF RotationGate(Cell, at) /\ passes
                THEN signals \cup {[cell |-> Cell, zone |-> zone, time |-> at]}
                ELSE signals
  /\ UNCHANGED <<market, series, pending, money, verdicts, visit, zone, crashes>>

(* The exit of a position earns or loses; the cell is free again.           *)
Exit(result) ==
  /\ held' = [held EXCEPT ![Cell] = Flat]
  /\ wallet' = wallet + result

(* _stop_first: the minute's price passed the stop before it filled.        *)
StopFirst(result) ==
  /\ pc = "signalled" /\ pc' = "judging"
  /\ \/ held[Cell] # Flat /\ Exit(result)
     \/ UNCHANGED money
  /\ UNCHANGED <<market, series, pending, record, visit, zone, crashes>>

(* Mutant: the minute of the fill itself is in the window.                  *)
CrowdUpToNow(c, z, m) == Cardinality(
  {s \in signals : /\ m - CrowdWindow <= s.time /\ s.time <= m
                   /\ <<s.cell, s.zone>> # <<c, z>>})

(* ArmSignalStore.count: the signals of other zones in the window before m. *)
CrowdCount(c, z, m) == Cardinality(
  {s \in signals : /\ m - CrowdWindow <= s.time /\ s.time < m
                   /\ <<s.cell, s.zone>> # <<c, z>>})

(* crowd_decision: few signals are skipped, many need a falling market.     *)
CrowdAdmits(count, falling) == count < SkipLow \/ (count > SkipHigh /\ falling)

OpenNotional == MapThenSumSet(LAMBDA c : held[c].notional, Cells)

(* resolve_book_sizing (cap_only): what is open is made up so that the cap  *)
(* of the trade leaves the smaller of the two rooms.                        *)
SyntheticOpen ==
  TradeCap * wallet - Min({TradeCap * wallet, BookCap * wallet - OpenNotional})

(* Mutant: each trade is sized as if it were alone.                         *)
SizeAlone(want) ==
  IF wallet <= 0 \/ OpenNotional >= BookCap * wallet THEN 0
  ELSE Min({want, TradeCap * wallet})

(* size_with_reason: the notional of an entry, 0 when it is refused.        *)
Size(want) ==
  IF wallet <= 0 \/ OpenNotional >= BookCap * wallet THEN 0
  ELSE Min({want, TradeCap * wallet - SyntheticOpen})

(* The cells whose minutes before m have not all been replayed.             *)
BehindOf(m) == {c \in watched \cup ListAt(now).members : FirstMinute(c) < m}

(* _handle_fill: the list, the arm's rules, the crowd, then on_entry.       *)
JudgeFill(accepted, falling, want) ==
  /\ pc = "judging" /\ pc' = "exits" /\ zone' = NoZone
  /\ IF RotationGate(Cell, at) /\ accepted
     THEN LET count == CrowdCount(Cell, zone, at)
              size  == Size(want)
          IN /\ verdicts' = verdicts \cup
                   {[cell |-> Cell, zone |-> zone, time |-> at,
                     count |-> count, behind |-> BehindOf(at)]}
             /\ held' = IF CrowdAdmits(count, falling) /\ held[Cell] = Flat /\ size > 0
                        THEN [held EXCEPT ![Cell] = [entry |-> at, notional |-> size]]
                        ELSE held
     ELSE UNCHANGED <<verdicts, held>>
  /\ UNCHANGED <<market, series, pending, wallet, signals, visit, crashes>>

(* is_time_exit_minute                                                      *)
TimeExit(p) == at + 1 >= (Bar(p.entry) + HoldBars) * BarMinutes

(* _check_exits and _save_state: the minute is done.                        *)
EndMinute(stopped, result) ==
  /\ pc = "exits" /\ pc' = "minutes"
  /\ IF held[Cell] # Flat /\ (stopped \/ TimeExit(held[Cell]))
     THEN Exit(result) ELSE UNCHANGED money
  /\ next' = [next EXCEPT ![Cell] = at + 1]
  /\ kept' = [kept EXCEPT ![Cell] = pending[Cell]]
  /\ at' = at + 1
  /\ UNCHANGED <<market, watched, pending, record, todo, reach, zone, crashes>>

(* expire_overdue ends what the wall clock says is over; then all is saved. *)
EndPoll(overdue) ==
  /\ pc = "cells" /\ todo = {} /\ pc' = "idle"
  /\ pending' = [c \in Cells |-> IF c \in overdue THEN NoZone ELSE pending[c]]
  /\ kept' = pending'
  /\ UNCHANGED <<market, watched, next, money, record, visit, zone, crashes>>

World == Tick \/ (\E members \in SUBSET Cells : SaveList(members))

Fill ==
  \/ FillOrder
  \/ \E passes \in BOOLEAN : RecordSignal(passes)
  \/ \E result \in Results : StopFirst(result)
  \/ \E accepted, falling \in BOOLEAN, want \in Wants : JudgeFill(accepted, falling, want)

Minute ==
  \/ QuietMinute \/ EndOrder \/ Fill
  \/ \E z \in Zones : PlaceOrder(z)
  \/ \E stopped \in BOOLEAN, result \in Results : EndMinute(stopped, result)

Poll ==
  \/ BeginPoll \/ BeginCell \/ Minute \/ EndCell
  \/ \E overdue \in SUBSET {c \in Cells : pending[c] # NoZone} : EndPoll(overdue)

Next == World \/ Boot \/ Crash \/ Poll
Spec == Init /\ [][Next]_vars

------------------------------------------------------------------------------
TypeOK ==
  /\ now \in Minutes /\ DOMAIN lists \subseteq Weeks
  /\ lists \in [DOMAIN lists -> SUBSET Cells]
  /\ watched \subseteq Cells /\ next \in [Cells -> {Never} \cup 0..now]
  /\ kept \in [Cells -> {NoZone} \cup Zones] /\ pending \in [Cells -> {NoZone} \cup Zones]
  /\ held \in [Cells -> Position] /\ wallet \in Int
  /\ signals \subseteq Signal /\ verdicts \subseteq Verdict
  /\ pc \in {"down", "idle", "cells", "minutes", "filled", "signalled", "judging", "exits"}
  /\ todo \subseteq Cells /\ at \in 0..now /\ reach \in 0..now
  /\ (pc \notin {"down", "idle", "cells"} => todo # {}) /\ zone \in {NoZone} \cup Zones
  /\ crashes \in 0..MaxCrashes

(* Whatever was replayed how late, an entry and a counted signal belong to  *)
(* the list of the week of the fill, never to the one before or after it    *)
(* (rotation_decision, apply_rotation).                                     *)
EntriesAreListed ==
  \A f \in verdicts \cup signals :
    Week(f.time) \in DOMAIN lists /\ f.cell \in lists[Week(f.time)]

(* A cell that left the list goes on being watched until its position and   *)
(* its order have ended, across rotations and restarts (desired_series).    *)
OpenCellsAreWatched ==
  pc # "down" => \A c \in Cells : held[c] # Flat \/ pending[c] # NoZone => c \in watched

(* The signals that the rule should have seen, however late they came.      *)
Others(v) == {s \in signals : /\ s.time \in (v.time - CrowdWindow)..(v.time - 1)
                              /\ s.cell # v.cell \/ s.zone # v.zone}

(* The crowding rule counts every signal of its window, also those that     *)
(* other cells recorded in the same poll, or late, unless some cell had     *)
(* minutes of the window yet to replay.                                     *)
CrowdIsComplete ==
  \A v \in verdicts : v.behind = {} => v.count = Cardinality(Others(v))

(* The same without the exception, as arm_gate.py and the restart tests     *)
(* state it: false once cells are replayed one after another.               *)
CrowdIsAlwaysComplete == \A v \in verdicts : v.count = Cardinality(Others(v))

(* An entry never lifts what all cells together hold above the cap of the   *)
(* book, whatever opened, closed or was restored before it.                 *)
NotionalIsCapped ==
  [][(\E c \in Cells : held[c] = Flat /\ held'[c] # Flat)
       => OpenNotional' <= BookCap * wallet']_vars

(* No minute is judged a second time: a cell only goes to minutes it has    *)
(* not yet entered or judged a fill in (_save_state after every minute).    *)
MinutesAreJudgedOnce ==
  InMinute => \A v \in verdicts : v.cell = Cell => v.time <= at
=============================================================================
