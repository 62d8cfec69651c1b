---------------------------- MODULE PaperRunner ----------------------------
(***************************************************************************)
(* One cell (symbol, timeframe) of the paper runner, write by write: the   *)
(* engine in memory, the order journal, the engine snapshot, the open      *)
(* position, the trade ledger and the wallet.  Every write to SQLite is a  *)
(* transaction of its own, so the process may die, or the write may raise, *)
(* between any two of them.                                                *)
(*                                                                         *)
(* Abstracted: time is counted in minutes and a minute bar is the lowest   *)
(* price level it reaches (only longs exist, and a bar's high reaches      *)
(* every zone); a zone is three levels: top = limit price, bottom =        *)
(* invalidation, stop = the doubled stop of the arm; what decides whether  *)
(* a price at the limit fills (the band, the exit rule) and whether a fill *)
(* is entered (rotation, %K, stop floor, crowding, sizing) is a            *)
(* nondeterministic verdict; a trade is worth one unit of money; lists of  *)
(* orders are visited in any order.  Zones are tapped once, as the arm     *)
(* demands, exist from the start and stay in the detection window.  The    *)
(* minutes of the cell have no holes, and a higher-timeframe bar is stored *)
(* when its last minute closes.  The wall clock moves between polls.       *)
(***************************************************************************)
EXTENDS Integers, FiniteSets

CONSTANTS
  Zones,            \* the order blocks of the cell
  Top, Bottom, Stop,\* their price levels
  Lows,             \* the levels a minute bar may reach
  BarMinutes,       \* minutes in one higher-timeframe bar
  LimitValidBars,   \* bars an order stays valid
  HoldBars,         \* bars a position is held before the time exit
  CatchupMax,       \* longest outage that is replayed, in minutes
  Grace,            \* minutes the wall clock waits beyond a deadline
  Verdicts,         \* what a price at the limit may make of an order
  MinutesLag,       \* may the minutes be stored later than the bar they close?
  MaxMinute,        \* bound: last minute bar of the market
  MaxNow,           \* bound: last value of the wall clock
  MaxRows,          \* bound: rows of the journal
  MaxCrashes,       \* bound: crashes of the process
  MaxFailures       \* bound: writes that raise

None == -1
Rows == 1..MaxRows

ASSUME ZonesAssumption ==
  /\ IsFiniteSet(Zones)
  /\ Lows \subseteq Nat
  /\ Top \in [Zones -> Nat] /\ Bottom \in [Zones -> Nat] /\ Stop \in [Zones -> Nat]

ASSUME TimeAssumption ==
  /\ BarMinutes \in Nat \ {0} /\ LimitValidBars \in Nat \ {0} /\ HoldBars \in Nat
  /\ CatchupMax \in Nat /\ Grace \in Nat
  /\ MaxMinute \in Nat /\ MaxNow \in Nat
  /\ MaxRows \in Nat /\ MaxCrashes \in Nat /\ MaxFailures \in Nat

ASSUME VerdictsAssumption ==
  /\ Verdicts \subseteq {"pending", "filled", "cancelled_condition_failed"}
  /\ MinutesLag \in BOOLEAN

VARIABLES
  now,      \* the wall clock: minutes 0 .. now - 1 have closed
  tape,     \* the lows of the minutes that still matter
  past,     \* what the forgotten minutes did to the zones
  journal,  \* live_limit_orders
  nextRow,  \* the id the next row gets
  snap,     \* live_engine_state: the row of the cell, if any
  written,  \* EngineStateStore._last_written: the row it remembers, if any
  openPos,  \* open_positions: the row of the cell, if any
  trades,   \* paper_trades
  pc,       \* what the runner does next
  cursor,   \* the runner's _last_substep
  minute,   \* the minute bar being consumed, if any
  eng,      \* the engine's _SeriesState
  visit,    \* the orders a loop has yet to visit, or the fill being handled
  fills,    \* the fills of the minute that are yet to be handled
  closing,  \* the settled position yet to be written to the ledger, if any
  book,     \* the execution engine's position in the cell, if any
  equity,   \* the wallet, in settled trades
  crashes, failures

durable == <<journal, nextRow, snap, openPos, trades>>
loops   == <<visit, fills, closing>>
wallet  == <<book, equity>>
world   == <<now, tape, past, crashes, written>>
vars    == <<durable, loops, wallet, world, failures, pc, cursor, minute, eng>>

------------------------------------------------------------------------------
(* Values. *)

Bar(m) == m \div BarMinutes

Status == {"pending", "filled", "cancelled_expired", "cancelled_invalidated",
           "cancelled_condition_failed"}

Row      == [status : Status \cup {"none", "discarded_restart"},
             entry  : {"null", "entered", "rejected"}, placed : Int]
Order    == [row : 0..MaxRows, zone : Zones, placed : Int, elapsed : Int, status : Status]
Position == [row : 0..MaxRows, zone : Zones, entry : Int]
Trade    == [row : 0..MaxRows, entry : Int, exit : Int]
Engine   == [forming : Int, low : Int, last : Int, htf : Int, tapBar : [Zones -> Int],
             orders : SUBSET Order]

NoEngine == [forming |-> None, low |-> None, last |-> None, htf |-> None,
             tapBar |-> [z \in Zones |-> None], orders |-> {}]

Pc == {"down", "boot", "idle", "feed", "commit", "arm", "price", "handle", "judge", "open",
       "entered", "rejected", "entered_fallback", "rejected_fallback", "persist", "remove",
       "save", "overdue"}

Pending(o) == o.status = "pending"
PendingRows == {r \in Rows : journal[r].status = "pending"}
RowsOf(orders) == {o.row : o \in orders} \ {0}

Deadline(placed) == (Bar(placed) + LimitValidBars) * BarMinutes
(* Mutants of Overdue: before the deadline; never.                          *)
OverdueEarly(o) == now + Grace >= Deadline(o.placed)
OverdueNever(o) == FALSE
Overdue(o) == now >= Deadline(o.placed) + Grace

(* Minutes 0 .. Closed - 1 are in the market's data; LastBar is its last    *)
(* closed bar.                                                              *)
Closed  == IF now <= MaxMinute THEN now ELSE MaxMinute + 1
LastBar == Bar(Closed) - 1

(* The minute after the cursor or, for a cell that has consumed none, the   *)
(* first of the bar now forming.                                            *)
NextMinute == IF cursor = None THEN Bar(Closed) * BarMinutes ELSE cursor + 1

(* What the detector finds in a window that ends with bar h.                *)
Until(h)  == {m \in DOMAIN tape : Bar(m) <= h}
Gone(h)   == past.gone \cup {z \in Zones : \E m \in Until(h) : tape[m] < Bottom[z]}
Tapped(h) == past.tapped \cup {z \in Zones : \E m \in Until(h) : tape[m] <= Top[z]}

Low == tape[minute]

------------------------------------------------------------------------------
Init ==
  /\ now = BarMinutes /\ tape = [m \in {} |-> 0]
  /\ past = [gone |-> {}, tapped |-> {}]
  /\ journal = [r \in Rows |-> [status |-> "none", entry |-> "null", placed |-> None]]
  /\ nextRow = 1
  /\ snap = {} /\ written = {} /\ openPos = {} /\ trades = {}
  /\ pc = "idle" /\ cursor = None /\ minute = None /\ eng = NoEngine
  /\ visit = {} /\ fills = {} /\ closing = {}
  /\ book = {} /\ equity = 0
  /\ crashes = 0 /\ failures = 0

(* The market closes a minute; past MaxMinute the collector is silent.      *)
Tick ==
  /\ pc \in {"idle", "down"} /\ now < MaxNow
  /\ now' = now + 1
  /\ IF now <= MaxMinute
     THEN \E l \in Lows :
            tape' = [m \in DOMAIN tape \cup {now} |-> IF m = now THEN l ELSE tape[m]]
     ELSE UNCHANGED tape
  /\ UNCHANGED <<past, crashes, written, durable, loops, wallet, failures, pc, cursor, minute,
                 eng>>

(* A write commits, or raises.                                              *)
Attempt(ok) ==
  \/ ok /\ UNCHANGED failures
  \/ ~ok /\ failures < MaxFailures /\ failures' = failures + 1

(* poll_once catches what poll_series raises and goes on with the wall-     *)
(* clock expiry: the rest of the minute is lost, the memory stays.          *)
Abort ==
  /\ pc' = "overdue" /\ minute' = None
  /\ visit' = {} /\ fills' = {} /\ closing' = {}

Marked(r, status) ==
  IF r = 0 THEN journal ELSE [journal EXCEPT ![r].status = status]

Swap(o, o2) == [eng EXCEPT !.orders = (@ \ {o}) \cup {o2}]

(* One step of a loop over the orders: o becomes o2, is marked in the       *)
(* journal when that ended it, and record_cancelled raises for an order     *)
(* that memory already holds as filled.                                     *)
Settled(o, o2, ok) ==
  LET raises == o.row # 0 /\ (o.status = "filled" \/ ~ok) IN
  /\ Attempt(ok) /\ (o.row = 0 \/ o.status = "filled" => ok)
  /\ eng' = Swap(o, o2)
  /\ IF raises
     THEN Abort /\ UNCHANGED journal
     ELSE /\ journal' = IF Pending(o2) THEN journal ELSE Marked(o2.row, o2.status)
          /\ visit' = visit \ {o}
          /\ UNCHANGED <<pc, minute, fills, closing>>

------------------------------------------------------------------------------
(* poll_series: the window of closed bars, then the minute.                 *)

FeedTarget == IF minute = None THEN LastBar ELSE Bar(minute) - 1

BeginFeed(h) ==
  /\ visit' = IF eng.htf < h THEN {o \in eng.orders : o.zone \in Gone(h)} ELSE {}
  /\ pc' = "feed"
  /\ UNCHANGED <<durable, world, wallet, failures, cursor, eng, fills, closing>>

(* Mutant: the bar whose last minute this is counts as closed (the rule     *)
(* before WAN-451).                                                         *)
BeginMinuteEager ==
  /\ pc = "idle" /\ NextMinute \in DOMAIN tape
  /\ minute' = NextMinute
  /\ BeginFeed(Bar(NextMinute + 1) - 1)

BeginMinute ==
  /\ pc = "idle" /\ NextMinute \in DOMAIN tape
  /\ minute' = NextMinute
  /\ BeginFeed(Bar(NextMinute) - 1)

(* No minute is left, or none has been stored yet: the latest bars anyway.  *)
BeginTail ==
  /\ pc = "idle" /\ (MinutesLag \/ NextMinute \notin DOMAIN tape)
  /\ UNCHANGED minute
  /\ BeginFeed(LastBar)

CancelInvalidated(o, ok) ==
  /\ pc = "feed" /\ o \in visit
  /\ Settled(o, IF Pending(o) THEN [o EXCEPT !.status = "cancelled_invalidated"] ELSE o, ok)
  /\ UNCHANGED <<nextRow, snap, openPos, trades, wallet, world, cursor>>

(* The minute is the first of a new bar: the bar before it is committed,    *)
(* unless a whole bar was skipped.                                          *)
Boundary ==
  /\ minute # None /\ eng.forming # None /\ eng.last # None
  /\ Bar(minute) # eng.forming

(* A whole bar lies between the minute and the one consumed before it: the  *)
(* first minute of the cell failed after its prices were judged, so the     *)
(* runner has no cursor, and its next minute came more than a bar later.    *)
Skipped == Boundary /\ Bar(minute) > eng.forming + 1

EndFeed ==
  /\ pc = "feed" /\ visit = {}
  /\ LET h == IF FeedTarget > eng.htf THEN FeedTarget ELSE eng.htf
         alive == {o \in eng.orders : o.zone \notin Gone(h)}
     IN  /\ eng' = [eng EXCEPT !.htf = h, !.orders = alive]
         /\ visit' = IF Boundary THEN alive ELSE {}
  /\ pc' = IF minute = None THEN "overdue" ELSE "commit"
  /\ UNCHANGED <<durable, fills, closing, wallet, world, failures, cursor, minute>>

(* Mutant: > for >=.                                                        *)
CommitOrderLate(o, ok) ==
  /\ pc = "commit" /\ o \in visit
  /\ Settled(o, [o EXCEPT !.elapsed = @ + 1,
                          !.status = IF o.elapsed + 1 > LimitValidBars
                                     THEN "cancelled_expired" ELSE @], ok)
  /\ UNCHANGED <<nextRow, snap, openPos, trades, wallet, world, cursor>>

CommitOrder(o, ok) ==
  /\ pc = "commit" /\ ~Skipped /\ o \in visit
  /\ LET o2 == IF ~Pending(o) THEN o
               ELSE [o EXCEPT !.elapsed = @ + 1,
                              !.status = IF o.elapsed + 1 >= LimitValidBars
                                         THEN "cancelled_expired" ELSE @]
     IN  Settled(o, o2, ok)
  /\ UNCHANGED <<nextRow, snap, openPos, trades, wallet, world, cursor>>

(* Mutant: the journal is not told.                                         *)
DiscardOrderUntold(o, ok) ==
  /\ pc = "commit" /\ Skipped /\ o \in visit
  /\ ok /\ visit' = visit \ {o}
  /\ UNCHANGED <<durable, fills, closing, wallet, world, failures, pc, cursor, minute, eng>>

(* What the missed bar did to an order nobody knows, so it is given up,     *)
(* whatever its status; memory drops the orders when all are recorded.      *)
DiscardOrder(o, ok) ==
  /\ pc = "commit" /\ Skipped /\ o \in visit
  /\ Attempt(ok) /\ (o.row = 0 => ok)
  /\ IF ok
     THEN /\ journal' = Marked(o.row, "discarded_restart")
          /\ visit' = visit \ {o}
          /\ UNCHANGED <<pc, minute, fills, closing>>
     ELSE Abort /\ UNCHANGED journal
  /\ UNCHANGED <<nextRow, snap, openPos, trades, wallet, world, cursor, eng>>

EndCommit ==
  /\ pc = "commit" /\ visit = {}
  /\ eng' = [eng EXCEPT !.forming = Bar(minute),
                        !.low = IF eng.forming = Bar(minute) /\ @ # None /\ @ < Low
                                THEN @ ELSE Low,
                        !.orders = {o \in @ : ~Skipped /\ (Boundary => Pending(o))}]
  /\ pc' = "arm"
  /\ UNCHANGED <<durable, loops, wallet, world, failures, cursor, minute>>

(* The zones the forming bar has come into and that no order was tried for. *)
Tapping == {z \in Zones \ (Gone(eng.htf) \cup Tapped(eng.htf)) :
              eng.low <= Top[z] /\ eng.tapBar[z] # eng.forming}

(* The order is in memory before its row is in the journal: when            *)
(* record_placed raises it stays there without a row (row 0).               *)
ArmZone(z, ok) ==
  /\ pc = "arm" /\ z \in Tapping /\ nextRow <= MaxRows
  /\ Attempt(ok)
  /\ eng' = [eng EXCEPT !.tapBar[z] = eng.forming,
                        !.orders = @ \cup {[row |-> IF ok THEN nextRow ELSE 0, zone |-> z,
                                            placed |-> minute, elapsed |-> 0,
                                            status |-> "pending"]}]
  /\ IF ok
     THEN /\ journal' = [journal EXCEPT ![nextRow] =
                           [status |-> "pending", entry |-> "null", placed |-> minute]]
          /\ nextRow' = nextRow + 1
          /\ UNCHANGED <<pc, minute, loops>>
     ELSE Abort /\ UNCHANGED <<journal, nextRow>>
  /\ UNCHANGED <<snap, openPos, trades, wallet, world, cursor>>

EndArm ==
  /\ pc = "arm" /\ Tapping = {}
  /\ visit' = eng.orders
  /\ pc' = "price"
  /\ UNCHANGED <<durable, fills, closing, wallet, world, failures, cursor, minute, eng>>

(* A price beyond the limit fills the order, ends it, or finds no limit on  *)
(* the book; a price short of it changes nothing.                           *)
Reached(o) == Pending(o) /\ Low < Top[o.zone]

KeepOrder(o) ==
  /\ pc = "price" /\ o \in visit
  /\ Pending(o) /\ (Reached(o) => "pending" \in Verdicts)
  /\ visit' = visit \ {o}
  /\ UNCHANGED <<durable, fills, closing, wallet, world, failures, pc, cursor, minute, eng>>

FillOrder(o, ok) ==
  /\ pc = "price" /\ o \in visit
  /\ Reached(o) /\ "filled" \in Verdicts
  /\ LET o2 == [o EXCEPT !.status = "filled"]
     IN  \/ /\ ok /\ UNCHANGED failures
            /\ journal' = Marked(o.row, "filled")
            /\ eng' = Swap(o, o2) /\ visit' = visit \ {o} /\ fills' = fills \cup {o2}
            /\ UNCHANGED <<closing, pc, minute>>
         \/ ~ok /\ Settled(o, o2, ok)
  /\ UNCHANGED <<nextRow, snap, openPos, trades, wallet, world, cursor>>

EndOrder(o, ok) ==
  /\ pc = "price" /\ o \in visit
  /\ \/ ~Pending(o) /\ Settled(o, o, ok)
     \/ /\ Reached(o) /\ "cancelled_condition_failed" \in Verdicts
        /\ Settled(o, [o EXCEPT !.status = "cancelled_condition_failed"], ok)
  /\ UNCHANGED <<nextRow, snap, openPos, trades, wallet, world, cursor>>

EndPrice ==
  /\ pc = "price" /\ visit = {}
  /\ eng' = [eng EXCEPT !.orders = {o \in @ : Pending(o)}, !.last = minute]
  /\ pc' = "handle"
  /\ UNCHANGED <<durable, loops, wallet, world, failures, cursor, minute>>

------------------------------------------------------------------------------
(* _handle_events, then _check_exits.                                       *)

StopHit(p) == Low <= Stop[p.zone]
(* Mutant: the exit waits for the boundary itself. *)
TimeExitLate(p) == minute >= (Bar(p.entry) + HoldBars) * BarMinutes
TimeExit(p) == minute + 1 >= (Bar(p.entry) + HoldBars) * BarMinutes

(* Mutant: the wallet is not credited.                                      *)
SettleForFree == closing' = book /\ book' = {} /\ pc' = "persist" /\ UNCHANGED equity

(* The engine settles the position in memory before anything is written.    *)
Settle ==
  /\ closing' = book /\ book' = {} /\ equity' = equity + 1
  /\ pc' = "persist"

(* A fill is recorded as a signal; then a stop the price passed on its way  *)
(* to the new limit is settled first.                                       *)
TakeFill(o, ok) ==
  /\ pc = "handle" /\ o \in fills
  /\ Attempt(ok)
  /\ IF ok
     THEN /\ fills' = fills \ {o} /\ visit' = {o}
          /\ IF \E p \in book : StopHit(p) /\ Top[o.zone] <= Stop[p.zone]
             THEN Settle
             ELSE pc' = "judge" /\ UNCHANGED <<closing, wallet>>
          /\ UNCHANGED minute
     ELSE Abort /\ UNCHANGED wallet
  /\ UNCHANGED <<durable, world, cursor, eng>>

(* Mutant: the cell need not be empty.                                      *)
JudgeBusy(o) ==
  /\ pc = "judge" /\ o \in visit
  /\ \/ pc' = "rejected" /\ UNCHANGED book
     \/ /\ book' = book \cup {[row |-> o.row, zone |-> o.zone, entry |-> minute]}
        /\ pc' = "open"
  /\ UNCHANGED <<durable, loops, equity, world, failures, cursor, minute, eng>>

(* The gates refuse the fill, or the engine opens the position: only when   *)
(* the cell is empty.                                                       *)
Judge(o) ==
  /\ pc = "judge" /\ o \in visit
  /\ \/ pc' = "rejected" /\ UNCHANGED book
     \/ /\ book = {}
        /\ book' = {[row |-> o.row, zone |-> o.zone, entry |-> minute]}
        /\ pc' = "open"
  /\ UNCHANGED <<durable, loops, equity, world, failures, cursor, minute, eng>>

(* When record_open raises, `report` is still None: the finally clause      *)
(* writes the fill off as rejected.                                         *)
RecordOpen(ok) ==
  /\ pc = "open"
  /\ Attempt(ok)
  /\ IF ok THEN openPos' = book /\ pc' = "entered"
           ELSE UNCHANGED openPos /\ pc' = "rejected_fallback"
  /\ UNCHANGED <<journal, nextRow, snap, trades, loops, wallet, world, cursor, minute, eng>>

(* Mutants: the flag is inverted; refusals are not recorded.                *)
JudgedInverted(r, verdict) ==
  [journal EXCEPT ![r].entry = IF verdict = "entered" THEN "rejected" ELSE "entered"]
JudgedEntriesOnly(r, verdict) ==
  IF verdict = "entered" THEN [journal EXCEPT ![r].entry = verdict] ELSE journal

Judged(r, verdict) == IF r = 0 THEN journal ELSE [journal EXCEPT ![r].entry = verdict]

RecordEntryResult(o, ok) ==
  /\ pc \in {"entered", "rejected"} /\ o \in visit
  /\ Attempt(ok)
  /\ IF ok
     THEN /\ journal' = Judged(o.row, pc)
          /\ pc' = "handle" /\ visit' = {}
     ELSE /\ o.row # 0
          /\ pc' = IF pc = "entered" THEN "entered_fallback" ELSE "rejected_fallback"
          /\ UNCHANGED <<journal, visit>>
  /\ UNCHANGED <<nextRow, snap, openPos, trades, fills, closing, wallet, world, cursor,
                 minute, eng>>

(* The finally clause writes the verdict once more and lets the exception   *)
(* pass; its own failure is swallowed.                                      *)
Fallback(o, ok) ==
  /\ pc \in {"entered_fallback", "rejected_fallback"} /\ o \in visit
  /\ Attempt(ok)
  /\ journal' = IF ok THEN Judged(o.row, IF pc = "entered_fallback" THEN "entered"
                                                                    ELSE "rejected")
                      ELSE journal
  /\ Abort
  /\ UNCHANGED <<nextRow, snap, openPos, trades, wallet, world, cursor, eng>>

(* Mutant: no time exit.                                                    *)
CheckStopsOnly ==
  /\ pc = "handle" /\ fills = {}
  /\ IF \E p \in book : StopHit(p)
     THEN Settle
     ELSE pc' = "save" /\ UNCHANGED <<closing, wallet>>
  /\ UNCHANGED <<durable, visit, fills, world, failures, cursor, minute, eng>>

CheckExits ==
  /\ pc = "handle" /\ fills = {}
  /\ IF \E p \in book : StopHit(p) \/ TimeExit(p)
     THEN Settle
     ELSE pc' = "save" /\ UNCHANGED <<closing, wallet>>
  /\ UNCHANGED <<durable, visit, fills, world, failures, cursor, minute, eng>>

(* The row of (symbol, timeframe, entry_time, exit_time) is replaced.       *)
Upsert(t) == {u \in trades : <<u.entry, u.exit>> # <<t.entry, t.exit>>} \cup {t}

(* What persist raises is swallowed.                                        *)
PersistTrade(p, ok) ==
  /\ pc = "persist" /\ p \in closing
  /\ Attempt(ok)
  /\ trades' = IF ok THEN Upsert([row |-> p.row, entry |-> p.entry, exit |-> minute])
                     ELSE trades
  /\ closing' = {}
  /\ pc' = "remove"
  /\ UNCHANGED <<journal, nextRow, snap, openPos, visit, fills, wallet, world, cursor,
                 minute, eng>>

RemoveOpen(ok) ==
  /\ pc = "remove"
  /\ Attempt(ok)
  /\ IF ok
     THEN /\ openPos' = {}
          /\ pc' = IF visit = {} THEN "save" ELSE "judge"
          /\ UNCHANGED <<minute, loops>>
     ELSE Abort /\ UNCHANGED openPos
  /\ UNCHANGED <<journal, nextRow, snap, trades, wallet, world, cursor, eng>>

------------------------------------------------------------------------------
(* The snapshot, the wall clock and the restart.                            *)

(* Mutant: the forming bar's low is not saved.                              *)
SnapshotWithoutLow == {[cursor |-> eng.last, eng |-> [eng EXCEPT !.low = None]]}

(* snapshot_series keeps of an order all but its status.                    *)
Snapshot == {[cursor |-> eng.last,
              eng |-> [eng EXCEPT !.orders = {[o EXCEPT !.status = "pending"] : o \in @}]]}

(* A write whose content is the one last committed is skipped; only a       *)
(* commit is remembered.                                                    *)
Store ==
  IF written = Snapshot
  THEN UNCHANGED <<snap, written>>
  ELSE snap' = Snapshot /\ written' = Snapshot

(* Minutes of closed bars before the saved minute are forgotten: the zones  *)
(* remember what they did.                                                  *)
Forget(m) ==
  LET h == Bar(m) - 1 IN
  /\ past' = [gone |-> Gone(h), tapped |-> Tapped(h)]
  /\ tape' = [n \in DOMAIN tape \ Until(h) |-> tape[n]]

(* Mutant: the content is remembered before it is committed.                *)
SaveStateRemembersFirst(ok) ==
  /\ pc = "save"
  /\ Attempt(ok)
  /\ cursor' = minute
  /\ IF ok
     THEN /\ Store
          /\ Forget(minute)
          /\ pc' = "idle" /\ minute' = None
          /\ UNCHANGED loops
     ELSE Abort /\ written' = Snapshot /\ UNCHANGED <<snap, tape, past>>
  /\ UNCHANGED <<journal, nextRow, openPos, trades, wallet, now, crashes, eng>>

SaveState(ok) ==
  /\ pc = "save"
  /\ Attempt(ok)
  /\ cursor' = minute
  /\ IF ok
     THEN /\ Store
          /\ Forget(minute)
          /\ pc' = "idle" /\ minute' = None
          /\ UNCHANGED loops
     ELSE Abort /\ UNCHANGED <<snap, written, tape, past>>
  /\ UNCHANGED <<journal, nextRow, openPos, trades, wallet, now, crashes, eng>>

(* record_cancelled is told "expired", whatever the order's own status. A   *)
(* failure here leaves poll_once and ends the process: it is a crash.       *)
ExpireOverdue(o) ==
  /\ pc = "overdue" /\ o \in eng.orders /\ Overdue(o)
  /\ journal' = Marked(o.row, "cancelled_expired")
  /\ eng' = [eng EXCEPT !.orders = @ \ {o}]
  /\ UNCHANGED <<nextRow, snap, openPos, trades, loops, wallet, world, failures, pc, cursor,
                 minute>>

EndPoll ==
  /\ pc = "overdue" /\ ~\E o \in eng.orders : Overdue(o)
  /\ IF eng.last # None /\ eng.htf # None THEN Store ELSE UNCHANGED <<snap, written>>
  /\ pc' = "idle"
  /\ UNCHANGED <<journal, nextRow, openPos, trades, loops, wallet, now, tape, past, crashes,
                 failures, cursor, minute, eng>>

Crash ==
  /\ pc # "down" /\ crashes < MaxCrashes
  /\ crashes' = crashes + 1
  /\ pc' = "down" /\ cursor' = None /\ minute' = None /\ eng' = NoEngine
  /\ visit' = {} /\ fills' = {} /\ closing' = {} /\ book' = {} /\ equity' = 0
  /\ written' = {}
  /\ UNCHANGED <<durable, now, tape, past, failures>>

(* Mutants: the journal is not asked; the orders start to wait anew.        *)
RestoredBlindly(s) == s.eng
RestoredAnew(s) ==
  [s.eng EXCEPT !.orders = {[o EXCEPT !.elapsed = 0] :
     o \in {p \in @ : p.zone \notin Gone(s.eng.htf) /\ p.row \in PendingRows \cup {0}}}]

(* The orders of the snapshot whose zone still lives and whose row, if they *)
(* have one, is still pending.                                              *)
Restored(s) ==
  [s.eng EXCEPT !.orders = {o \in @ : o.zone \notin Gone(s.eng.htf)
                                      /\ o.row \in PendingRows \cup {0}}]

(* Mutant: the open position is not restored.                               *)
BootWithoutPosition ==
  /\ pc = "down"
  /\ pc' = "boot"
  /\ equity' = Cardinality(trades)
  /\ IF \E s \in snap : now - s.cursor <= CatchupMax
     THEN \E s \in snap : cursor' = s.cursor /\ eng' = Restored(s) /\ UNCHANGED snap
     ELSE cursor' = None /\ eng' = NoEngine /\ snap' = {}
  /\ UNCHANGED <<book, journal, nextRow, openPos, trades, loops, world, failures, minute>>

Boot ==
  /\ pc = "down"
  /\ pc' = "boot"
  /\ book' = openPos /\ equity' = Cardinality(trades)
  /\ IF \E s \in snap : now - s.cursor <= CatchupMax
     THEN \E s \in snap : cursor' = s.cursor /\ eng' = Restored(s) /\ UNCHANGED snap
     ELSE cursor' = None /\ eng' = NoEngine /\ snap' = {}
  /\ UNCHANGED <<journal, nextRow, openPos, trades, loops, world, failures, minute>>

Stale == PendingRows \ RowsOf(eng.orders)
PastDeadline(r) == Deadline(journal[r].placed) <= now

ExpireStale(r) ==
  /\ pc = "boot" /\ r \in Stale /\ PastDeadline(r)
  /\ journal' = [journal EXCEPT ![r].status = "cancelled_expired"]
  /\ UNCHANGED <<nextRow, snap, openPos, trades, loops, wallet, world, failures, pc, cursor,
                 minute, eng>>

(* Mutant: nothing is discarded.                                            *)
DiscardNothing ==
  /\ pc = "boot" /\ ~\E r \in Stale : PastDeadline(r)
  /\ pc' = "idle"
  /\ UNCHANGED <<durable, loops, wallet, world, failures, cursor, minute, eng>>

DiscardStale ==
  /\ pc = "boot" /\ ~\E r \in Stale : PastDeadline(r)
  /\ journal' = [r \in Rows |-> IF r \in Stale
                                THEN [journal[r] EXCEPT !.status = "discarded_restart"]
                                ELSE journal[r]]
  /\ pc' = "idle"
  /\ UNCHANGED <<nextRow, snap, openPos, trades, loops, wallet, world, failures, cursor,
                 minute, eng>>

------------------------------------------------------------------------------
Poll ==
  \/ BeginMinute \/ BeginTail \/ EndFeed \/ EndCommit \/ EndArm \/ EndPrice
  \/ CheckExits \/ EndPoll
  \/ \E ok \in BOOLEAN :
       \/ \E o \in visit :
            \/ CancelInvalidated(o, ok) \/ CommitOrder(o, ok) \/ DiscardOrder(o, ok)
            \/ FillOrder(o, ok) \/ EndOrder(o, ok)
            \/ RecordEntryResult(o, ok) \/ Fallback(o, ok)
       \/ \E z \in Zones : ArmZone(z, ok)
       \/ \E o \in fills : TakeFill(o, ok)
       \/ \E p \in closing : PersistTrade(p, ok)
       \/ RecordOpen(ok) \/ RemoveOpen(ok) \/ SaveState(ok)
  \/ \E o \in visit : KeepOrder(o) \/ Judge(o)
  \/ \E o \in eng.orders : ExpireOverdue(o)

Start ==
  \/ Boot \/ DiscardStale
  \/ \E r \in Rows : ExpireStale(r)

Next == Tick \/ Poll \/ Start \/ Crash

Spec == Init /\ [][Next]_vars

(* The operating system runs the process and its supervisor starts it       *)
(* again.  The runner sleeps between polls, so the clock moves on.          *)
(* Nothing is assumed of crashes.                                           *)
Fairness == WF_vars(Poll) /\ WF_vars(Start) /\ SF_vars(Tick)
FairSpec == Spec /\ Fairness

------------------------------------------------------------------------------
(* Every variable has its type, and the rows and slots that exist once per  *)
(* cell (snapshot, open position, the engine's book) hold at most one.      *)
TypeOK ==
  /\ now \in Nat /\ crashes \in Nat /\ failures \in Nat
  /\ DOMAIN tape \subseteq Nat /\ \A m \in DOMAIN tape : tape[m] \in Lows
  /\ past \in [gone : SUBSET Zones, tapped : SUBSET Zones]
  /\ journal \in [Rows -> Row] /\ nextRow \in 1..(MaxRows + 1)
  /\ snap \subseteq [cursor : Int, eng : Engine] /\ written \subseteq [cursor : Int, eng : Engine]
  /\ openPos \subseteq Position /\ trades \subseteq Trade
  /\ pc \in Pc /\ cursor \in Int /\ minute \in Int /\ eng \in Engine
  /\ visit \subseteq Order /\ fills \subseteq Order
  /\ closing \subseteq Position /\ book \subseteq Position /\ equity \in Nat
  /\ \A S \in {snap, openPos, closing, book} : \A x, y \in S : x = y

------------------------------------------------------------------------------
(* The journal keeps its promise: an order is placed once, resolved once,   *)
(* and only a fill is judged, once (record_placed, record_filled,           *)
(* record_cancelled, record_entry_result, discard_stale_pending).           *)
life == [r \in Rows |->
  CASE journal[r].status \in {"none", "pending"} -> journal[r].status
    [] journal[r].status = "filled" /\ journal[r].entry = "null" -> "filled"
    [] journal[r].status = "filled" /\ journal[r].entry # "null" -> journal[r].entry
    [] OTHER -> "closed"]
Journal == INSTANCE OrderLifecycle WITH Rows <- Rows, life <- life
ImplementsOrderLifecycle == Journal!Spec

(* Between polls no pending row is forgotten: the engine holds an order for *)
(* each, so that something will end it (restore_state, expire_stale_pending *)
(* and discard_stale_pending divide the rows of a dead session).            *)
PendingRowsAreTracked == pc = "idle" => PendingRows \subseteq RowsOf(eng.orders)

(* A stop between two polls loses nothing: what restore_state would rebuild *)
(* from the snapshot and the journal is the state in memory (live.          *)
(* engine_state: "as if it had never been interrupted").                    *)
StopIsInvisible ==
  pc = "idle" =>
    IF eng.last = None THEN snap = {}
    ELSE snap # {} /\ \A s \in snap : s.cursor = cursor /\ Restored(s) = eng

(* Between polls the database holds the state the runner would save now,    *)
(* also after a write that raised: no skipped write was needed              *)
(* (EngineStateStore.save remembers only what it committed).                *)
StoreIsCurrent == pc = "idle" /\ written # {} => snap = Snapshot

(* Between polls the engine's book is what open_positions says.             *)
BookMatchesStore == pc = "idle" => book = openPos

(* The bars an order has waited are the bars that have begun since it was   *)
(* placed, whatever restarts and replays lie between (on_bar_close and the  *)
(* wall clock must agree on the deadline).                                  *)
ElapsedCountsBars ==
  pc = "idle" => \A o \in eng.orders :
    /\ o.elapsed = eng.forming - Bar(o.placed)
    /\ o.elapsed < LimitValidBars

(* An order fills only by a minute of its life, also when the minute is     *)
(* replayed long after the deadline has passed on the wall clock.           *)
FillsAreTimely ==
  [][\A r \in Rows : journal[r].status = "pending" /\ journal'[r].status = "filled"
       => journal[r].placed <= minute /\ minute < Deadline(journal[r].placed)]_vars

(* No order is recorded as expired before its deadline (expiry_deadline_ms: *)
(* counting bars and reading the clock give the same time).                 *)
ExpiryIsNotEarly ==
  [][\A r \in Rows : journal[r].status = "pending" /\ journal'[r].status = "cancelled_expired"
       => now >= Deadline(journal[r].placed)]_vars

(* An order lives through the last minute of the bar that breaks its zone:  *)
(* it is invalidated only when that bar's minutes have been consumed        *)
(* (poll_series, WAN-451).                                                  *)
LastMinuteIsJudged ==
  [][\A o \in eng.orders :
       o.row # 0 /\ journal[o.row].status = "pending"
         /\ journal'[o.row].status = "cancelled_invalidated"
       => o.zone \in Gone(Bar(eng.last + 1) - 1)]_vars

(* What was opened was not written off: neither the position nor the trade  *)
(* of a row the journal calls rejected exists (_handle_fill's finally).     *)
RejectedHoldsNothing ==
  \A p \in openPos \cup book \cup closing \cup trades :
    p.row # 0 => journal[p.row].status = "filled" /\ journal[p.row].entry # "rejected"

(* As long as no write has failed, between polls every fill has its verdict *)
(* (WAN-194: a fill that never becomes a trade or a refusal is the loss the *)
(* journal exists to prevent).                                              *)
FillsAreJudged == failures = 0 /\ pc = "idle" =>
  \A r \in Rows : journal[r].status = "filled" => journal[r].entry # "null"

(* As long as no write has failed, between polls the wallet is what the     *)
(* trade ledger sums up to (_restore_equity would restore the same equity). *)
WalletIsLedger == failures = 0 /\ pc = "idle" => equity = Cardinality(trades)

(* A fill is in the ledger at most once, restarts and replays included.     *)
OneTradePerFill == \A t, u \in trades : t.row = u.row => t = u

(* A row of the ledger is never replaced by the trade of another fill: the  *)
(* primary key names a trade.                                               *)
KeyNamesATrade ==
  [][\A t \in trades : \E u \in trades' : u.row = t.row]_vars

(* As long as no write has failed, a position is held no longer than the    *)
(* minute before its time exit.                                             *)
HoldIsBounded == failures = 0 =>
  /\ \A t \in trades : t.exit < (Bar(t.entry) + HoldBars) * BarMinutes
  /\ pc = "idle" => \A p \in openPos :
       cursor # None /\ cursor + 1 < (Bar(p.entry) + HoldBars) * BarMinutes

(* Every order is resolved in the end, even when the market falls silent    *)
(* and the process dies (expire_overdue, WAN-298).                          *)
OrdersAreResolved ==
  \A r \in Rows : journal[r].status = "pending" ~> journal[r].status # "pending"

(* Every position whose time exit the market reaches, with a minute to come *)
(* yet, is closed, even when a write of its cell has failed (_check_exits). *)
PositionsAreClosed ==
  \A e \in {m \in 0..MaxMinute : (Bar(m) + HoldBars) * BarMinutes <= MaxMinute + 1} :
    now <= MaxMinute /\ (\E p \in book : p.entry = e) ~> (\A p \in book : p.entry # e)
=============================================================================
