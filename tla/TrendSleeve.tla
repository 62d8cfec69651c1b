----------------------------- MODULE TrendSleeve -----------------------------
(***************************************************************************)
(* The trend sleeve (engine C) inside the paper runner.  Once a daily bar  *)
(* has closed, the poll settles what each asset held since its last row of *)
(* the ledger, with the funding of that time, trades to the new target,    *)
(* adds the row's result to the common wallet, and after the last asset    *)
(* marks the wallet's equity.  Another process stores bars and funding     *)
(* rates.  A read or a write may raise, which ends the tick, and the       *)
(* runner may die between any two writes.                                  *)
(*                                                                         *)
(* Abstracted: time is counted in days, and the settlement of funding that *)
(* matters is the one at the first instant of a day, where two windows     *)
(* meet.  A row stands for its money: it names the interval and the        *)
(* quantity that are settled, and the funding rows that are charged; the   *)
(* wallet counts how often each row is in it.  A target is any quantity.   *)
(* The messages, and the memory of which failure was told, are left out.   *)
(* A tick uses the time it began at and reads the data of an asset once:   *)
(* what changes during a tick is as if it had changed before or after it.  *)
(***************************************************************************)
EXTENDS Integers, FiniteSets, Sequences

CONSTANTS
  Assets,      \* the sleeve's assets, in the order of the tick
  Funded,      \* those whose funding rates are collected
  Quantities,  \* the quantities a target of each asset may be
  LastDay,     \* bound: the last day that is traded
  MaxFaults    \* bound: ticks that raise and deaths of the runner

Names == {Assets[i] : i \in 1..Len(Assets)}
Never == -1
Days  == 0..LastDay

ASSUME SleeveAssumption ==
  /\ Assets \in Seq(Names) /\ Funded \subseteq Names
  /\ DOMAIN Quantities = Names
  /\ LastDay \in Nat /\ MaxFaults \in Nat

VARIABLES
  today,      \* the current day; the bars of earlier days are closed
  bars,       \* the closed daily bars stored of each asset
  predicted,  \* the settlements whose rate was stored in advance
  confirmed,  \* the last settlement whose rate was stored afterwards
  ledger,     \* tsmom_rebalances: one row for an asset and a day
  marks,      \* paper_equity_marks: the wallet as it was on a day
  wallet,     \* how often the equity in memory contains each row
  turn,       \* the asset the tick is at, 0 between ticks
  unpaid,     \* the day of the row written and not yet in the wallet
  done,       \* the days of the rows this tick wrote
  faults

data  == <<today, bars, predicted, confirmed>>
tick  == <<turn, unpaid, done>>
vars  == <<data, ledger, marks, wallet, tick, faults>>

------------------------------------------------------------------------------
Settlements == 1..LastDay
MarkDays    == 1..(LastDay + 1)
Charges     == [day : Settlements, kind : {"predicted", "confirmed"}]

Holdings    == {0} \cup UNION {Quantities[a] : a \in Names}

(* "since" is the day of the row before, "held" the quantity it left.       *)
Row == [asset : Names, since : {Never} \cup Days, asOf : Days,
        held : Holdings, qty : Holdings, funding : SUBSET Charges]
Wallets == [Names \X Days -> Nat]
NoMark  == [asset \in {} |-> 0]

RowsOf(a) == {r \in ledger : r.asset = a}
Holding(a) == CHOOSE r \in RowsOf(a) : \A q \in RowsOf(a) : q.asOf <= r.asOf

(* Mutant: a restart counts the rows of the first asset only.               *)
RestoredFirst == [r \in Names \X Days |->
  IF r[1] = Assets[1] /\ \E q \in RowsOf(r[1]) : q.asOf = r[2] THEN 1 ELSE 0]

(* The equity a restart reads from the ledger.                              *)
Restored == [r \in Names \X Days |->
  IF \E q \in RowsOf(r[1]) : q.asOf = r[2] THEN 1 ELSE 0]

(* The history is stored when the sleeve begins.                            *)
Init ==
  /\ today = 1 /\ bars = [a \in Names |-> {0}]
  /\ predicted = [a \in Names |-> {}] /\ confirmed = [a \in Names |-> 0]
  /\ ledger = {} /\ marks = [d \in MarkDays |-> NoMark]
  /\ wallet = [r \in Names \X Days |-> 0]
  /\ turn = 0 /\ unpaid = Never /\ done = {}
  /\ faults = 0

Newest(d, days) == d \in days /\ \A e \in days : e <= d

------------------------------------------------------------------------------
(* The collector's process and the calendar.                                *)

Midnight ==
  /\ turn = 0 /\ today <= LastDay
  /\ today' = today + 1
  /\ UNCHANGED <<bars, predicted, confirmed, ledger, marks, wallet, tick, faults>>

StoreBar(a, d) ==
  /\ turn = 0 /\ d < today /\ d \notin bars[a]
  /\ bars' = [bars EXCEPT ![a] = @ \cup {d}]
  /\ UNCHANGED <<today, predicted, confirmed, ledger, marks, wallet, tick, faults>>

(* The current rate is that of the next settlement.                         *)
Predict(a) ==
  /\ turn = 0 /\ today + 1 \in Settlements \ predicted[a]
  /\ predicted' = [predicted EXCEPT ![a] = @ \cup {today + 1}]
  /\ UNCHANGED <<today, bars, confirmed, ledger, marks, wallet, tick, faults>>

(* Mutant: the rate of the next settlement is taken for a confirmed one.    *)
ConfirmAhead(a) ==
  /\ turn = 0 /\ \E s \in Settlements :
       /\ Newest(s, Settlements \cap 1..today) /\ confirmed[a] < s
       /\ confirmed' = [confirmed EXCEPT ![a] = s + 1]
  /\ UNCHANGED <<today, bars, predicted, ledger, marks, wallet, tick, faults>>

(* The history is read from the last confirmed rate to the newest.          *)
Confirm(a) ==
  /\ turn = 0 /\ \E s \in Settlements :
       /\ Newest(s, Settlements \cap 1..today) /\ confirmed[a] < s
       /\ confirmed' = [confirmed EXCEPT ![a] = s]
  /\ UNCHANGED <<today, bars, predicted, ledger, marks, wallet, tick, faults>>

------------------------------------------------------------------------------
(* The tick.                                                                *)

(* What the store returns: the bar of today is there too, still forming.    *)
Stored(a) == bars[a] \cup ({today} \cap Days)

ClosedDaily(a) == {d \in Stored(a) : d < today}

(* target_from_daily_closes refuses days that do not follow one another.    *)
Consecutive(days) == \A d, e \in days : d < e => d + 1 \in days

(* Mutant: only the day after the last row is due.                          *)
DueNextDay(a, day) ==
  /\ Newest(day, ClosedDaily(a)) /\ Consecutive(ClosedDaily(a))
  /\ RowsOf(a) # {} => Holding(a).asOf + 1 = day

(* The newest closed day, no day missing, is later than the last row.       *)
Due(a, day) ==
  /\ Newest(day, ClosedDaily(a)) /\ Consecutive(ClosedDaily(a))
  /\ RowsOf(a) # {} => Holding(a).asOf < day

FundingRows(a) ==
  [day : predicted[a], kind : {"predicted"}] \cup [day : 1..confirmed[a], kind : {"confirmed"}]

(* Mutant: the window is closed at both ends.                               *)
SettledFundingClosed(a, start, end) ==
  LET rows == {f \in FundingRows(a) : start <= f.day /\ f.day <= end}
  IN  {f \in rows : f.kind = "confirmed" \/ [f EXCEPT !.kind = "confirmed"] \notin rows}

(* One row for each settlement in [start, end), the confirmed one first.    *)
SettledFunding(a, start, end) ==
  LET rows == {f \in FundingRows(a) : start <= f.day /\ f.day < end}
  IN  {f \in rows : f.kind = "confirmed" \/ [f EXCEPT !.kind = "confirmed"] \notin rows}

(* Mutant: the settlement of one day, whatever was missed before.           *)
PlanOneDay(a, day, qty) ==
  IF RowsOf(a) = {}
  THEN [asset |-> a, since |-> Never, asOf |-> day, held |-> 0, qty |-> qty, funding |-> {}]
  ELSE [asset |-> a, since |-> day - 1, asOf |-> day, held |-> Holding(a).qty, qty |-> qty,
        funding |-> IF Holding(a).qty = 0 THEN {} ELSE SettledFunding(a, day, day + 1)]

(* What was held is settled at the close of the day, over every day since   *)
(* the last row; missed days are not traded.                                *)
Plan(a, day, qty) ==
  IF RowsOf(a) = {}
  THEN [asset |-> a, since |-> Never, asOf |-> day, held |-> 0, qty |-> qty, funding |-> {}]
  ELSE [asset |-> a, since |-> Holding(a).asOf, asOf |-> day, held |-> Holding(a).qty, qty |-> qty,
        funding |-> IF Holding(a).qty = 0 THEN {}
                    ELSE SettledFunding(a, Holding(a).asOf + 1, day + 1)]

(* A tick that settles nothing changes nothing, and is no step.             *)
BeginTick ==
  /\ turn = 0 /\ \E a \in Names, day \in Days : Due(a, day)
  /\ turn' = 1 /\ done' = {}
  /\ UNCHANGED <<data, ledger, marks, wallet, unpaid, faults>>

(* Nothing closed since the last row, or a day is missing.                  *)
HoldOn ==
  /\ turn \in 1..Len(Assets) /\ unpaid = Never
  /\ \A day \in Days : ~Due(Assets[turn], day)
  /\ turn' = turn + 1
  /\ UNCHANGED <<data, ledger, marks, wallet, unpaid, done, faults>>

(* The row is in the ledger before its money is in the wallet.              *)
Rebalance(day, qty) ==
  /\ turn \in 1..Len(Assets) /\ unpaid = Never
  /\ Due(Assets[turn], day) /\ qty \in Quantities[Assets[turn]]
  /\ ledger' = ledger \cup {Plan(Assets[turn], day, qty)} /\ unpaid' = day
  /\ UNCHANGED <<data, marks, wallet, turn, done, faults>>

ApplyExternalPnl ==
  /\ unpaid # Never
  /\ wallet' = [wallet EXCEPT ![<<Assets[turn], unpaid>>] = @ + 1]
  /\ done' = done \cup {unpaid} /\ unpaid' = Never /\ turn' = turn + 1
  /\ UNCHANGED <<data, ledger, marks, faults>>

(* Mutant: the mark of the day of the bar.                                  *)
EndTickAsOf ==
  /\ turn > Len(Assets)
  /\ IF done = {} THEN UNCHANGED marks
     ELSE \E d \in done : Newest(d, done) /\ marks' = [marks EXCEPT ![d] = wallet]
  /\ turn' = 0 /\ done' = {}
  /\ UNCHANGED <<data, ledger, wallet, unpaid, faults>>

(* The mark of the latest day any row of this tick was executed on.         *)
EndTick ==
  /\ turn > Len(Assets)
  /\ IF done = {} THEN UNCHANGED marks
     ELSE \E d \in done : Newest(d, done) /\ marks' = [marks EXCEPT ![d + 1] = wallet]
  /\ turn' = 0 /\ done' = {}
  /\ UNCHANGED <<data, ledger, wallet, unpaid, faults>>

(* Whatever raises ends the tick; poll_once goes on.                        *)
TickFails ==
  /\ turn # 0 /\ unpaid = Never /\ faults < MaxFaults
  /\ faults' = faults + 1
  /\ turn' = 0 /\ done' = {}
  /\ UNCHANGED <<data, ledger, marks, wallet, unpaid>>

(* The process dies and is started again: the equity is read anew.          *)
Crash ==
  /\ faults < MaxFaults /\ faults' = faults + 1
  /\ wallet' = Restored
  /\ turn' = 0 /\ unpaid' = Never /\ done' = {}
  /\ UNCHANGED <<data, ledger, marks>>

Tick == BeginTick \/ HoldOn \/ (\E day \in Days, qty \in Holdings : Rebalance(day, qty)) \/ ApplyExternalPnl \/ EndTick

Next ==
  \/ Tick \/ TickFails \/ Crash \/ Midnight
  \/ \E a \in Names, d \in Days : StoreBar(a, d)
  \/ \E a \in Funded : Predict(a) \/ Confirm(a)

Spec == Init /\ [][Next]_vars

(* The runner polls for ever; nothing is assumed of the collector.          *)
FairSpec == Spec /\ WF_vars(Tick)

------------------------------------------------------------------------------
(* Every variable has its type.                                             *)
TypeOK ==
  /\ today \in 0..(LastDay + 1) /\ bars \in [Names -> SUBSET Days]
  /\ predicted \in [Names -> SUBSET Settlements] /\ confirmed \in [Names -> 0..LastDay]
  /\ ledger \subseteq Row
  /\ marks \in [MarkDays -> Wallets \cup {NoMark}] /\ wallet \in Wallets
  /\ turn \in 0..(Len(Assets) + 1)
  /\ unpaid \in {Never} \cup Days /\ (unpaid # Never => turn \in 1..Len(Assets))
  /\ done \subseteq Days
  /\ faults \in Nat

(* The wallet in memory is the sum of the ledger, but for the row between   *)
(* its write and apply_external_pnl: whatever raises, and after every       *)
(* restart (_restore_equity).                                               *)
WalletIsLedger ==
  unpaid = Never => \A a \in Names, d \in Days :
    wallet[<<a, d>>] = IF \E r \in RowsOf(a) : r.asOf = d THEN 1 ELSE 0

(* The rows of an asset tile its days: each begins where another ends, with *)
(* the quantity that one left, and no day is settled twice, however many    *)
(* ticks, failures and deaths lie between (plan_rebalance refuses a double  *)
(* settlement).                                                             *)
DaysAreSettledOnce ==
  \A r \in ledger :
    /\ r.since = Never \/ \E q \in RowsOf(r.asset) : q.asOf = r.since /\ q.qty = r.held
    /\ \A q \in RowsOf(r.asset) : q = r \/ q.asOf <= r.since \/ r.asOf <= q.since

HeldOver(a, s) ==
  LET before == {r \in RowsOf(a) : r.asOf < s} IN
  IF before = {} THEN 0 ELSE (CHOOSE r \in before : \A q \in before : q.asOf <= r.asOf).qty
ChargedFor(a, s) ==
  {c \in ledger \X Charges : c[1].asset = a /\ c[2] \in c[1].funding /\ c[2].day = s}

(* A settlement whose rate was stored before it took place is charged       *)
(* exactly once when something was held over it, and never else: at         *)
(* midnight, across missed days, and when its confirmed row comes late      *)
(* (settled_funding_rates: never both rows of a settlement).                *)
FundingIsChargedOnce ==
  \A a \in Names, s \in Settlements :
    /\ Cardinality(ChargedFor(a, s)) <= (IF HeldOver(a, s) = 0 THEN 0 ELSE 1)
    /\ s \in predicted[a] /\ (\E r \in RowsOf(a) : s <= r.asOf) /\ HeldOver(a, s) # 0
         => ChargedFor(a, s) # {}

(* A row is executed at the close of a day that has ended and whose bar is  *)
(* final (_closed_daily: the forming bar would be a look ahead).            *)
SettledAtTheClose == \A r \in ledger : r.asOf < today /\ r.asOf \in bars[r.asset]

(* What was settled is in the equity curve, in a mark no earlier than its   *)
(* execution, unless a tick raised or died before its mark.                 *)
SettlementsReachTheCurve ==
  turn = 0 /\ faults = 0 =>
    \A r \in ledger : \E d \in MarkDays :
      d > r.asOf /\ marks[d] # NoMark /\ marks[d][<<r.asset, r.asOf>>] = 1

(* The sleeve catches up: the days that have closed are settled in the end, *)
(* by themselves or within a later one, unless a bar is missing.            *)
Behind(a) ==
  Consecutive(ClosedDaily(a)) /\ \E d \in ClosedDaily(a) : \A r \in RowsOf(a) : r.asOf < d
EveryDayIsSettled == (\E a \in Names : Behind(a)) ~> ~(\E a \in Names : Behind(a))
=============================================================================
