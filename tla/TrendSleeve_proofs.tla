-------------------------- MODULE TrendSleeve_proofs --------------------------
(***************************************************************************)
(* What is proved of the trend sleeve, for every list of assets, every     *)
(* choice of quantities and any number of days, failing ticks and crashes: *)
(* the rows follow one another, funding is charged once, the wallet is the *)
(* sum of the rows, and the rows reach the equity curve.                   *)
(***************************************************************************)
EXTENDS TrendSleeve, FiniteSetTheorems, TLAPS

(* The rows of an asset have a last one.                                    *)
HasLast ==
  \A a \in Names : RowsOf(a) = {} \/ \E r \in RowsOf(a) : \A q \in RowsOf(a) : q.asOf <= r.asOf

(* A row covers the days after "since" up to "asOf", and has ended.         *)
RowInv ==
  \A r \in ledger : r.since < r.asOf /\ r.asOf < today /\ r.asOf \in bars[r.asset]

SleeveInv == TypeOK /\ HasLast /\ RowInv

(* The tick visits assets.                                                  *)
LEMMA NamesAreNames == \A i \in 1..Len(Assets) : Assets[i] \in Names
  BY DEF Names

(* Holding is the last row, if there is one.                                *)
LEMMA HoldingIsLast ==
  ASSUME HasLast, NEW a \in Names, RowsOf(a) # {}
  PROVE  Holding(a) \in RowsOf(a) /\ \A q \in RowsOf(a) : q.asOf <= Holding(a).asOf
  BY DEF HasLast, Holding

(* Funding is charged for days of the window only, one row for a day, and   *)
(* for every day of it whose rate was predicted.                            *)
LEMMA FundingOfWindow ==
  ASSUME SleeveAssumption, TypeOK, NEW a \in Names, NEW start \in Nat, NEW end \in Nat
  PROVE  /\ SettledFunding(a, start, end) \subseteq Charges
         /\ \A f \in SettledFunding(a, start, end) : start <= f.day /\ f.day < end
         /\ \A f, g \in SettledFunding(a, start, end) : f.day = g.day => f = g
         /\ \A s \in predicted[a] : start <= s /\ s < end =>
              \E f \in SettledFunding(a, start, end) : f.day = s
<1> DEFINE rows == {f \in FundingRows(a) : start <= f.day /\ f.day < end}
<1>1. SettledFunding(a, start, end)
        = {f \in rows : f.kind = "confirmed" \/ [f EXCEPT !.kind = "confirmed"] \notin rows}
  BY DEF SettledFunding
<1>2. predicted[a] \subseteq Settlements /\ 1..confirmed[a] \subseteq Settlements
  BY DEF TypeOK, SleeveAssumption, Settlements
<1>3. \A f \in FundingRows(a) :
        /\ f \in Charges
        /\ f = [day |-> f.day, kind |-> f.kind]
        /\ [f EXCEPT !.kind = "confirmed"] = [day |-> f.day, kind |-> "confirmed"]
  BY <1>2 DEF FundingRows, Charges
<1>4. \A f, g \in SettledFunding(a, start, end) : f.day = g.day => f = g
  <2> SUFFICES ASSUME NEW f \in SettledFunding(a, start, end),
                      NEW g \in SettledFunding(a, start, end), f.day = g.day
               PROVE  f = g
    OBVIOUS
  <2>1. f.kind = g.kind
    BY <1>1, <1>3 DEF Charges
  <2> QED
    BY <2>1, <1>1, <1>3
<1>5. \A s \in predicted[a] : start <= s /\ s < end =>
        \E f \in SettledFunding(a, start, end) : f.day = s
  <2> SUFFICES ASSUME NEW s \in predicted[a], start <= s, s < end
               PROVE  \E f \in SettledFunding(a, start, end) : f.day = s
    OBVIOUS
  <2> DEFINE early == [day |-> s, kind |-> "predicted"]
             late  == [day |-> s, kind |-> "confirmed"]
  <2>1. early \in rows
    BY DEF FundingRows
  <2>2. [early EXCEPT !.kind = "confirmed"] = late
    OBVIOUS
  <2>3. CASE late \in rows
    BY <2>3, <1>1
  <2>4. CASE late \notin rows
    BY <2>1, <2>2, <2>4, <1>1
  <2> QED
    BY <2>3, <2>4
<1> QED
  BY <1>1, <1>3, <1>4, <1>5

(* The row a tick plans is later than every row of its asset.               *)
LEMMA PlannedRow ==
  ASSUME SleeveAssumption, SleeveInv,
         NEW a \in Names, NEW day \in Days, NEW qty \in Quantities[a], Due(a, day)
  PROVE  /\ Plan(a, day, qty) \in Row
         /\ Plan(a, day, qty).asset = a /\ Plan(a, day, qty).asOf = day
         /\ Plan(a, day, qty).since < day
         /\ day < today /\ day \in bars[a]
         /\ \A q \in RowsOf(a) : q.asOf < day /\ q.asOf <= Plan(a, day, qty).since
<1> DEFINE row == Plan(a, day, qty)
<1>1. day < today /\ day \in bars[a]
  BY DEF Due, Newest, ClosedDaily, Stored, SleeveInv, TypeOK, Days
<1>2. Quantities[a] \subseteq Holdings
  BY DEF Holdings
<1>3. CASE RowsOf(a) = {}
  <2>1. row = [asset |-> a, since |-> Never, asOf |-> day, held |-> 0, qty |-> qty, funding |-> {}]
    BY <1>3 DEF Plan
  <2> QED
    BY <1>1, <1>2, <1>3, <2>1 DEF Row, Holdings, Never, Days
<1>4. CASE RowsOf(a) # {}
  <2> DEFINE last == Holding(a)
             cost == IF last.qty = 0 THEN {} ELSE SettledFunding(a, last.asOf + 1, day + 1)
  <2>1. last \in RowsOf(a) /\ \A q \in RowsOf(a) : q.asOf <= last.asOf
    BY <1>4, HoldingIsLast DEF SleeveInv
  <2>2. last \in Row
    BY <2>1 DEF SleeveInv, TypeOK, RowsOf
  <2>3. last.asOf < day
    BY <1>4 DEF Due
  <2>4. cost \subseteq Charges
    <3>1. last.asOf + 1 \in Nat /\ day + 1 \in Nat
      BY <2>2 DEF Row, Days
    <3> QED
      BY <3>1, FundingOfWindow DEF SleeveInv
  <2>5. row = [asset |-> a, since |-> last.asOf, asOf |-> day, held |-> last.qty, qty |-> qty,
               funding |-> cost]
    BY <1>4 DEF Plan
  <2>6. row \in Row
    BY <1>2, <2>2, <2>4, <2>5 DEF Row
  <2>7. \A q \in RowsOf(a) : q.asOf \in Int
    BY DEF SleeveInv, TypeOK, RowsOf, Row, Days
  <2> QED
    BY <1>1, <2>1, <2>2, <2>3, <2>5, <2>6, <2>7 DEF Row, Days
<1> QED
  BY <1>3, <1>4

(* The sleeve begins with an empty ledger.                                  *)
LEMMA SleeveInit == SleeveAssumption /\ Init => SleeveInv
  BY DEF SleeveAssumption, Init, SleeveInv, TypeOK, HasLast, RowInv, RowsOf, Names, Wallets,
         Never, NoMark, Days, MarkDays

(* Nothing but Rebalance writes the ledger.                                 *)
LEMMA LedgerStands ==
  ASSUME SleeveInv, UNCHANGED ledger, TypeOK', today' \in {today, today + 1},
         \A a \in Names : bars[a] \subseteq bars'[a]
  PROVE  SleeveInv'
<1>1. \A a \in Names : RowsOf(a)' = RowsOf(a)
  BY DEF RowsOf
<1>2. HasLast'
  BY <1>1 DEF SleeveInv, HasLast
<1>3. RowInv'
  BY DEF SleeveInv, RowInv, TypeOK, Row, Days
<1> QED
  BY <1>2, <1>3 DEF SleeveInv

(* Every step keeps the types, the last rows and the ends of the rows.      *)
LEMMA SleeveStep == SleeveAssumption /\ SleeveInv /\ [Next]_vars => SleeveInv'
<1> SUFFICES ASSUME SleeveAssumption, SleeveInv, [Next]_vars
             PROVE  SleeveInv'
  OBVIOUS
<1> USE DEF SleeveInv
<1>1. CASE UNCHANGED vars
  BY <1>1, LedgerStands DEF vars, data, tick, TypeOK
<1>2. CASE BeginTick
  <2>1. TypeOK'
    BY <1>2 DEF BeginTick, data, TypeOK, SleeveAssumption, Never
  <2> QED
    BY <1>2, <2>1, LedgerStands DEF BeginTick, data
<1>3. CASE HoldOn
  <2>1. TypeOK'
    BY <1>3 DEF HoldOn, data, TypeOK, SleeveAssumption
  <2> QED
    BY <1>3, <2>1, LedgerStands DEF HoldOn, data
<1>4. ASSUME NEW day \in Days, NEW qty \in Holdings, Rebalance(day, qty)
      PROVE  SleeveInv'
  <2> DEFINE a == Assets[turn]
             row == Plan(a, day, qty)
  <2>1. a \in Names /\ qty \in Quantities[a] /\ Due(a, day) /\ ledger' = ledger \cup {row}
    BY <1>4, NamesAreNames DEF Rebalance
  <2> HIDE DEF a, row
  <2>2. /\ row \in Row /\ row.asset = a /\ row.asOf = day /\ row.since < day
        /\ day < today /\ day \in bars[a]
        /\ \A q \in RowsOf(a) : q.asOf < day
    BY <2>1, PlannedRow DEF row
  <2>3. TypeOK'
    BY <1>4, <2>1, <2>2 DEF Rebalance, data, TypeOK, Never
  <2>4. \A b \in Names : RowsOf(b)' = IF b = a THEN RowsOf(b) \cup {row} ELSE RowsOf(b)
    BY <2>1, <2>2 DEF RowsOf
  <2>5. HasLast'
    <3> SUFFICES ASSUME NEW b \in Names
                 PROVE  RowsOf(b)' = {} \/ \E r \in RowsOf(b)' : \A q \in RowsOf(b)' : q.asOf <= r.asOf
      BY DEF HasLast
    <3>1. CASE b = a
      <4>1. \A q \in RowsOf(a) \cup {row} : q.asOf <= row.asOf
        BY <2>2 DEF TypeOK, RowsOf, Row, Days
      <4> QED
        BY <3>1, <4>1, <2>4
    <3>2. CASE b # a
      BY <3>2, <2>4 DEF HasLast
    <3> QED
      BY <3>1, <3>2
  <2>6. RowInv'
    BY <1>4, <2>1, <2>2 DEF RowInv, Rebalance, data
  <2> QED
    BY <2>3, <2>5, <2>6
<1>5. CASE ApplyExternalPnl
  <2>1. unpaid \in Days /\ turn \in 1..Len(Assets) /\ Assets[turn] \in Names
    BY <1>5, NamesAreNames DEF ApplyExternalPnl, TypeOK
  <2>2. <<Assets[turn], unpaid>> \in Names \X Days
    BY <2>1
  <2>3. wallet' \in Wallets
    BY <1>5, <2>2 DEF ApplyExternalPnl, TypeOK, Wallets
  <2>4. TypeOK'
    BY <1>5, <2>1, <2>3 DEF ApplyExternalPnl, data, TypeOK, SleeveAssumption
  <2> QED
    BY <1>5, <2>4, LedgerStands DEF ApplyExternalPnl, data
<1>6. CASE EndTick
  <2>1. marks' \in [MarkDays -> Wallets \cup {NoMark}]
    BY <1>6 DEF EndTick, TypeOK
  <2>2. TypeOK'
    BY <1>6, <2>1 DEF EndTick, data, TypeOK, SleeveAssumption
  <2> QED
    BY <1>6, <2>2, LedgerStands DEF EndTick, data
<1>7. CASE TickFails
  <2>1. TypeOK'
    BY <1>7 DEF TickFails, data, TypeOK, SleeveAssumption
  <2> QED
    BY <1>7, <2>1, LedgerStands DEF TickFails, data
<1>8. CASE Crash
  <2>1. Restored \in Wallets
    BY DEF Restored, Wallets
  <2>2. TypeOK'
    BY <1>8, <2>1 DEF Crash, data, TypeOK, SleeveAssumption, Never
  <2> QED
    BY <1>8, <2>2, LedgerStands DEF Crash, data
<1>9. CASE Midnight
  <2>1. TypeOK'
    BY <1>9 DEF Midnight, tick, TypeOK, SleeveAssumption
  <2> QED
    BY <1>9, <2>1, LedgerStands DEF Midnight
<1>10. ASSUME NEW a \in Names, NEW d \in Days, StoreBar(a, d)
       PROVE  SleeveInv'
  <2>1. TypeOK' /\ \A b \in Names : bars[b] \subseteq bars'[b]
    BY <1>10 DEF StoreBar, tick, TypeOK
  <2> QED
    BY <1>10, <2>1, LedgerStands DEF StoreBar
<1>11. ASSUME NEW a \in Funded, Predict(a) \/ Confirm(a)
       PROVE  SleeveInv'
  <2>1. a \in Names
    BY DEF SleeveAssumption
  <2>2. TypeOK'
    <3>1. CASE Predict(a)
      BY <3>1, <2>1 DEF Predict, tick, TypeOK
    <3>2. CASE Confirm(a)
      <4>1. PICK s \in Settlements : confirmed' = [confirmed EXCEPT ![a] = s]
        BY <3>2 DEF Confirm
      <4>2. s \in 0..LastDay
        BY SleeveAssumption DEF Settlements
      <4> QED
        BY <3>2, <4>1, <4>2, <2>1 DEF Confirm, tick, TypeOK
    <3> QED
      BY <1>11, <3>1, <3>2
  <2> QED
    BY <1>11, <2>2, LedgerStands DEF Predict, Confirm
<1> QED
  BY <1>1, <1>2, <1>3, <1>4, <1>5, <1>6, <1>7, <1>8, <1>9, <1>10, <1>11 DEF Next, Tick

(* The invariant the other theorems rest on (tsmom_rebalances).             *)
THEOREM SleeveInvariant == Spec => []SleeveInv
  BY SleeveAssumption, SleeveInit, SleeveStep, PTL DEF Spec

(* Every variable of the sleeve keeps its type (tsmom_rebalances and the    *)
(* equity in memory).                                                       *)
THEOREM TypeCorrect == Spec => []TypeOK
  BY SleeveInvariant, PTL DEF SleeveInv

(* A row is executed at the close of a day that has ended (_closed_daily).  *)
THEOREM NoLookAhead == Spec => []SettledAtTheClose
<1>1. SleeveInv => SettledAtTheClose
  BY DEF SleeveInv, RowInv, SettledAtTheClose
<1> QED
  BY <1>1, SleeveInvariant, PTL

------------------------------------------------------------------------------
(* The wallet: every row is in it once, except the one about to be paid.    *)

Paid ==
  /\ unpaid # Never => \E r \in RowsOf(Assets[turn]) : r.asOf = unpaid
  /\ \A a \in Names, d \in Days :
       wallet[<<a, d>>] = IF /\ \E r \in RowsOf(a) : r.asOf = d
                             /\ ~(unpaid = d /\ a = Assets[turn])
                          THEN 1 ELSE 0

(* Nothing is paid at the start.                                            *)
LEMMA PaidInit == SleeveAssumption /\ Init => Paid
  BY DEF SleeveAssumption, Init, Paid, RowsOf

(* Every step pays a row once.                                              *)
LEMMA PaidStep == SleeveAssumption /\ SleeveInv /\ Paid /\ [Next]_vars => Paid'
<1> SUFFICES ASSUME SleeveAssumption, SleeveInv, Paid, [Next]_vars
             PROVE  Paid'
  OBVIOUS
<1>a. \A d \in Days : d # Never
  BY SleeveAssumption DEF Days, Never
<1>1. CASE UNCHANGED <<ledger, wallet, unpaid, turn>>
  <2>1. \A a \in Names : RowsOf(a)' = RowsOf(a)
    BY <1>1 DEF RowsOf
  <2> QED
    BY <1>1, <2>1, NamesAreNames DEF Paid, SleeveInv, TypeOK
<1>2. CASE UNCHANGED <<ledger, wallet>> /\ unpaid = Never /\ unpaid' = Never
  <2>1. \A a \in Names : RowsOf(a)' = RowsOf(a)
    BY <1>2 DEF RowsOf
  <2> QED
    BY <1>2, <1>a, <2>1 DEF Paid
<1>3. ASSUME NEW day \in Days, NEW qty \in Holdings, Rebalance(day, qty)
      PROVE  Paid'
  <2> DEFINE a == Assets[turn]
             row == Plan(a, day, qty)
  <2>1. /\ a \in Names /\ qty \in Quantities[a] /\ Due(a, day) /\ ledger' = ledger \cup {row}
        /\ unpaid = Never /\ unpaid' = day /\ turn' = turn /\ wallet' = wallet
    BY <1>3, NamesAreNames DEF Rebalance
  <2> HIDE DEF row
  <2>2. row.asset = a /\ row.asOf = day /\ \A q \in RowsOf(a) : q.asOf < day
    BY <2>1, PlannedRow DEF row
  <2>3. \A b \in Names : RowsOf(b)' = IF b = a THEN RowsOf(b) \cup {row} ELSE RowsOf(b)
    BY <2>1, <2>2 DEF RowsOf
  <2>4. \E r \in RowsOf(a)' : r.asOf = day
    BY <2>1, <2>2, <2>3
  <2>5. ASSUME NEW b \in Names, NEW d \in Days
        PROVE  wallet'[<<b, d>>] = IF (\E r \in RowsOf(b)' : r.asOf = d) /\ ~(day = d /\ b = a)
                                   THEN 1 ELSE 0
    <3>1. CASE b = a /\ d = day
      <4>1. ~\E r \in RowsOf(a) : r.asOf = day
        BY <2>2 DEF SleeveInv, TypeOK, RowsOf, Row, Days
      <4> QED
        BY <2>1, <3>1, <4>1 DEF Paid
    <3>2. CASE ~(b = a /\ d = day)
      <4>1. (\E r \in RowsOf(b)' : r.asOf = d) <=> (\E r \in RowsOf(b) : r.asOf = d)
        BY <2>2, <2>3, <3>2
      <4>2. unpaid # d
        BY <2>1, <1>a
      <4> QED
        BY <2>1, <3>2, <4>1, <4>2 DEF Paid
    <3> QED
      BY <3>1, <3>2
  <2> QED
    BY <2>1, <2>4, <2>5 DEF Paid
<1>4. CASE ApplyExternalPnl
  <2> DEFINE a == Assets[turn]
  <2>1. /\ unpaid \in Days /\ a \in Names /\ unpaid' = Never /\ ledger' = ledger
        /\ wallet' = [wallet EXCEPT ![<<a, unpaid>>] = @ + 1]
    BY <1>4, NamesAreNames DEF ApplyExternalPnl, SleeveInv, TypeOK
  <2>2. \A b \in Names : RowsOf(b)' = RowsOf(b)
    BY <2>1 DEF RowsOf
  <2>3. DOMAIN wallet = Names \X Days
    BY DEF SleeveInv, TypeOK, Wallets
  <2>4. \E r \in RowsOf(a) : r.asOf = unpaid
    BY <2>1, <1>a DEF Paid
  <2>5. ASSUME NEW b \in Names, NEW d \in Days
        PROVE  wallet'[<<b, d>>] = IF \E r \in RowsOf(b)' : r.asOf = d THEN 1 ELSE 0
    <3>1. CASE b = a /\ d = unpaid
      BY <2>1, <2>2, <2>3, <2>4, <3>1 DEF Paid
    <3>2. CASE ~(b = a /\ d = unpaid)
      <4>1. <<b, d>> # <<a, unpaid>>
        BY <3>2
      <4>2. wallet'[<<b, d>>] = wallet[<<b, d>>]
        BY <2>1, <2>3, <4>1
      <4> QED
        BY <2>2, <3>2, <4>2 DEF Paid
    <3> QED
      BY <3>1, <3>2
  <2> QED
    BY <2>1, <2>5, <1>a DEF Paid
<1>5. CASE Crash
  <2>1. \A a \in Names : RowsOf(a)' = RowsOf(a)
    BY <1>5 DEF RowsOf, Crash
  <2>2. unpaid' = Never /\ wallet' = Restored
    BY <1>5 DEF Crash
  <2>3. \A a \in Names, d \in Days :
          Restored[<<a, d>>] = IF \E r \in RowsOf(a) : r.asOf = d THEN 1 ELSE 0
    BY DEF Restored
  <2> QED
    BY <2>1, <2>2, <2>3, <1>a DEF Paid
<1>6. CASE BeginTick \/ HoldOn \/ TickFails
  <2>1. CASE BeginTick
    <3>1. unpaid = Never
      BY <2>1, SleeveAssumption DEF BeginTick, SleeveInv, TypeOK
    <3> QED
      BY <2>1, <3>1, <1>2 DEF BeginTick
  <2>2. CASE HoldOn \/ TickFails
    BY <2>2, <1>2 DEF HoldOn, TickFails
  <2> QED
    BY <1>6, <2>1, <2>2
<1>7. CASE EndTick
  <2>1. unpaid = Never
    BY <1>7, SleeveAssumption DEF EndTick, SleeveInv, TypeOK
  <2> QED
    BY <1>7, <2>1, <1>2 DEF EndTick
<1>8. CASE Midnight \/ (\E a \in Names, d \in Days : StoreBar(a, d))
           \/ (\E a \in Funded : Predict(a) \/ Confirm(a))
  BY <1>8, <1>1 DEF Midnight, StoreBar, Predict, Confirm, tick
<1> QED
  BY <1>1, <1>3, <1>4, <1>5, <1>6, <1>7, <1>8 DEF Next, Tick, vars, data, tick

(* The wallet in memory is the sum of the ledger, whatever raises and       *)
(* however often the runner dies (_restore_equity, apply_external_pnl).     *)
THEOREM WalletFollowsLedger == Spec => []WalletIsLedger
<1>1. SleeveAssumption /\ Paid => WalletIsLedger
  <2> SUFFICES ASSUME SleeveAssumption, Paid, unpaid = Never, NEW a \in Names, NEW d \in Days
               PROVE  wallet[<<a, d>>] = IF \E r \in RowsOf(a) : r.asOf = d THEN 1 ELSE 0
    BY DEF WalletIsLedger
  <2>1. unpaid # d
    BY DEF SleeveAssumption, Days, Never
  <2> QED
    BY <2>1 DEF Paid
<1>2. Spec => []Paid
  BY SleeveAssumption, PaidInit, PaidStep, SleeveInvariant, PTL DEF Spec
<1> QED
  BY SleeveAssumption, <1>1, <1>2, PTL

------------------------------------------------------------------------------
(* The rows of an asset tile its days, and the funding follows the rows.    *)

(* A day between two rows lies in the interval of one.                      *)
Covered ==
  \A a \in Names, s \in Settlements :
    (\E r \in RowsOf(a) : s <= r.asOf) /\ (\E q \in RowsOf(a) : q.asOf < s)
      => \E r \in RowsOf(a) : r.since # Never /\ r.since < s /\ s <= r.asOf

ChargeInv ==
  \A r \in ledger :
    /\ \A f \in r.funding : r.since # Never /\ r.held # 0 /\ r.since < f.day /\ f.day <= r.asOf
    /\ \A f, g \in r.funding : f.day = g.day => f = g
    /\ r.since # Never /\ r.held # 0 => \A s \in predicted[r.asset] :
         r.since < s /\ s <= r.asOf => \E f \in r.funding : f.day = s

Tiled == DaysAreSettledOnce /\ Covered /\ ChargeInv

(* The planned row begins where the last one ended.                         *)
LEMMA PlannedAfter ==
  ASSUME SleeveAssumption, SleeveInv,
         NEW a \in Names, NEW day \in Days, NEW qty \in Quantities[a], Due(a, day)
  PROVE  \/ RowsOf(a) = {} /\ Plan(a, day, qty).since = Never /\ Plan(a, day, qty).funding = {}
         \/ /\ Plan(a, day, qty).since # Never
            /\ \E q \in RowsOf(a) : q.asOf = Plan(a, day, qty).since /\ q.qty = Plan(a, day, qty).held
<1> DEFINE row == Plan(a, day, qty)
<1>1. CASE RowsOf(a) = {}
  BY <1>1 DEF Plan
<1>2. CASE RowsOf(a) # {}
  <2> DEFINE last == Holding(a)
             cost == IF last.qty = 0 THEN {} ELSE SettledFunding(a, last.asOf + 1, day + 1)
  <2>1. last \in RowsOf(a) /\ last \in Row
    BY <1>2, HoldingIsLast DEF SleeveInv, TypeOK, RowsOf
  <2>2. row = [asset |-> a, since |-> last.asOf, asOf |-> day, held |-> last.qty, qty |-> qty,
               funding |-> cost]
    BY <1>2 DEF Plan
  <2>3. last.asOf # Never
    BY <2>1, SleeveAssumption DEF Row, Days, Never
  <2> QED
    BY <2>1, <2>2, <2>3
<1> QED
  BY <1>1, <1>2

(* The planned row charges its interval, if anything was held.              *)
LEMMA PlannedCharges ==
  ASSUME SleeveAssumption, SleeveInv,
         NEW a \in Names, NEW day \in Days, NEW qty \in Quantities[a], Due(a, day),
         NEW row, row = Plan(a, day, qty)
  PROVE  /\ \A f \in row.funding : row.since # Never /\ row.held # 0 /\ row.since < f.day /\ f.day <= day
         /\ \A f, g \in row.funding : f.day = g.day => f = g
         /\ row.since # Never /\ row.held # 0 => \A s \in predicted[a] :
              row.since < s /\ s <= day => \E f \in row.funding : f.day = s
<1>1. CASE RowsOf(a) = {}
  <2>1. row.since = Never /\ row.funding = {}
    BY <1>1 DEF Plan
  <2> QED
    BY <2>1
<1>2. CASE RowsOf(a) # {}
  <2> DEFINE last == Holding(a)
             cost == IF last.qty = 0 THEN {} ELSE SettledFunding(a, last.asOf + 1, day + 1)
  <2>1. last \in Row
    BY <1>2, HoldingIsLast DEF SleeveInv, TypeOK, RowsOf
  <2>2. row = [asset |-> a, since |-> last.asOf, asOf |-> day, held |-> last.qty, qty |-> qty,
               funding |-> cost]
    BY <1>2 DEF Plan
  <2>3. row.since = last.asOf /\ row.held = last.qty /\ row.funding = cost
    BY <2>2
  <2>4. last.asOf \in Nat /\ day \in Nat /\ last.asOf # Never
    BY <2>1, SleeveAssumption DEF Row, Days, Never
  <2>5. CASE last.qty = 0
    BY <2>3, <2>5
  <2>6. CASE last.qty # 0
    <3> DEFINE window == SettledFunding(a, last.asOf + 1, day + 1)
    <3>1. /\ window \subseteq Charges
          /\ \A f \in window : last.asOf + 1 <= f.day /\ f.day < day + 1
          /\ \A f, g \in window : f.day = g.day => f = g
          /\ \A s \in predicted[a] : last.asOf + 1 <= s /\ s < day + 1 => \E f \in window : f.day = s
      <4>1. last.asOf + 1 \in Nat /\ day + 1 \in Nat
        BY <2>4
      <4> QED
        BY <4>1, FundingOfWindow DEF SleeveInv
    <3>2. row.funding = window
      BY <2>3, <2>6
    <3> HIDE DEF window, last
    <3>3. \A f \in window : f.day \in Int
      BY <3>1 DEF Charges, Settlements
    <3>4. predicted[a] \subseteq Int
      BY DEF SleeveInv, TypeOK, Settlements
    <3>5. \A f \in window : last.asOf < f.day /\ f.day <= day
      BY <3>1, <3>3, <2>4
    <3>6. \A s \in predicted[a] : last.asOf < s /\ s <= day => \E f \in window : f.day = s
      BY <3>1, <3>4, <2>4
    <3> QED
      BY <3>1, <3>2, <3>5, <3>6, <2>3, <2>4, <2>6
  <2> QED
    BY <2>5, <2>6
<1> QED
  BY <1>1, <1>2

(* No rows, no charges.                                                     *)
LEMMA TiledInit == Init => Tiled
  BY DEF Init, Tiled, DaysAreSettledOnce, Covered, ChargeInv, RowsOf

(* Every step keeps the rows and the charges.                               *)
LEMMA TiledStep == SleeveAssumption /\ SleeveInv /\ Tiled /\ [Next]_vars => Tiled'
<1> SUFFICES ASSUME SleeveAssumption, SleeveInv, Tiled, [Next]_vars
             PROVE  Tiled'
  OBVIOUS
<1>1. CASE UNCHANGED <<ledger, predicted>>
  BY <1>1 DEF Tiled, DaysAreSettledOnce, Covered, ChargeInv, RowsOf
<1>2. ASSUME NEW a \in Funded, Predict(a)
      PROVE  Tiled'
  <2>1. ledger' = ledger /\ predicted' = [predicted EXCEPT ![a] = @ \cup {today + 1}] /\ a \in Names
    BY <1>2, SleeveAssumption DEF Predict
  <2>2. DaysAreSettledOnce' /\ Covered'
    BY <2>1 DEF Tiled, DaysAreSettledOnce, Covered, RowsOf
  <2>3. ASSUME NEW r \in ledger, NEW s \in predicted'[r.asset], s <= r.asOf
        PROVE  s \in predicted[r.asset]
    BY <2>1, <2>3 DEF SleeveInv, RowInv, TypeOK, Row, Days
  <2>4. ChargeInv'
    BY <2>1, <2>3 DEF Tiled, ChargeInv
  <2> QED
    BY <2>2, <2>4 DEF Tiled
<1>3. ASSUME NEW day \in Days, NEW qty \in Holdings, Rebalance(day, qty)
      PROVE  Tiled'
  <2> DEFINE a == Assets[turn]
             row == Plan(a, day, qty)
  <2>1. /\ a \in Names /\ qty \in Quantities[a] /\ Due(a, day) /\ ledger' = ledger \cup {row}
        /\ predicted' = predicted
    BY <1>3, NamesAreNames DEF Rebalance, data
  <2>2. /\ row \in Row /\ row.asset = a /\ row.asOf = day /\ row.since < day
        /\ \A q \in RowsOf(a) : q.asOf < day /\ q.asOf <= row.since
    BY <2>1, PlannedRow
  <2>3. \/ RowsOf(a) = {} /\ row.since = Never /\ row.funding = {}
        \/ /\ row.since # Never
           /\ \E q \in RowsOf(a) : q.asOf = row.since /\ q.qty = row.held
    BY <2>1, PlannedAfter
  <2>4. /\ \A f \in row.funding : row.since # Never /\ row.held # 0 /\ row.since < f.day /\ f.day <= day
        /\ \A f, g \in row.funding : f.day = g.day => f = g
        /\ row.since # Never /\ row.held # 0 => \A s \in predicted[a] :
             row.since < s /\ s <= day => \E f \in row.funding : f.day = s
    <3>1. row = Plan(a, day, qty)
      OBVIOUS
    <3> QED
      BY <2>1, <3>1, PlannedCharges
  <2> HIDE DEF row
  <2>5. \A b \in Names : RowsOf(b)' = IF b = a THEN RowsOf(b) \cup {row} ELSE RowsOf(b)
    BY <2>1, <2>2 DEF RowsOf
  <2>6. \A r \in ledger : r \in Row /\ r.asset \in Names /\ r \in RowsOf(r.asset)
    BY DEF SleeveInv, TypeOK, Row, RowsOf
  <2>7. DaysAreSettledOnce'
    <3> SUFFICES ASSUME NEW r \in ledger'
                 PROVE  /\ r.since = Never \/ \E q \in RowsOf(r.asset)' : q.asOf = r.since /\ q.qty = r.held
                        /\ \A q \in RowsOf(r.asset)' : q = r \/ q.asOf <= r.since \/ r.asOf <= q.since
      BY DEF DaysAreSettledOnce
    <3>1. CASE r = row
      <4>1. r.asset \in Names /\ r.asset = a
        BY <3>1, <2>1, <2>2
      <4>2. RowsOf(r.asset)' = RowsOf(a) \cup {r}
        BY <4>1, <3>1, <2>5
      <4>3. r.since = Never \/ \E q \in RowsOf(a) : q.asOf = r.since /\ q.qty = r.held
        BY <3>1, <2>3
      <4>4. \A q \in RowsOf(a) : q.asOf <= r.since
        BY <3>1, <2>2
      <4> QED
        BY <4>2, <4>3, <4>4
    <3>2. CASE r \in ledger
      <4>1. /\ r.since = Never \/ \E q \in RowsOf(r.asset) : q.asOf = r.since /\ q.qty = r.held
            /\ \A q \in RowsOf(r.asset) : q = r \/ q.asOf <= r.since \/ r.asOf <= q.since
        BY <3>2 DEF Tiled, DaysAreSettledOnce
      <4>2. r.asset = a => r.asOf <= row.since
        BY <2>2, <2>6, <3>2
      <4> QED
        BY <4>1, <4>2, <2>5, <2>6, <3>2
    <3> QED
      BY <3>1, <3>2, <2>1
  <2>8. Covered'
    <3> SUFFICES ASSUME NEW b \in Names, NEW s \in Settlements,
                        NEW r \in RowsOf(b)', s <= r.asOf, NEW q \in RowsOf(b)', q.asOf < s
                 PROVE  \E t \in RowsOf(b)' : t.since # Never /\ t.since < s /\ s <= t.asOf
      BY DEF Covered
    <3>0. \A t \in RowsOf(a) \cup {row} : t.asOf \in Int /\ t.since \in Int
      BY <2>2 DEF SleeveInv, TypeOK, RowsOf, Row, Days, Never
    <3>s. s \in Int
      BY DEF Settlements
    <3>1. CASE b # a
      BY <3>1, <2>5 DEF Tiled, Covered
    <3>2. CASE b = a /\ \E t \in RowsOf(a) : s <= t.asOf
      <4>1. q \in RowsOf(a)
        BY <3>2, <2>2, <2>5, <3>0, <3>s
      <4> QED
        BY <3>2, <4>1, <2>5 DEF Tiled, Covered
    <3>3. CASE b = a /\ ~\E t \in RowsOf(a) : s <= t.asOf
      <4>a. RowsOf(b)' = RowsOf(a) \cup {row} /\ b = a
        BY <3>3, <2>5
      <4>b. r \in RowsOf(a) => ~(s <= r.asOf)
        BY <3>3
      <4>c. r = row
        BY <4>a, <4>b
      <4>d. q # row
        BY <4>c, <4>a, <3>0, <3>s
      <4>1. r = row /\ q \in RowsOf(a)
        BY <4>a, <4>c, <4>d
      <4>2. row.since # Never
        BY <4>1, <2>3
      <4>3. PICK p \in RowsOf(a) : p.asOf = row.since
        BY <4>2, <2>3
      <4>4. row.since < s
        BY <4>3, <3>3, <3>0, <3>s
      <4> QED
        BY <4>1, <4>2, <4>4, <3>3, <2>5
    <3> QED
      BY <3>1, <3>2, <3>3
  <2>9. ChargeInv'
    BY <2>1, <2>2, <2>4 DEF Tiled, ChargeInv
  <2> QED
    BY <2>7, <2>8, <2>9 DEF Tiled
<1>4. CASE BeginTick \/ HoldOn \/ ApplyExternalPnl \/ EndTick \/ TickFails \/ Crash
  BY <1>4, <1>1 DEF BeginTick, HoldOn, ApplyExternalPnl, EndTick, TickFails, Crash, data
<1>5. CASE Midnight \/ (\E a \in Names, d \in Days : StoreBar(a, d)) \/ (\E a \in Funded : Confirm(a))
  BY <1>5, <1>1 DEF Midnight, StoreBar, Confirm
<1> QED
  BY <1>1, <1>2, <1>3, <1>4, <1>5 DEF Next, Tick, vars, data

(* The intervals of an asset's rows follow one another without a gap or an  *)
(* overlap, each with the quantity the row before left (plan_rebalance).    *)
THEOREM RowsTileTheDays == Spec => []DaysAreSettledOnce
<1>1. Spec => []Tiled
  BY SleeveAssumption, TiledInit, TiledStep, SleeveInvariant, PTL DEF Spec
<1> QED
  BY <1>1, PTL DEF Tiled

(* Two rows of an asset on the same day are the same row.                   *)
LEMMA OneRowADay ==
  ASSUME SleeveInv, Tiled, NEW r \in ledger, NEW q \in ledger, q.asset = r.asset, q.asOf = r.asOf
  PROVE  q = r
<1>1. q \in RowsOf(r.asset) /\ r \in RowsOf(q.asset)
  BY DEF RowsOf
<1>2. q = r \/ q.asOf <= r.since \/ r.asOf <= q.since
  BY <1>1 DEF Tiled, DaysAreSettledOnce
<1> QED
  BY <1>2 DEF SleeveInv, TypeOK, RowInv, Row, Days, Never

(* What is held over a day within a row's interval is what the row settles. *)
LEMMA HeldOverRow ==
  ASSUME SleeveAssumption, SleeveInv, Tiled, NEW r \in ledger, NEW s \in Settlements,
         r.since # Never, r.since < s, s <= r.asOf
  PROVE  HeldOver(r.asset, s) = r.held
<1> DEFINE a == r.asset
           before == {q \in RowsOf(a) : q.asOf < s}
           last == CHOOSE q \in before : \A p \in before : p.asOf <= q.asOf
<1>1. a \in Names /\ r \in RowsOf(a) /\ ledger \subseteq Row
  BY DEF SleeveInv, TypeOK, Row, RowsOf
<1>2. PICK q \in RowsOf(a) : q.asOf = r.since /\ q.qty = r.held
  BY DEF Tiled, DaysAreSettledOnce
<1>3. \A p \in before : p.asOf <= q.asOf
  <2> SUFFICES ASSUME NEW p \in before
               PROVE  p.asOf <= q.asOf
    OBVIOUS
  <2>1. p = r \/ p.asOf <= r.since \/ r.asOf <= p.since
    BY DEF Tiled, DaysAreSettledOnce
  <2>2. p \in ledger /\ p \in Row /\ p.since < p.asOf /\ p.asOf < s
    BY DEF SleeveInv, TypeOK, RowInv, RowsOf
  <2>3. s \in Int /\ r \in Row
    BY <1>1 DEF Settlements
  <2> QED
    BY <1>2, <2>1, <2>2, <2>3 DEF Row, Days, Never
<1>4. q \in before
  BY <1>2
<1>5. last \in before /\ \A p \in before : p.asOf <= last.asOf
  BY <1>3, <1>4
<1>6. last.asOf = q.asOf
  <2>1. last \in Row /\ q \in Row
    BY <1>1, <1>2, <1>5 DEF RowsOf
  <2> QED
    BY <1>3, <1>4, <1>5, <2>1 DEF Row, Days
<1>7. last = q
  BY <1>2, <1>5, <1>6, OneRowADay DEF RowsOf
<1>8. HeldOver(a, s) = last.qty
  BY <1>4 DEF HeldOver
<1> QED
  BY <1>2, <1>7, <1>8

(* A settlement whose rate was known in time is charged exactly once when   *)
(* something was held over it, and never otherwise (settled_funding_rates,  *)
(* cumulative_funding_cost).                                                *)
THEOREM FundingChargedOnce == Spec => []FundingIsChargedOnce
<1>1. SleeveAssumption /\ SleeveInv /\ Tiled => FundingIsChargedOnce
  <2> SUFFICES ASSUME SleeveAssumption, SleeveInv, Tiled, NEW a \in Names, NEW s \in Settlements
               PROVE  /\ Cardinality(ChargedFor(a, s)) <= (IF HeldOver(a, s) = 0 THEN 0 ELSE 1)
                      /\ s \in predicted[a] /\ (\E r \in RowsOf(a) : s <= r.asOf) /\ HeldOver(a, s) # 0
                           => ChargedFor(a, s) # {}
    BY DEF FundingIsChargedOnce
  <2>1. \A c \in ChargedFor(a, s) :
          /\ c[1] \in ledger /\ c[1].asset = a /\ c[2] \in c[1].funding /\ c[2].day = s
          /\ c = <<c[1], c[2]>>
          /\ c[1].since # Never /\ c[1].held # 0 /\ c[1].since < s /\ s <= c[1].asOf
    BY DEF ChargedFor, Tiled, ChargeInv
  <2>2. \A c \in ChargedFor(a, s) : HeldOver(a, s) # 0
    <3> SUFFICES ASSUME NEW c \in ChargedFor(a, s)
                 PROVE  HeldOver(a, s) # 0
      OBVIOUS
    <3>1. HeldOver(c[1].asset, s) = c[1].held
      BY <2>1, HeldOverRow
    <3> QED
      BY <2>1, <3>1
  <2>3. ASSUME NEW c \in ChargedFor(a, s), NEW d \in ChargedFor(a, s)
        PROVE  c = d
    <3> DEFINE r == c[1]
               q == d[1]
    <3>1. /\ r \in ledger /\ q \in ledger /\ r.asset = a /\ q.asset = a
          /\ r.since < s /\ s <= r.asOf /\ q.since < s /\ s <= q.asOf
      BY <2>1
    <3>2. q = r \/ q.asOf <= r.since \/ r.asOf <= q.since
      BY <3>1 DEF Tiled, DaysAreSettledOnce, RowsOf
    <3>3. q = r
      <4>1. q \in Row /\ r \in Row /\ s \in Int
        BY <3>1 DEF SleeveInv, TypeOK, Settlements
      <4> QED
        BY <3>1, <3>2, <4>1 DEF Row, Days, Never
    <3>4. c[2] = d[2]
      <4>1. \A f, g \in r.funding : f.day = g.day => f = g
        BY <3>1 DEF Tiled, ChargeInv
      <4> QED
        BY <2>1, <3>3, <4>1
    <3> QED
      BY <2>1, <3>3, <3>4
  <2>4. Cardinality(ChargedFor(a, s)) <= (IF HeldOver(a, s) = 0 THEN 0 ELSE 1)
    <3>1. CASE ChargedFor(a, s) = {}
      BY <3>1, FS_EmptySet
    <3>2. CASE ChargedFor(a, s) # {}
      <4>1. PICK c \in ChargedFor(a, s) : TRUE
        BY <3>2
      <4>2. ChargedFor(a, s) = {c}
        BY <4>1, <2>3
      <4>3. Cardinality({c}) = 1
        BY FS_Singleton
      <4> QED
        BY <4>1, <4>2, <4>3, <2>2
    <3> QED
      BY <3>1, <3>2
  <2>5. ASSUME s \in predicted[a], NEW r \in RowsOf(a), s <= r.asOf, HeldOver(a, s) # 0
        PROVE  ChargedFor(a, s) # {}
    <3>1. \E q \in RowsOf(a) : q.asOf < s
      <4>1. {q \in RowsOf(a) : q.asOf < s} # {}
        BY <2>5 DEF HeldOver
      <4> QED
        BY <4>1
    <3>2. PICK q \in RowsOf(a) : q.since # Never /\ q.since < s /\ s <= q.asOf
      BY <2>5, <3>1 DEF Tiled, Covered
    <3>3. q \in ledger /\ q.asset = a
      BY DEF RowsOf
    <3>4. q.held # 0
      BY <2>5, <3>2, <3>3, HeldOverRow
    <3>5. PICK f \in q.funding : f.day = s
      BY <2>5, <3>2, <3>3, <3>4 DEF Tiled, ChargeInv
    <3>6. f \in Charges
      BY <3>3 DEF SleeveInv, TypeOK, Row
    <3>7. <<q, f>> \in ChargedFor(a, s)
      BY <3>3, <3>5, <3>6 DEF ChargedFor
    <3> QED
      BY <3>7
  <2> QED
    BY <2>4, <2>5
<1>2. Spec => []Tiled
  BY SleeveAssumption, TiledInit, TiledStep, SleeveInvariant, PTL DEF Spec
<1> QED
  BY SleeveAssumption, <1>1, <1>2, SleeveInvariant, PTL

------------------------------------------------------------------------------
(* The curve: while nothing raises, a row is in a mark, or waits for the    *)
(* mark of this tick, or is about to be paid.                               *)

InCurve(r) ==
  \E d \in MarkDays : d > r.asOf /\ marks[d] # NoMark /\ marks[d][<<r.asset, r.asOf>>] = 1

CurveInv ==
  faults = 0 =>
    /\ turn = 0 => done = {}
    /\ \A r \in ledger :
         InCurve(r) \/ r.asOf \in done \/ (r.asset = Assets[turn] /\ r.asOf = unpaid)

(* The mark at the end of a tick has every row that is paid.                *)
LEMMA MarkHasRow ==
  ASSUME SleeveAssumption, SleeveInv, Paid, unpaid = Never, NEW r \in ledger
  PROVE  wallet # NoMark /\ wallet[<<r.asset, r.asOf>>] = 1
<1>1. r \in Row /\ wallet \in Wallets
  BY DEF SleeveInv, TypeOK
<1>2. r.asset \in Names /\ r.asOf \in Days /\ r \in RowsOf(r.asset) /\ unpaid # r.asOf
  BY <1>1, SleeveAssumption DEF Row, RowsOf, Days, Never
<1>3. wallet[<<r.asset, r.asOf>>] = 1
  BY <1>2 DEF Paid
<1>4. <<r.asset, r.asOf>> \in DOMAIN wallet /\ DOMAIN NoMark = {}
  BY <1>1, <1>2 DEF Wallets, NoMark
<1> QED
  BY <1>3, <1>4

(* Every step keeps the curve, as long as nothing raises.                   *)
LEMMA CurveStep == SleeveAssumption /\ SleeveInv /\ Paid /\ CurveInv /\ [Next]_vars => CurveInv'
<1> SUFFICES ASSUME SleeveAssumption, SleeveInv, Paid, CurveInv, [Next]_vars, faults' = 0
             PROVE  /\ turn' = 0 => done' = {}
                    /\ \A r \in ledger' : \/ InCurve(r)' \/ r.asOf \in done'
                                          \/ r.asset = Assets[turn'] /\ r.asOf = unpaid'
  BY DEF CurveInv
<1> DEFINE Old == /\ turn = 0 => done = {}
                  /\ \A r \in ledger : \/ InCurve(r) \/ r.asOf \in done
                                       \/ r.asset = Assets[turn] /\ r.asOf = unpaid
           New == /\ turn' = 0 => done' = {}
                  /\ \A r \in ledger' : \/ InCurve(r)' \/ r.asOf \in done'
                                        \/ r.asset = Assets[turn'] /\ r.asOf = unpaid'
<1>rows. \A r \in ledger : r \in Row /\ r.asOf \in Days /\ r.asOf # Never
  BY DEF SleeveInv, TypeOK, Row, Days, Never, SleeveAssumption
<1>faults. faults \in Nat /\ faults + 1 # 0
  BY DEF SleeveInv, TypeOK
<1>marks. UNCHANGED marks => \A r : InCurve(r)' <=> InCurve(r)
  BY DEF InCurve
<1>old. faults = 0 => Old
  BY DEF CurveInv
<1> HIDE DEF Old
<1>1. CASE UNCHANGED <<ledger, marks, unpaid, turn, done, faults>>
  BY <1>1, <1>marks, <1>old DEF Old
<1>2. ASSUME UNCHANGED <<ledger, marks, done, faults>>, unpaid = Never, unpaid' = Never,
             turn' = turn + 1, turn \in Nat
      PROVE  New
  <2>1. turn' # 0
    BY <1>2
  <2> QED
    BY <1>2, <1>marks, <1>old, <1>rows, <2>1 DEF Old
<1>3. CASE BeginTick
  <2>1. /\ UNCHANGED <<ledger, marks, faults, unpaid>> /\ turn = 0 /\ turn' = 1 /\ done' = {}
        /\ unpaid = Never
    BY <1>3, SleeveAssumption DEF BeginTick, SleeveInv, TypeOK
  <2> QED
    BY <1>marks, <1>old, <1>rows, <2>1 DEF Old
<1>4. CASE HoldOn
  BY <1>2, <1>4 DEF HoldOn
<1>5. ASSUME NEW day \in Days, NEW qty \in Holdings, Rebalance(day, qty)
      PROVE  New
  <2> DEFINE a == Assets[turn]
             row == Plan(a, day, qty)
  <2>1. /\ a \in Names /\ qty \in Quantities[a] /\ Due(a, day) /\ ledger' = ledger \cup {row}
        /\ unpaid = Never /\ unpaid' = day /\ turn' = turn /\ turn # 0
        /\ UNCHANGED <<marks, done, faults>>
    BY <1>5, NamesAreNames DEF Rebalance
  <2> HIDE DEF row
  <2>2. row.asset = a /\ row.asOf = day
    BY <2>1, PlannedRow DEF row
  <2> QED
    BY <1>marks, <1>old, <1>rows, <2>1, <2>2 DEF Old
<1>6. CASE ApplyExternalPnl
  <2>1. /\ unpaid # Never /\ done' = done \cup {unpaid} /\ turn' = turn + 1 /\ turn \in 1..Len(Assets)
        /\ UNCHANGED <<ledger, marks, faults>>
    BY <1>6 DEF ApplyExternalPnl, SleeveInv, TypeOK
  <2>2. turn' # 0
    BY <2>1
  <2> QED
    BY <1>marks, <1>old, <2>1, <2>2 DEF Old
<1>7. CASE EndTick
  <2>1. /\ unpaid = Never /\ UNCHANGED <<ledger, wallet, faults, unpaid>> /\ turn' = 0 /\ done' = {}
    BY <1>7, SleeveAssumption DEF EndTick, SleeveInv, TypeOK
  <2>2. \A r \in ledger : wallet # NoMark /\ wallet[<<r.asset, r.asOf>>] = 1
    BY <2>1, MarkHasRow
  <2>3. \A r \in ledger : InCurve(r) \/ r.asOf \in done
    BY <1>old, <1>rows, <2>1 DEF Old
  <2>4. CASE done = {}
    <3>1. UNCHANGED marks
      BY <1>7, <2>4 DEF EndTick
    <3> QED
      BY <1>marks, <2>1, <2>3, <2>4, <3>1
  <2>5. CASE done # {}
    <3>1. PICK d \in done : Newest(d, done) /\ marks' = [marks EXCEPT ![d + 1] = wallet]
      BY <1>7, <2>5 DEF EndTick
    <3>2. /\ d + 1 \in MarkDays /\ marks' \in [MarkDays -> Wallets \cup {NoMark}]
          /\ DOMAIN marks = MarkDays /\ \A e \in done : e <= d /\ e \in Int /\ d \in Int
      BY <3>1, SleeveStep DEF SleeveInv, TypeOK, Days, MarkDays, SleeveAssumption, Newest
    <3>3. marks'[d + 1] = wallet /\ \A m \in MarkDays \ {d + 1} : marks'[m] = marks[m]
      BY <3>1, <3>2
    <3>4. ASSUME NEW r \in ledger PROVE InCurve(r)'
      <4>1. CASE r.asOf \in done
        <5>1. d + 1 > r.asOf
          BY <3>2, <4>1
        <5> QED
          BY <2>2, <3>2, <3>3, <5>1 DEF InCurve
      <4>2. CASE InCurve(r)
        <5>1. PICK m \in MarkDays :
                m > r.asOf /\ marks[m] # NoMark /\ marks[m][<<r.asset, r.asOf>>] = 1
          BY <4>2 DEF InCurve
        <5> QED
          BY <2>2, <3>3, <5>1 DEF InCurve
      <4> QED
        BY <2>3, <4>1, <4>2
    <3> QED
      BY <2>1, <3>4
  <2> QED
    BY <2>4, <2>5
<1>8. CASE TickFails \/ Crash
  BY <1>8, <1>faults DEF TickFails, Crash
<1>9. CASE Midnight \/ (\E a \in Names, d \in Days : StoreBar(a, d))
           \/ (\E a \in Funded : Predict(a) \/ Confirm(a))
  BY <1>1, <1>9 DEF Midnight, StoreBar, Predict, Confirm, tick
<1>10. CASE UNCHANGED vars
  BY <1>1, <1>10 DEF vars, tick
<1> QED
  BY <1>3, <1>4, <1>5, <1>6, <1>7, <1>8, <1>9, <1>10 DEF Next, Tick

(* What was settled is in the equity curve between ticks, unless one raised *)
(* or died before its mark (tick, _equity_mark).                            *)
THEOREM SettlementsAreMarked == Spec => []SettlementsReachTheCurve
<1>1. Init => CurveInv
  BY DEF Init, CurveInv
<1>2. SleeveAssumption /\ SleeveInv /\ CurveInv => SettlementsReachTheCurve
  <2> SUFFICES ASSUME SleeveAssumption, SleeveInv, CurveInv, turn = 0, faults = 0, NEW r \in ledger
               PROVE  InCurve(r)
    BY DEF SettlementsReachTheCurve, InCurve
  <2>1. unpaid = Never /\ r.asOf # Never
    BY DEF SleeveInv, TypeOK, Row, Days, Never, SleeveAssumption
  <2> QED
    BY <2>1 DEF CurveInv
<1>3. Spec => []Paid
  BY SleeveAssumption, PaidInit, PaidStep, SleeveInvariant, PTL DEF Spec
<1>4. Spec => []CurveInv
  BY SleeveAssumption, <1>1, <1>3, CurveStep, SleeveInvariant, PTL DEF Spec
<1> QED
  BY SleeveAssumption, <1>2, <1>4, SleeveInvariant, PTL
==============================================================================
