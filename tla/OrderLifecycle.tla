--------------------------- MODULE OrderLifecycle ---------------------------
(***************************************************************************)
(* What the order journal (the table live_limit_orders) promises of one    *)
(* order, whatever the engine, the runner and the crashes between their    *)
(* writes do: an order is placed once, resolved once, and only a fill is   *)
(* judged, once.  PaperRunner is shown to implement this specification.    *)
(***************************************************************************)

CONSTANT Rows           \* the ids of the journal's rows

VARIABLE life           \* life[r]: how far the order of row r has come

(* live.order_journal: `status` and `entry_status` of a row, as one value.  *)
Life == {"none", "pending", "filled", "entered", "rejected", "closed"}

LifeTypeOK == life \in [Rows -> Life]

Init == life = [r \in Rows |-> "none"]

Move(r, from, to) ==
  /\ life[r] = from
  /\ life' = [life EXCEPT ![r] = to]

(* A tap places an order. *)
Place(r) == Move(r, "none", "pending")

(* The order is resolved without a fill: expired, invalidated, refused by   *)
(* the exit rule, or discarded.                                             *)
Close(r) == Move(r, "pending", "closed")

(* A start discards every order it could not restore, in one statement.     *)
CloseAll(S) ==
  /\ \A r \in S : life[r] = "pending"
  /\ life' = [r \in Rows |-> IF r \in S THEN "closed" ELSE life[r]]

(* The price reached the order. *)
Fill(r) == Move(r, "pending", "filled")

(* The fill became a position, or was refused.                              *)
Judge(r) == Move(r, "filled", "entered") \/ Move(r, "filled", "rejected")

Next ==
  \/ \E r \in Rows : Place(r) \/ Close(r) \/ Fill(r) \/ Judge(r)
  \/ \E S \in SUBSET Rows : CloseAll(S)

Spec == Init /\ [][Next]_life
=============================================================================
