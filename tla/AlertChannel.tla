---------------------------- MODULE AlertChannel ----------------------------
(***************************************************************************)
(* What the phone may be told of a set of issues: an issue is announced,   *)
(* announced again no sooner than a cooldown later while it stands, and    *)
(* closed once.  Time is the age of the last announcement, in checks; it   *)
(* is not counted beyond the cooldown.                                     *)
(***************************************************************************)
EXTENDS Integers

CONSTANTS
  Keys,     \* the issues
  Cooldown  \* checks between two announcements of a standing issue

Unannounced == -1
Ages == {Unannounced} \cup 0..Cooldown

VARIABLE phone   \* how long ago each open issue was announced

Init == phone = [k \in Keys |-> Unannounced]

Announce(k) ==
  /\ phone[k] \in {Unannounced, Cooldown}
  /\ phone' = [phone EXCEPT ![k] = 0]

Close(k) ==
  /\ phone[k] # Unannounced
  /\ phone' = [phone EXCEPT ![k] = Unannounced]

Older(age) == IF age \in {Unannounced, Cooldown} THEN age ELSE age + 1

Pass == phone' = [k \in Keys |-> Older(phone[k])]

Next == Pass \/ \E k \in Keys : Announce(k) \/ Close(k)

Spec == Init /\ [][Next]_phone
=============================================================================
