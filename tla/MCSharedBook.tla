---------------------------- MODULE MCSharedBook ----------------------------
(* An exit loses or earns one unit of the wallet.                           *)
EXTENDS SharedBook

LossOrGain == {-1, 1}
=============================================================================
