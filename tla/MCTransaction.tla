----------------------------- MODULE MCTransaction -----------------------------
(***************************************************************************)
(* Instances of Transaction: two devices; the first makes the edits 1 and  *)
(* 2, the second edit 3.                                                   *)
(***************************************************************************)
EXTENDS Transaction

CONSTANTS d1, d2

TwoDevices == {d1, d2}
ThreeEdits == 1..3
OwnerOfThree == <<d1, d1, d2>>
================================================================================
