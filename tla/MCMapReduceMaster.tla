------------------------- MODULE MCMapReduceMaster -------------------------
(* The master with two or three files named by model values. *)
EXTENDS MapReduceMaster, TLC

CONSTANTS f1, f2, f3

TwoFiles == <<f1, f2>>
ThreeFiles == <<f1, f2, f3>>
NoNames == {}
OneShortName == {f1}
============================================================================
