------------------------- MODULE MCDetectorCheckpoint -------------------------
(***************************************************************************)
(* Instance of DetectorCheckpoint for TLC: two phones, one of which sends  *)
(* two fixes.                                                              *)
(***************************************************************************)
EXTENDS DetectorCheckpoint

CONSTANTS f1, f2

TwoPhones == [f \in Fix |-> IF f = f1 THEN 1 ELSE 2]
OnePhone == [f \in Fix |-> 1]
=============================================================================
