--------------------------- MODULE MCCalibrationRun ---------------------------
(***************************************************************************)
(* Bounded instances of CalibrationRun: the second mission is holdout.     *)
(***************************************************************************)
EXTENDS CalibrationRun

SecondMission == {2}

\* One cap each that can be reached, and one that cannot.
Caps == {[transitions |-> 6, episodes |-> 5], [transitions |-> 9, episodes |-> 3],
         [transitions |-> 9, episodes |-> 5]}
=============================================================================
