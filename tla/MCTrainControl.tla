--------------------------- MODULE MCTrainControl ---------------------------
(***************************************************************************)
(* Instances of TrainControl for model checking.  The trains that a cfg    *)
(* declares are interchangeable; it has one powered vehicle, so that the   *)
(* vehicles are not.                                                       *)
(***************************************************************************)
EXTENDS TrainControl, TLC

Symmetric == Permutations(Train)
=============================================================================
