---------------------------- MODULE MCSpaceSync ----------------------------
(***************************************************************************)
(* Instances of SpaceSync for TLC: one or two slots for syncFile calls on  *)
(* the path, and the edits that change the file's size (the conflict       *)
(* markers and the first edit; the others keep it).                        *)
(***************************************************************************)
EXTENDS SpaceSync, TLC
CONSTANTS w1, w2

OneWorker == {w1}
TwoWorkers == {w1, w2}
GrowingEdits == {Markers, 1}
WorkerSymmetry == Permutations(TwoWorkers)
=============================================================================
