--------------------------- MODULE MCSpaceEvents ---------------------------
(* SpaceEvents for one or two files and two operations at a time.          *)
EXTENDS SpaceEvents

CONSTANTS f1, f2

OneFile == {f1}
TwoFiles == {f1, f2}
TwoSlots == {1, 2}
=============================================================================
