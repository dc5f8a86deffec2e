--------------------------- MODULE MCEventStream ---------------------------
(* EventStream for one or two files, of which the first is open.           *)
EXTENDS EventStream, TLC

CONSTANTS p1, p2

OnePath == {p1}
TwoPaths == {p1, p2}
OpenPage == {p1}
=============================================================================
