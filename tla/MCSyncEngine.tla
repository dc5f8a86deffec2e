---------------------------- MODULE MCSyncEngine ----------------------------
(***************************************************************************)
(* Instances of SyncEngine for TLC: two paths and two revisions.           *)
(***************************************************************************)
EXTENDS SyncEngine

CONSTANTS p1, p2, h1, h2

TwoPaths == {p1, p2}
TwoHashes == {h1, h2}
OneTime == {1}
=============================================================================
