--------------------------- MODULE MCMessageQueue ---------------------------
(* MessageQueue for one or two tabs and one or two workers.                *)
EXTENDS MessageQueue, TLC

CONSTANTS t1, t2, w1, w2

OneTab == {t1}
TwoTabs == {t1, t2}
OneWorker == {w1}
TwoWorkers == {w1, w2}
SameTab == [w \in Workers |-> t1]
OwnTab == w1 :> t1 @@ w2 :> t2
OneMessage == {1}
=============================================================================
