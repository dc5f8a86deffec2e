------------------------------ MODULE MCLogout ------------------------------
(* Logout for two or three tabs of one space.                              *)
EXTENDS Logout

CONSTANTS t1, t2, t3, w1, w2

TwoTabs == {t1, t2}
ThreeTabs == {t1, t2, t3}
OneWorker == {w1}
TwoWorkers == {w1, w2}
OneSpace == [t \in Tabs |-> w1]
=============================================================================
