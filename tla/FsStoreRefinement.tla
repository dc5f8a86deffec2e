-------------------------- MODULE FsStoreRefinement --------------------------
(***************************************************************************)
(* The handlers of FsStore implement CondStore: conditional PUT, DELETE    *)
(* and reconciliation take effect at one moment each, the one at which the *)
(* answer is decided.                                                      *)
(*                                                                         *)
(* What a handler has judged of a file stays true until it acts on it      *)
(* (JudgedInv), since it holds the lock of the path (LocksExclude), reads  *)
(* a hash that is the file's (HashesAreCurrent), and other programs stay   *)
(* out of the exposed windows.                                             *)
(***************************************************************************)
EXTENDS FsStoreProofs

-----------------------------------------------------------------------------
(* The refinement mapping.                                                 *)

\* The state of CondStore, as Store maps it.
file == [p \in Paths |-> IF disk[p] = None THEN None ELSE disk[p].content]
call == [t \in Threads |->
    IF pc[t] = "idle" \/ Reads(t) THEN [state |-> "idle", req |-> None, ans |-> None]
    ELSE [state |-> IF ans[t] = None THEN "called" ELSE "applied",
          req |-> req[t], ans |-> ans[t]]]

LEMMA MapsStutter ==
    ASSUME UNCHANGED <<file, call>>
    PROVE  UNCHANGED Store!vars
BY Zenon DEF Store!vars, file, call

LEMMA MapsCall ==
    ASSUME NEW t \in Threads, NEW r \in Offered, r.op \in Writes,
           call[t] = [state |-> "idle", req |-> None, ans |-> None],
           call' = [call EXCEPT ![t] = [state |-> "called", req |-> r, ans |-> None]],
           UNCHANGED file
    PROVE  Store!Next
<1>1. Store!Call(t, r)
  BY Zenon DEF Store!Call, Store!Idle, file, call
<1> QED BY <1>1 DEF Store!Next

LEMMA MapsApply ==
    ASSUME NEW t \in Threads, call[t].state = "called",
           NEW o \in Store!Outcomes(call[t].req, file[call[t].req.path]),
           file' = [file EXCEPT ![call[t].req.path] = o[1]],
           call' = [call EXCEPT ![t].state = "applied", ![t].ans = o[2]]
    PROVE  Store!Next
<1>1. Store!Apply(t)
  BY Zenon DEF Store!Apply, file, call
<1> QED BY <1>1 DEF Store!Next

LEMMA MapsReturn ==
    ASSUME NEW t \in Threads, call[t].state = "applied",
           call' = [call EXCEPT ![t] = [state |-> "idle", req |-> None, ans |-> None]],
           UNCHANGED file
    PROVE  Store!Next
<1>1. Store!Return(t)
  BY Zenon DEF Store!Return, Store!Idle, file, call
<1> QED BY <1>1 DEF Store!Next

LEMMA MapsForeign ==
    ASSUME NEW p \in Paths, NEW c \in Contents \cup {None},
           file' = [file EXCEPT ![p] = c], UNCHANGED call
    PROVE  Store!Next
<1>1. Store!Foreign(p, c)
  BY Zenon DEF Store!Foreign, file, call
<1> QED BY <1>1 DEF Store!Next

-----------------------------------------------------------------------------
(* The steps of one thread.                                                *)

Maps == Store!Next \/ UNCHANGED Store!vars

LEMMA CallAt ==
    ASSUME NEW t \in Threads
    PROVE  /\ pc[t] = "idle" \/ req[t].op \notin Writes =>
                 call[t] = [state |-> "idle", req |-> None, ans |-> None]
           /\ pc[t] # "idle" /\ req[t].op \in Writes =>
                 call[t] = [state |-> IF ans[t] = None THEN "called" ELSE "applied",
                            req |-> req[t], ans |-> ans[t]]
           /\ pc'[t] = "idle" \/ req'[t].op \notin Writes =>
                 call'[t] = [state |-> "idle", req |-> None, ans |-> None]
           /\ pc'[t] # "idle" /\ req'[t].op \in Writes =>
                 call'[t] = [state |-> IF ans'[t] = None THEN "called" ELSE "applied",
                             req |-> req'[t], ans |-> ans'[t]]
BY DEF call, Reads

\* The other threads' calls stay as they are.
LEMMA CallAlone ==
    ASSUME NEW t \in Threads, Alone(t)
    PROVE  call' = [call EXCEPT ![t] = call'[t]]
<1>1. ASSUME NEW u \in Threads, u # t PROVE call'[u] = call[u]
  <2>1. pc'[u] = pc[u] /\ req'[u] = req[u] /\ ans'[u] = ans[u]
    BY <1>1 DEF Alone
  <2> QED BY <2>1, CallAt
<1>2. /\ call = [u \in Threads |-> call[u]]
      /\ call' = [u \in Threads |-> call'[u]]
  BY DEF call
<1> QED BY <1>1, <1>2

LEMMA FileAt ==
    /\ file = [p \in Paths |-> file[p]]
    /\ file' = [p \in Paths |-> file'[p]]
    /\ \A p \in Paths : file[p] = IF disk[p] = None THEN None ELSE disk[p].content
    /\ \A p \in Paths : file'[p] = IF disk'[p] = None THEN None ELSE disk'[p].content
BY DEF file

LEMMA StepStutters ==
    ASSUME NEW t \in Threads, Alone(t), pc[t] # "idle", pc'[t] # "idle", req'[t] = req[t],
           ans'[t] = ans[t], UNCHANGED file
    PROVE  Maps
<1>1. call'[t] = call[t]
  BY CallAt
<1>2. call' = call
  BY <1>1, CallAlone DEF call
<1> QED BY <1>2, MapsStutter DEF Maps

\* The record of a call, once applied.
LEMMA SameCall ==
    ASSUME NEW S, NEW R, NEW A, NEW x \in [state : S, req : R, ans : A],
           NEW y \in [state : S, req : R, ans : A],
           x.state = y.state, x.req = y.req, x.ans = y.ans
    PROVE  x = y
OBVIOUS

LEMMA StepApplies ==
    ASSUME NEW t \in Threads, Alone(t), pc[t] # "idle", pc'[t] # "idle", req'[t] = req[t],
           req[t].op \in Writes, ans[t] = None, ans'[t] # None,
           NEW g, <<g, ans'[t]>> \in Store!Outcomes(req[t], file[req[t].path]),
           file' = [file EXCEPT ![req[t].path] = g]
    PROVE  Maps
<1> DEFINE o == <<g, ans'[t]>>
<1>1. /\ call[t] = [state |-> "called", req |-> req[t], ans |-> None]
      /\ call'[t] = [state |-> "applied", req |-> req[t], ans |-> o[2]]
  BY CallAt
<1>2. call' = [call EXCEPT ![t].state = "applied", ![t].ans = o[2]]
  <2>1. call' = [call EXCEPT ![t] = [state |-> "applied", req |-> req[t], ans |-> o[2]]]
    BY <1>1, CallAlone
  <2>2. PICK a : a = o[2]
    OBVIOUS
  <2>3. PICK S : call \in [Threads -> S]
    <3>1. call \in [Threads -> {call[u] : u \in Threads}]
      BY DEF call
    <3> QED BY <3>1
  <2>4. [call EXCEPT ![t].state = "applied", ![t].ans = a] =
        [call EXCEPT ![t] = [[call[t] EXCEPT !.state = "applied"] EXCEPT !.ans = a]]
    BY <2>3
  <2>5. [[call[t] EXCEPT !.state = "applied"] EXCEPT !.ans = a] =
        [state |-> "applied", req |-> req[t], ans |-> a]
    <3> DEFINE y == [[call[t] EXCEPT !.state = "applied"] EXCEPT !.ans = a]
               z == [state |-> "applied", req |-> req[t], ans |-> a]
               Calls == [state : {"called", "applied"}, req : {req[t]}, ans : {a, None}]
    <3>1. call[t] \in Calls /\ call[t].req = req[t]
      BY <1>1
    <3>2. z \in Calls /\ z.state = "applied" /\ z.req = req[t] /\ z.ans = a
      OBVIOUS
    <3>3. y \in Calls /\ y.state = "applied" /\ y.req = req[t] /\ y.ans = a
      BY <3>1
    <3> HIDE DEF y, z
    <3>4. y = z
      BY <3>2, <3>3, SameCall
    <3> QED BY <3>4 DEF y, z
  <2> QED BY <2>1, <2>2, <2>4, <2>5, Zenon
<1>3. call[t].state = "called" /\ call[t].req = req[t] /\ o[1] = g
  BY <1>1
<1> QED BY <1>2, <1>3, MapsApply DEF Maps

\* It answers and leaves the file as it is.
LEMMA StepDecides ==
    ASSUME TypeInv, NEW t \in Threads, Alone(t), pc[t] # "idle", pc'[t] # "idle", req'[t] = req[t],
           req[t].op \in Writes, ans[t] = None, ans'[t] # None, UNCHANGED file,
           <<file[req[t].path], ans'[t]>> \in Store!Outcomes(req[t], file[req[t].path])
    PROVE  Maps
<1>1. req[t].path \in Paths
  BY ThreadFacts
<1>2. file' = [file EXCEPT ![req[t].path] = file[req[t].path]]
  BY <1>1 DEF file
<1> QED BY <1>2, StepApplies

-----------------------------------------------------------------------------
(* The outcomes that CondStore allows.                                     *)

LEMMA PutOutcomes ==
    ASSUME NEW r, NEW f, r.op = "put"
    PROVE  /\ Store!Holds(r, f) => <<r.body, Answer("ok", r.body)>> \in Store!Outcomes(r, f)
           /\ ~Store!Holds(r, f) =>
                 \A h \in {f, None} : <<f, Answer("precondition", h)>> \in Store!Outcomes(r, f)
<1>1. Store!Outcomes(r, f) = Store!Put(r, f)
  BY Zenon DEF Store!Outcomes
<1> QED BY <1>1, Zenon DEF Store!Put, Store!Answer, Answer

LEMMA DeleteOutcomes ==
    ASSUME NEW r, NEW f, r.op = "delete"
    PROVE  /\ ~Store!Holds(r, f) =>
                 \A h \in {f, None} : <<f, Answer("precondition", h)>> \in Store!Outcomes(r, f)
           /\ Store!Holds(r, f) /\ f = None =>
                 <<f, Answer("missing", None)>> \in Store!Outcomes(r, f)
           /\ Store!Holds(r, f) /\ f # None =>
                 <<None, Answer("ok", None)>> \in Store!Outcomes(r, f)
<1>1. Store!Outcomes(r, f) = Store!Delete(r, f)
  BY Zenon DEF Store!Outcomes
<1> QED BY <1>1, Zenon DEF Store!Delete, Store!Answer, Answer

LEMMA ReconcileOutcomes ==
    ASSUME NEW r, NEW f, r.op = "reconcile"
    PROVE  LET refused == {r.base, r.body} \cap Unmergeable # {}
               m == Merge(r.base, r.body, f)
               Allowed(c, a) == <<c, a>> \in Store!Outcomes(r, f)
           IN  /\ refused => Allowed(f, Answer("conflict", None))
               /\ ~refused /\ f # None => Allowed(f, Answer("retry", f))
               /\ ~refused /\ f \in {None, r.body, r.base} => Allowed(r.body, Answer("ok", r.body))
               /\ ~refused /\ f \notin {None, r.body, r.base} /\ (f \in Unmergeable \/ m = None) =>
                     Allowed(f, Answer("conflict", None))
               /\ ~refused /\ f \notin {None, r.body, r.base} \cup Unmergeable /\ m # None =>
                     Allowed(m, Answer("ok", m))
<1>1. Store!Outcomes(r, f) = Store!Reconcile(r, f)
  BY Zenon DEF Store!Outcomes
<1> QED BY <1>1 DEF Store!Reconcile, Store!Answer, Answer

-----------------------------------------------------------------------------
(* What a handler has judged holds of the file until it acts on it.        *)

Reason(f, r, n) ==
    /\ n.why = "match" => ~r.ifNone /\ r.ifMatch \notin {None, Star} /\ f # None
    /\ n.why = "exists" => r.ifNone /\ f # None
    /\ n.why = "deleted" => Store!Holds(r, f)
    /\ n.why = "again" => /\ n.data \notin {r.base, r.body} \cup Unmergeable
                          /\ n.out = Merge(r.base, r.body, n.data)

Judged(f, l, r, n) ==
    /\ r.op = "reconcile" /\ l \notin {"parse", "rejected"} =>
          {r.base, r.body} \cap Unmergeable = {}
    /\ l \in {"hash", "stat", "read", "record"} /\ r.op \in Writes => Reason(f, r, n)
    /\ l = "record" /\ r.op \in Writes => n.data = f
    /\ l = "remove" => Store!Holds(r, f)
    /\ l = "write" => <<n.out, Answer("ok", n.out)>> \in Store!Outcomes(r, f)

JudgedInv ==
    \A t \in Threads : pc[t] # "idle" => Judged(file[req[t].path], pc[t], req[t], reg[t])

LEMMA JudgedAlone ==
    ASSUME JudgedInv, NEW t \in Threads, Alone(t), UNCHANGED file,
           pc'[t] # "idle" => Judged(file[req'[t].path], pc'[t], req'[t], reg'[t])
    PROVE  JudgedInv'
<1> SUFFICES ASSUME NEW u \in Threads, pc'[u] # "idle"
             PROVE  Judged(file[req'[u].path], pc'[u], req'[u], reg'[u])
  BY Zenon DEF JudgedInv
<1>1. CASE u = t
  BY <1>1
<1>2. CASE u # t
  BY <1>2 DEF JudgedInv, Alone
<1> QED BY <1>1, <1>2

\* A step of thread t that keeps the files: where it leads, with which locals
\* and answer, and what CondStore makes of it.
LEMMA QuietStep ==
    ASSUME TypeInv, JudgedInv, NEW t \in Threads, pc[t] # "idle",
           NEW l, l # "idle", NEW n, NEW a, NEW k, Moves(t, l, n, a, k), UNCHANGED <<req, file>>,
           Judged(file[req[t].path], l, req[t], n),
           \/ a = ans[t]
           \/ /\ req[t].op \in Writes /\ ans[t] = None /\ a # None
              /\ <<file[req[t].path], a>> \in Store!Outcomes(req[t], file[req[t].path])
    PROVE  JudgedInv' /\ Maps
<1>1. Alone(t) /\ pc'[t] = l /\ reg'[t] = n /\ req'[t] = req[t]
  BY MovesAlone
<1>2. ans'[t] = a
  BY DEF Moves, TypeInv, ThreadsOK
<1>3. JudgedInv'
  BY <1>1, JudgedAlone
<1>4. Maps
  BY <1>1, <1>2, StepStutters, StepDecides
<1> QED BY <1>3, <1>4

LEMMA AfterHashMaps ==
    ASSUME TypeInv, JudgedInv, NEW t \in Threads, NEW h, AfterHash(t, h), UNCHANGED <<req, arc, file>>,
           pc[t] \in {"hash", "stat", "read", "record"}, reg[t].why \notin {"current", "again"},
           req[t].op \in Writes => h = file[req[t].path]
    PROVE  JudgedInv' /\ Maps
<1> DEFINE r == req[t]
           f == file[r.path]
<1>1. /\ Place(pc[t], r, reg[t].why) /\ r \in Requests /\ r.op \in Handlers /\ pc[t] # "idle"
      /\ arc' = [arc EXCEPT ![t] = arc[t]]
  BY ThreadFacts, KeepsArc
<1>2. /\ r.op \in Handlers \ {"reconcile"}
      /\ r.op \in Writes <=> reg[t].why \in {"match", "exists", "deleted"}
      /\ reg[t].why = "deleted" => r.op = "delete"
      /\ reg[t].why = "match" => r.op \in {"put", "delete"}
      /\ reg[t].why = "exists" => r.op \in {"put", "delete"}
  BY <1>1 DEF Place, Looking, Writes, Handlers
<1>3. r.op \in Writes => Reason(f, r, reg[t]) /\ ans[t] = None
  BY <1>1, ThreadHolds DEF JudgedInv, Judged, Decided
<1>4. ASSUME NEW n, reg' = [reg EXCEPT ![t] = n], Goto(t, "respond"), Decide(t, "precondition", h),
             r.op \in {"put", "delete"}, ~Store!Holds(r, f)
      PROVE  JudgedInv' /\ Maps
  <2>1. h = f /\ ans[t] = None /\ r.op \in Writes
    BY <1>2, <1>3, <1>4 DEF Writes
  <2>2. <<f, Answer("precondition", h)>> \in Store!Outcomes(r, f)
    BY <1>4, <2>1, PutOutcomes, DeleteOutcomes
  <2>3. Judged(f, "respond", r, n)
    BY <1>4 DEF Judged
  <2>4. Answer("precondition", h) # None
    <3>1. h \in Contents \cup {None}
      <4>1. r.path \in Paths /\ disk[r.path] \in Files \cup {None}
        BY <1>1, ThreadFacts
      <4> QED BY <2>1, <4>1, FileAt DEF Files
    <3> QED BY <3>1, AnswerType
  <2>5. Moves(t, "respond", n, Answer("precondition", h), arc[t])
    BY <1>1, <1>4 DEF Moves, Goto, Decide
  <2> QED BY <1>1, <2>1, <2>2, <2>3, <2>4, <2>5, QuietStep
<1>5. ASSUME NEW n, reg' = [reg EXCEPT ![t] = n], NEW l \in {"write", "hash", "remove", "respond"},
             Goto(t, l), UNCHANGED ans, Judged(f, l, r, n)
      PROVE  JudgedInv' /\ Maps
  <2>1. Moves(t, l, n, ans[t], arc[t])
    BY <1>1, <1>5, KeepsAns DEF Moves, Goto
  <2> QED BY <1>1, <1>5, <2>1, QuietStep
<1>6. CASE reg[t].why = "match" /\ h = r.ifMatch
  <2>1. Store!Holds(r, f)
    BY <1>2, <1>3, <1>6 DEF Reason, Store!Holds
  <2>2. CASE r.op = "put"
    <3> DEFINE n == [Fresh EXCEPT !.out = r.body]
    <3>1. reg' = [reg EXCEPT ![t] = n] /\ Goto(t, "write") /\ UNCHANGED ans
      BY <1>6, <2>2, AfterHashCases
    <3>2. n.out = r.body
      BY DEF Fresh
    <3>3. Judged(f, "write", r, n)
      BY <2>1, <2>2, <3>2, PutOutcomes DEF Judged
    <3> QED BY <1>5, <3>1, <3>3
  <2>3. CASE r.op = "delete"
    <3> DEFINE n == [Fresh EXCEPT !.why = "deleted"]
    <3>1. reg' = [reg EXCEPT ![t] = n] /\ Goto(t, "hash") /\ UNCHANGED ans
      BY <1>6, <2>3, AfterHashCases
    <3>2. n.why = "deleted"
      BY DEF Fresh
    <3>3. Judged(f, "hash", r, n)
      BY <2>1, <2>3, <3>2 DEF Judged, Reason
    <3> QED BY <1>5, <3>1, <3>3
  <2> QED BY <1>2, <1>6, <2>2, <2>3
<1>7. CASE reg[t].why = "match" /\ h # r.ifMatch
  <2>1. h = f /\ f # None /\ r.op \in {"put", "delete"} /\ ~Store!Holds(r, f)
    BY <1>2, <1>3, <1>7 DEF Reason, Store!Holds
  <2>2. Goto(t, "respond") /\ Decide(t, "precondition", h) /\ \E n : reg' = [reg EXCEPT ![t] = n]
    BY <1>7, <2>1, AfterHashCases
  <2> QED BY <1>4, <2>1, <2>2
<1>8. CASE reg[t].why = "exists"
  <2>1. r.op \in {"put", "delete"} /\ ~Store!Holds(r, f)
    BY <1>2, <1>3, <1>8 DEF Reason, Store!Holds
  <2>2. Goto(t, "respond") /\ Decide(t, "precondition", h) /\ reg' = [reg EXCEPT ![t] = Fresh]
    BY <1>8, AfterHashCases
  <2> QED BY <1>4, <2>1, <2>2
<1>9. CASE reg[t].why = "deleted"
  <2>1. Goto(t, "remove") /\ UNCHANGED ans /\ reg' = [reg EXCEPT ![t] = Fresh]
    BY <1>9, AfterHashCases
  <2>2. Judged(f, "remove", r, Fresh)
    BY <1>2, <1>3, <1>9 DEF Judged, Reason
  <2> QED BY <1>5, <2>1, <2>2
<1>10. CASE reg[t].why \notin {"match", "exists", "deleted"}
  <2>1. Goto(t, "respond") /\ UNCHANGED ans /\ reg' = [reg EXCEPT ![t] = Fresh]
    BY <1>10, AfterHashCases
  <2>2. Judged(f, "respond", r, Fresh)
    BY <1>2, <1>10 DEF Judged
  <2> QED BY <1>5, <2>1, <2>2
<1> QED BY <1>6, <1>7, <1>8, <1>9, <1>10

LEMMA ReconcileMaps ==
    ASSUME TypeInv, JudgedInv, NEW t \in Threads, NEW d, reconcile(t, d), UNCHANGED <<req, arc, file>>,
           pc[t] \in {"stat", "read"}, reg[t].why \in {"current", "again"}, d = file[req[t].path]
    PROVE  JudgedInv' /\ Maps
<1> DEFINE r == req[t]
           m == Merge(r.base, r.body, d)
           Allowed(c, a) == <<c, a>> \in Store!Outcomes(r, d)
<1>1. /\ Place(pc[t], r, reg[t].why) /\ r \in Requests /\ r.op \in Handlers /\ pc[t] # "idle"
      /\ r.base \in Contents /\ r.body \in Contents /\ reg[t] \in Locals /\ Filled(pc[t], reg[t])
      /\ arc' = [arc EXCEPT ![t] = arc[t]]
  BY ThreadFacts, KeepsArc
<1>2. r.op = "reconcile"
  BY <1>1 DEF Place, Looking, Writes, Handlers
<1>3. /\ r.op \in Writes /\ ans[t] = None /\ Reason(d, r, reg[t])
      /\ {r.base, r.body} \cap Unmergeable = {}
  BY <1>1, <1>2, ThreadHolds DEF JudgedInv, Judged, Decided, Writes
<1>4. d \in Contents \cup {None}
  <2>1. r.path \in Paths /\ disk[r.path] \in Files \cup {None}
    BY <1>1, ThreadFacts
  <2> QED BY <2>1, FileAt DEF Files
<1>5. /\ d # None => Allowed(d, Answer("retry", d))
      /\ d \in {None, r.body, r.base} => Allowed(r.body, Answer("ok", r.body))
      /\ d \notin {None, r.body, r.base} /\ (d \in Unmergeable \/ m = None) =>
            Allowed(d, Answer("conflict", None))
      /\ d \notin {None, r.body, r.base} \cup Unmergeable /\ m # None => Allowed(m, Answer("ok", m))
  BY <1>2, <1>3, ReconcileOutcomes
<1>6. ASSUME NEW n, reg' = [reg EXCEPT ![t] = n], NEW l \in {"respond", "note"}, Goto(t, l),
             NEW s \in {"ok", "conflict", "retry"}, NEW h \in {d, None}, Decide(t, s, h),
             Allowed(d, Answer(s, h))
      PROVE  JudgedInv' /\ Maps
  <2>1. Judged(d, l, r, n)
    BY <1>3, <1>6 DEF Judged
  <2>2. Answer(s, h) # None
    BY <1>4, AnswerType
  <2>3. Moves(t, l, n, Answer(s, h), arc[t])
    BY <1>1, <1>6 DEF Moves, Goto, Decide
  <2> QED BY <1>1, <1>3, <1>6, <2>1, <2>2, <2>3, QuietStep
<1>7. ASSUME NEW n, reg' = [reg EXCEPT ![t] = n], Goto(t, "write"), UNCHANGED ans,
             Allowed(n.out, Answer("ok", n.out))
      PROVE  JudgedInv' /\ Maps
  <2>1. Judged(d, "write", r, n)
    BY <1>3, <1>7 DEF Judged
  <2>2. Moves(t, "write", n, ans[t], arc[t])
    BY <1>1, <1>7, KeepsAns DEF Moves, Goto
  <2> QED BY <1>1, <1>7, <2>1, <2>2, QuietStep
<1>8. ASSUME NEW n, reg' = [reg EXCEPT ![t] = n], Goto(t, "stat"), UNCHANGED ans, Reason(d, r, n)
      PROVE  JudgedInv' /\ Maps
  <2>1. Judged(d, "stat", r, n)
    BY <1>3, <1>8 DEF Judged
  <2>2. Moves(t, "stat", n, ans[t], arc[t])
    BY <1>1, <1>8, KeepsAns DEF Moves, Goto
  <2> QED BY <1>1, <1>8, <2>1, <2>2, QuietStep
<1>9. \A x : [Fresh EXCEPT !.out = x].out = x
  BY DEF Fresh
<1> HIDE DEF Allowed
<1>10. CASE reg[t].why = "again" /\ unchanged(t, d)
  <2>1. Goto(t, "write") /\ reg' = [reg EXCEPT ![t] = [Fresh EXCEPT !.out = reg[t].out]] /\ UNCHANGED ans
    BY <1>10 DEF reconcile
  <2>2. d = reg[t].data /\ reg[t].out = m /\ d \notin {r.base, r.body} \cup Unmergeable
    BY <1>3, <1>10 DEF Reason, unchanged
  <2>3. d \in Contents /\ m \in Contents /\ d # None /\ m # None
    BY <1>1, <1>10, <2>2, Undefined DEF Filled, Looking
  <2>4. Allowed(m, Answer("ok", m))
    BY <1>5, <2>2, <2>3
  <2> QED BY <1>7, <1>9, <2>1, <2>2, <2>4
<1>11. CASE reg[t].why = "again" /\ ~unchanged(t, d) /\ ~lastAttempt(t)
  <2> DEFINE n == [Fresh EXCEPT !.why = "current", !.tries = reg[t].tries + 1]
  <2>1. Goto(t, "stat") /\ reg' = [reg EXCEPT ![t] = n] /\ UNCHANGED ans
    BY <1>11 DEF reconcile
  <2>2. n.why = "current"
    BY DEF Fresh
  <2>3. Reason(d, r, n)
    BY <2>2 DEF Reason
  <2> QED BY <1>8, <2>1, <2>3
<1>12. CASE reg[t].why = "again" /\ ~unchanged(t, d) /\ lastAttempt(t) /\ d # None
  <2>1. Goto(t, "respond") /\ reg' = [reg EXCEPT ![t] = Fresh] /\ Decide(t, "retry", d)
    BY <1>12 DEF reconcile
  <2> QED BY <1>5, <1>6, <1>12, <2>1
<1>13. CASE reg[t].why = "again" /\ ~unchanged(t, d) /\ lastAttempt(t) /\ d = None
  <2>1. Goto(t, "write") /\ reg' = [reg EXCEPT ![t] = [Fresh EXCEPT !.out = r.body]] /\ UNCHANGED ans
    BY <1>13 DEF reconcile
  <2> QED BY <1>5, <1>7, <1>9, <1>13, <2>1
<1>14. CASE reg[t].why = "current" /\ d = r.body
  <2>1. Goto(t, "note") /\ reg' = [reg EXCEPT ![t] = [reg[t] EXCEPT !.out = d]] /\ Decide(t, "ok", d)
    BY <1>14 DEF reconcile
  <2>2. Allowed(d, Answer("ok", d))
    BY <1>5, <1>14
  <2> QED BY <1>6, <2>1, <2>2
<1>15. CASE reg[t].why = "current" /\ d # r.body /\ d \in {None, r.base}
  <2>1. Goto(t, "write") /\ reg' = [reg EXCEPT ![t] = [Fresh EXCEPT !.out = r.body]] /\ UNCHANGED ans
    BY <1>15 DEF reconcile
  <2> QED BY <1>5, <1>7, <1>9, <1>15, <2>1
<1>16. CASE /\ reg[t].why = "current" /\ d # r.body /\ d \notin {None, r.base}
            /\ d \in Unmergeable \/ m = None
  <2>1. Goto(t, "respond") /\ reg' = [reg EXCEPT ![t] = Fresh] /\ Decide(t, "conflict", None)
    BY <1>16 DEF reconcile
  <2> QED BY <1>5, <1>6, <1>16, <2>1
<1>17. CASE /\ reg[t].why = "current" /\ d # r.body /\ d \notin {None, r.base}
            /\ ~(d \in Unmergeable \/ m = None)
  <2> DEFINE n == [reg[t] EXCEPT !.why = "again", !.data = d, !.out = m]
  <2>1. Goto(t, "stat") /\ reg' = [reg EXCEPT ![t] = n] /\ UNCHANGED ans
    BY <1>17 DEF reconcile
  <2>2. n.why = "again" /\ n.data = d /\ n.out = m
    BY <1>1 DEF Locals
  <2>3. Reason(d, r, n)
    BY <1>17, <2>2 DEF Reason
  <2> QED BY <1>8, <2>1, <2>3
<1> QED
  BY <1>10, <1>11, <1>12, <1>13, <1>14, <1>15, <1>16, <1>17

-----------------------------------------------------------------------------
(* The actions.                                                            *)

LEMMA SameFile == UNCHANGED disk => UNCHANGED file
BY DEF file

LEMMA EnteringMaps ==
    ASSUME TypeInv, JudgedInv, NEW t \in Threads,
           Refuse(t) \/ EnterMutation(t) \/ path_lock(t) \/ Acquire(t)
    PROVE  JudgedInv' /\ Maps
<1> DEFINE r == req[t]
           f == file[r.path]
<1>1. UNCHANGED <<req, file>> /\ pc[t] # "idle" /\ reg[t] \in Locals /\ r \in Requests
      /\ r.op \in Handlers
  BY SameFile, ThreadFacts DEF Refuse, EnterMutation, path_lock, Acquire, Elsewhere
<1>2. Judged(f, pc[t], r, reg[t])
  BY <1>1 DEF JudgedInv
<1>3. CASE Refuse(t)
  <2>1. /\ r.op = "reconcile" /\ {r.base, r.body} \cap Unmergeable # {} /\ ans[t] = None
    BY <1>1, <1>3, ThreadHolds DEF Refuse, Refused, Decided
  <2>2. Moves(t, "rejected", reg[t], Answer("conflict", None), arc[t])
    BY <1>3, KeepsReg, KeepsArc DEF Refuse, Moves, Goto, Decide, Unlocked
  <2>3. Judged(f, "rejected", r, reg[t])
    BY DEF Judged
  <2>4. <<f, Answer("conflict", None)>> \in Store!Outcomes(r, f) /\ Answer("conflict", None) # None
    BY <2>1, ReconcileOutcomes, AnswerType
  <2> QED BY <1>1, <2>1, <2>2, <2>3, <2>4, QuietStep DEF Writes
<1>4. CASE EnterMutation(t)
  <2>1. Moves(t, "lock", reg[t], ans[t], arc[t])
    BY <1>4, KeepsReg, KeepsArc, KeepsAns DEF EnterMutation, Moves, Goto, Unlocked
  <2>2. Judged(f, "lock", r, reg[t])
    BY <1>4 DEF EnterMutation, Refused, Judged
  <2> QED BY <1>1, <2>1, <2>2, QuietStep
<1>5. CASE path_lock(t)
  <2>1. PICK k : Moves(t, "acquire", reg[t], ans[t], k)
    BY <1>5, KeepsReg, KeepsAns DEF path_lock, Moves, Goto
  <2>2. Judged(f, "acquire", r, reg[t])
    BY <1>2, <1>5 DEF path_lock, Judged
  <2> QED BY <1>1, <2>1, <2>2, QuietStep
<1>6. CASE Acquire(t)
  <2> DEFINE n == [reg[t] EXCEPT !.why = IF r.op = "reconcile" THEN "current" ELSE "none"]
             l == IF r.op = "reconcile" THEN "stat" ELSE "check"
  <2>1. Moves(t, l, n, ans[t], arc[t])
    BY <1>6, KeepsArc, KeepsAns DEF Acquire, Moves, Goto
  <2>2. n.why = IF r.op = "reconcile" THEN "current" ELSE "none"
    BY <1>1 DEF Locals
  <2>3. Judged(f, l, r, n)
    BY <1>2, <1>6, <2>2 DEF Acquire, Judged, Reason
  <2> HIDE DEF n
  <2>4. l # "idle"
    OBVIOUS
  <2> HIDE DEF l
  <2> QED BY <1>1, <2>1, <2>3, <2>4, QuietStep
<1> QED BY <1>3, <1>4, <1>5, <1>6

LEMMA CheckMaps ==
    ASSUME TypeInv, JudgedInv, NEW t \in Threads, Check(t)
    PROVE  JudgedInv' /\ Maps
<1> DEFINE r == req[t]
           f == file[r.path]
           v == verdict(r, disk[r.path])
<1>1. /\ pc[t] # "idle" /\ pc[t] = "check" /\ r.op \in {"put", "delete"} /\ ans[t] = None
      /\ r.path \in Paths /\ disk[r.path] \in Files \cup {None} /\ r.ifMatch \in Contents \cup {None, Star}
      /\ UNCHANGED <<req, arc, file>>
  BY ThreadFacts, ThreadHolds, SameFile
  DEF Check, Place, Handlers, Writes, Decided, Elsewhere, Unlocked
<1>2. (f = None <=> disk[r.path] = None) /\ f \in Contents \cup {None}
  BY <1>1, FileAt, Undefined DEF Files
<1>3. /\ v = "fail" => ~Store!Holds(r, f)
      /\ v = "pass" => Store!Holds(r, f)
      /\ v = "exists" => r.ifNone /\ f # None
      /\ v = "match" => ~r.ifNone /\ r.ifMatch \notin {None, Star} /\ f # None
  BY <1>2, VerdictCases DEF Store!Holds
<1>4. ASSUME NEW n, reg' = [reg EXCEPT ![t] = n], NEW l \in {"hash", "write"}, Goto(t, l),
             UNCHANGED ans, Judged(f, l, r, n)
      PROVE  JudgedInv' /\ Maps
  <2>1. Moves(t, l, n, ans[t], arc[t])
    BY <1>1, <1>4, KeepsAns, KeepsArc DEF Moves, Goto
  <2> QED BY <1>1, <1>4, <2>1, QuietStep
<1>5. CASE v = "fail" /\ Decide(t, "precondition", None) /\ Goto(t, "respond") /\ UNCHANGED reg
  <2>1. <<f, Answer("precondition", None)>> \in Store!Outcomes(r, f) /\ Answer("precondition", None) # None
    BY <1>1, <1>3, <1>5, PutOutcomes, DeleteOutcomes, AnswerType
  <2>2. Moves(t, "respond", reg[t], Answer("precondition", None), arc[t])
    BY <1>1, <1>5, KeepsReg, KeepsArc DEF Moves, Goto, Decide
  <2>3. Judged(f, "respond", r, reg[t])
    BY <1>1 DEF Judged
  <2> QED BY <1>1, <2>1, <2>2, <2>3, QuietStep DEF Writes
<1>6. CASE v \in {"exists", "match"} /\ reg' = [reg EXCEPT ![t] = [Fresh EXCEPT !.why = v]]
           /\ Goto(t, "hash") /\ UNCHANGED ans
  <2>1. [Fresh EXCEPT !.why = v].why = v
    BY DEF Fresh
  <2>2. Judged(f, "hash", r, [Fresh EXCEPT !.why = v])
    BY <1>1, <1>3, <1>6, <2>1 DEF Judged, Reason
  <2> QED BY <1>4, <1>6, <2>2
<1>7. CASE v = "pass" /\ r.op = "put" /\ reg' = [reg EXCEPT ![t] = [Fresh EXCEPT !.out = r.body]]
           /\ Goto(t, "write") /\ UNCHANGED ans
  <2>1. [Fresh EXCEPT !.out = r.body].out = r.body
    BY DEF Fresh
  <2>2. Judged(f, "write", r, [Fresh EXCEPT !.out = r.body])
    BY <1>3, <1>7, <2>1, PutOutcomes DEF Judged
  <2> QED BY <1>4, <1>7, <2>2
<1>8. CASE v = "pass" /\ r.op # "put" /\ reg' = [reg EXCEPT ![t] = [Fresh EXCEPT !.why = "deleted"]]
           /\ Goto(t, "hash") /\ UNCHANGED ans
  <2>1. [Fresh EXCEPT !.why = "deleted"].why = "deleted"
    BY DEF Fresh
  <2>2. Judged(f, "hash", r, [Fresh EXCEPT !.why = "deleted"])
    BY <1>1, <1>3, <1>8, <2>1 DEF Judged, Reason
  <2> QED BY <1>4, <1>8, <2>2
<1> HIDE DEF v
<1> QED BY <1>5, <1>6, <1>7, <1>8, CheckCases DEF v

LEMMA ReadingMaps ==
    ASSUME TypeInv, JudgedInv, HashInv, NEW t \in Threads,
           HashFor(t) \/ Stat(t) \/ Read(t) \/ Lookup(t) \/ Record(t)
    PROVE  JudgedInv' /\ Maps
<1> DEFINE r == req[t]
           f == disk[r.path]
           d == file[r.path]
<1>1. /\ UNCHANGED <<req, arc, file>> /\ pc[t] # "idle" /\ reg[t] \in Locals
      /\ r.path \in Paths /\ f \in Files \cup {None}
  BY SameFile, ThreadFacts DEF HashFor, Stat, Read, Lookup, Record, Elsewhere, Unlocked
<1>2. Judged(d, pc[t], r, reg[t]) /\ Place(pc[t], r, reg[t].why)
  BY <1>1, ThreadFacts DEF JudgedInv
<1>3. d = (IF f = None THEN None ELSE f.content) /\ (d = None <=> f = None)
  BY <1>1, FileAt, Undefined DEF Files
<1>4. ASSUME NEW l, NEW n, l # "idle", pc' = [pc EXCEPT ![t] = l], reg' = [reg EXCEPT ![t] = n],
             UNCHANGED ans, Judged(d, l, r, n)
      PROVE  JudgedInv' /\ Maps
  <2>1. Moves(t, l, n, ans[t], arc[t])
    BY <1>1, <1>4, KeepsAns, KeepsArc DEF Moves
  <2> QED BY <1>1, <1>4, <2>1, QuietStep
<1>5. CASE HashFor(t)
  <2> DEFINE h == IF f = None THEN None ELSE cachedHash(r.path, f.stamp)
  <2>1. pc[t] = "hash" /\ reg[t].why \notin {"current", "again"}
    BY <1>2, <1>5 DEF HashFor, Place, Looking, Handlers, Writes, Requests
  <2>2. CASE f = None \/ h # None
    <3>1. AfterHash(t, h)
      BY <1>5, <2>2 DEF HashFor
    <3>2. h = d
      BY <1>1, <1>3, <2>2 DEF cachedHash, HashInv, HashIsCurrent
    <3> QED BY <1>1, <2>1, <3>1, <3>2, AfterHashMaps
  <2>3. CASE ~(f = None \/ h # None)
    <3>1. Goto(t, "stat") /\ UNCHANGED <<reg, ans>>
      BY <1>5, <2>3 DEF HashFor
    <3>2. Judged(d, "stat", r, reg[t])
      BY <1>2, <2>1 DEF Judged
    <3> QED BY <1>4, <3>1, <3>2, KeepsReg DEF Goto
  <2> QED BY <2>2, <2>3
<1>6. CASE Stat(t)
  <2>1. pc[t] = "stat"
    BY <1>6 DEF Stat
  <2>2. CASE f # None
    <3> DEFINE n == [reg[t] EXCEPT !.stamp = f.stamp]
               l == IF reg[t].why = "head" THEN "lookup" ELSE "read"
    <3>1. reg' = [reg EXCEPT ![t] = n] /\ pc' = [pc EXCEPT ![t] = l] /\ UNCHANGED ans
      BY <1>6, <2>2 DEF Stat, Goto
    <3>2. n.why = reg[t].why /\ n.data = reg[t].data /\ n.out = reg[t].out
      BY <1>1 DEF Locals
    <3> HIDE DEF n
    <3>3. Judged(d, l, r, n)
      BY <1>2, <2>1, <3>2 DEF Judged, Reason
    <3>4. l # "idle"
      OBVIOUS
    <3> HIDE DEF l
    <3> QED BY <1>4, <3>1, <3>3, <3>4
  <2>3. CASE f = None /\ reg[t].why \in {"current", "again"}
    <3>1. reconcile(t, None)
      BY <1>6, <2>3 DEF Stat
    <3> QED BY <1>1, <1>3, <2>1, <2>3, <3>1, ReconcileMaps
  <2>4. CASE f = None /\ reg[t].why \notin {"current", "again"}
    <3>1. AfterHash(t, None)
      BY <1>6, <2>4 DEF Stat
    <3> QED BY <1>1, <1>3, <2>1, <2>4, <3>1, AfterHashMaps
  <2> QED BY <2>2, <2>3, <2>4
<1>7. CASE Read(t)
  <2>1. pc[t] = "read"
    BY <1>7 DEF Read
  <2>2. CASE reg[t].why \in {"current", "again"}
    <3>1. reconcile(t, d)
      BY <1>3, <1>7, <2>2 DEF Read
    <3> QED BY <1>1, <2>1, <2>2, <3>1, ReconcileMaps
  <2>3. CASE reg[t].why \notin {"current", "again"} /\ d = None
    <3>1. AfterHash(t, None)
      BY <1>3, <1>7, <2>3 DEF Read
    <3> QED BY <1>1, <2>1, <2>3, <3>1, AfterHashMaps
  <2>4. CASE reg[t].why \notin {"current", "again"} /\ d # None
    <3> DEFINE n == [reg[t] EXCEPT !.data = d]
               l == IF reg[t].why = "get" THEN "lookup" ELSE "record"
    <3>1. reg' = [reg EXCEPT ![t] = n] /\ pc' = [pc EXCEPT ![t] = l] /\ UNCHANGED ans
      BY <1>3, <1>7, <2>4 DEF Read, Goto
    <3>2. n.why = reg[t].why /\ n.data = d
      BY <1>1 DEF Locals
    <3> HIDE DEF n
    <3>3. Judged(d, l, r, n)
      BY <1>2, <2>1, <2>4, <3>2 DEF Judged, Reason
    <3>4. l # "idle"
      OBVIOUS
    <3> HIDE DEF l
    <3> QED BY <1>4, <3>1, <3>3, <3>4
  <2> QED BY <2>2, <2>3, <2>4
<1>8. CASE Lookup(t)
  <2>1. pc[t] = "lookup" /\ UNCHANGED ans
    BY <1>8 DEF Lookup
  <2>2. r.op \in {"get", "head"}
    BY <1>2, <2>1 DEF Place, Handlers, Writes, Requests
  <2>3. PICK l, n : /\ l \in {"respond", "record"}
                   /\ pc' = [pc EXCEPT ![t] = l] /\ reg' = [reg EXCEPT ![t] = n]
    BY <1>8, KeepsReg DEF Lookup, Goto
  <2>4. Judged(d, l, r, n)
    BY <2>2, <2>3 DEF Judged, Writes
  <2> QED BY <1>4, <2>1, <2>3, <2>4
<1>9. CASE Record(t)
  <2>1. pc[t] = "record" /\ reg[t].why \notin {"current", "again"}
    BY <1>2, <1>9 DEF Record, Place, Looking, Handlers, Writes, Requests
  <2>2. AfterHash(t, reg[t].data) /\ (r.op \in Writes => reg[t].data = d)
    BY <1>2, <1>9, <2>1 DEF Record, Judged
  <2> QED BY <1>1, <2>1, <2>2, AfterHashMaps
<1> QED BY <1>5, <1>6, <1>7, <1>8, <1>9

LEMMA AfterwardsMaps ==
    ASSUME TypeInv, JudgedInv, HashInv, NEW t \in Threads, Restat(t) \/ Note(t) \/ Forget(t)
    PROVE  JudgedInv' /\ Maps
<1> DEFINE r == req[t]
           d == file[r.path]
<1>1. /\ UNCHANGED <<req, arc, file>> /\ pc[t] # "idle" /\ pc[t] \in {"restat", "note", "forget"}
  BY SameFile DEF Restat, Note, Forget, Elsewhere, Unlocked
<1>2. Judged(d, pc[t], r, reg[t])
  BY <1>1 DEF JudgedInv
<1>3. pc[t] = "restat" => disk[r.path] # None
  BY DEF HashInv, VouchInv, Vouch
<1>4. PICK n : \E l \in {"note", "respond"} :
          pc' = [pc EXCEPT ![t] = l] /\ reg' = [reg EXCEPT ![t] = n] /\ UNCHANGED ans
  <2>1. CASE Restat(t)
    <3>1. reg' = [reg EXCEPT ![t] = [reg[t] EXCEPT !.stamp = disk[r.path].stamp]]
          /\ pc' = [pc EXCEPT ![t] = "note"] /\ UNCHANGED ans
      BY <1>3, <2>1 DEF Restat, Goto
    <3> QED BY <3>1
  <2>2. CASE Note(t) \/ Forget(t)
    BY <2>2, KeepsReg DEF Note, Forget, Goto
  <2> QED BY <2>1, <2>2
<1>5. PICK l \in {"note", "respond"} :
         pc' = [pc EXCEPT ![t] = l] /\ reg' = [reg EXCEPT ![t] = n] /\ UNCHANGED ans
  BY <1>4
<1>6. Judged(d, l, r, n)
  BY <1>1, <1>2, <1>5 DEF Judged
<1>7. Moves(t, l, n, ans[t], arc[t])
  BY <1>1, <1>5, KeepsAns, KeepsArc DEF Moves
<1> QED BY <1>1, <1>5, <1>6, <1>7, QuietStep

\* Those of another program, or of a thread with another lock, don't touch
\* what a handler has judged.
LEMMA FreeJudged ==
    ASSUME TypeInv, NEW u \in Threads, pc[u] # "idle", NEW f, NEW g,
           Judged(f, pc[u], req[u], reg[u]),
           \/ ~InLock(u)
           \/ req[u].op = "reconcile" /\ pc[u] \notin {"write", "restat", "note"}
           \/ req[u].op # "reconcile" /\ pc[u] \in {"check", "respond"}
    PROVE  Judged(g, pc[u], req[u], reg[u])
<1>1. Place(pc[u], req[u], reg[u].why) /\ req[u].op \in Handlers
  BY ThreadFacts
<1>2. InLock(u) <=> req[u].op \in Writes /\ pc[u] \in Locked
  BY DEF InLock, Reads
<1>3. CASE ~InLock(u)
  BY <1>1, <1>2, <1>3 DEF Judged, Place, Handlers, Writes, Locked, Mutating
<1>4. CASE req[u].op = "reconcile" /\ pc[u] \notin {"write", "restat", "note"}
  BY <1>1, <1>4 DEF Judged, Reason, Place, Looking, Writes
<1>5. CASE req[u].op # "reconcile" /\ pc[u] \in {"check", "respond"}
  BY <1>5 DEF Judged
<1> QED BY <1>3, <1>4, <1>5

LEMMA WritingMaps ==
    ASSUME TypeInv, LockExclusive, JudgedInv, NEW t \in Threads, Write(t) \/ Remove(t)
    PROVE  JudgedInv' /\ Maps
<1> DEFINE r == req[t]
           d == file[r.path]
<1>1. /\ UNCHANGED <<req, arc, reg>> /\ pc[t] # "idle" /\ pc[t] \in {"write", "remove"}
      /\ reg[t] \in Locals /\ r.path \in Paths /\ disk[r.path] \in Files \cup {None}
      /\ disk \in [Paths -> Files \cup {None}]
  BY ThreadFacts DEF Write, Remove, Elsewhere, Unlocked, TypeInv, StoreOK
<1>2. Judged(d, pc[t], r, reg[t]) /\ Place(pc[t], r, reg[t].why) /\ Filled(pc[t], reg[t])
  BY <1>1, ThreadFacts DEF JudgedInv
<1>3. /\ r.op \in Writes /\ ans[t] = None /\ InLock(t)
      /\ pc[t] = "remove" => r.op = "delete" /\ Store!Holds(r, d)
      /\ pc[t] = "write" => r.op \in {"put", "reconcile"} /\ reg[t].out \in Contents
  BY <1>1, <1>2, ThreadHolds, ThreadFacts
  DEF Place, Filled, Judged, Handlers, Writes, InLock, Reads, Locked, Mutating, Decided
<1>4. d = (IF disk[r.path] = None THEN None ELSE disk[r.path].content) /\ (d = None <=> disk[r.path] = None)
  BY <1>1, FileAt, Undefined DEF Files
<1>5. ASSUME NEW g, file' = [file EXCEPT ![r.path] = g], NEW a, Moves(t, pc'[t], reg[t], a, arc[t]),
             a # None, <<g, a>> \in Store!Outcomes(r, d), pc'[t] \in {"restat", "respond", "forget"}
      PROVE  JudgedInv' /\ Maps
  <2>1. Alone(t)
    BY <1>1, <1>5, MovesAlone
  <2>2. ans'[t] = a
    BY <1>5 DEF Moves, TypeInv, ThreadsOK
  <2>3. Maps
    BY <1>1, <1>3, <1>5, <2>1, <2>2, StepApplies
  <2>4. ASSUME NEW u \in Threads, pc'[u] # "idle"
        PROVE  Judged(file'[req[u].path], pc'[u], req[u], reg[u])
    <3>1. CASE u = t
      BY <1>1, <1>2, <1>5, <3>1 DEF Judged
    <3>2. CASE u # t
      <4>1. pc'[u] = pc[u]
        BY <2>1, <3>2 DEF Alone
      <4>2. Judged(file[req[u].path], pc[u], req[u], reg[u]) /\ req[u].path \in Paths
        BY <2>4, <4>1, ThreadFacts DEF JudgedInv
      <4>3. CASE req[u].path = r.path
        <5>1. ~InLock(u)
          BY <1>3, <3>2, <4>3 DEF LockExclusive
        <5> QED BY <2>4, <4>1, <4>2, <5>1, FreeJudged
      <4>4. CASE req[u].path # r.path
        <5>1. file'[req[u].path] = file[req[u].path]
          BY <1>5, <4>2, <4>4 DEF file
        <5> QED BY <4>1, <4>2, <5>1
      <4> QED BY <4>3, <4>4
    <3> QED BY <3>1, <3>2
  <2>5. JudgedInv'
    BY <1>1, <2>4, Zenon DEF JudgedInv
  <2> QED BY <2>3, <2>5
<1>6. CASE Write(t)
  <2>1. clock \in Nat
    BY DEF TypeInv, StoreOK
  <2>2. NewStamps \subseteq Nat
    BY <2>1 DEF NewStamps
  <2>3. PICK s \in Nat : disk' = [disk EXCEPT ![r.path] = [content |-> reg[t].out, stamp |-> s]]
    BY <1>6, <2>2 DEF Write
  <2>4. pc' = [pc EXCEPT ![t] = "restat"] /\ ans' = [ans EXCEPT ![t] = Answer("ok", reg[t].out)]
        /\ pc[t] = "write"
    BY <1>6 DEF Write, Goto, Decide
  <2>5. file' = [file EXCEPT ![r.path] = reg[t].out]
    <3> DEFINE x == [content |-> reg[t].out, stamp |-> s]
    <3>1. x \in Files /\ x # None /\ x.content = reg[t].out
      BY <1>3, <2>4, Undefined DEF Files, Stamps
    <3> HIDE DEF x
    <3>2. disk' = [disk EXCEPT ![r.path] = x]
      BY <2>3 DEF x
    <3> QED BY <1>1, <3>1, <3>2 DEF file
  <2>6. <<reg[t].out, Answer("ok", reg[t].out)>> \in Store!Outcomes(r, d)
        /\ Answer("ok", reg[t].out) # None
    BY <1>2, <1>3, <2>4, AnswerType DEF Judged
  <2>7. pc'[t] = "restat"
    BY <2>4 DEF TypeInv, ThreadsOK
  <2>8. Moves(t, pc'[t], reg[t], Answer("ok", reg[t].out), arc[t])
    BY <1>1, <2>4, <2>7, KeepsReg, KeepsArc DEF Moves
  <2> QED BY <1>5, <2>5, <2>6, <2>7, <2>8
<1>7. CASE Remove(t) /\ disk[r.path] # None
  <2>1. disk' = [disk EXCEPT ![r.path] = None] /\ pc' = [pc EXCEPT ![t] = "forget"]
        /\ ans' = [ans EXCEPT ![t] = Answer("ok", None)]
    BY <1>7 DEF Remove, Goto, Decide
  <2>2. file' = [file EXCEPT ![r.path] = None]
    BY <1>1, <2>1 DEF file
  <2>3. <<None, Answer("ok", None)>> \in Store!Outcomes(r, d) /\ Answer("ok", None) # None
    BY <1>1, <1>3, <1>4, <1>7, DeleteOutcomes, AnswerType DEF Remove
  <2>4. pc'[t] = "forget"
    BY <2>1 DEF TypeInv, ThreadsOK
  <2>5. Moves(t, pc'[t], reg[t], Answer("ok", None), arc[t])
    BY <1>1, <2>1, <2>4, KeepsReg, KeepsArc DEF Moves
  <2> QED BY <1>5, <2>2, <2>3, <2>4, <2>5
<1>8. CASE Remove(t) /\ disk[r.path] = None
  <2>1. disk' = disk /\ pc' = [pc EXCEPT ![t] = "respond"]
        /\ ans' = [ans EXCEPT ![t] = Answer("missing", None)]
    BY <1>8 DEF Remove, Goto, Decide
  <2>2. file' = [file EXCEPT ![r.path] = d]
    BY <1>1, <2>1 DEF file
  <2>3. <<d, Answer("missing", None)>> \in Store!Outcomes(r, d) /\ Answer("missing", None) # None
    BY <1>1, <1>3, <1>4, <1>8, DeleteOutcomes, AnswerType DEF Remove
  <2>4. pc'[t] = "respond"
    BY <2>1 DEF TypeInv, ThreadsOK
  <2>5. Moves(t, pc'[t], reg[t], Answer("missing", None), arc[t])
    BY <1>1, <2>1, <2>4, KeepsReg, KeepsArc DEF Moves
  <2> QED BY <1>5, <2>2, <2>3, <2>4, <2>5
<1> QED BY <1>6, <1>7, <1>8

LEMMA RespondMaps ==
    ASSUME TypeInv, JudgedInv, NEW t \in Threads, Respond(t)
    PROVE  JudgedInv' /\ Maps
<1>1. Alone(t) /\ pc'[t] = "idle" /\ UNCHANGED disk /\ pc[t] \in {"respond", "rejected"}
  BY DEF Respond, Alone, TypeInv, ThreadsOK
<1>2. UNCHANGED file /\ pc[t] # "idle"
  BY <1>1, SameFile
<1>3. JudgedInv'
  BY <1>1, <1>2, JudgedAlone
<1>4. call'[t] = [state |-> "idle", req |-> None, ans |-> None]
  BY <1>1, CallAt
<1>5. call' = [call EXCEPT ![t] = [state |-> "idle", req |-> None, ans |-> None]]
  BY <1>1, <1>4, CallAlone
<1>6. CASE req[t].op \in Writes
  <2>1. ans[t] # None
    BY <1>1, <1>2, <1>6, ThreadHolds DEF Decided
  <2>2. call[t] = [state |-> "applied", req |-> req[t], ans |-> ans[t]]
    BY <1>2, <1>6, <2>1, CallAt
  <2>3. call[t].state = "applied"
    BY <2>2
  <2> QED BY <1>2, <1>3, <1>5, <2>3, MapsReturn DEF Maps
<1>7. CASE req[t].op \notin Writes
  <2>1. call[t] = [state |-> "idle", req |-> None, ans |-> None]
    BY <1>7, CallAt
  <2>2. call' = call
    BY <1>5, <2>1 DEF call
  <2> QED BY <1>2, <1>3, <2>2, MapsStutter DEF Maps
<1> QED BY <1>6, <1>7

LEMMA BeginMaps ==
    ASSUME TypeInv, JudgedInv, NEW t \in Threads, NEW r \in Offered, Begin(t, r)
    PROVE  JudgedInv' /\ Maps
<1>1. r \in Requests /\ r.op \in Handlers
  BY BoundsAssumption DEF Requests
<1>2. PICK l \in {"stat", "hash", "parse"} :
         pc' = [pc EXCEPT ![t] = l] /\ (r.op \in Writes => l = "parse")
  BY <1>1, BeginCases DEF Goto, Handlers, Writes
<1>3. /\ pc[t] = "idle" /\ UNCHANGED <<disk, ans, arc>> /\ req' = [req EXCEPT ![t] = r]
      /\ \E n : reg' = [reg EXCEPT ![t] = n]
  BY DEF Begin, Unlocked
<1>4. Alone(t) /\ pc'[t] = l /\ req'[t] = r /\ UNCHANGED file
  BY <1>2, <1>3, SameFile DEF Alone, TypeInv, ThreadsOK
<1>5. Judged(file[req'[t].path], pc'[t], req'[t], reg'[t])
  BY <1>2, <1>4 DEF Judged, Writes
<1>6. JudgedInv'
  BY <1>4, <1>5, JudgedAlone
<1>7. ans[t] = None /\ ans'[t] = None
  BY <1>3 DEF TypeInv, ThreadInv, Decided
<1>8. call[t] = [state |-> "idle", req |-> None, ans |-> None]
  BY <1>3, CallAt
<1>9. CASE r.op \in Writes
  <2>1. call'[t] = [state |-> "called", req |-> r, ans |-> None]
    BY <1>4, <1>7, <1>9, CallAt
  <2> QED BY <1>4, <1>6, <1>8, <1>9, <2>1, CallAlone, MapsCall DEF Maps
<1>10. CASE r.op \notin Writes
  <2>1. call'[t] = call[t]
    BY <1>4, <1>8, <1>10, CallAt
  <2>2. call' = call
    BY <1>4, <2>1, CallAlone DEF call
  <2> QED BY <1>4, <1>6, <2>2, MapsStutter DEF Maps
<1> QED BY <1>9, <1>10

LEMMA OutsideMaps ==
    ASSUME TypeInv, JudgedInv, ~AnyWindow,
           CommitBegin \/ SweepBegin \/ CommitEnd \/ (\E p \in Paths : CommitPath(p) \/ Foreign(p)) \/ UNCHANGED vars
    PROVE  JudgedInv' /\ Maps
<1>1. UNCHANGED <<pc, req, reg, ans>>
  BY DEF CommitBegin, SweepBegin, CommitEnd, CommitPath, Foreign, Quiet, vars
<1>2. UNCHANGED call
  BY <1>1, Zenon DEF call, Reads
<1>3. CASE UNCHANGED disk
  <2>1. UNCHANGED file
    BY <1>3, SameFile
  <2>2. JudgedInv'
    BY <1>1, <2>1, Zenon DEF JudgedInv
  <2> QED BY <1>2, <2>1, <2>2, MapsStutter DEF Maps
<1>4. ASSUME NEW p \in Paths, Foreign(p) PROVE JudgedInv' /\ Maps
  <2>1. PICK c \in Contents \cup {None} : file' = [file EXCEPT ![p] = c]
    <3>1. disk \in [Paths -> Files \cup {None}] /\ clock \in Nat
      BY DEF TypeInv, StoreOK
    <3>2. ASSUME NEW x \in Seeds, NEW s \in NewStamps, disk' = [disk EXCEPT ![p] = [content |-> x, stamp |-> s]]
          PROVE  file' = [file EXCEPT ![p] = x] /\ x \in Contents
      <4> DEFINE y == [content |-> x, stamp |-> s]
      <4>1. y \in Files /\ y # None /\ y.content = x /\ x \in Contents
        BY <3>1, BoundsAssumption, Undefined DEF Files, Stamps, NewStamps
      <4> HIDE DEF y
      <4>2. disk' = [disk EXCEPT ![p] = y]
        BY <3>2 DEF y
      <4> QED BY <3>1, <4>1, <4>2 DEF file
    <3>3. ASSUME disk' = [disk EXCEPT ![p] = None] PROVE file' = [file EXCEPT ![p] = None]
      BY <3>1, <3>3 DEF file
    <3> QED BY <1>4, <3>2, <3>3 DEF Foreign
  <2>2. ASSUME NEW u \in Threads, pc[u] # "idle"
        PROVE  Judged(file'[req[u].path], pc[u], req[u], reg[u])
    <3>1. Judged(file[req[u].path], pc[u], req[u], reg[u]) /\ req[u].path \in Paths
      BY <2>2, ThreadFacts DEF JudgedInv
    <3>2. CASE req[u].path = p
      <4>1. ~Exposed(p)
        BY <1>4 DEF Foreign
      <4>2. \/ ~InLock(u)
            \/ req[u].op = "reconcile" /\ pc[u] \notin {"write", "restat", "note"}
            \/ req[u].op # "reconcile" /\ pc[u] \in {"check", "respond"}
        BY <3>2, <4>1 DEF Exposed
      <4> QED BY <2>2, <3>1, <4>2, FreeJudged
    <3>3. CASE req[u].path # p
      <4>1. file'[req[u].path] = file[req[u].path]
        BY <2>1, <3>1, <3>3 DEF file
      <4> QED BY <3>1, <4>1
    <3> QED BY <3>2, <3>3
  <2>3. JudgedInv'
    BY <1>1, <2>2, Zenon DEF JudgedInv
  <2> QED BY <1>2, <2>1, <2>3, MapsForeign DEF Maps
<1>5. CASE CommitBegin \/ SweepBegin \/ CommitEnd \/ (\E p \in Paths : CommitPath(p)) \/ UNCHANGED vars
  <2>1. UNCHANGED disk
    BY <1>5 DEF CommitBegin, SweepBegin, CommitEnd, CommitPath, vars
  <2> QED BY <1>3, <2>1
<1> QED BY <1>4, <1>5

LEMMA NextMaps ==
    ASSUME TypeInv, LockExclusive, HashInv, JudgedInv, [Next]_vars, ~AnyWindow
    PROVE  JudgedInv' /\ Maps
<1>1. ASSUME NEW t \in Threads, Step(t) PROVE JudgedInv' /\ Maps
  BY <1>1, EnteringMaps, CheckMaps, ReadingMaps, WritingMaps, AfterwardsMaps, RespondMaps DEF Step
<1>2. ASSUME NEW t \in Threads, NEW r \in Offered, Begin(t, r) PROVE JudgedInv' /\ Maps
  BY <1>2, BeginMaps
<1>3. CASE CommitBegin \/ SweepBegin \/ CommitEnd \/ (\E p \in Paths : CommitPath(p) \/ Foreign(p)) \/ UNCHANGED vars
  BY <1>3, OutsideMaps
<1> QED BY <1>1, <1>2, <1>3 DEF Next

LEMMA InitMaps == Init => Store!Init /\ JudgedInv
<1> SUFFICES ASSUME Init PROVE Store!Init /\ JudgedInv
  OBVIOUS
<1>1. file \in [Paths -> Contents \cup {None}]
  <2>1. \A p \in Paths : file[p] = IF disk[p] = None THEN None ELSE disk[p].content
    BY FileAt
  <2>2. \A p \in Paths : disk[p] \in [content : Seeds, stamp : {0}] \cup {None}
    BY DEF Init
  <2>3. ASSUME NEW p \in Paths PROVE file[p] \in Contents \cup {None}
    <3>1. CASE disk[p] = None
      BY <2>1, <3>1
    <3>2. CASE disk[p] # None
      <4>1. disk[p].content \in Seeds
        BY <2>2, <3>2
      <4> QED BY <2>1, <3>2, <4>1, BoundsAssumption
    <3> QED BY <3>1, <3>2
  <2> QED BY <2>3, FileAt
<1>2. call = [t \in Threads |-> [state |-> "idle", req |-> None, ans |-> None]]
  BY DEF Init, call
<1>3. Store!Init
  BY <1>1, <1>2, Zenon DEF Store!Init, Store!Idle, file, call
<1>4. JudgedInv
  BY DEF Init, JudgedInv
<1> QED BY <1>3, <1>4

\* When no write repeats a modification time and other programs stay out of the
\* exposed windows, the server's handlers behave as a store in which every
\* conditional PUT, DELETE and reconciliation judges and changes the content of
\* its file in one step.
THEOREM StoreIsAtomic == ASSUME ~Repeats, ~AnyWindow PROVE Spec => Atomic
<1>1. TypeInv /\ TypeInv' /\ LockExclusive /\ HashInv /\ [Next]_vars => HashInv'
  BY NextHash
<1>2. TypeInv /\ LockExclusive /\ HashInv /\ JudgedInv /\ [Next]_vars
        => JudgedInv' /\ [Store!Next]_Store!vars
  BY NextMaps DEF Maps
<1>3. Spec => [](TypeInv /\ LockExclusive /\ HashInv)
  BY <1>1, InitType, NextType, InitHash, LocksExclude, PTL DEF Spec
<1>4. Spec => Store!Init /\ [][Store!Next]_Store!vars
  BY <1>2, <1>3, InitMaps, PTL DEF Spec
<1> QED BY <1>4 DEF Atomic, Store!Spec
=============================================================================
