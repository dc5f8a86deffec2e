---------------------------- MODULE FsStoreProofs ----------------------------
(***************************************************************************)
(* Proofs about the server's file handlers: for any paths, contents,       *)
(* requests and threads, any capacity of the cache, any threshold of the   *)
(* sweep and any number of attempts, and however the requests, the commits *)
(* and other programs interleave.                                          *)
(*                                                                         *)
(* Where a theorem needs that other programs stay out of the windows that  *)
(* Exposed names, or that no write repeats a stamp, its statement says so. *)
(***************************************************************************)
EXTENDS FsStore, FiniteSetTheorems, TLAPS

-----------------------------------------------------------------------------
(* The type invariant, with the control state of each thread.              *)

\* The steps that look for a file or its hash, and the ones after the answer
\* is decided.
Looking == {"hash", "stat", "read", "lookup", "record"}
Decided == {"rejected", "restat", "note", "forget", "respond"}

\* The control state of a thread: which steps its kind of request takes, and for
\* what reason it reads.
Place(l, r, why) ==
    /\ r \in Requests
    /\ r.op = "get" => l \in {"stat", "read", "lookup", "record", "respond"}
    /\ r.op = "head" => l \in {"stat", "lookup", "respond"}
    /\ r.op = "meta" => l \in {"hash", "stat", "read", "record", "respond"}
    /\ r.op = "put" => l \in {"parse", "lock", "acquire", "check", "hash", "stat", "read",
                              "record", "write", "restat", "note", "respond"}
    /\ r.op = "delete" => l \in {"parse", "lock", "acquire", "check", "hash", "stat", "read",
                                 "record", "remove", "forget", "respond"}
    /\ r.op = "reconcile" => l \in {"parse", "rejected", "lock", "acquire", "stat", "read",
                                    "write", "restat", "note", "respond"}
    /\ l \in Looking =>
          /\ r.op \notin Writes => why = r.op
          /\ r.op = "put" => why \in {"match", "exists"}
          /\ r.op = "delete" => why \in {"match", "exists", "deleted"}
          /\ r.op = "reconcile" => why \in {"current", "again"}

\* The locals that a step finds filled in.
Filled(l, r) ==
    /\ l \in {"read", "lookup", "record", "note"} => r.stamp \in Nat
    /\ l = "record" \/ (l = "lookup" /\ r.why = "get") => r.data \in Contents
    /\ l \in {"write", "restat", "note"} => r.out \in Contents
    /\ l \in Looking /\ r.why = "again" => r.data \in Contents /\ r.out \in Contents

\* A thread has an answer once it has decided, and a reference to its path's
\* lock from path_lock to its end.
ThreadInv(t) ==
    /\ pc[t] = "idle" => req[t] = None
    /\ pc[t] # "idle" => Place(pc[t], req[t], reg[t].why)
    /\ Filled(pc[t], reg[t])
    /\ ans[t] # None <=> pc[t] \in Decided /\ ~Reads(t)
    /\ arc[t] # None <=> InLock(t) \/ pc[t] = "acquire"

\* TypeOK in two parts, the threads' and the rest.
ThreadsOK ==
    /\ pc \in [Threads -> Labels] /\ req \in [Threads -> Requests \cup {None}]
    /\ reg \in [Threads -> Locals] /\ ans \in [Threads -> Answers \cup {None}]
    /\ arc \in [Threads -> LockIds \cup {None}]

StoreOK ==
    /\ disk \in [Paths -> Files \cup {None}] /\ clock \in Nat
    /\ entries \in [Paths -> [stamp : Stamps, hash : Contents] \cup {None}]
    /\ order \in Seq(Paths)
    /\ locks \in [Paths -> LockIds \cup {None}]
    /\ owner \in [LockIds -> Threads \cup {None}]
    /\ commit \in [on : BOOLEAN, gated : BOOLEAN, read : SUBSET Paths, tree : [Paths -> Files \cup {None}]]
    /\ foreign \in 0..MaxForeign /\ commits \in 0..MaxCommits

TypeInv == StoreOK /\ ThreadsOK /\ \A t \in Threads : ThreadInv(t)

LEMMA TypeInvTypes == TypeInv => TypeOK
BY DEF TypeInv, StoreOK, ThreadsOK, TypeOK

LEMMA Undefined ==
    /\ None \notin Contents /\ None \notin LockIds /\ None \notin Threads /\ None \notin Nat
    /\ None \notin Files /\ None \notin Requests /\ None \notin Answers
    /\ None \notin [stamp : Nat, hash : Contents] /\ None # Star /\ Star \notin Contents
BY UndefinedAssumption, Zenon DEF Stamps

LEMMA InitType == Init => TypeInv
<1> SUFFICES ASSUME Init PROVE TypeInv
  OBVIOUS
<1>1. disk \in [Paths -> Files \cup {None}]
  BY BoundsAssumption DEF Init, Files, Stamps
<1>2. reg \in [Threads -> Locals]
  BY BoundsAssumption DEF Init, Fresh, Locals, Reasons
<1>3. StoreOK /\ ThreadsOK
  BY <1>1, <1>2, BoundsAssumption DEF Init, StoreOK, ThreadsOK, NoCommit, Labels
<1>4. ASSUME NEW t \in Threads PROVE ThreadInv(t)
  BY <1>4 DEF Init, ThreadInv, Filled, Looking, Decided, Reads, InLock, Locked, Mutating
<1> QED BY <1>3, <1>4 DEF TypeInv

\* A step is of one thread; the others keep their state.
Alone(t) ==
    \A u \in Threads \ {t} :
       /\ pc'[u] = pc[u] /\ req'[u] = req[u] /\ reg'[u] = reg[u] /\ ans'[u] = ans[u]
       /\ arc'[u] = arc[u]

LEMMA OthersInv ==
    ASSUME TypeInv, NEW t \in Threads, ThreadsOK', Alone(t), ThreadInv(t)'
    PROVE  \A u \in Threads : ThreadInv(u)'
<1> SUFFICES ASSUME NEW u \in Threads, u # t PROVE ThreadInv(u)'
  OBVIOUS
<1>1. /\ pc'[u] = pc[u] /\ req'[u] = req[u] /\ reg'[u] = reg[u] /\ ans'[u] = ans[u]
      /\ arc'[u] = arc[u]
  BY DEF Alone
<1> QED BY <1>1 DEF TypeInv, ThreadInv, Reads, InLock

\* What a thread knows of its request and its locals.
LEMMA ThreadFacts ==
    ASSUME TypeInv, NEW t \in Threads, pc[t] # "idle"
    PROVE  /\ Place(pc[t], req[t], reg[t].why) /\ Filled(pc[t], reg[t]) /\ reg[t] \in Locals
           /\ req[t] \in Requests /\ req[t].path \in Paths /\ req[t].op \in Handlers
           /\ req[t].ifMatch \in Contents \cup {None, Star} /\ req[t].ifNone \in BOOLEAN
           /\ req[t].base \in Contents /\ req[t].body \in Contents
           /\ disk[req[t].path] \in Files \cup {None}
           /\ entries[req[t].path] \in [stamp : Nat, hash : Contents] \cup {None}
BY DEF TypeInv, ThreadInv, Place, StoreOK, ThreadsOK, Requests, Stamps

LEMMA FreshType ==
    /\ Fresh \in Locals
    /\ \A d \in Contents : [Fresh EXCEPT !.out = d] \in Locals
    /\ \A w \in Reasons : [Fresh EXCEPT !.why = w] \in Locals
BY BoundsAssumption DEF Fresh, Locals, Reasons

\* The outcomes of AfterHash.
LEMMA AfterHashCases ==
    ASSUME NEW t, NEW h, AfterHash(t, h)
    PROVE  LET why == reg[t].why
               Locally(new) == reg' = [reg EXCEPT ![t] = new]
           IN
           \/ /\ why = "match" /\ h = req[t].ifMatch /\ req[t].op = "put" /\ Goto(t, "write")
              /\ UNCHANGED ans /\ Locally([Fresh EXCEPT !.out = req[t].body])
           \/ /\ why = "match" /\ h = req[t].ifMatch /\ req[t].op = "delete" /\ Goto(t, "hash")
              /\ UNCHANGED ans /\ Locally([Fresh EXCEPT !.why = "deleted"])
           \/ /\ why = "match" /\ h # req[t].ifMatch /\ h = None /\ Decide(t, "missing", None)
              /\ Goto(t, "respond")
              /\ \/ Locally([Fresh EXCEPT !.out = req[t].body])
                 \/ Locally([Fresh EXCEPT !.why = "deleted"])
                 \/ Locally(Fresh)
           \/ /\ why = "match" /\ h # req[t].ifMatch /\ h # None /\ Decide(t, "precondition", h)
              /\ Goto(t, "respond")
              /\ \/ Locally([Fresh EXCEPT !.out = req[t].body])
                 \/ Locally([Fresh EXCEPT !.why = "deleted"])
                 \/ Locally(Fresh)
           \/ /\ why = "exists" /\ Decide(t, "precondition", h) /\ Goto(t, "respond")
              /\ Locally(Fresh)
           \/ why = "deleted" /\ Goto(t, "remove") /\ UNCHANGED ans /\ Locally(Fresh)
           \/ /\ why \notin {"match", "exists", "deleted"} /\ Goto(t, "respond")
              /\ UNCHANGED ans /\ Locally(Fresh)
           \/ why = "match" /\ req[t].op \notin {"put", "delete"}
<1> DEFINE why == reg[t].why
<1>1. CASE why = "match" /\ req[t].op = "put"
  <2>1. reg' = [reg EXCEPT ![t] = [Fresh EXCEPT !.out = req[t].body]]
    BY <1>1, Zenon DEF AfterHash
  <2>2. CASE h = req[t].ifMatch
    <3>1. Goto(t, "write") /\ UNCHANGED ans
      BY <1>1, <2>2, Zenon DEF AfterHash, afterHash
    <3> QED BY <1>1, <2>1, <2>2, <3>1, Zenon
  <2>3. CASE h # req[t].ifMatch
    <3>1. (IF h = None THEN Decide(t, "missing", None) ELSE Decide(t, "precondition", h))
          /\ Goto(t, "respond")
      BY <1>1, <2>3, Zenon DEF AfterHash, afterHash
    <3> QED BY <1>1, <2>1, <2>3, <3>1, Zenon
  <2> QED BY <2>2, <2>3
<1>2. CASE why = "match" /\ req[t].op = "delete"
  <2>1. reg' = [reg EXCEPT ![t] = [Fresh EXCEPT !.why = "deleted"]]
    BY <1>2, Zenon DEF AfterHash
  <2>2. CASE h = req[t].ifMatch
    <3>1. Goto(t, "hash") /\ UNCHANGED ans
      BY <1>2, <2>2, Zenon DEF AfterHash, afterHash
    <3> QED BY <1>2, <2>1, <2>2, <3>1, Zenon
  <2>3. CASE h # req[t].ifMatch
    <3>1. (IF h = None THEN Decide(t, "missing", None) ELSE Decide(t, "precondition", h))
          /\ Goto(t, "respond")
      BY <1>2, <2>3, Zenon DEF AfterHash, afterHash
    <3> QED BY <1>2, <2>1, <2>3, <3>1, Zenon
  <2> QED BY <2>2, <2>3
<1>3. CASE why = "exists"
  BY <1>3, Zenon DEF AfterHash, afterHash
<1>4. CASE why = "deleted"
  BY <1>4, Zenon DEF AfterHash, afterHash
<1>5. CASE why \notin {"match", "exists", "deleted"}
  BY <1>5, Zenon DEF AfterHash, afterHash
<1>6. CASE why = "match" /\ req[t].op \notin {"put", "delete"}
  BY <1>6, Zenon
<1> QED BY <1>1, <1>2, <1>3, <1>4, <1>5, <1>6, Zenon

\* Thread t goes on at l with locals n, answer a and a reference to lock k.
Moves(t, l, n, a, k) ==
    /\ pc' = [pc EXCEPT ![t] = l] /\ reg' = [reg EXCEPT ![t] = n]
    /\ ans' = [ans EXCEPT ![t] = a] /\ arc' = [arc EXCEPT ![t] = k]

\* Where it may go on.
MayMove(t, l, n, a, k) ==
    LET r == req[t] IN
    /\ l \in Labels \ {"idle"} /\ n \in Locals /\ a \in Answers \cup {None}
    /\ k \in LockIds \cup {None}
    /\ Place(l, r, n.why) /\ Filled(l, n)
    /\ a # None <=> l \in Decided /\ r.op \in Writes
    /\ k # None <=> l \in Locked \cup {"acquire"} /\ r.op \in Writes

LEMMA MoveType ==
    ASSUME TypeInv, NEW t \in Threads, NEW l, NEW n, NEW a, NEW k,
           Moves(t, l, n, a, k), MayMove(t, l, n, a, k), UNCHANGED req
    PROVE  ThreadsOK' /\ \A u \in Threads : ThreadInv(u)'
<1>1. ThreadsOK'
  BY DEF TypeInv, ThreadsOK, Moves, MayMove
<1>2. Alone(t)
  BY DEF TypeInv, ThreadsOK, Moves, Alone
<1>3. pc'[t] = l /\ reg'[t] = n /\ ans'[t] = a /\ arc'[t] = k /\ req'[t] = req[t] /\ l # "idle"
  BY DEF TypeInv, ThreadsOK, Moves, MayMove
<1>4. l = "acquire" => req[t].op \in Writes
  BY DEF MayMove, Place, Handlers, Writes, Requests
<1>5. ThreadInv(t)'
  BY <1>3, <1>4 DEF ThreadInv, MayMove, Reads, InLock
<1> QED BY <1>1, <1>2, <1>5, OthersInv

\* Leaving a part of its state alone, it keeps it.
LEMMA KeepsAns == ASSUME TypeInv, NEW t \in Threads, UNCHANGED ans PROVE ans' = [ans EXCEPT ![t] = ans[t]]
BY DEF TypeInv, ThreadsOK
LEMMA KeepsArc == ASSUME TypeInv, NEW t \in Threads, UNCHANGED arc PROVE arc' = [arc EXCEPT ![t] = arc[t]]
BY DEF TypeInv, ThreadsOK
LEMMA KeepsReg == ASSUME TypeInv, NEW t \in Threads, UNCHANGED reg PROVE reg' = [reg EXCEPT ![t] = reg[t]]
BY DEF TypeInv, ThreadsOK

LEMMA AnswerType ==
    ASSUME NEW h \in Contents \cup {None}
    PROVE  \A s \in {"ok", "precondition", "missing", "conflict", "retry"} :
              Answer(s, h) \in Answers /\ Answer(s, h) # None
BY Undefined DEF Answer, Answers

\* The references and answers of a thread before it moves.
LEMMA ThreadHolds ==
    ASSUME TypeInv, NEW t \in Threads, pc[t] # "idle"
    PROVE  /\ arc[t] \in LockIds \cup {None} /\ ans[t] \in Answers \cup {None}
           /\ ans[t] # None <=> pc[t] \in Decided /\ req[t].op \in Writes
           /\ arc[t] # None <=> pc[t] \in Locked \cup {"acquire"} /\ req[t].op \in Writes
<1>1. pc[t] = "acquire" => req[t].op \in Writes
  BY ThreadFacts DEF Place, Handlers, Writes
<1> QED BY <1>1 DEF TypeInv, ThreadInv, ThreadsOK, Reads, InLock

LEMMA AfterHashType ==
    ASSUME TypeInv, NEW t \in Threads, NEW h \in Contents \cup {None}, AfterHash(t, h),
           pc[t] \in {"hash", "stat", "read", "record"}, reg[t].why \notin {"current", "again"},
           UNCHANGED <<req, arc>>
    PROVE  ThreadsOK' /\ \A u \in Threads : ThreadInv(u)'
<1> DEFINE r == req[t]
           After(n) == n \in {Fresh, [Fresh EXCEPT !.out = r.body], [Fresh EXCEPT !.why = "deleted"]}
<1>1. /\ Place(pc[t], r, reg[t].why) /\ r \in Requests /\ r.body \in Contents /\ r.op \in Handlers
      /\ pc[t] # "idle"
  BY ThreadFacts
<1>2. /\ r.op \in Handlers \ {"reconcile"}
      /\ r.op \in Writes <=> reg[t].why \in {"match", "exists", "deleted"}
      /\ reg[t].why = "deleted" => r.op = "delete"
      /\ reg[t].why = "match" => r.op \in {"put", "delete"}
  BY <1>1 DEF Place, Looking, Writes, Handlers
<1>3. /\ ans[t] = None /\ (arc[t] # None <=> r.op \in Writes) /\ arc[t] \in LockIds \cup {None}
      /\ arc' = [arc EXCEPT ![t] = arc[t]]
  BY <1>1, ThreadHolds, KeepsArc DEF Decided, Locked, Mutating
<1>4. \A n : After(n) => n \in Locals
  BY <1>1, FreshType DEF Reasons
<1>5. ASSUME Goto(t, "respond"), NEW n, After(n), reg' = [reg EXCEPT ![t] = n],
             NEW a \in Answers \cup {None}, ans' = [ans EXCEPT ![t] = a],
             a # None <=> r.op \in Writes
      PROVE  ThreadsOK' /\ \A u \in Threads : ThreadInv(u)'
  <2>1. Place("respond", r, n.why) /\ Filled("respond", n)
    BY <1>1 DEF Place, Filled, Looking, Handlers, Writes
  <2>2. MayMove(t, "respond", n, a, arc[t])
    BY <1>3, <1>4, <1>5, <2>1 DEF MayMove, Labels, Decided, Locked, Mutating
  <2> QED BY <1>3, <1>5, <2>2, MoveType DEF Moves, Goto
<1>6. ASSUME NEW l \in {"write", "hash", "remove"}, Goto(t, l), UNCHANGED ans, NEW n, After(n),
             reg' = [reg EXCEPT ![t] = n], l = "write" => r.op = "put" /\ n.out \in Contents,
             l # "write" => r.op = "delete", l = "hash" => n.why = "deleted"
      PROVE  ThreadsOK' /\ \A u \in Threads : ThreadInv(u)'
  <2>1. Place(l, r, n.why) /\ Filled(l, n)
    BY <1>1, <1>6 DEF Place, Filled, Looking, Handlers, Writes
  <2>2. MayMove(t, l, n, None, arc[t])
    BY <1>3, <1>4, <1>6, <2>1 DEF MayMove, Labels, Decided, Locked, Mutating, Writes
  <2>3. Moves(t, l, n, None, arc[t]) /\ UNCHANGED req
    BY <1>3, <1>6, KeepsAns DEF Moves, Goto
  <2> QED BY <2>2, <2>3, MoveType
<1>7. ASSUME NEW s \in {"missing", "precondition"}, NEW g \in {h, None}, Decide(t, s, g),
             Goto(t, "respond"), NEW n, After(n), reg' = [reg EXCEPT ![t] = n], r.op \in Writes
      PROVE  ThreadsOK' /\ \A u \in Threads : ThreadInv(u)'
  BY <1>5, <1>7, AnswerType DEF Decide
<1>8. ASSUME Goto(t, "respond"), UNCHANGED ans, reg' = [reg EXCEPT ![t] = Fresh], r.op \notin Writes
      PROVE  ThreadsOK' /\ \A u \in Threads : ThreadInv(u)'
  BY <1>3, <1>5, <1>8, KeepsAns
<1>9. [Fresh EXCEPT !.out = r.body].out \in Contents /\ [Fresh EXCEPT !.why = "deleted"].why = "deleted"
  BY <1>1 DEF Fresh
<1>10. /\ After(Fresh) /\ After([Fresh EXCEPT !.out = r.body])
       /\ After([Fresh EXCEPT !.why = "deleted"])
  OBVIOUS
<1> HIDE DEF r, After
<1> QED
  BY <1>2, <1>6, <1>7, <1>8, <1>9, <1>10, AfterHashCases DEF r

LEMMA ReconcileType ==
    ASSUME TypeInv, NEW t \in Threads, NEW d \in Contents \cup {None}, reconcile(t, d),
           pc[t] \in {"stat", "read"}, reg[t].why \in {"current", "again"},
           d # None => pc[t] = "read",
           UNCHANGED <<req, arc>>
    PROVE  ThreadsOK' /\ \A u \in Threads : ThreadInv(u)'
<1> DEFINE r == req[t]
<1>1. /\ Place(pc[t], r, reg[t].why) /\ r \in Requests /\ r.body \in Contents /\ r.op \in Handlers
      /\ r.base \in Contents /\ pc[t] # "idle" /\ reg[t] \in Locals /\ Filled(pc[t], reg[t])
  BY ThreadFacts
<1>2. r.op = "reconcile"
  BY <1>1 DEF Place, Looking, Writes, Handlers
<1>3. /\ ans[t] = None /\ arc[t] # None /\ arc[t] \in LockIds \cup {None}
      /\ arc' = [arc EXCEPT ![t] = arc[t]]
  BY <1>1, <1>2, ThreadHolds, KeepsArc DEF Decided, Locked, Mutating, Writes
<1>4. ASSUME NEW l \in {"write", "note", "stat", "respond"}, NEW n \in Locals, NEW a \in Answers \cup {None},
             pc' = [pc EXCEPT ![t] = l], reg' = [reg EXCEPT ![t] = n],
             ans' = [ans EXCEPT ![t] = a], Filled(l, n), l = "stat" => n.why \in {"current", "again"},
             a # None <=> l \in {"note", "respond"}
      PROVE  ThreadsOK' /\ \A u \in Threads : ThreadInv(u)'
  <2>1. Place(l, r, n.why)
    BY <1>1, <1>2, <1>4 DEF Place, Looking, Writes
  <2>2. MayMove(t, l, n, a, arc[t])
    BY <1>2, <1>3, <1>4, <2>1 DEF MayMove, Labels, Decided, Locked, Mutating, Writes
  <2> QED BY <1>3, <1>4, <2>2, MoveType DEF Moves
<1>5. ASSUME UNCHANGED ans PROVE ans' = [ans EXCEPT ![t] = None]
  BY <1>3, <1>5, KeepsAns
<1>6. \A x \in Contents :
        /\ [Fresh EXCEPT !.out = x] \in Locals /\ Filled("write", [Fresh EXCEPT !.out = x])
  BY FreshType DEF Filled, Fresh, Looking
<1>7. Fresh \in Locals /\ Filled("respond", Fresh)
  BY FreshType DEF Filled, Looking
<1>8. CASE reg[t].why = "again" /\ unchanged(t, d)
  <2>1. reg[t].out \in Contents
    BY <1>1, <1>8 DEF Filled, Looking
  <2>2. pc' = [pc EXCEPT ![t] = "write"] /\ reg' = [reg EXCEPT ![t] = [Fresh EXCEPT !.out = reg[t].out]]
        /\ UNCHANGED ans
    BY <1>8 DEF reconcile, Goto
  <2> QED BY <1>4, <1>5, <1>6, <2>1, <2>2
<1>9. CASE reg[t].why = "again" /\ ~unchanged(t, d) /\ ~lastAttempt(t)
  <2> DEFINE n == [Fresh EXCEPT !.why = "current", !.tries = reg[t].tries + 1]
  <2>1. pc' = [pc EXCEPT ![t] = "stat"] /\ reg' = [reg EXCEPT ![t] = n] /\ UNCHANGED ans
    BY <1>9 DEF reconcile, Goto
  <2>2. n \in Locals
    <3>1. reg[t].tries \in 0..(Attempts - 1) /\ reg[t].tries + 1 # Attempts
      BY <1>1, <1>9 DEF Locals, lastAttempt
    <3>2. reg[t].tries + 1 \in 0..(Attempts - 1)
      BY <3>1, BoundsAssumption
    <3> QED BY <3>2 DEF Fresh, Locals, Reasons
  <2>3. Filled("stat", n) /\ n.why = "current"
    BY DEF Filled, Fresh
  <2> QED BY <1>4, <1>5, <2>1, <2>2, <2>3
<1>10. CASE reg[t].why = "again" /\ ~unchanged(t, d) /\ lastAttempt(t) /\ d # None
  <2>1. pc' = [pc EXCEPT ![t] = "respond"] /\ reg' = [reg EXCEPT ![t] = Fresh]
        /\ ans' = [ans EXCEPT ![t] = Answer("retry", d)]
    BY <1>10 DEF reconcile, Goto, Decide
  <2> QED BY <1>4, <1>7, <2>1, AnswerType
<1>11. CASE reg[t].why = "again" /\ ~unchanged(t, d) /\ lastAttempt(t) /\ d = None
  <2>1. pc' = [pc EXCEPT ![t] = "write"] /\ reg' = [reg EXCEPT ![t] = [Fresh EXCEPT !.out = r.body]]
        /\ UNCHANGED ans
    BY <1>11 DEF reconcile, Goto
  <2> QED BY <1>1, <1>4, <1>5, <1>6, <2>1
<1>12. CASE reg[t].why = "current" /\ d = r.body
  <2> DEFINE n == [reg[t] EXCEPT !.out = d]
  <2>1. d \in Contents
    BY <1>1, <1>12
  <2>2. pc' = [pc EXCEPT ![t] = "note"] /\ reg' = [reg EXCEPT ![t] = n]
        /\ ans' = [ans EXCEPT ![t] = Answer("ok", d)]
    BY <1>12 DEF reconcile, Goto, Decide
  <2>3. n \in Locals
    BY <1>1, <2>1 DEF Locals
  <2>4. Filled("note", n)
    <3>1. reg[t].stamp \in Nat
      BY <1>1, <2>1, Undefined DEF Filled
    <3>2. n.stamp = reg[t].stamp /\ n.out = d
      BY <1>1 DEF Locals
    <3> QED BY <2>1, <3>1, <3>2 DEF Filled, Looking
  <2> QED BY <1>4, <2>2, <2>3, <2>4, AnswerType
<1>13. CASE reg[t].why = "current" /\ d # r.body /\ d \in {None, r.base}
  <2>1. pc' = [pc EXCEPT ![t] = "write"] /\ reg' = [reg EXCEPT ![t] = [Fresh EXCEPT !.out = r.body]]
        /\ UNCHANGED ans
    BY <1>13 DEF reconcile, Goto
  <2> QED BY <1>1, <1>4, <1>5, <1>6, <2>1
<1> DEFINE merged == Merge(r.base, r.body, d)
<1>14. CASE /\ reg[t].why = "current" /\ d # r.body /\ d \notin {None, r.base}
            /\ d \in Unmergeable \/ merged = None
  <2>1. pc' = [pc EXCEPT ![t] = "respond"] /\ reg' = [reg EXCEPT ![t] = Fresh]
        /\ ans' = [ans EXCEPT ![t] = Answer("conflict", None)]
    BY <1>14 DEF reconcile, Goto, Decide
  <2> QED BY <1>4, <1>7, <2>1, AnswerType
<1>15. CASE /\ reg[t].why = "current" /\ d # r.body /\ d \notin {None, r.base}
            /\ ~(d \in Unmergeable \/ merged = None)
  <2> DEFINE n == [reg[t] EXCEPT !.why = "again", !.data = d, !.out = merged]
  <2>1. pc' = [pc EXCEPT ![t] = "stat"] /\ reg' = [reg EXCEPT ![t] = n] /\ UNCHANGED ans
    BY <1>15 DEF reconcile, Goto
  <2>2. d \in Contents /\ merged \in Contents
    BY <1>1, <1>15, MergeAssumption
  <2>3. n \in Locals /\ n.why = "again" /\ n.data = d /\ n.out = merged
    BY <1>1, <2>2 DEF Locals, Reasons
  <2>4. Filled("stat", n)
    BY <2>2, <2>3 DEF Filled
  <2> QED BY <1>4, <1>5, <2>1, <2>3, <2>4
<1> QED
  BY <1>8, <1>9, <1>10, <1>11, <1>12, <1>13, <1>14, <1>15

-----------------------------------------------------------------------------
(* Type correctness, step by step.                                         *)

LEMMA RecordType ==
    ASSUME StoreOK, NEW p \in Paths, NEW s \in Nat, NEW h \in Contents, record(p, s, h)
    PROVE  /\ order' \in Seq(Paths)
           /\ entries' \in [Paths -> [stamp : Stamps, hash : Contents] \cup {None}]
<1> DEFINE queue == IF entries[p] = None THEN Append(order, p) ELSE order
<1>1. queue \in Seq(Paths)
  BY DEF StoreOK
<1>2. Len(queue) > Capacity => queue # <<>>
  BY <1>1, BoundsAssumption
<1>3. order' \in Seq(Paths)
  BY <1>1, <1>2 DEF record
<1>4. entries' \in [Paths -> [stamp : Stamps, hash : Contents] \cup {None}]
  BY DEF record, StoreOK, Stamps
<1> QED BY <1>3, <1>4

LEMMA ForgetType ==
    ASSUME StoreOK, NEW p \in Paths, forget(p)
    PROVE  /\ order' \in Seq(Paths)
           /\ entries' \in [Paths -> [stamp : Stamps, hash : Contents] \cup {None}]
BY DEF forget, StoreOK

LEMMA DiskType ==
    ASSUME StoreOK, NEW p \in Paths, NEW c \in Contents, NEW s \in Nat
    PROVE  [disk EXCEPT ![p] = [content |-> c, stamp |-> s]] \in [Paths -> Files \cup {None}]
BY DEF StoreOK, Files, Stamps

LEMMA RefuseType == ASSUME TypeInv, NEW t \in Threads, Refuse(t) PROVE TypeInv'
<1>1. pc[t] # "idle" /\ req[t].op = "reconcile" /\ pc[t] = "parse"
  BY DEF Refuse, Refused
<1>2. MayMove(t, "rejected", reg[t], Answer("conflict", None), arc[t])
  BY <1>1, ThreadFacts, ThreadHolds, AnswerType
  DEF MayMove, Labels, Place, Filled, Looking, Decided, Locked, Mutating, Writes
<1>3. Moves(t, "rejected", reg[t], Answer("conflict", None), arc[t]) /\ UNCHANGED req
  BY KeepsReg, KeepsArc DEF Refuse, Moves, Goto, Decide, Unlocked, Elsewhere
<1>4. StoreOK'
  BY DEF TypeInv, StoreOK, Refuse, Unlocked, Uncached, Elsewhere
<1> QED BY <1>2, <1>3, <1>4, MoveType DEF TypeInv

LEMMA EnterType == ASSUME TypeInv, NEW t \in Threads, EnterMutation(t) PROVE TypeInv'
<1>1. pc[t] # "idle" /\ pc[t] = "parse"
  BY DEF EnterMutation
<1>2. MayMove(t, "lock", reg[t], ans[t], arc[t])
  BY <1>1, ThreadFacts, ThreadHolds
  DEF MayMove, Labels, Place, Filled, Looking, Decided, Locked, Mutating, Writes, Handlers
<1>3. Moves(t, "lock", reg[t], ans[t], arc[t]) /\ UNCHANGED req
  BY KeepsReg, KeepsArc, KeepsAns DEF EnterMutation, Moves, Goto, Unlocked, Elsewhere
<1>4. StoreOK'
  BY DEF TypeInv, StoreOK, EnterMutation, Unlocked, Uncached, Elsewhere
<1> QED BY <1>2, <1>3, <1>4, MoveType DEF TypeInv

LEMMA LockType == ASSUME TypeInv, NEW t \in Threads, path_lock(t) PROVE TypeInv'
<1> DEFINE p == req[t].path
           table == IF Cardinality({q \in Paths : locks[q] # None}) > SweepAbove
                    THEN swept ELSE locks
           taken == Held \cup {table[q] : q \in Paths}
<1>1. pc[t] # "idle" /\ pc[t] = "lock"
  BY DEF path_lock
<1>2. table \in [Paths -> LockIds \cup {None}]
  BY DEF TypeInv, StoreOK, swept
<1>3. PICK l \in (IF table[p] # None THEN {table[p]} ELSE LockIds \ taken) :
         locks' = [table EXCEPT ![p] = l] /\ arc' = [arc EXCEPT ![t] = l]
  BY DEF path_lock
<1>4. l \in LockIds
  BY <1>1, <1>2, <1>3, ThreadFacts
<1> HIDE DEF table, taken
<1>5. MayMove(t, "acquire", reg[t], ans[t], l)
  BY <1>1, <1>4, ThreadFacts, ThreadHolds, Undefined
  DEF MayMove, Labels, Place, Filled, Looking, Decided, Locked, Mutating, Writes, Handlers
<1>6. Moves(t, "acquire", reg[t], ans[t], l) /\ UNCHANGED req
  BY <1>3, KeepsReg, KeepsAns DEF path_lock, Moves, Goto, Elsewhere
<1>7. StoreOK'
  BY <1>2, <1>3, <1>4 DEF TypeInv, StoreOK, path_lock, Uncached, Elsewhere
<1> QED BY <1>5, <1>6, <1>7, MoveType DEF TypeInv

LEMMA AcquireType == ASSUME TypeInv, NEW t \in Threads, Acquire(t) PROVE TypeInv'
<1> DEFINE n == [reg[t] EXCEPT !.why = IF req[t].op = "reconcile" THEN "current" ELSE "none"]
           l == IF req[t].op = "reconcile" THEN "stat" ELSE "check"
<1>1. pc[t] # "idle" /\ pc[t] = "acquire"
  BY DEF Acquire
<1>2. n \in Locals /\ n.why = IF req[t].op = "reconcile" THEN "current" ELSE "none"
  BY <1>1, ThreadFacts DEF Locals, Reasons
<1>3. req[t].op \in Writes /\ arc[t] \in LockIds
  BY <1>1, ThreadFacts, ThreadHolds DEF Place, Handlers, Writes
<1>4. Place(l, req[t], n.why) /\ Filled(l, n)
  BY <1>1, <1>2, <1>3, ThreadFacts DEF Place, Filled, Looking, Writes
<1>5. MayMove(t, l, n, ans[t], arc[t])
  BY <1>1, <1>2, <1>3, <1>4, ThreadHolds DEF MayMove, Labels, Decided, Locked, Mutating
<1>6. Moves(t, l, n, ans[t], arc[t]) /\ UNCHANGED req
  BY KeepsArc, KeepsAns DEF Acquire, Moves, Goto, Elsewhere
<1>7. StoreOK'
  BY <1>3 DEF TypeInv, StoreOK, Acquire, Uncached, Elsewhere
<1> QED BY <1>5, <1>6, <1>7, MoveType DEF TypeInv

\* The outcomes of evaluate_preconditions.
LEMMA VerdictCases ==
    ASSUME NEW r, NEW f
    PROVE  \/ verdict(r, f) = "exists" /\ r.ifNone /\ f # None
           \/ verdict(r, f) = "fail" /\ r.ifMatch # None /\ f = None
           \/ verdict(r, f) = "match" /\ r.ifMatch \notin {None, Star} /\ ~r.ifNone /\ f # None
           \/ /\ verdict(r, f) = "pass" /\ ~(r.ifNone /\ f # None)
              /\ ~(r.ifMatch # None /\ f = None) /\ ~(r.ifMatch \notin {None, Star} /\ f # None)
BY Zenon DEF verdict

LEMMA CheckCases ==
    ASSUME NEW t, Check(t)
    PROVE  LET r == req[t]
               v == verdict(r, disk[r.path])
               Locally(new) == reg' = [reg EXCEPT ![t] = new]
           IN  /\ pc[t] = "check"
               /\ \/ v = "fail" /\ Decide(t, "precondition", None) /\ Goto(t, "respond")
                     /\ UNCHANGED reg
                  \/ v \in {"exists", "match"} /\ Locally([Fresh EXCEPT !.why = v])
                     /\ Goto(t, "hash") /\ UNCHANGED ans
                  \/ v = "pass" /\ r.op = "put" /\ Locally([Fresh EXCEPT !.out = r.body])
                     /\ Goto(t, "write") /\ UNCHANGED ans
                  \/ v = "pass" /\ r.op # "put" /\ Locally([Fresh EXCEPT !.why = "deleted"])
                     /\ Goto(t, "hash") /\ UNCHANGED ans
<1> DEFINE r == req[t]
           v == verdict(r, disk[r.path])
<1>1. v \in {"exists", "fail", "match", "pass"}
  BY VerdictCases
<1>2. CASE v = "fail"
  BY <1>2, Zenon DEF Check
<1>3. CASE v \in {"exists", "match"}
  BY <1>3, Zenon DEF Check
<1>4. CASE v = "pass" /\ r.op = "put"
  BY <1>4, Zenon DEF Check
<1>5. CASE v = "pass" /\ r.op # "put"
  BY <1>5, Zenon DEF Check
<1> HIDE DEF v
<1> QED BY <1>1, <1>2, <1>3, <1>4, <1>5 

LEMMA CheckType == ASSUME TypeInv, NEW t \in Threads, Check(t) PROVE TypeInv'
<1> DEFINE r == req[t]
           v == verdict(r, disk[r.path])
<1>1. /\ pc[t] # "idle" /\ pc[t] = "check" /\ r.op \in {"put", "delete"} /\ r.body \in Contents
      /\ ans[t] = None /\ arc[t] # None /\ arc[t] \in LockIds \cup {None} /\ reg[t] \in Locals
      /\ r \in Requests /\ UNCHANGED <<req, arc>>
  BY ThreadFacts, ThreadHolds
  DEF Check, Place, Handlers, Writes, Decided, Locked, Mutating, Elsewhere, Unlocked
<1>2. ASSUME NEW l \in {"respond", "hash", "write"}, NEW n \in Locals, NEW a \in Answers \cup {None},
             pc' = [pc EXCEPT ![t] = l], reg' = [reg EXCEPT ![t] = n],
             ans' = [ans EXCEPT ![t] = a], a # None <=> l = "respond",
             l = "hash" => n.why \in {"match", "exists"} \/ (n.why = "deleted" /\ r.op = "delete"),
             l = "write" => n.out \in Contents /\ r.op = "put"
      PROVE  TypeInv'
  <2>1. Place(l, r, n.why) /\ Filled(l, n)
    BY <1>1, <1>2 DEF Place, Filled, Looking, Writes
  <2>2. MayMove(t, l, n, a, arc[t])
    BY <1>1, <1>2, <2>1 DEF MayMove, Labels, Decided, Locked, Mutating, Writes
  <2>3. StoreOK'
    BY DEF TypeInv, StoreOK, Check, Unlocked, Uncached, Elsewhere
  <2> QED BY <1>1, <1>2, <2>2, <2>3, MoveType, KeepsArc DEF Moves, TypeInv
<1>3. UNCHANGED ans => ans' = [ans EXCEPT ![t] = None]
  BY <1>1, KeepsAns
<1>4. CASE Decide(t, "precondition", None) /\ Goto(t, "respond") /\ UNCHANGED reg
  BY <1>1, <1>2, <1>4, KeepsReg, AnswerType DEF Decide, Goto
<1>5. CASE v \in {"exists", "match"} /\ reg' = [reg EXCEPT ![t] = [Fresh EXCEPT !.why = v]]
           /\ Goto(t, "hash") /\ UNCHANGED ans
  <2>1. [Fresh EXCEPT !.why = v] \in Locals /\ [Fresh EXCEPT !.why = v].why = v
    BY <1>5, FreshType DEF Fresh, Reasons
  <2> QED BY <1>2, <1>3, <1>5, <2>1 DEF Goto
<1>6. CASE r.op = "put" /\ reg' = [reg EXCEPT ![t] = [Fresh EXCEPT !.out = r.body]]
           /\ Goto(t, "write") /\ UNCHANGED ans
  <2>1. [Fresh EXCEPT !.out = r.body] \in Locals /\ [Fresh EXCEPT !.out = r.body].out = r.body
    BY <1>1, FreshType DEF Fresh
  <2> QED BY <1>1, <1>2, <1>3, <1>6, <2>1 DEF Goto
<1>7. CASE r.op # "put" /\ reg' = [reg EXCEPT ![t] = [Fresh EXCEPT !.why = "deleted"]]
           /\ Goto(t, "hash") /\ UNCHANGED ans
  <2>1. [Fresh EXCEPT !.why = "deleted"] \in Locals /\ [Fresh EXCEPT !.why = "deleted"].why = "deleted"
    BY FreshType DEF Fresh, Reasons
  <2> QED BY <1>1, <1>2, <1>3, <1>7, <2>1 DEF Goto
<1> HIDE DEF v
<1> QED BY <1>4, <1>5, <1>6, <1>7, CheckCases DEF v

LEMMA CachedType ==
    ASSUME TypeInv, NEW p \in Paths, NEW s
    PROVE  cachedHash(p, s) \in Contents \cup {None}
BY DEF TypeInv, StoreOK, cachedHash

LEMMA HashForType == ASSUME TypeInv, NEW t \in Threads, HashFor(t) PROVE TypeInv'
<1> DEFINE p == req[t].path
           h == IF disk[p] = None THEN None ELSE cachedHash(p, disk[p].stamp)
<1>1. /\ pc[t] # "idle" /\ pc[t] = "hash" /\ p \in Paths /\ UNCHANGED <<req, arc>>
      /\ reg[t].why \notin {"current", "again"} /\ reg[t] \in Locals
  BY ThreadFacts DEF HashFor, Place, Looking, Handlers, Writes, Unlocked, Elsewhere
<1>2. h \in Contents \cup {None}
  BY <1>1, CachedType
<1>3. StoreOK'
  BY DEF TypeInv, StoreOK, HashFor, Unlocked, Uncached, Elsewhere
<1>4. CASE AfterHash(t, h)
  BY <1>1, <1>2, <1>3, <1>4, AfterHashType DEF TypeInv
<1>5. CASE Goto(t, "stat") /\ UNCHANGED <<reg, ans>>
  <2>1. MayMove(t, "stat", reg[t], ans[t], arc[t])
    BY <1>1, ThreadFacts, ThreadHolds
    DEF MayMove, Labels, Place, Filled, Looking, Decided, Locked, Mutating, Writes, Handlers
  <2>2. Moves(t, "stat", reg[t], ans[t], arc[t])
    BY <1>1, <1>5, KeepsReg, KeepsArc, KeepsAns DEF Moves, Goto
  <2> QED BY <1>1, <1>3, <2>1, <2>2, MoveType DEF TypeInv
<1> QED BY <1>4, <1>5 DEF HashFor

LEMMA StatType == ASSUME TypeInv, NEW t \in Threads, Stat(t) PROVE TypeInv'
<1> DEFINE f == disk[req[t].path]
<1>1. /\ pc[t] # "idle" /\ pc[t] = "stat" /\ UNCHANGED <<req, arc>> /\ reg[t] \in Locals
      /\ f \in Files \cup {None}
  BY ThreadFacts DEF Stat, Unlocked, Elsewhere
<1>2. StoreOK'
  BY DEF TypeInv, StoreOK, Stat, Unlocked, Uncached, Elsewhere
<1>3. CASE f # None
  <2> DEFINE n == [reg[t] EXCEPT !.stamp = f.stamp]
             l == IF reg[t].why = "head" THEN "lookup" ELSE "read"
  <2>1. f.stamp \in Nat
    BY <1>1, <1>3 DEF Files, Stamps
  <2>2. n \in Locals /\ n.stamp \in Nat /\ n.why = reg[t].why /\ n.data = reg[t].data /\ n.out = reg[t].out
    BY <1>1, <2>1 DEF Locals, Stamps
  <2>3. Place(l, req[t], n.why) /\ Filled(l, n)
    BY <1>1, <2>2, ThreadFacts DEF Place, Filled, Looking, Writes, Handlers
  <2>4. MayMove(t, l, n, ans[t], arc[t])
    BY <1>1, <2>2, <2>3, ThreadHolds, ThreadFacts
    DEF MayMove, Labels, Decided, Locked, Mutating, Place, Looking, Writes, Handlers
  <2>5. Moves(t, l, n, ans[t], arc[t])
    BY <1>1, <1>3, KeepsArc, KeepsAns DEF Stat, Moves, Goto
  <2> QED BY <1>1, <1>2, <2>4, <2>5, MoveType DEF TypeInv
<1>4. CASE f = None /\ reg[t].why \in {"current", "again"}
  <2>1. reconcile(t, None)
    BY <1>4 DEF Stat
  <2> QED BY <1>1, <1>2, <1>4, <2>1, ReconcileType DEF TypeInv
<1>5. CASE f = None /\ reg[t].why \notin {"current", "again"}
  <2>1. AfterHash(t, None)
    BY <1>5 DEF Stat
  <2> QED BY <1>1, <1>2, <1>5, <2>1, AfterHashType DEF TypeInv
<1> QED BY <1>3, <1>4, <1>5

LEMMA ReadType == ASSUME TypeInv, NEW t \in Threads, Read(t) PROVE TypeInv'
<1> DEFINE f == disk[req[t].path]
           d == IF f = None THEN None ELSE f.content
<1>1. /\ pc[t] # "idle" /\ pc[t] = "read" /\ UNCHANGED <<req, arc>> /\ reg[t] \in Locals
      /\ f \in Files \cup {None}
  BY ThreadFacts DEF Read, Unlocked, Elsewhere
<1>2. StoreOK'
  BY DEF TypeInv, StoreOK, Read, Unlocked, Uncached, Elsewhere
<1>3. d \in Contents \cup {None}
  BY <1>1 DEF Files
<1>4. CASE reg[t].why \in {"current", "again"}
  <2>1. reconcile(t, d)
    BY <1>4 DEF Read
  <2> QED BY <1>1, <1>2, <1>3, <1>4, <2>1, ReconcileType DEF TypeInv
<1>5. CASE reg[t].why \notin {"current", "again"} /\ d = None
  <2>1. AfterHash(t, None)
    BY <1>5 DEF Read
  <2> QED BY <1>1, <1>2, <1>5, <2>1, AfterHashType DEF TypeInv
<1>6. CASE reg[t].why \notin {"current", "again"} /\ d # None
  <2> DEFINE n == [reg[t] EXCEPT !.data = d]
             l == IF reg[t].why = "get" THEN "lookup" ELSE "record"
  <2>1. reg' = [reg EXCEPT ![t] = n] /\ Goto(t, l) /\ UNCHANGED ans
    BY <1>6 DEF Read
  <2>2. d \in Contents
    BY <1>3, <1>6
  <2> HIDE DEF d
  <2>3. n \in Locals /\ n.data = d /\ n.why = reg[t].why /\ n.stamp = reg[t].stamp
    BY <1>1, <2>2 DEF Locals
  <2>4. Place(l, req[t], n.why)
    BY <1>1, <1>6, <2>3, ThreadFacts DEF Place, Looking, Writes, Handlers
  <2>5. Filled(l, n)
    BY <1>1, <1>6, <2>2, <2>3, ThreadFacts DEF Filled, Looking
  <2>6. MayMove(t, l, n, ans[t], arc[t])
    BY <1>1, <2>3, <2>4, <2>5, ThreadHolds, ThreadFacts
    DEF MayMove, Labels, Decided, Locked, Mutating, Place, Looking, Writes, Handlers
  <2>7. Moves(t, l, n, ans[t], arc[t])
    BY <1>1, <2>1, KeepsArc, KeepsAns DEF Moves, Goto
  <2> QED BY <1>1, <1>2, <2>6, <2>7, MoveType DEF TypeInv
<1> QED BY <1>4, <1>5, <1>6

LEMMA LookupType == ASSUME TypeInv, NEW t \in Threads, Lookup(t) PROVE TypeInv'
<1> DEFINE h == cachedHash(req[t].path, reg[t].stamp)
           done == h # None \/ reg[t].why = "head"
<1>1. /\ pc[t] # "idle" /\ pc[t] = "lookup" /\ UNCHANGED <<req, arc, ans>> /\ reg[t] \in Locals
      /\ reg[t].why = req[t].op /\ req[t].op \in {"get", "head"}
  BY ThreadFacts DEF Lookup, Unlocked, Elsewhere, Place, Looking, Handlers, Writes
<1>2. StoreOK'
  BY DEF TypeInv, StoreOK, Lookup, Unlocked, Uncached, Elsewhere
<1>3. CASE done
  <2>1. Goto(t, "respond") /\ reg' = [reg EXCEPT ![t] = Fresh]
    BY <1>3 DEF Lookup
  <2>2. MayMove(t, "respond", Fresh, ans[t], arc[t])
    BY <1>1, ThreadFacts, ThreadHolds, FreshType
    DEF MayMove, Labels, Place, Filled, Looking, Decided, Locked, Mutating, Writes
  <2>3. Moves(t, "respond", Fresh, ans[t], arc[t])
    BY <1>1, <2>1, KeepsArc, KeepsAns DEF Moves, Goto
  <2> QED BY <1>1, <1>2, <2>2, <2>3, MoveType DEF TypeInv
<1>4. CASE ~done
  <2>1. Goto(t, "record") /\ UNCHANGED reg
    BY <1>4 DEF Lookup
  <2>2. MayMove(t, "record", reg[t], ans[t], arc[t])
    BY <1>1, <1>4, ThreadFacts, ThreadHolds
    DEF MayMove, Labels, Place, Filled, Looking, Decided, Locked, Mutating, Writes
  <2>3. Moves(t, "record", reg[t], ans[t], arc[t])
    BY <1>1, <2>1, KeepsArc, KeepsAns, KeepsReg DEF Moves, Goto
  <2> QED BY <1>1, <1>2, <2>2, <2>3, MoveType DEF TypeInv
<1> QED BY <1>3, <1>4

LEMMA RecordStepType == ASSUME TypeInv, NEW t \in Threads, Record(t) PROVE TypeInv'
<1>1. /\ pc[t] # "idle" /\ pc[t] = "record" /\ UNCHANGED <<req, arc>>
      /\ reg[t].why \notin {"current", "again"} /\ reg[t].data \in Contents /\ reg[t].stamp \in Nat
      /\ req[t].path \in Paths
  BY ThreadFacts DEF Record, Unlocked, Elsewhere, Place, Filled, Looking, Handlers, Writes
<1>2. ThreadsOK' /\ \A u \in Threads : ThreadInv(u)'
  BY <1>1, AfterHashType DEF Record
<1>3. StoreOK'
  BY <1>1, RecordType DEF TypeInv, StoreOK, Record, Unlocked, Elsewhere
<1> QED BY <1>2, <1>3 DEF TypeInv

LEMMA WriteType == ASSUME TypeInv, NEW t \in Threads, Write(t) PROVE TypeInv'
<1>1. /\ pc[t] # "idle" /\ pc[t] = "write" /\ UNCHANGED <<req, arc, reg>> /\ reg[t] \in Locals
      /\ reg[t].out \in Contents /\ req[t].path \in Paths /\ req[t].op \in {"put", "reconcile"}
      /\ arc[t] # None /\ arc[t] \in LockIds \cup {None}
  BY ThreadFacts, ThreadHolds
  DEF Write, Unlocked, Elsewhere, Place, Filled, Handlers, Writes, Locked, Mutating
<1>2. MayMove(t, "restat", reg[t], Answer("ok", reg[t].out), arc[t])
  BY <1>1, ThreadFacts, AnswerType
  DEF MayMove, Labels, Place, Filled, Looking, Decided, Locked, Mutating, Writes
<1>3. Moves(t, "restat", reg[t], Answer("ok", reg[t].out), arc[t])
  BY <1>1, KeepsArc, KeepsReg DEF Write, Decide, Moves, Goto
<1>4. PICK s \in Nat : disk' = [disk EXCEPT ![req[t].path] = [content |-> reg[t].out, stamp |-> s]]
  <2>1. clock \in Nat
    BY DEF TypeInv, StoreOK
  <2>2. NewStamps \subseteq Nat
    BY <2>1 DEF NewStamps
  <2> QED BY <2>2 DEF Write
<1>5. StoreOK'
  BY <1>1, <1>4, DiskType DEF TypeInv, StoreOK, Write, Unlocked, Uncached, Elsewhere
<1> QED BY <1>1, <1>2, <1>3, <1>5, MoveType DEF TypeInv

LEMMA RestatType == ASSUME TypeInv, NEW t \in Threads, Restat(t) PROVE TypeInv'
<1> DEFINE f == disk[req[t].path]
<1>1. /\ pc[t] # "idle" /\ pc[t] = "restat" /\ UNCHANGED <<req, arc>> /\ reg[t] \in Locals
      /\ reg[t].out \in Contents /\ req[t].path \in Paths /\ req[t].op \in {"put", "reconcile"}
      /\ arc[t] # None /\ arc[t] \in LockIds \cup {None} /\ f \in Files \cup {None}
      /\ ans[t] # None /\ ans[t] \in Answers \cup {None}
  BY ThreadFacts, ThreadHolds
  DEF Restat, Unlocked, Elsewhere, Place, Filled, Handlers, Writes, Locked, Mutating, Decided
<1>2. StoreOK'
  BY DEF TypeInv, StoreOK, Restat, Unlocked, Uncached, Elsewhere
<1>3. CASE f = None
  <2> DEFINE a == Answer(IF req[t].op = "put" THEN "missing" ELSE "conflict", None)
  <2>1. Goto(t, "respond") /\ UNCHANGED reg /\ ans' = [ans EXCEPT ![t] = a]
    BY <1>3 DEF Restat, Decide
  <2>2. a \in Answers /\ a # None
    BY AnswerType
  <2> HIDE DEF a
  <2>3. MayMove(t, "respond", reg[t], a, arc[t])
    BY <1>1, <2>2, ThreadFacts
    DEF MayMove, Labels, Place, Filled, Looking, Decided, Locked, Mutating, Writes
  <2>4. Moves(t, "respond", reg[t], a, arc[t])
    BY <1>1, <2>1, KeepsArc, KeepsReg DEF Moves, Goto
  <2> QED BY <1>1, <1>2, <2>3, <2>4, MoveType DEF TypeInv
<1>4. CASE f # None
  <2> DEFINE n == [reg[t] EXCEPT !.stamp = f.stamp]
  <2>1. f.stamp \in Nat
    BY <1>1, <1>4 DEF Files, Stamps
  <2>2. n \in Locals /\ n.stamp \in Nat /\ n.why = reg[t].why /\ n.out = reg[t].out
    BY <1>1, <2>1 DEF Locals, Stamps
  <2>3. MayMove(t, "note", n, ans[t], arc[t])
    BY <1>1, <2>2, ThreadFacts
    DEF MayMove, Labels, Place, Filled, Looking, Decided, Locked, Mutating, Writes
  <2>4. Moves(t, "note", n, ans[t], arc[t])
    BY <1>1, <1>4, KeepsArc, KeepsAns DEF Restat, Moves, Goto
  <2> QED BY <1>1, <1>2, <2>3, <2>4, MoveType DEF TypeInv
<1> QED BY <1>3, <1>4

LEMMA NoteType == ASSUME TypeInv, NEW t \in Threads, Note(t) PROVE TypeInv'
<1>1. /\ pc[t] # "idle" /\ pc[t] = "note" /\ UNCHANGED <<req, arc, ans>>
      /\ reg[t].out \in Contents /\ reg[t].stamp \in Nat /\ req[t].path \in Paths
      /\ req[t].op \in {"put", "reconcile"}
  BY ThreadFacts DEF Note, Unlocked, Elsewhere, Place, Filled, Handlers, Writes
<1>2. MayMove(t, "respond", Fresh, ans[t], arc[t])
  BY <1>1, ThreadFacts, ThreadHolds, FreshType
  DEF MayMove, Labels, Place, Filled, Looking, Decided, Locked, Mutating, Writes
<1>3. Moves(t, "respond", Fresh, ans[t], arc[t])
  BY <1>1, KeepsArc, KeepsAns DEF Note, Moves, Goto
<1>4. StoreOK'
  BY <1>1, RecordType DEF TypeInv, StoreOK, Note, Unlocked, Elsewhere
<1> QED BY <1>1, <1>2, <1>3, <1>4, MoveType DEF TypeInv

LEMMA RemoveType == ASSUME TypeInv, NEW t \in Threads, Remove(t) PROVE TypeInv'
<1>1. /\ pc[t] # "idle" /\ pc[t] = "remove" /\ UNCHANGED <<req, arc, reg>> /\ reg[t] \in Locals
      /\ req[t].path \in Paths /\ req[t].op = "delete"
      /\ arc[t] # None /\ arc[t] \in LockIds \cup {None}
  BY ThreadFacts, ThreadHolds
  DEF Remove, Unlocked, Elsewhere, Place, Handlers, Writes, Locked, Mutating
<1>2. StoreOK'
  BY <1>1 DEF TypeInv, StoreOK, Remove, Unlocked, Uncached, Elsewhere
<1>3. ASSUME NEW l \in {"respond", "forget"}, NEW s \in {"missing", "ok"}, Decide(t, s, None), Goto(t, l)
      PROVE  TypeInv'
  <2>1. MayMove(t, l, reg[t], Answer(s, None), arc[t])
    BY <1>1, ThreadFacts, AnswerType
    DEF MayMove, Labels, Place, Filled, Looking, Decided, Locked, Mutating, Writes
  <2>2. Moves(t, l, reg[t], Answer(s, None), arc[t])
    BY <1>1, <1>3, KeepsArc, KeepsReg DEF Decide, Moves, Goto
  <2> QED BY <1>1, <1>2, <2>1, <2>2, MoveType DEF TypeInv
<1> QED BY <1>3 DEF Remove

LEMMA ForgetStepType == ASSUME TypeInv, NEW t \in Threads, Forget(t) PROVE TypeInv'
<1>1. /\ pc[t] # "idle" /\ pc[t] = "forget" /\ UNCHANGED <<req, arc, ans, reg>>
      /\ req[t].path \in Paths /\ req[t].op = "delete"
  BY ThreadFacts DEF Forget, Unlocked, Elsewhere, Place, Handlers, Writes
<1>2. MayMove(t, "respond", reg[t], ans[t], arc[t])
  BY <1>1, ThreadFacts, ThreadHolds
  DEF MayMove, Labels, Place, Filled, Looking, Decided, Locked, Mutating, Writes
<1>3. Moves(t, "respond", reg[t], ans[t], arc[t])
  BY <1>1, KeepsArc, KeepsAns, KeepsReg DEF Forget, Moves, Goto
<1>4. StoreOK'
  BY <1>1, ForgetType DEF TypeInv, StoreOK, Forget, Unlocked, Elsewhere
<1> QED BY <1>1, <1>2, <1>3, <1>4, MoveType DEF TypeInv

LEMMA RespondType == ASSUME TypeInv, NEW t \in Threads, Respond(t) PROVE TypeInv'
<1>1. ThreadsOK'
  BY FreshType DEF TypeInv, ThreadsOK, Respond, Labels
<1>2. Alone(t)
  BY DEF TypeInv, ThreadsOK, Respond, Alone
<1>3. ThreadInv(t)'
  BY DEF TypeInv, ThreadsOK, Respond, ThreadInv, Filled, Looking, Decided, Reads, InLock,
     Locked, Mutating, Fresh
<1>4. StoreOK'
  BY DEF TypeInv, StoreOK, Respond, Uncached
<1> QED BY <1>1, <1>2, <1>3, <1>4, OthersInv DEF TypeInv

LEMMA BeginCases ==
    ASSUME NEW t, NEW r \in Requests, Begin(t, r)
    PROVE  /\ r.op \in {"get", "head"} => Goto(t, "stat")
           /\ r.op = "meta" => Goto(t, "hash")
           /\ r.op \in Writes => Goto(t, "parse")
<1>1. CASE r.op \in {"get", "head"}
  BY <1>1, Zenon DEF Begin, Writes
<1>2. CASE r.op = "meta"
  BY <1>2, Zenon DEF Begin, Writes
<1>3. CASE r.op \in Writes
  BY <1>3, Zenon DEF Begin, Writes
<1>4. r.op \in Handlers
  BY DEF Requests
<1> QED BY <1>1, <1>2, <1>3, <1>4 DEF Handlers, Writes

LEMMA BeginType == ASSUME TypeInv, NEW t \in Threads, NEW r \in Offered, Begin(t, r) PROVE TypeInv'
<1>1. r \in Requests /\ r.op \in Handlers
  BY BoundsAssumption DEF Requests
<1>2. pc[t] = "idle" /\ req' = [req EXCEPT ![t] = r] /\ UNCHANGED <<ans, arc>>
  BY DEF Begin, Unlocked
<1>3. ans[t] = None /\ arc[t] = None
  BY <1>2 DEF TypeInv, ThreadInv, Decided, InLock, Locked, Mutating
<1>4. PICK l \in {"stat", "hash", "parse"} :
         /\ Goto(t, l)
         /\ r.op \in {"get", "head"} => l = "stat"
         /\ r.op = "meta" => l = "hash"
         /\ r.op \in Writes => l = "parse"
  BY <1>1, BeginCases DEF Handlers, Writes
<1> DEFINE n == [reg[t] EXCEPT !.why = IF r.op \in {"get", "head", "meta"} THEN r.op ELSE "none"]
<1>5. reg' = [reg EXCEPT ![t] = n]
  BY DEF Begin
<1>6. n \in Locals /\ n.why = IF r.op \in {"get", "head", "meta"} THEN r.op ELSE "none"
  BY DEF TypeInv, ThreadsOK, Locals, Reasons
<1> HIDE DEF n
<1>7. ThreadsOK' /\ Alone(t) /\ pc'[t] = l /\ req'[t] = r /\ reg'[t] = n /\ ans'[t] = None /\ arc'[t] = None
  BY <1>1, <1>2, <1>3, <1>4, <1>5, <1>6 DEF TypeInv, ThreadsOK, Goto, Labels, Alone
<1>8. Place(l, r, n.why) /\ Filled(l, n)
  BY <1>1, <1>4, <1>6 DEF Place, Filled, Looking, Handlers, Writes
<1>9. ThreadInv(t)'
  BY <1>1, <1>4, <1>7, <1>8 DEF ThreadInv, Decided, Reads, InLock, Locked, Mutating, Handlers, Writes
<1>10. StoreOK'
  BY DEF TypeInv, StoreOK, Begin, Unlocked, Uncached
<1> QED BY <1>7, <1>9, <1>10, OthersInv DEF TypeInv

\* Commits and other programs leave the threads alone.
LEMMA OutsideType ==
    ASSUME TypeInv,
           CommitBegin \/ SweepBegin \/ CommitEnd \/ (\E p \in Paths : CommitPath(p) \/ Foreign(p)) \/ UNCHANGED vars
    PROVE  TypeInv'
<1>1. UNCHANGED <<pc, req, reg, ans, arc, owner, locks, entries, order>>
  BY DEF CommitBegin, SweepBegin, CommitEnd, CommitPath, Foreign, Quiet, Unlocked, Uncached, vars
<1>2. ThreadsOK' /\ \A t \in Threads : ThreadInv(t)'
  BY <1>1 DEF TypeInv, ThreadsOK, ThreadInv, Reads, InLock
<1>3. CASE CommitBegin \/ SweepBegin \/ CommitEnd
  <2>1. \E b, g \in BOOLEAN : commit' = [on |-> b, gated |-> g, read |-> {}, tree |-> [p \in Paths |-> None]]
    BY <1>3, Zenon DEF CommitBegin, SweepBegin, CommitEnd, NoCommit
  <2>3. commit' \in [on : BOOLEAN, gated : BOOLEAN, read : SUBSET Paths, tree : [Paths -> Files \cup {None}]]
    BY <2>1
  <2>4. UNCHANGED <<disk, clock, foreign>>
    BY <1>3 DEF CommitBegin, SweepBegin, CommitEnd, Quiet
  <2>2. commits' \in 0..MaxCommits
    BY <1>3, BoundsAssumption DEF TypeInv, StoreOK, CommitBegin, SweepBegin, CommitEnd
  <2> QED BY <1>1, <1>2, <2>2, <2>3, <2>4 DEF TypeInv, StoreOK
<1>4. ASSUME NEW p \in Paths, CommitPath(p) PROVE TypeInv'
  BY <1>1, <1>2, <1>4 DEF TypeInv, StoreOK, CommitPath, Quiet
<1>5. ASSUME NEW p \in Paths, Foreign(p) PROVE TypeInv'
  <2>1. clock + 1 \in Nat /\ foreign + 1 \in 0..MaxForeign
    BY <1>5, BoundsAssumption DEF TypeInv, StoreOK, Foreign
  <2>2. disk' \in [Paths -> Files \cup {None}]
    <3>1. ASSUME NEW c \in Seeds, NEW s \in NewStamps, disk' = [disk EXCEPT ![p] = [content |-> c, stamp |-> s]]
          PROVE  disk' \in [Paths -> Files \cup {None}]
      <4>1. s \in Nat
        BY <2>1 DEF NewStamps
      <4> QED BY <2>1, <3>1, <4>1, DiskType, BoundsAssumption DEF TypeInv
    <3>2. ASSUME disk' = [disk EXCEPT ![p] = None] PROVE disk' \in [Paths -> Files \cup {None}]
      BY <3>2 DEF TypeInv, StoreOK
    <3> QED BY <1>5, <3>1, <3>2 DEF Foreign
  <2> QED BY <1>1, <1>2, <1>5, <2>1, <2>2 DEF TypeInv, StoreOK, Foreign
<1>6. CASE UNCHANGED vars
  BY <1>1, <1>2, <1>6 DEF TypeInv, StoreOK, vars
<1> QED BY <1>3, <1>4, <1>5, <1>6

LEMMA NextType == TypeInv /\ [Next]_vars => TypeInv'
<1> SUFFICES ASSUME TypeInv, [Next]_vars PROVE TypeInv'
  OBVIOUS
<1>1. ASSUME NEW t \in Threads, Step(t) PROVE TypeInv'
  BY <1>1, RefuseType, EnterType, LockType, AcquireType, CheckType, HashForType, StatType,
     ReadType, LookupType, RecordStepType, WriteType, RestatType, NoteType, RemoveType,
     ForgetStepType, RespondType
  DEF Step
<1> QED BY <1>1, BeginType, OutsideType DEF Next

\* Every reachable state of the handlers, the locks, the cache and the commits
\* is well typed: no handler uses a stat, a content or a hash that it has not
\* got, and none answers before it has decided.
THEOREM TypeCorrect == Spec => []TypeOK
<1>1. Spec => []TypeInv
  BY InitType, NextType, PTL DEF Spec
<1> QED BY <1>1, TypeInvTypes, PTL

-----------------------------------------------------------------------------
(* The locks.                                                              *)

\* The steps a thread takes between its locks, or without one.
Inside(t) ==
    \/ Check(t) \/ HashFor(t) \/ Stat(t) \/ Read(t) \/ Lookup(t) \/ Record(t)
    \/ Write(t) \/ Restat(t) \/ Note(t) \/ Remove(t) \/ Forget(t)

LEMMA AfterHashGoes ==
    ASSUME TypeInv, NEW t \in Threads, NEW h, AfterHash(t, h), pc[t] \in Looking
    PROVE  \E l \in {"write", "hash", "respond", "remove"} : Goto(t, l)
<1>1. reg[t].why = "match" => req[t].op \in {"put", "delete"}
  BY ThreadFacts DEF Place, Looking, Handlers, Writes
<1> QED BY <1>1, AfterHashCases

LEMMA ReconcileGoes ==
    ASSUME NEW t, NEW d, reconcile(t, d)
    PROVE  \E l \in {"write", "stat", "respond", "note"} : Goto(t, l)
BY DEF reconcile

LEMMA InsideGoes ==
    ASSUME TypeInv, NEW t \in Threads, Inside(t)
    PROVE  /\ pc[t] \in Locked \cup {"lookup"} /\ \E l \in Locked \cup {"lookup"} : Goto(t, l)
           /\ UNCHANGED <<req, locks, arc, owner, commit, foreign, commits>>
<1>1. /\ pc[t] \in Locked \cup {"lookup"}
      /\ UNCHANGED <<req, locks, arc, owner, commit, foreign, commits>>
  BY DEF Inside, Check, HashFor, Stat, Read, Lookup, Record, Write, Restat, Note, Remove, Forget,
     Locked, Mutating, Unlocked, Elsewhere
<1>2. ASSUME NEW h, AfterHash(t, h), pc[t] \in Looking PROVE \E l \in Locked \cup {"lookup"} : Goto(t, l)
  BY <1>2, AfterHashGoes DEF Locked, Mutating
<1>3. ASSUME NEW d, reconcile(t, d) PROVE \E l \in Locked \cup {"lookup"} : Goto(t, l)
  BY <1>3, ReconcileGoes DEF Locked, Mutating
<1> DEFINE Goes == \E l \in Locked \cup {"lookup"} : Goto(t, l)
<1>4. ASSUME NEW l \in Locked \cup {"lookup"}, pc' = [pc EXCEPT ![t] = l] PROVE Goes
  BY <1>4 DEF Goto
<1>5. {"respond", "hash", "write", "stat", "lookup", "read", "record", "restat", "note", "forget"}
        \subseteq Locked \cup {"lookup"}
  BY DEF Locked, Mutating
<1> HIDE DEF Goes
<1>6. ASSUME Check(t) PROVE Goes
  BY <1>4, <1>5, <1>6, CheckCases DEF Goto
<1>7. ASSUME HashFor(t) PROVE Goes
  <2>1. pc[t] \in Looking
    BY <1>7 DEF HashFor, Looking
  <2> QED BY <1>2, <1>4, <1>5, <1>7, <2>1 DEF HashFor, Goto, Goes
<1>8. ASSUME Stat(t) PROVE Goes
  <2>1. pc[t] \in Looking
    BY <1>8 DEF Stat, Looking
  <2> QED BY <1>2, <1>3, <1>4, <1>5, <1>8, <2>1 DEF Stat, Goto, Goes
<1>9. ASSUME Read(t) PROVE Goes
  <2>1. pc[t] \in Looking
    BY <1>9 DEF Read, Looking
  <2> QED BY <1>2, <1>3, <1>4, <1>5, <1>9, <2>1 DEF Read, Goto, Goes
<1>10. ASSUME Record(t) PROVE Goes
  <2>1. pc[t] \in Looking
    BY <1>10 DEF Record, Looking
  <2> QED BY <1>2, <1>10, <2>1 DEF Record, Goes
<1>11. ASSUME Lookup(t) \/ Write(t) \/ Restat(t) \/ Note(t) \/ Remove(t) \/ Forget(t) PROVE Goes
  BY <1>4, <1>5, <1>11 DEF Lookup, Write, Restat, Note, Remove, Forget, Goto
<1> QED BY <1>1, <1>6, <1>7, <1>8, <1>9, <1>10, <1>11 DEF Inside, Goes

\* They neither enter nor leave a lock.
LEMMA InsideKeeps ==
    ASSUME TypeInv, TypeInv', NEW t \in Threads, Inside(t), NEW u \in Threads
    PROVE  (InLock(u)' <=> InLock(u)) /\ (InMutation(u)' <=> InMutation(u))
<1>1. PICK l \in Locked \cup {"lookup"} : pc' = [pc EXCEPT ![t] = l]
  BY InsideGoes DEF Goto
<1>2. pc[t] \in Locked \cup {"lookup"} /\ req' = req
  BY InsideGoes
<1>3. CASE u # t
  BY <1>1, <1>2, <1>3 DEF TypeInv, ThreadsOK, InLock, InMutation, Reads
<1>4. CASE u = t
  <2>1. pc'[t] = l /\ pc[t] # "idle" /\ l # "idle"
    BY <1>1, <1>2 DEF TypeInv, ThreadsOK, Locked, Mutating
  <2>2. pc[t] = "lookup" => Reads(t)
    BY <2>1, ThreadFacts DEF Place, Reads, Handlers, Writes
  <2>3. l = "lookup" => Reads(t)'
    <3>1. Place(l, req'[t], reg'[t].why)
      BY <2>1 DEF TypeInv, ThreadInv
    <3> QED BY <2>1, <3>1 DEF Place, Reads, Handlers, Writes, Requests
  <2>4. Reads(t)' <=> Reads(t)
    BY <1>2, <2>1 DEF Reads
  <2> QED BY <1>2, <1>4, <2>1, <2>2, <2>3, <2>4 DEF InLock, InMutation, Locked
<1> QED BY <1>3, <1>4

\* The table has the lock of every thread that refers to one, and a lock
\* belongs to the thread that holds it.
LockInv ==
    /\ \A t \in Threads : arc[t] # None => locks[req[t].path] = arc[t]
    /\ \A t \in Threads, l \in LockIds : owner[l] = t <=> InLock(t) /\ arc[t] = l

LEMMA InitLock == Init => LockInv
BY Undefined DEF Init, LockInv, InLock, Locked, Mutating

\* A thread that takes its path's lock finds the one that others refer to.
LEMMA LockStep ==
    ASSUME TypeInv, TypeInv', LockInv, NEW t \in Threads, path_lock(t)
    PROVE  LockInv'
<1> DEFINE p == req[t].path
           table == IF Cardinality({q \in Paths : locks[q] # None}) > SweepAbove
                    THEN swept ELSE locks
           taken == Held \cup {table[q] : q \in Paths}
<1>1. /\ pc[t] = "lock" /\ pc' = [pc EXCEPT ![t] = "acquire"] /\ UNCHANGED <<req, owner>>
      /\ pc[t] # "idle"
  BY DEF path_lock, Goto, Elsewhere
<1>2. PICK l \in (IF table[p] # None THEN {table[p]} ELSE LockIds \ taken) :
         locks' = [table EXCEPT ![p] = l] /\ arc' = [arc EXCEPT ![t] = l]
  BY DEF path_lock
<1>3. ASSUME NEW u \in Threads, arc[u] # None PROVE table[req[u].path] = arc[u] /\ req[u].path \in Paths
  <2>1. pc[u] # "idle" /\ req[u].path \in Paths
    BY <1>3, ThreadFacts DEF TypeInv, ThreadInv, InLock, Locked, Mutating
  <2>2. locks[req[u].path] = arc[u] /\ arc[u] \in Held
    BY <1>3 DEF LockInv, Held
  <2> QED BY <2>1, <2>2 DEF swept
<1>4. table \in [Paths -> LockIds \cup {None}] /\ p \in Paths
  BY <1>1, ThreadFacts DEF TypeInv, StoreOK, swept
<1> HIDE DEF table
<1>5. ASSUME NEW u \in Threads, arc'[u] # None PROVE locks'[req'[u].path] = arc'[u]
  <2>1. CASE u = t
    BY <1>1, <1>2, <1>4, <2>1 DEF TypeInv, ThreadsOK
  <2>2. CASE u # t
    <3>1. arc'[u] = arc[u]
      BY <1>2, <2>2 DEF TypeInv, ThreadsOK
    <3> QED BY <1>1, <1>2, <1>3, <1>4, <1>5, <3>1
  <2> QED BY <2>1, <2>2
<1>6. ASSUME NEW u \in Threads, NEW k \in LockIds PROVE owner'[k] = u <=> InLock(u)' /\ arc'[u] = k
  <2>1. CASE u = t
    <3>1. pc'[t] = "acquire"
      BY <1>1 DEF TypeInv, ThreadsOK
    <3>2. ~InLock(t) /\ ~InLock(t)'
      BY <1>1, <3>1 DEF InLock, Locked, Mutating
    <3> QED BY <1>1, <2>1, <3>2 DEF LockInv
  <2>2. CASE u # t
    <3>1. arc'[u] = arc[u] /\ pc'[u] = pc[u] /\ req'[u] = req[u]
      BY <1>1, <1>2, <2>2 DEF TypeInv, ThreadsOK
    <3>2. InLock(u)' <=> InLock(u)
      BY <3>1 DEF InLock, Reads
    <3> QED BY <1>1, <3>1, <3>2 DEF LockInv
  <2> QED BY <2>1, <2>2
<1> QED BY <1>5, <1>6 DEF LockInv

LEMMA AcquireStep ==
    ASSUME TypeInv, TypeInv', LockInv, NEW t \in Threads, Acquire(t)
    PROVE  LockInv'
<1> DEFINE l == IF req[t].op = "reconcile" THEN "stat" ELSE "check"
<1>1. /\ pc[t] = "acquire" /\ pc[t] # "idle" /\ owner[arc[t]] = None
      /\ owner' = [owner EXCEPT ![arc[t]] = t] /\ pc' = [pc EXCEPT ![t] = l]
      /\ UNCHANGED <<req, locks, arc>>
  BY DEF Acquire, Goto, Elsewhere
<1>2. arc[t] \in LockIds /\ req[t].op \in Writes
  BY <1>1, ThreadFacts, ThreadHolds DEF Place, Handlers, Writes
<1>3. pc'[t] = l /\ InLock(t)' /\ ~InLock(t)
  BY <1>1, <1>2 DEF TypeInv, ThreadsOK, InLock, Reads, Locked, Mutating
<1>4. ASSUME NEW u \in Threads, u # t PROVE InLock(u)' <=> InLock(u)
  BY <1>1, <1>4 DEF TypeInv, ThreadsOK, InLock, Reads
<1>5. ASSUME NEW u \in Threads, NEW k \in LockIds PROVE owner'[k] = u <=> InLock(u)' /\ arc'[u] = k
  BY <1>1, <1>2, <1>3, <1>4, Undefined DEF TypeInv, StoreOK, LockInv
<1> QED BY <1>1, <1>5 DEF LockInv

LEMMA RespondStep ==
    ASSUME TypeInv, TypeInv', LockInv, NEW t \in Threads, Respond(t)
    PROVE  LockInv'
<1>1. /\ owner' = [l \in LockIds |-> IF owner[l] = t THEN None ELSE owner[l]]
      /\ arc' = [arc EXCEPT ![t] = None] /\ pc' = [pc EXCEPT ![t] = "idle"]
      /\ req' = [req EXCEPT ![t] = None] /\ UNCHANGED locks
  BY DEF Respond
<1>2. arc'[t] = None /\ ~InLock(t)'
  BY <1>1 DEF TypeInv, ThreadsOK, InLock, Locked, Mutating
<1>3. ASSUME NEW u \in Threads, u # t
      PROVE  (InLock(u)' <=> InLock(u)) /\ arc'[u] = arc[u] /\ req'[u] = req[u]
  BY <1>1, <1>3 DEF TypeInv, ThreadsOK, InLock, Reads
<1>4. ASSUME NEW u \in Threads, NEW k \in LockIds PROVE owner'[k] = u <=> InLock(u)' /\ arc'[u] = k
  BY <1>1, <1>2, <1>3, Undefined DEF LockInv
<1> QED BY <1>1, <1>2, <1>3, <1>4 DEF LockInv

LEMMA NextLock == TypeInv /\ TypeInv' /\ LockInv /\ [Next]_vars => LockInv'
<1> SUFFICES ASSUME TypeInv, TypeInv', LockInv, [Next]_vars PROVE LockInv'
  OBVIOUS
<1>1. ASSUME NEW t \in Threads, Inside(t) PROVE LockInv'
  BY <1>1, InsideGoes, InsideKeeps DEF LockInv
<1>2. ASSUME NEW t \in Threads, pc[t] \in {"idle", "parse"}, UNCHANGED <<locks, arc, owner>>,
             NEW l \in {"rejected", "lock", "stat", "hash", "parse"}, pc' = [pc EXCEPT ![t] = l],
             NEW r \in Requests \cup {None}, req' = [req EXCEPT ![t] = r],
             l \in {"stat", "hash"} => r.op \notin Writes
      PROVE  LockInv'
  <2>1. arc[t] = None /\ ~InLock(t)
    BY <1>2 DEF TypeInv, ThreadInv, InLock, Locked, Mutating
  <2>2. pc'[t] = l /\ req'[t] = r
    BY <1>2 DEF TypeInv, ThreadsOK
  <2>3. ~InLock(t)'
    BY <1>2, <2>2 DEF InLock, Locked, Mutating, Reads
  <2>4. ASSUME NEW u \in Threads, u # t PROVE (InLock(u)' <=> InLock(u)) /\ req'[u] = req[u]
    BY <1>2, <2>4 DEF TypeInv, ThreadsOK, InLock, Reads
  <2> QED BY <1>2, <2>1, <2>3, <2>4, Undefined DEF LockInv
<1>3. ASSUME NEW t \in Threads, Refuse(t) \/ EnterMutation(t) PROVE LockInv'
  <2>1. req' = [req EXCEPT ![t] = req[t]] /\ req[t] \in Requests \cup {None}
    BY <1>3 DEF TypeInv, ThreadsOK, Refuse, EnterMutation, Elsewhere
  <2> QED BY <1>2, <1>3, <2>1 DEF Refuse, EnterMutation, Goto, Unlocked
<1>4. ASSUME NEW t \in Threads, NEW r \in Offered, Begin(t, r) PROVE LockInv'
  <2>1. r \in Requests /\ r.op \in Handlers
    BY BoundsAssumption DEF Requests
  <2>2. pc[t] = "idle" /\ UNCHANGED <<locks, arc, owner>> /\ req' = [req EXCEPT ![t] = r]
    BY <1>4 DEF Begin, Unlocked
  <2> QED BY <1>2, <1>4, <2>1, <2>2, BeginCases DEF Goto, Handlers, Writes
<1>5. ASSUME CommitBegin \/ SweepBegin \/ CommitEnd \/ (\E p \in Paths : CommitPath(p) \/ Foreign(p)) \/ UNCHANGED vars
      PROVE  LockInv'
  <2>1. UNCHANGED <<pc, req, arc, owner, locks>>
    BY <1>5 DEF CommitBegin, SweepBegin, CommitEnd, CommitPath, Foreign, Quiet, Unlocked, vars
  <2> QED BY <2>1 DEF LockInv, InLock, Reads
<1>6. ASSUME NEW t \in Threads, Step(t) PROVE LockInv'
  BY <1>1, <1>3, <1>6, LockStep, AcquireStep, RespondStep DEF Step, Inside
<1> QED BY <1>4, <1>5, <1>6 DEF Next

\* path_lock and its sweep never give two requests for one path different locks:
\* at most one is between its checks and its answer.
THEOREM LocksExclude == Spec => []LockExclusive
<1>1. TypeInv /\ LockInv => LockExclusive
  <2> SUFFICES ASSUME TypeInv, LockInv, NEW t \in Threads, NEW u \in Threads,
                      t # u, InLock(t), InLock(u), req[t].path = req[u].path
               PROVE  FALSE
    BY DEF LockExclusive
  <2>1. arc[t] # None /\ arc[u] # None /\ arc[t] \in LockIds /\ arc[u] \in LockIds
    BY DEF TypeInv, ThreadInv, ThreadsOK
  <2> QED BY <2>1 DEF LockInv
<1>2. Spec => [](TypeInv /\ LockInv)
  BY InitType, NextType, InitLock, NextLock, PTL DEF Spec
<1> QED BY <1>1, <1>2, PTL

-----------------------------------------------------------------------------
(* The cache of hashes.                                                    *)

\* Every recorded path waits in the queue for its eviction.
CacheInv ==
    /\ Len(order) <= Capacity
    /\ \A p \in Paths : entries[p] # None => \E i \in 1..Len(order) : order[i] = p

\* The eviction of one path makes room for the recorded one.
LEMMA RecordStep ==
    ASSUME StoreOK, CacheInv, NEW p \in Paths, NEW s, NEW h, record(p, s, h)
    PROVE  CacheInv'
<1> DEFINE queue == IF entries[p] = None THEN Append(order, p) ELSE order
           full == Len(queue) > Capacity
<1>1. /\ queue \in Seq(Paths) /\ Len(queue) \in Nat /\ Len(queue) <= Capacity + 1
  BY BoundsAssumption DEF StoreOK, CacheInv
<1>2. \A q \in Paths : q = p \/ entries[q] # None => \E i \in 1..Len(queue) : queue[i] = q
  <2>1. CASE entries[p] = None
    <3>1. Len(queue) = Len(order) + 1 /\ queue[Len(order) + 1] = p
          /\ \A i \in 1..Len(order) : queue[i] = order[i]
      BY <2>1 DEF StoreOK
    <3>2. Len(order) \in Nat
      BY DEF StoreOK
    <3> HIDE DEF queue
    <3> QED BY <3>1, <3>2 DEF CacheInv
  <2>2. CASE entries[p] # None
    BY <2>2 DEF CacheInv
  <2> QED BY <2>1, <2>2
<1>3. /\ order' = IF full THEN Tail(queue) ELSE queue
      /\ \A q \in Paths : entries'[q] # None =>
            (q = p \/ entries[q] # None) /\ ~(full /\ q = Head(queue))
  BY DEF record
<1> HIDE DEF queue
<1>4. CASE full
  <2>1. /\ queue # <<>> /\ Len(Tail(queue)) = Len(queue) - 1
        /\ \A i \in 1..Len(Tail(queue)) : Tail(queue)[i] = queue[i + 1]
    BY <1>1, <1>4, BoundsAssumption
  <2>2. Head(queue) = queue[1]
    BY <1>1
  <2>3. ASSUME NEW q \in Paths, entries'[q] # None
        PROVE  \E i \in 1..Len(order') : order'[i] = q
    <3>1. PICK i \in 1..Len(queue) : queue[i] = q
      BY <1>2, <1>3, <2>3
    <3>2. i # 1
      BY <1>3, <1>4, <2>2, <2>3, <3>1
    <3>3. i - 1 \in 1..Len(Tail(queue)) /\ Tail(queue)[i - 1] = queue[i]
      BY <1>1, <2>1, <3>1, <3>2
    <3> QED BY <1>3, <1>4, <3>1, <3>3
  <2> QED BY <1>1, <1>3, <1>4, <2>1, <2>3, BoundsAssumption DEF CacheInv
<1>5. CASE ~full
  BY <1>1, <1>2, <1>3, <1>5, BoundsAssumption DEF CacheInv
<1> QED BY <1>4, <1>5

LEMMA NextCache == TypeInv /\ CacheInv /\ [Next]_vars => CacheInv'
<1> SUFFICES ASSUME TypeInv, CacheInv, [Next]_vars PROVE CacheInv'
  OBVIOUS
<1>1. ASSUME NEW t \in Threads, Record(t) \/ Note(t) PROVE CacheInv'
  <2>1. pc[t] # "idle"
    BY <1>1 DEF Record, Note
  <2>2. req[t].path \in Paths
    BY <2>1, ThreadFacts
  <2> QED BY <1>1, <2>2, RecordStep DEF TypeInv, Record, Note
<1>2. ASSUME NEW t \in Threads, Forget(t) PROVE CacheInv'
  BY <1>2 DEF TypeInv, StoreOK, CacheInv, Forget, forget
<1>3. ASSUME UNCHANGED <<entries, order>> PROVE CacheInv'
  BY <1>3 DEF CacheInv
<1>4. ASSUME NEW t \in Threads, Step(t), ~(Record(t) \/ Note(t) \/ Forget(t))
      PROVE  UNCHANGED <<entries, order>>
  BY <1>4 DEF Step, Refuse, EnterMutation, path_lock, Acquire, Check, HashFor, Stat, Read, Lookup,
     Write, Restat, Remove, Respond, Uncached
<1>5. ASSUME NEW t \in Threads, Step(t) PROVE CacheInv'
  BY <1>1, <1>2, <1>3, <1>4, <1>5
<1>6. ASSUME NEW t \in Threads, NEW r \in Offered, Begin(t, r) PROVE CacheInv'
  BY <1>3, <1>6 DEF Begin, Uncached
<1>7. ASSUME CommitBegin \/ SweepBegin \/ CommitEnd \/ (\E p \in Paths : CommitPath(p) \/ Foreign(p)) \/ UNCHANGED vars
      PROVE  CacheInv'
  BY <1>3, <1>7 DEF CommitBegin, SweepBegin, CommitEnd, CommitPath, Foreign, Quiet, Uncached, vars
<1> QED BY <1>5, <1>6, <1>7 DEF Next

LEMMA CacheInvBounds == TypeInv /\ CacheInv => CacheBounded
<1> SUFFICES ASSUME TypeInv, CacheInv PROVE CacheBounded
  OBVIOUS
<1> DEFINE n == Len(order)
           Queued == {order[i] : i \in 1..n}
           Cached == {p \in Paths : entries[p] # None}
           f == [i \in 1..n |-> order[i]]
<1>1. n \in Nat /\ n <= Capacity
  BY DEF TypeInv, StoreOK, CacheInv
<1>2. f \in Surjection(1..n, Queued)
  BY DEF Surjection
<1>3. IsFiniteSet(1..n) /\ Cardinality(1..n) = n
  BY <1>1, FS_Interval
<1>4. IsFiniteSet(Queued) /\ Cardinality(Queued) <= n
  BY <1>2, <1>3, FS_Surjection
<1>5. Cached \in SUBSET Queued
  BY DEF CacheInv
<1>6. Cardinality(Cached) <= Cardinality(Queued) /\ IsFiniteSet(Cached)
  BY <1>4, <1>5, FS_Subset
<1>7. Cardinality(Cached) \in Nat /\ Cardinality(Queued) \in Nat
  BY <1>4, <1>6, FS_CardinalityType
<1> HIDE DEF Cached, Queued, n
<1>8. Cardinality(Cached) <= Capacity
  BY <1>1, <1>4, <1>6, <1>7, BoundsAssumption
<1> QED BY <1>1, <1>8 DEF CacheBounded, Cached, n

\* HashCache holds at most HASH_CACHE_CAPACITY hashes, whatever paths forget
\* has left in its eviction queue.
THEOREM CacheIsBounded == Spec => []CacheBounded
<1>1. Init => CacheInv
  BY BoundsAssumption DEF Init, CacheInv
<1>2. Spec => [](TypeInv /\ CacheInv)
  BY <1>1, InitType, NextType, NextCache, PTL DEF Spec
<1> QED BY <1>2, CacheInvBounds, PTL

-----------------------------------------------------------------------------
(* Commits.                                                                *)

\* The commit of a batch excludes the handlers that change files.
CommitInv ==
    /\ commit.gated => \A t \in Threads : ~InMutation(t)
    /\ ~commit.gated => commit.read = {}

LEMMA InitCommit == Init => CommitInv /\ CommitIsConsistent
BY DEF Init, CommitInv, CommitIsConsistent, NoCommit

\* The handlers write under the lock that a commit excludes.
LEMMA WritesInMutation ==
    ASSUME TypeInv, NEW t \in Threads, Write(t) \/ Remove(t)
    PROVE  InMutation(t)
<1>1. pc[t] \in {"write", "remove"} /\ pc[t] # "idle"
  BY DEF Write, Remove
<1>2. req[t].op \in Writes
  BY <1>1, ThreadFacts DEF Place, Handlers, Writes
<1> QED BY <1>1, <1>2 DEF InMutation, Reads, Mutating

LEMMA NextCommit ==
    ASSUME TypeInv, TypeInv', CommitInv, CommitIsConsistent, [Next]_vars, ~AnyWindow
    PROVE  CommitInv' /\ CommitIsConsistent'
<1>1. ASSUME UNCHANGED commit, \A u \in Threads : InMutation(u)' => InMutation(u),
             disk' # disk => ~commit.gated
      PROVE  CommitInv' /\ CommitIsConsistent'
  BY <1>1 DEF CommitInv, CommitIsConsistent
<1>2. ASSUME NEW t \in Threads, Inside(t) PROVE CommitInv' /\ CommitIsConsistent'
  <2>1. ~(Write(t) \/ Remove(t)) => UNCHANGED disk
    BY <1>2 DEF Inside, Check, HashFor, Stat, Read, Lookup, Record, Restat, Note, Forget
  <2>2. Write(t) \/ Remove(t) => ~commit.gated
    BY WritesInMutation DEF CommitInv
  <2> QED BY <1>1, <1>2, <2>1, <2>2, InsideGoes, InsideKeeps
<1>3. ASSUME NEW t \in Threads, NEW l \in Labels, pc' = [pc EXCEPT ![t] = l],
             NEW r \in Requests \cup {None}, req' = [req EXCEPT ![t] = r], UNCHANGED <<disk, commit>>,
             l \in {"idle", "rejected", "parse"}
             \/ (l \in {"stat", "hash"} /\ r.op \notin Writes)
             \/ (l \in {"lock", "acquire", "stat", "check"} /\ ~commit.gated)
      PROVE  CommitInv' /\ CommitIsConsistent'
  <2>1. pc'[t] = l /\ req'[t] = r
    BY <1>3 DEF TypeInv, ThreadsOK
  <2>2. InMutation(t)' => ~commit.gated
    BY <1>3, <2>1 DEF InMutation, Reads, Mutating
  <2>3. ASSUME NEW u \in Threads, u # t PROVE InMutation(u)' => InMutation(u)
    BY <1>3, <2>3 DEF TypeInv, ThreadsOK, InMutation, Reads
  <2> QED BY <1>3, <2>2, <2>3 DEF CommitInv, CommitIsConsistent
<1>4. ASSUME NEW t \in Threads, Refuse(t) \/ EnterMutation(t) \/ path_lock(t) \/ Acquire(t)
      PROVE  CommitInv' /\ CommitIsConsistent'
  <2>1. /\ req' = [req EXCEPT ![t] = req[t]] /\ req[t] \in Requests \cup {None}
        /\ UNCHANGED <<disk, commit>>
    BY <1>4 DEF TypeInv, ThreadsOK, Refuse, EnterMutation, path_lock, Acquire, Elsewhere
  <2>2. path_lock(t) \/ Acquire(t) => ~commit.gated
    <3>1. ASSUME path_lock(t) \/ Acquire(t) PROVE InMutation(t)
      <4>1. pc[t] \in {"lock", "acquire"} /\ pc[t] # "idle"
        BY <3>1 DEF path_lock, Acquire
      <4>2. req[t].op \in Writes
        BY <4>1, ThreadFacts DEF Place, Handlers, Writes
      <4> QED BY <4>1, <4>2 DEF InMutation, Reads, Mutating
    <3> QED BY <3>1 DEF CommitInv
  <2>3. PICK l \in {"rejected", "lock", "acquire", "stat", "check"} :
           pc' = [pc EXCEPT ![t] = l] /\ (l # "rejected" => ~commit.gated)
    BY <1>4, <2>2 DEF Refuse, EnterMutation, path_lock, Acquire, Goto
  <2> QED BY <1>3, <2>1, <2>3 DEF Labels
<1>5. ASSUME NEW t \in Threads, Respond(t) PROVE CommitInv' /\ CommitIsConsistent'
  BY <1>3, <1>5 DEF Respond, Labels
<1>6. ASSUME NEW t \in Threads, NEW r \in Offered, Begin(t, r) PROVE CommitInv' /\ CommitIsConsistent'
  <2>1. r \in Requests /\ r.op \in Handlers
    BY BoundsAssumption DEF Requests
  <2>2. UNCHANGED <<disk, commit>> /\ req' = [req EXCEPT ![t] = r]
    BY <1>6 DEF Begin
  <2>3. PICK l \in {"stat", "hash", "parse"} : Goto(t, l) /\ (l # "parse" => r.op \notin Writes)
    BY <1>6, <2>1, BeginCases DEF Handlers, Writes
  <2> QED BY <1>3, <2>1, <2>2, <2>3 DEF Goto, Labels
<1>7. ASSUME CommitBegin \/ SweepBegin \/ CommitEnd PROVE CommitInv' /\ CommitIsConsistent'
  <2>1. UNCHANGED <<pc, req>> /\ commit'.read = {} /\ (commit'.gated => \A t \in Threads : ~InMutation(t))
    <3>1. ASSUME CommitBegin PROVE commit'.read = {} /\ \A t \in Threads : ~InMutation(t)
      BY <3>1 DEF CommitBegin, NoCommit
    <3>2. ASSUME SweepBegin \/ CommitEnd PROVE commit'.read = {} /\ ~commit'.gated
      BY <3>2 DEF SweepBegin, CommitEnd, NoCommit
    <3> QED BY <1>7, <3>1, <3>2 DEF CommitBegin, SweepBegin, CommitEnd, Quiet
  <2> QED BY <2>1 DEF CommitInv, CommitIsConsistent, InMutation, Reads
<1>8. ASSUME NEW p \in Paths, CommitPath(p) PROVE CommitInv' /\ CommitIsConsistent'
  <2>1. /\ commit.gated /\ commit'.gated /\ commit'.read = commit.read \cup {p} /\ UNCHANGED <<pc, req, disk>>
        /\ commit'.tree = [commit.tree EXCEPT ![p] = disk[p]]
    BY <1>8 DEF CommitPath, Quiet, TypeInv, StoreOK
  <2>2. commit.tree \in [Paths -> Files \cup {None}] /\ commit.read \subseteq Paths
    BY DEF TypeInv, StoreOK
  <2> QED BY <2>1, <2>2 DEF CommitInv, CommitIsConsistent, InMutation, Reads
<1>9. ASSUME NEW p \in Paths, Foreign(p) PROVE CommitInv' /\ CommitIsConsistent'
  <2>1. ~commit.gated /\ UNCHANGED <<pc, req, commit>>
    BY <1>9 DEF Foreign, Exposed
  <2> QED BY <1>1, <2>1 DEF InMutation, Reads
<1>10. CASE UNCHANGED vars
  BY <1>1, <1>10 DEF vars, InMutation, Reads
<1>11. ASSUME NEW t \in Threads, Step(t) PROVE CommitInv' /\ CommitIsConsistent'
  BY <1>2, <1>4, <1>5, <1>11 DEF Step, Inside
<1> QED BY <1>6, <1>7, <1>8, <1>9, <1>10, <1>11 DEF Next

\* The commit of a batch reads the directory as it was at one moment, because
\* handlers write under the mutation lock it holds: all that could break it is
\* another program that writes while it runs.  Nothing is said of the commits of
\* the sweep and of snapshot_now, which hold commit_lock only.
THEOREM CommitsAreConsistent == ASSUME ~AnyWindow PROVE Spec => []CommitIsConsistent
<1>1. TypeInv /\ TypeInv' /\ CommitInv /\ CommitIsConsistent /\ [Next]_vars
        => CommitInv' /\ CommitIsConsistent'
  BY NextCommit
<1> QED BY <1>1, InitType, NextType, InitCommit, PTL DEF Spec

-----------------------------------------------------------------------------
(* The recorded hashes.                                                    *)

\* What the locals n of a thread that goes on at l know of the file f.
Vouch(f, l, n) ==
    /\ l = "record" \/ (l = "lookup" /\ n.why = "get") =>
          (f # None /\ f.stamp = n.stamp => f.content = n.data)
    /\ l = "note" => (f # None /\ f.stamp = n.stamp => f.content = n.out)
    /\ l = "restat" => f # None /\ f.content = n.out

StampInv ==
    /\ \A p \in Paths : disk[p] # None => disk[p].stamp <= clock
    /\ \A p \in Paths : entries[p] # None => entries[p].stamp <= clock
    /\ \A t \in Threads : reg[t].stamp # None => reg[t].stamp <= clock

VouchInv == \A t \in Threads : pc[t] # "idle" => Vouch(disk[req[t].path], pc[t], reg[t])

HashInv == StampInv /\ VouchInv /\ HashIsCurrent

LEMMA InitHash == Init => HashInv
<1> SUFFICES ASSUME Init PROVE HashInv
  OBVIOUS
<1>1. \A p \in Paths : disk[p] # None => disk[p].stamp = 0
  BY DEF Init
<1> QED BY <1>1 DEF Init, HashInv, StampInv, VouchInv, HashIsCurrent, Fresh

\* Where AfterHash and reconcile leave the thread.
LEMMA AfterHashLeaves ==
    ASSUME TypeInv, NEW t \in Threads, NEW h, AfterHash(t, h), pc[t] \in Looking
    PROVE  /\ \E l \in {"write", "hash", "respond", "remove"} : pc' = [pc EXCEPT ![t] = l]
           /\ \E n : n.stamp = None /\ reg' = [reg EXCEPT ![t] = n]
           /\ \E a : ans' = [ans EXCEPT ![t] = a]
<1>1. reg[t].why = "match" => req[t].op \in {"put", "delete"}
  BY ThreadFacts DEF Place, Looking, Handlers, Writes
<1>2. /\ Fresh.stamp = None /\ \A d : [Fresh EXCEPT !.out = d].stamp = None
      /\ \A w : [Fresh EXCEPT !.why = w].stamp = None
  BY DEF Fresh
<1>3. \E l \in {"write", "hash", "respond", "remove"} : pc' = [pc EXCEPT ![t] = l]
  BY AfterHashGoes DEF Goto
<1>4. \/ reg' = [reg EXCEPT ![t] = Fresh]
      \/ reg' = [reg EXCEPT ![t] = [Fresh EXCEPT !.out = req[t].body]]
      \/ reg' = [reg EXCEPT ![t] = [Fresh EXCEPT !.why = "deleted"]]
  BY <1>1, AfterHashCases
<1>5. \E a : ans' = [ans EXCEPT ![t] = a]
  BY <1>1, AfterHashCases, KeepsAns DEF Decide
<1> QED BY <1>2, <1>3, <1>4, <1>5

LEMMA ReconcileLeaves ==
    ASSUME TypeInv, NEW t \in Threads, NEW d, reconcile(t, d)
    PROVE  /\ \E l, n :
                 /\ l \in {"write", "stat", "respond", "note"}
                 /\ pc' = [pc EXCEPT ![t] = l] /\ reg' = [reg EXCEPT ![t] = n]
                 /\ n.stamp \in {None, reg[t].stamp}
                 /\ l = "note" => n.out = d /\ d = req[t].body
           /\ \E a : ans' = [ans EXCEPT ![t] = a]
<1> DEFINE Leaves(l, n) ==
              /\ l \in {"write", "stat", "respond", "note"}
              /\ pc' = [pc EXCEPT ![t] = l] /\ reg' = [reg EXCEPT ![t] = n]
              /\ n.stamp \in {None, reg[t].stamp}
              /\ l = "note" => n.out = d /\ d = req[t].body
<1>1. \E a : ans' = [ans EXCEPT ![t] = a]
  BY KeepsAns DEF reconcile, Decide
<1>2. /\ Fresh.stamp = None /\ \A x : [Fresh EXCEPT !.out = x].stamp = None
      /\ \A w, k : [Fresh EXCEPT !.why = w, !.tries = k].stamp = None
  BY DEF Fresh
<1>3. reg[t] \in Locals
  BY DEF TypeInv, ThreadsOK
<1>4. \A m : [reg[t] EXCEPT !.why = "again", !.data = d, !.out = m].stamp = reg[t].stamp
  BY <1>3 DEF Locals
<1>5. [reg[t] EXCEPT !.out = d].stamp = reg[t].stamp /\ [reg[t] EXCEPT !.out = d].out = d
  BY <1>3 DEF Locals
<1>6. \E l, n : Leaves(l, n)
  <2> DEFINE r == req[t]
             merged == Merge(r.base, r.body, d)
             n1 == [Fresh EXCEPT !.out = reg[t].out]
             n2 == [Fresh EXCEPT !.why = "current", !.tries = reg[t].tries + 1]
             n3 == [Fresh EXCEPT !.out = r.body]
             n4 == [reg[t] EXCEPT !.out = d]
             n5 == [reg[t] EXCEPT !.why = "again", !.data = d, !.out = merged]
  <2>1. \/ pc' = [pc EXCEPT ![t] = "write"] /\ reg' = [reg EXCEPT ![t] = n1]
        \/ pc' = [pc EXCEPT ![t] = "stat"] /\ reg' = [reg EXCEPT ![t] = n2]
        \/ pc' = [pc EXCEPT ![t] = "respond"] /\ reg' = [reg EXCEPT ![t] = Fresh]
        \/ pc' = [pc EXCEPT ![t] = "write"] /\ reg' = [reg EXCEPT ![t] = n3]
        \/ d = r.body /\ pc' = [pc EXCEPT ![t] = "note"] /\ reg' = [reg EXCEPT ![t] = n4]
        \/ pc' = [pc EXCEPT ![t] = "stat"] /\ reg' = [reg EXCEPT ![t] = n5]
    BY DEF reconcile, Goto
  <2>2. n1.stamp = None /\ n2.stamp = None /\ n3.stamp = None /\ n4.stamp = reg[t].stamp
        /\ n4.out = d /\ n5.stamp = reg[t].stamp
    BY <1>2, <1>4, <1>5
  <2> HIDE DEF n1, n2, n3, n4, n5
  <2> QED BY <1>2, <2>1, <2>2
<1> QED BY <1>1, <1>6

\* A step that leaves the files and the cache alone.
LEMMA LocalHash ==
    ASSUME TypeInv, TypeInv', HashInv, NEW t \in Threads, UNCHANGED <<disk, clock, entries>>,
           Alone(t), reg'[t].stamp # None => reg'[t].stamp <= clock,
           pc'[t] # "idle" => Vouch(disk[req'[t].path], pc'[t], reg'[t])
    PROVE  HashInv'
<1>1. ASSUME NEW u \in Threads, u # t
      PROVE  pc'[u] = pc[u] /\ req'[u] = req[u] /\ reg'[u] = reg[u]
  BY <1>1 DEF Alone
<1>2. StampInv'
  BY <1>1 DEF HashInv, StampInv
<1>3. VouchInv'
  <2> SUFFICES ASSUME NEW u \in Threads, pc'[u] # "idle"
               PROVE  Vouch(disk'[req'[u].path], pc'[u], reg'[u])
    BY DEF VouchInv, Vouch
  <2>1. CASE u = t
    BY <2>1
  <2>2. CASE u # t
    BY <1>1, <2>2 DEF HashInv, VouchInv
  <2> QED BY <2>1, <2>2
<1>4. HashIsCurrent'
  BY DEF HashInv, HashIsCurrent
<1> QED BY <1>2, <1>3, <1>4 DEF HashInv

\* The ends of a step of t.
LEMMA MovesAlone ==
    ASSUME TypeInv, NEW t \in Threads, NEW l, NEW n, NEW a, NEW k, Moves(t, l, n, a, k), UNCHANGED req
    PROVE  Alone(t) /\ pc'[t] = l /\ reg'[t] = n /\ req'[t] = req[t]
BY DEF TypeInv, ThreadsOK, Moves, Alone

LEMMA QuietHash ==
    ASSUME TypeInv, TypeInv', HashInv, NEW t \in Threads,
           Refuse(t) \/ EnterMutation(t) \/ path_lock(t) \/ Acquire(t) \/ Lookup(t) \/ Restat(t)
    PROVE  HashInv'
<1>1. UNCHANGED <<disk, clock, entries, req>> /\ pc[t] # "idle" /\ reg[t] \in Locals
  BY DEF Refuse, EnterMutation, path_lock, Acquire, Lookup, Restat, Uncached, Elsewhere,
     TypeInv, ThreadsOK
<1>2. reg[t].stamp # None => reg[t].stamp <= clock
  BY DEF HashInv, StampInv
<1>3. PICK k : arc' = [arc EXCEPT ![t] = k]
  BY KeepsArc DEF Refuse, EnterMutation, path_lock, Acquire, Lookup, Restat, Unlocked
<1>4. CASE Refuse(t) \/ EnterMutation(t) \/ path_lock(t)
  <2>1. PICK l \in {"rejected", "lock", "acquire"} : pc' = [pc EXCEPT ![t] = l]
    BY <1>4 DEF Refuse, EnterMutation, path_lock, Goto
  <2>2. PICK a : ans' = [ans EXCEPT ![t] = a]
    BY <1>4, KeepsAns DEF Refuse, EnterMutation, path_lock, Decide
  <2>3. reg' = [reg EXCEPT ![t] = reg[t]]
    BY <1>4, KeepsReg DEF Refuse, EnterMutation, path_lock
  <2>4. Alone(t) /\ pc'[t] = l /\ reg'[t] = reg[t]
    BY <1>1, <1>3, <2>1, <2>2, <2>3, MovesAlone DEF Moves
  <2>5. Vouch(disk[req'[t].path], pc'[t], reg'[t])
    BY <2>4 DEF Vouch
  <2> QED BY <1>1, <1>2, <2>4, <2>5, LocalHash
<1>5. CASE Acquire(t)
  <2>1. PICK l \in {"stat", "check"} : pc' = [pc EXCEPT ![t] = l]
    BY <1>5 DEF Acquire, Goto
  <2> DEFINE n == [reg[t] EXCEPT !.why = IF req[t].op = "reconcile" THEN "current" ELSE "none"]
  <2>2. reg' = [reg EXCEPT ![t] = n] /\ ans' = [ans EXCEPT ![t] = ans[t]]
    BY <1>5, KeepsAns DEF Acquire
  <2>3. n.stamp = reg[t].stamp
    BY <1>1 DEF Locals
  <2> HIDE DEF n
  <2>4. Alone(t) /\ pc'[t] = l /\ reg'[t] = n
    BY <1>1, <1>3, <2>1, <2>2, MovesAlone DEF Moves
  <2>5. Vouch(disk[req'[t].path], pc'[t], reg'[t])
    BY <2>4 DEF Vouch
  <2> QED BY <1>1, <1>2, <2>3, <2>4, <2>5, LocalHash
<1>6. CASE Lookup(t)
  <2>1. pc[t] = "lookup" /\ ans' = [ans EXCEPT ![t] = ans[t]]
    BY <1>6, KeepsAns DEF Lookup
  <2>2. CASE pc' = [pc EXCEPT ![t] = "respond"] /\ reg' = [reg EXCEPT ![t] = Fresh]
    <3>1. Alone(t) /\ pc'[t] = "respond" /\ reg'[t] = Fresh
      BY <1>1, <1>3, <2>1, <2>2, MovesAlone DEF Moves
    <3>2. Vouch(disk[req'[t].path], pc'[t], reg'[t]) /\ reg'[t].stamp = None
      BY <3>1 DEF Vouch, Fresh
    <3> QED BY <1>1, <3>1, <3>2, LocalHash
  <2>3. CASE pc' = [pc EXCEPT ![t] = "record"] /\ UNCHANGED reg /\ reg[t].why # "head"
    <3>1. Alone(t) /\ pc'[t] = "record" /\ reg'[t] = reg[t]
      BY <1>1, <1>3, <2>1, <2>3, KeepsReg, MovesAlone DEF Moves
    <3>2. reg[t].why = "get"
      BY <1>1, <2>1, <2>3, ThreadFacts DEF Place, Looking, Handlers, Writes
    <3>3. Vouch(disk[req'[t].path], pc'[t], reg'[t])
      BY <1>1, <2>1, <3>1, <3>2 DEF Vouch, HashInv, VouchInv
    <3> QED BY <1>1, <1>2, <3>1, <3>3, LocalHash
  <2> QED BY <1>6, <2>2, <2>3 DEF Lookup, Goto
<1>7. CASE Restat(t)
  <2> DEFINE f == disk[req[t].path]
             n == [reg[t] EXCEPT !.stamp = f.stamp]
  <2>1. pc[t] = "restat" /\ f # None /\ f.content = reg[t].out /\ f \in Files
    BY <1>1, <1>7, ThreadFacts DEF Restat, HashInv, VouchInv, Vouch
  <2>2. /\ reg' = [reg EXCEPT ![t] = n] /\ pc' = [pc EXCEPT ![t] = "note"]
        /\ ans' = [ans EXCEPT ![t] = ans[t]]
    BY <1>7, <2>1, KeepsAns DEF Restat, Goto
  <2>3. n.stamp = f.stamp /\ n.out = reg[t].out
    BY <1>1 DEF Locals
  <2>4. f.stamp <= clock
    BY <1>1, <2>1, ThreadFacts DEF HashInv, StampInv
  <2> HIDE DEF n
  <2>5. Alone(t) /\ pc'[t] = "note" /\ reg'[t] = n
    BY <1>1, <1>3, <2>2, MovesAlone DEF Moves
  <2>6. Vouch(disk[req'[t].path], pc'[t], reg'[t])
    BY <1>1, <2>1, <2>3, <2>5 DEF Vouch
  <2> QED BY <1>1, <2>3, <2>4, <2>5, <2>6, LocalHash
<1> QED BY <1>4, <1>5, <1>6, <1>7

LEMMA AfterHashHash ==
    ASSUME TypeInv, NEW t \in Threads, NEW h, AfterHash(t, h), pc[t] \in Looking,
           UNCHANGED <<req, arc>>
    PROVE  Alone(t) /\ Vouch(disk[req'[t].path], pc'[t], reg'[t]) /\ reg'[t].stamp = None
           /\ pc'[t] \notin {"record", "lookup", "note", "restat"}
<1>1. PICK l \in {"write", "hash", "respond", "remove"} : pc' = [pc EXCEPT ![t] = l]
  BY AfterHashLeaves
<1>2. PICK n : n.stamp = None /\ reg' = [reg EXCEPT ![t] = n]
  BY AfterHashLeaves
<1>3. PICK a : ans' = [ans EXCEPT ![t] = a]
  BY AfterHashLeaves
<1>4. Alone(t) /\ pc'[t] = l /\ reg'[t] = n
  BY <1>1, <1>2, <1>3, MovesAlone, KeepsArc DEF Moves
<1> QED BY <1>2, <1>4 DEF Vouch

LEMMA ReconcileHash ==
    ASSUME TypeInv, HashInv, NEW t \in Threads, NEW d, reconcile(t, d), pc[t] # "idle",
           UNCHANGED <<req, arc>>,
           LET f == disk[req[t].path] IN d = IF f = None THEN None ELSE f.content
    PROVE  Alone(t) /\ Vouch(disk[req'[t].path], pc'[t], reg'[t])
           /\ (reg'[t].stamp # None => reg'[t].stamp <= clock)
<1>1. PICK l, n :
         /\ l \in {"write", "stat", "respond", "note"}
         /\ pc' = [pc EXCEPT ![t] = l] /\ reg' = [reg EXCEPT ![t] = n]
         /\ n.stamp \in {None, reg[t].stamp}
         /\ l = "note" => n.out = d /\ d = req[t].body
  BY ReconcileLeaves
<1>2. PICK a : ans' = [ans EXCEPT ![t] = a]
  BY ReconcileLeaves
<1>3. Alone(t) /\ pc'[t] = l /\ reg'[t] = n
  <2>1. Moves(t, l, n, a, arc[t]) /\ UNCHANGED req
    BY <1>1, <1>2, KeepsArc, Zenon DEF Moves
  <2> QED BY <2>1, MovesAlone, Zenon
<1>4. req[t].body \in Contents
  BY ThreadFacts
<1>5. Vouch(disk[req'[t].path], pc'[t], reg'[t])
  BY <1>1, <1>3, <1>4, Undefined DEF Vouch
<1> QED BY <1>1, <1>3, <1>5 DEF HashInv, StampInv

LEMMA ReadingHash ==
    ASSUME TypeInv, TypeInv', HashInv, NEW t \in Threads,
           Check(t) \/ HashFor(t) \/ Stat(t) \/ Read(t)
    PROVE  HashInv'
<1> DEFINE f == disk[req[t].path]
<1>1. /\ UNCHANGED <<disk, clock, entries, req, arc>> /\ pc[t] # "idle" /\ reg[t] \in Locals
      /\ pc[t] = "check" \/ pc[t] \in Looking
  BY DEF Check, HashFor, Stat, Read, Unlocked, Uncached, Elsewhere, TypeInv, ThreadsOK, Looking
<1>2. /\ reg[t].stamp # None => reg[t].stamp <= clock
      /\ f # None => f.stamp <= clock
  BY <1>1, ThreadFacts DEF HashInv, StampInv
<1>3. ASSUME NEW h, AfterHash(t, h), pc[t] \in Looking PROVE HashInv'
  BY <1>1, <1>3, AfterHashHash, LocalHash
<1>4. ASSUME NEW d, reconcile(t, d), d = IF f = None THEN None ELSE f.content PROVE HashInv'
  BY <1>1, <1>4, ReconcileHash, LocalHash
<1>5. ASSUME NEW l, NEW n, NEW a, pc' = [pc EXCEPT ![t] = l], reg' = [reg EXCEPT ![t] = n],
             ans' = [ans EXCEPT ![t] = a], n.stamp # None => n.stamp <= clock, Vouch(f, l, n)
      PROVE  HashInv'
  <2>1. Alone(t) /\ pc'[t] = l /\ reg'[t] = n
    BY <1>1, <1>5, MovesAlone, KeepsArc DEF Moves
  <2> QED BY <1>1, <1>5, <2>1, LocalHash
<1>6. CASE Check(t)
  <2>1. PICK l \in {"respond", "hash", "write"} : pc' = [pc EXCEPT ![t] = l]
    BY <1>6, CheckCases DEF Goto
  <2>2. PICK a : ans' = [ans EXCEPT ![t] = a]
    BY <1>6, CheckCases, KeepsAns DEF Decide
  <2>3. /\ \A d : [Fresh EXCEPT !.out = d].stamp = None
        /\ \A w : [Fresh EXCEPT !.why = w].stamp = None
    BY DEF Fresh
  <2>4. PICK n : reg' = [reg EXCEPT ![t] = n] /\ n.stamp \in {None, reg[t].stamp}
    <3>1. \/ UNCHANGED reg
          \/ \E w : reg' = [reg EXCEPT ![t] = [Fresh EXCEPT !.why = w]]
          \/ \E d : reg' = [reg EXCEPT ![t] = [Fresh EXCEPT !.out = d]]
      BY <1>6, CheckCases, Zenon
    <3> QED BY <2>3, <3>1, KeepsReg, Zenon
  <2>5. Vouch(f, l, n)
    BY DEF Vouch
  <2> QED BY <1>2, <1>5, <2>1, <2>2, <2>4, <2>5
<1>7. CASE HashFor(t)
  <2>1. CASE \E h : AfterHash(t, h)
    <3>1. pc[t] \in Looking
      BY <1>7 DEF HashFor, Looking
    <3> QED BY <1>3, <2>1, <3>1
  <2>2. CASE Goto(t, "stat") /\ UNCHANGED <<reg, ans>>
    <3>1. Vouch(f, "stat", reg[t])
      BY DEF Vouch
    <3> QED BY <1>2, <1>5, <2>2, <3>1, KeepsReg, KeepsAns DEF Goto
  <2> QED BY <1>7, <2>1, <2>2 DEF HashFor
<1>8. CASE Stat(t)
  <2>1. CASE f # None
    <3> DEFINE n == [reg[t] EXCEPT !.stamp = f.stamp]
               l == IF reg[t].why = "head" THEN "lookup" ELSE "read"
    <3>1. reg' = [reg EXCEPT ![t] = n] /\ pc' = [pc EXCEPT ![t] = l] /\ UNCHANGED ans
      BY <1>8, <2>1 DEF Stat, Goto
    <3>2. n.stamp = f.stamp /\ n.why = reg[t].why
      BY <1>1 DEF Locals
    <3>3. Vouch(f, l, n)
      BY <3>2 DEF Vouch
    <3> QED BY <1>2, <1>5, <2>1, <3>1, <3>2, <3>3, KeepsAns
  <2>2. CASE f = None /\ reg[t].why \in {"current", "again"}
    BY <1>4, <1>8, <2>2 DEF Stat
  <2>3. CASE f = None /\ reg[t].why \notin {"current", "again"}
    <3>1. pc[t] \in Looking
      BY <1>8 DEF Stat, Looking
    <3> QED BY <1>3, <1>8, <2>3, <3>1 DEF Stat
  <2> QED BY <2>1, <2>2, <2>3
<1>9. CASE Read(t)
  <2> DEFINE d == IF f = None THEN None ELSE f.content
  <2>1. CASE reg[t].why \in {"current", "again"}
    BY <1>4, <1>9, <2>1 DEF Read
  <2>2. CASE reg[t].why \notin {"current", "again"} /\ d = None
    <3>1. pc[t] \in Looking
      BY <1>9 DEF Read, Looking
    <3> QED BY <1>3, <1>9, <2>2, <3>1 DEF Read
  <2>3. CASE reg[t].why \notin {"current", "again"} /\ d # None
    <3> DEFINE n == [reg[t] EXCEPT !.data = d]
               l == IF reg[t].why = "get" THEN "lookup" ELSE "record"
    <3>1. reg' = [reg EXCEPT ![t] = n] /\ pc' = [pc EXCEPT ![t] = l] /\ UNCHANGED ans
      BY <1>9, <2>3 DEF Read, Goto
    <3>2. n.stamp = reg[t].stamp /\ n.data = f.content
      BY <1>1, <2>3 DEF Locals
    <3>3. Vouch(f, l, n)
      BY <3>2 DEF Vouch
    <3> QED BY <1>2, <1>5, <3>1, <3>2, <3>3, KeepsAns
  <2> QED BY <2>1, <2>2, <2>3
<1> QED BY <1>6, <1>7, <1>8, <1>9

\* What is recorded is what a stat vouches for.
LEMMA RecordingHash ==
    ASSUME TypeInv, TypeInv', HashInv, NEW t \in Threads, Record(t) \/ Note(t)
    PROVE  HashInv'
<1> DEFINE p == req[t].path
           f == disk[p]
<1>1. /\ UNCHANGED <<disk, clock, req, arc>> /\ pc[t] # "idle" /\ pc[t] \in {"record", "note"}
  BY DEF Record, Note, Unlocked, Elsewhere
<1>2. p \in Paths /\ reg[t].stamp \in Nat /\ reg[t].stamp <= clock
  BY <1>1, ThreadFacts, Undefined DEF Filled, HashInv, StampInv
<1>3. PICK h : record(p, reg[t].stamp, h) /\ (f # None /\ f.stamp = reg[t].stamp => f.content = h)
  <2>1. CASE Record(t)
    BY <1>1, <2>1 DEF Record, HashInv, VouchInv, Vouch
  <2>2. CASE Note(t)
    BY <1>1, <2>2 DEF Note, HashInv, VouchInv, Vouch
  <2> QED BY <2>1, <2>2
<1>4. ASSUME NEW q \in Paths, entries'[q] # None
      PROVE  entries'[q] = entries[q] \/ (q = p /\ entries'[q] = [stamp |-> reg[t].stamp, hash |-> h])
  BY <1>3, <1>4 DEF record
<1>5. Alone(t) /\ reg'[t].stamp = None /\ Vouch(disk[req'[t].path], pc'[t], reg'[t])
  <2>1. CASE Record(t)
    <3>1. pc[t] \in Looking
      BY <2>1 DEF Record, Looking
    <3> QED BY <1>1, <2>1, <3>1, AfterHashHash DEF Record
  <2>2. CASE Note(t)
    <3>1. pc' = [pc EXCEPT ![t] = "respond"] /\ reg' = [reg EXCEPT ![t] = Fresh] /\ UNCHANGED ans
      BY <2>2 DEF Note, Goto
    <3>2. Alone(t) /\ pc'[t] = "respond" /\ reg'[t] = Fresh
      <4>1. Moves(t, "respond", Fresh, ans[t], arc[t]) /\ UNCHANGED req
        BY <1>1, <3>1, KeepsArc, KeepsAns DEF Moves
      <4> QED BY <4>1, MovesAlone
    <3> QED BY <3>2 DEF Vouch, Fresh
  <2> QED BY <2>1, <2>2
<1>6. StampInv'
  BY <1>1, <1>2, <1>4, <1>5 DEF HashInv, StampInv, Alone
<1>7. VouchInv'
  BY <1>1, <1>5 DEF HashInv, VouchInv, Vouch, Alone
<1>8. HashIsCurrent'
  BY <1>1, <1>3, <1>4 DEF HashInv, HashIsCurrent
<1> QED BY <1>6, <1>7, <1>8 DEF HashInv

LEMMA EndingHash ==
    ASSUME TypeInv, TypeInv', HashInv, NEW t \in Threads, Forget(t) \/ Respond(t)
    PROVE  HashInv'
<1>1. CASE Respond(t)
  <2>1. Alone(t) /\ pc'[t] = "idle" /\ reg'[t] = Fresh /\ UNCHANGED <<disk, clock, entries>>
    BY <1>1 DEF Respond, Alone, Uncached, TypeInv, ThreadsOK
  <2> QED BY <2>1, LocalHash DEF Fresh
<1>2. CASE Forget(t)
  <2>1. /\ UNCHANGED <<disk, clock, req, arc, reg, ans>> /\ pc' = [pc EXCEPT ![t] = "respond"]
        /\ \A q \in Paths : entries'[q] # None => entries'[q] = entries[q]
    BY <1>2 DEF Forget, forget, Goto, Unlocked, Elsewhere, TypeInv, StoreOK
  <2>2. VouchInv'
    BY <2>1 DEF HashInv, VouchInv, Vouch, TypeInv, ThreadsOK
  <2> QED BY <2>1, <2>2 DEF HashInv, StampInv, HashIsCurrent
<1> QED BY <1>1, <1>2

\* No thread that has yet to look at what it wrote loses it.
Settled(p, f) ==
    \A u \in Threads :
       /\ pc[u] = "restat" /\ req[u].path = p => pc'[u] # "restat"
       /\ pc'[u] = pc[u] \/ pc'[u] \notin {"record", "lookup", "note"}
       /\ pc'[u] = "restat" /\ pc[u] # "restat" =>
             req[u].path = p /\ f # None /\ f.content = reg[u].out

\* A file changes only when no other thread has written it and not yet
\* looked at it again, and its stamp is then one that nobody has seen.
LEMMA ChangedHash ==
    ASSUME TypeInv, HashInv, NEW p \in Paths, NEW f \in Files \cup {None},
           disk' = [disk EXCEPT ![p] = f], f # None => f.stamp = clock + 1,
           clock' \in {clock, clock + 1}, f # None => clock' = clock + 1, UNCHANGED <<entries, reg, req>>,
           Settled(p, f)
    PROVE  HashInv'
<1>1. clock \in Nat /\ disk \in [Paths -> Files \cup {None}]
      /\ entries \in [Paths -> [stamp : Nat, hash : Contents] \cup {None}] /\ reg \in [Threads -> Locals]
  BY DEF TypeInv, StoreOK, ThreadsOK, Stamps
<1>2. \A q \in Paths : disk'[q] = IF q = p THEN f ELSE disk[q]
  BY <1>1
<1>3. StampInv'
  <2>1. \A q \in Paths : disk'[q] # None => disk'[q].stamp <= clock'
    BY <1>1, <1>2 DEF HashInv, StampInv, Files, Stamps
  <2>2. \A q \in Paths : entries'[q] # None => entries'[q].stamp <= clock'
    <3>1. ASSUME NEW q \in Paths, entries[q] # None PROVE entries[q].stamp \in Nat
      BY <1>1, <3>1
    <3> QED BY <1>1, <3>1 DEF HashInv, StampInv
  <2>3. \A u \in Threads : reg'[u].stamp # None => reg'[u].stamp <= clock'
    <3>1. ASSUME NEW u \in Threads, reg[u].stamp # None PROVE reg[u].stamp \in Nat
      BY <1>1, <3>1 DEF Locals, Stamps
    <3> QED BY <1>1, <3>1 DEF HashInv, StampInv
  <2> QED BY <2>1, <2>2, <2>3 DEF StampInv
<1>4. VouchInv'
  <2> SUFFICES ASSUME NEW u \in Threads, pc'[u] # "idle"
               PROVE  Vouch(disk'[req[u].path], pc'[u], reg[u])
    BY DEF VouchInv, Vouch
  <2>1. CASE pc'[u] \in {"record", "lookup", "note"}
    <3>1. pc'[u] = pc[u]
      BY <2>1 DEF Settled
    <3>2. reg[u].stamp \in Nat /\ reg[u].stamp <= clock /\ req[u].path \in Paths
      BY <2>1, <3>1, ThreadFacts, Undefined DEF Filled, HashInv, StampInv
    <3>3. Vouch(disk[req[u].path], pc[u], reg[u])
      BY <3>1 DEF HashInv, VouchInv
    <3>4. req[u].path = p /\ f # None => f.stamp # reg[u].stamp
      BY <1>1, <3>2
    <3> QED BY <1>2, <2>1, <3>1, <3>2, <3>3, <3>4 DEF Vouch
  <2>2. CASE pc'[u] = "restat" /\ pc[u] = "restat"
    <3>1. req[u].path # p /\ Vouch(disk[req[u].path], pc[u], reg[u]) /\ req[u].path \in Paths
      BY <2>2, ThreadFacts DEF HashInv, VouchInv, Settled
    <3> QED BY <1>2, <2>2, <3>1 DEF Vouch
  <2>3. CASE pc'[u] = "restat" /\ pc[u] # "restat"
    BY <1>2, <2>3 DEF Vouch, Settled
  <2>4. CASE pc'[u] \notin {"record", "lookup", "note", "restat"}
    BY <2>4 DEF Vouch
  <2> QED BY <2>1, <2>2, <2>3, <2>4
<1>5. HashIsCurrent'
  <2> SUFFICES ASSUME NEW q \in Paths, disk'[q] # None, entries[q] # None,
                      entries[q].stamp = disk'[q].stamp
               PROVE  entries[q].hash = disk'[q].content
    BY DEF HashIsCurrent
  <2>1. q # p
    <3>1. entries[q].stamp \in Nat /\ entries[q].stamp <= clock
      BY <1>1 DEF HashInv, StampInv
    <3> QED BY <1>1, <1>2, <3>1
  <2> QED BY <1>2, <2>1 DEF HashInv, HashIsCurrent
<1> QED BY <1>3, <1>4, <1>5 DEF HashInv

LEMMA WritingHash ==
    ASSUME TypeInv, LockExclusive, HashInv, ~Repeats, NEW t \in Threads, Write(t) \/ Remove(t)
    PROVE  HashInv'
<1>0. PICK p \in Paths : p = req[t].path
  BY ThreadFacts DEF Write, Remove
<1>1. /\ pc[t] # "idle" /\ pc[t] \in {"write", "remove"} /\ UNCHANGED <<entries, reg, req>>
      /\ clock \in Nat
  BY ThreadFacts DEF Write, Remove, Uncached, Elsewhere, TypeInv, StoreOK
<1>2. InLock(t)
  BY <1>1, ThreadFacts DEF Place, Handlers, Writes, InLock, Reads, Locked, Mutating
<1>3. ASSUME NEW u \in Threads, pc[u] = "restat", req[u].path = p PROVE FALSE
  <2>1. InLock(u)
    BY <1>3, ThreadFacts DEF Place, Handlers, Writes, InLock, Reads, Locked, Mutating
  <2> QED BY <1>0, <1>1, <1>2, <1>3, <2>1 DEF LockExclusive
<1>4. CASE Write(t)
  <2>0. PICK f : f = [content |-> reg[t].out, stamp |-> clock + 1]
    OBVIOUS
  <2>1. /\ disk' = [disk EXCEPT ![p] = f] /\ clock' = clock + 1 /\ pc' = [pc EXCEPT ![t] = "restat"]
    BY <1>0, <1>4, <2>0 DEF Write, Goto, NewStamps
  <2>2. reg[t].out \in Contents
    BY <1>1, <1>4, ThreadFacts DEF Write, Filled
  <2>3. f \in Files /\ f # None /\ f.stamp = clock + 1 /\ f.content = reg[t].out
    BY <1>1, <2>0, <2>2, Undefined DEF Files, Stamps
  <2>4. \A u \in Threads : pc'[u] = IF u = t THEN "restat" ELSE pc[u]
    BY <2>1 DEF TypeInv, ThreadsOK
  <2>5. Settled(p, f)
    BY <1>0, <1>3, <2>3, <2>4 DEF Settled
  <2> QED BY <1>1, <2>1, <2>3, <2>5, ChangedHash
<1>5. CASE Remove(t) /\ disk[p] # None
  <2>1. disk' = [disk EXCEPT ![p] = None] /\ clock' = clock /\ pc' = [pc EXCEPT ![t] = "forget"]
    BY <1>0, <1>5 DEF Remove, Goto
  <2>2. \A u \in Threads : pc'[u] = IF u = t THEN "forget" ELSE pc[u]
    BY <2>1 DEF TypeInv, ThreadsOK
  <2>3. Settled(p, None)
    BY <1>3, <2>2 DEF Settled
  <2> QED BY <1>1, <2>1, <2>3, ChangedHash
<1>6. CASE Remove(t) /\ disk[p] = None
  <2>1. UNCHANGED <<disk, clock>> /\ pc' = [pc EXCEPT ![t] = "respond"]
    BY <1>0, <1>6 DEF Remove, Goto
  <2>2. VouchInv'
    BY <1>1, <2>1 DEF HashInv, VouchInv, Vouch, TypeInv, ThreadsOK
  <2> QED BY <1>1, <2>1, <2>2 DEF HashInv, StampInv, HashIsCurrent
<1> QED BY <1>4, <1>5, <1>6

LEMMA BeginHash ==
    ASSUME TypeInv, TypeInv', HashInv, NEW t \in Threads, NEW r \in Offered, Begin(t, r)
    PROVE  HashInv'
<1>1. r \in Requests /\ r.op \in Handlers
  BY BoundsAssumption DEF Requests
<1>2. PICK l \in {"stat", "hash", "parse"} : pc' = [pc EXCEPT ![t] = l]
  BY <1>1, BeginCases DEF Goto, Handlers, Writes
<1> DEFINE n == [reg[t] EXCEPT !.why = IF r.op \in {"get", "head", "meta"} THEN r.op ELSE "none"]
<1>3. /\ reg' = [reg EXCEPT ![t] = n] /\ req' = [req EXCEPT ![t] = r]
      /\ UNCHANGED <<disk, clock, entries, ans, arc>>
  BY DEF Begin, Unlocked, Uncached
<1>4. n.stamp = reg[t].stamp
  BY DEF TypeInv, ThreadsOK, Locals
<1> HIDE DEF n
<1>5. Alone(t) /\ pc'[t] = l /\ reg'[t] = n
  BY <1>2, <1>3 DEF Alone, TypeInv, ThreadsOK
<1>6. Vouch(disk[req'[t].path], pc'[t], reg'[t])
  BY <1>5 DEF Vouch
<1>7. reg'[t].stamp # None => reg'[t].stamp <= clock
  BY <1>4, <1>5 DEF HashInv, StampInv
<1> QED BY <1>3, <1>5, <1>6, <1>7, LocalHash

LEMMA ForeignHash ==
    ASSUME TypeInv, HashInv, ~Repeats, ~AnyWindow, NEW p \in Paths, Foreign(p)
    PROVE  HashInv'
<1>1. clock' = clock + 1 /\ UNCHANGED <<pc, entries, reg, req>> /\ clock \in Nat /\ ~Exposed(p)
  BY DEF Foreign, Uncached, TypeInv, StoreOK
<1>2. PICK f \in Files \cup {None} : disk' = [disk EXCEPT ![p] = f] /\ (f # None => f.stamp = clock + 1)
  <2>1. CASE disk' = [disk EXCEPT ![p] = None]
    BY <2>1
  <2>2. ASSUME NEW c \in Seeds, NEW s \in NewStamps, disk' = [disk EXCEPT ![p] = [content |-> c, stamp |-> s]]
        PROVE  \E f \in Files \cup {None} : disk' = [disk EXCEPT ![p] = f] /\ (f # None => f.stamp = clock + 1)
    <3> DEFINE f == [content |-> c, stamp |-> clock + 1]
    <3>1. f \in Files /\ f.stamp = clock + 1 /\ disk' = [disk EXCEPT ![p] = f]
      BY <1>1, <2>2, BoundsAssumption DEF Files, Stamps, NewStamps
    <3> HIDE DEF f
    <3> QED BY <3>1
  <2> QED BY <2>1, <2>2 DEF Foreign
<1>3. ASSUME NEW u \in Threads, pc[u] = "restat" PROVE req[u].path # p
  <2>1. InLock(u) /\ req[u].op \in {"put", "reconcile"}
    BY <1>3, ThreadFacts DEF Place, Handlers, Writes, InLock, Reads, Locked, Mutating
  <2> QED BY <1>1, <1>3, <2>1 DEF Exposed
<1>4. Settled(p, f)
  BY <1>1, <1>3 DEF Settled
<1> QED BY <1>1, <1>2, <1>4, ChangedHash

LEMMA NextHash ==
    ASSUME TypeInv, TypeInv', LockExclusive, HashInv, [Next]_vars, ~Repeats, ~AnyWindow
    PROVE  HashInv'
<1>1. ASSUME NEW t \in Threads, Step(t) PROVE HashInv'
  BY <1>1, QuietHash, ReadingHash, RecordingHash, EndingHash, WritingHash DEF Step
<1>2. ASSUME CommitBegin \/ SweepBegin \/ CommitEnd \/ (\E p \in Paths : CommitPath(p)) \/ UNCHANGED vars
      PROVE  HashInv'
  <2>1. UNCHANGED <<disk, clock, entries, pc, req, reg>>
    BY <1>2 DEF CommitBegin, SweepBegin, CommitEnd, CommitPath, Quiet, Uncached, vars
  <2> QED BY <2>1 DEF HashInv, StampInv, VouchInv, Vouch, HashIsCurrent
<1>3. ASSUME NEW t \in Threads, NEW r \in Offered, Begin(t, r) PROVE HashInv'
  BY <1>3, BeginHash
<1>4. ASSUME NEW p \in Paths, Foreign(p) PROVE HashInv'
  BY <1>4, ForeignHash
<1> QED BY <1>1, <1>2, <1>3, <1>4 DEF Next

\* When no write repeats a modification time and other programs stay out of the
\* exposed windows, a recorded hash that a stat vouches for is the file's: the
\* unlocked reads of GET and HEAD never record a hash under a newer stamp.
THEOREM HashesAreCurrent == ASSUME ~Repeats, ~AnyWindow PROVE Spec => []HashIsCurrent
<1>1. TypeInv /\ TypeInv' /\ LockExclusive /\ HashInv /\ [Next]_vars => HashInv'
  BY NextHash
<1>2. HashInv => HashIsCurrent
  BY DEF HashInv
<1> QED BY <1>1, <1>2, InitType, NextType, InitHash, LocksExclude, PTL DEF Spec
=============================================================================
