------------------------- MODULE MessageQueueProofs -------------------------
(***************************************************************************)
(* Proofs about the message queue, for any number of tabs and workers,     *)
(* deaths of tabs and leases that run out too early.                       *)
(*                                                                         *)
(* The inductive invariant says of every message that is not acknowledged  *)
(* that its copies carry no more retries than deliveries of it ended badly *)
(* (Counted), that there is a copy unless the last one was torn away       *)
(* (Kept), and, as long as the one tab is Undisturbed, where its copies    *)
(* are (Place), from which it follows that none is torn away.              *)
(***************************************************************************)
EXTENDS MessageQueue, SequenceTheorems, TLAPS

Unique(s) == \A i, j \in 1..Len(s) : s[i] = s[j] => i = j

\* The parts of the type invariant.  A worker has messages only while it works
\* on them, and a worker that is registered as a waiter waits, and is there once.
Working == {"claim", "unqueue", "work", "ack"}

StoreOK ==
    /\ queued \in Batches /\ processing \in [Messages -> Leases \cup {None}]
    /\ dlq \subseteq Messages /\ sent \subseteq Messages
    /\ acked \subseteq Messages /\ given \subseteq Messages /\ torn \subseteq Messages
    /\ failed \in [Messages -> Nat]

FlagsOK ==
    /\ waking \in [Tabs -> BOOLEAN] /\ stopping \in [Workers -> BOOLEAN]
    /\ timers \in [Workers -> Nat]
    /\ left \in [failures : Nat, renewals : Nat, stops : Nat, reloads : Nat, late : Nat]
    /\ left.reloads <= MaxReloads /\ left.late <= MaxLate

WorkOK ==
    /\ pc \in [Workers -> Labels] /\ batch \in [Workers -> Batches]
    /\ \A w \in Workers, m \in Messages : batch[w][m] # None => pc[w] \in Working

WaitOK ==
    /\ waiters \in [Tabs -> Seq(Workers)]
    /\ \A t \in Tabs :
          /\ Unique(waiters[t])
          /\ \A i \in 1..Len(waiters[t]) : pc[waiters[t][i]] = "wait" /\ Home[waiters[t][i]] = t

TimeOK ==
    /\ renewal \in [Workers -> Batches \cup {None}]
    /\ requeue \in [Tabs -> [step : {"idle", "delete", "set"}, found : Batches]]
    /\ \A t \in Tabs : requeue[t].step = "idle" => requeue[t].found = NoMessages

TypeInv == StoreOK /\ FlagsOK /\ WorkOK /\ WaitOK /\ TimeOK

Batched(w, m) == batch[w][m] # None
Claimed(w, m) == batch[w][m] # None /\ pc[w] # "claim"
Renewed(w, m) == renewal[w] # None /\ renewal[w][m] # None
Alive(m) == processing[m] # None /\ ~processing[m].dead
Found(t, m) == requeue[t].found[m] # None

\* How the retries it carries relate to the deliveries that ended badly.
Counted(m) ==
    LET k == failed[m]
        free == \A w \in Workers : ~Claimed(w, m)
    IN  /\ queued[m] # None => queued[m] <= k
        /\ processing[m] # None =>
              /\ processing[m].retries <= k
              /\ free \/ processing[m].dead => processing[m].retries < k
        /\ \A w \in Workers :
              /\ Batched(w, m) => batch[w][m] <= k
              /\ Renewed(w, m) => renewal[w][m] <= k /\ (free => renewal[w][m] < k)
        /\ \A t \in Tabs : Found(t, m) => requeue[t].found[m] < k

\* There is a copy of the message, or a step is known that removed the last.
Kept(m) ==
    m \in sent =>
       \/ m \in given \/ m \in torn \/ queued[m] # None \/ processing[m] # None
       \/ \E t \in Tabs : Found(t, m) /\ requeue[t].step = "set"

\* Where a message is that no worker has acknowledged.
Place(m) ==
    /\ \A w \in Workers :
          /\ Batched(w, m) => queued[m] # None \/ Alive(m)
          /\ Batched(w, m) /\ pc[w] # "claim" => Alive(m)
          /\ Renewed(w, m) => Alive(m)
    /\ processing[m] # None /\ queued[m] # None => \E w \in Workers : Batched(w, m) /\ pc[w] = "unqueue"
    /\ processing[m] # None /\ processing[m].dead => queued[m] = None /\ \A w \in Workers : ~Has(w, m)
    /\ \A t \in Tabs : Found(t, m) =>
          /\ queued[m] = None /\ \A w \in Workers : ~Has(w, m)
          /\ requeue[t].step = "delete" => processing[m] # None /\ processing[m].dead
          /\ requeue[t].step = "set" => processing[m] = None
    /\ m \notin sent => queued[m] = None /\ processing[m] = None /\ \A t \in Tabs : ~Found(t, m)

MessageInv(m, calm) == Counted(m) /\ Kept(m) /\ (calm => Place(m))

QueueInv ==
    /\ \A m \in Messages \ acked : MessageInv(m, Undisturbed)
    /\ GivenUpLast
    /\ Undisturbed => torn = {}

-----------------------------------------------------------------------------
(* What RemoveFirst leaves of a list of waiters.                           *)

LEMMA RemovedAt ==
    ASSUME NEW S, NEW s \in Seq(S), NEW i \in 1..Len(s)
    PROVE  /\ RemoveAt(s, i) \in Seq(S) /\ Len(RemoveAt(s, i)) = Len(s) - 1
           /\ \A j \in 1..(Len(s) - 1) : RemoveAt(s, i)[j] = IF j < i THEN s[j] ELSE s[j + 1]
<1>1. Len(s) \in Nat /\ i \in Nat /\ i >= 1 /\ i <= Len(s)
  OBVIOUS
<1> DEFINE a == SubSeq(s, 1, i - 1)
           b == SubSeq(s, i + 1, Len(s))
<1>2. a \in Seq(S) /\ Len(a) = i - 1 /\ \A j \in 1..(i - 1) : a[j] = s[j]
  BY <1>1
<1>3. b \in Seq(S) /\ Len(b) = Len(s) - i /\ \A j \in 1..(Len(s) - i) : b[j] = s[j + i]
  BY <1>1
<1>4. RemoveAt(s, i) = a \o b
  BY DEF RemoveAt
<1> HIDE DEF a, b
<1>5. a \o b \in Seq(S) /\ Len(a \o b) = Len(a) + Len(b)
      /\ \A j \in 1..(Len(a) + Len(b)) : (a \o b)[j] = IF j <= Len(a) THEN a[j] ELSE b[j - Len(a)]
  BY <1>2, <1>3, ConcatProperties
<1>6. ASSUME NEW j \in 1..(Len(s) - 1) PROVE RemoveAt(s, i)[j] = IF j < i THEN s[j] ELSE s[j + 1]
  <2>1. CASE j < i
    BY <1>1, <1>2, <1>3, <1>4, <1>5, <2>1
  <2>2. CASE ~(j < i)
    <3>1. j - (i - 1) \in 1..(Len(s) - i) /\ (j - (i - 1)) + i = j + 1
      BY <1>1, <2>2
    <3>2. (a \o b)[j] = b[j - (i - 1)]
      BY <1>1, <1>2, <1>3, <1>5, <2>2
    <3>3. b[j - (i - 1)] = s[j + 1]
      BY <1>3, <3>1
    <3> QED BY <1>4, <2>2, <3>2, <3>3
  <2> QED BY <2>1, <2>2
<1> QED BY <1>1, <1>2, <1>3, <1>4, <1>5, <1>6

LEMMA FirstAt ==
    ASSUME NEW S, NEW s \in Seq(S), NEW e, NEW i \in 1..Len(s), s[i] = e,
           \A j \in 1..Len(s) : s[j] = e => j = i
    PROVE  RemoveFirst(s, e) = RemoveAt(s, i)
<1>1. {j \in 1..Len(s) : s[j] = e} = {i}
  OBVIOUS
<1>2. SelectInSeq(s, LAMBDA v: v = e) = Min({i})
  BY <1>1 DEF SelectInSeq
<1>3. Min({i}) = i
  BY DEF Min
<1> QED BY <1>2, <1>3 DEF RemoveFirst

\* Without one of its elements a sequence that repeats none has the others, once.
LEMMA Without ==
    ASSUME NEW S, NEW s \in Seq(S), Unique(s), NEW e
    PROVE  /\ RemoveFirst(s, e) \in Seq(S) /\ Unique(RemoveFirst(s, e))
           /\ \A i \in 1..Len(RemoveFirst(s, e)) :
                 /\ RemoveFirst(s, e)[i] # e
                 /\ \E j \in 1..Len(s) : RemoveFirst(s, e)[i] = s[j]
<1>1. CASE \A i \in 1..Len(s) : s[i] # e
  <2>1. RemoveFirst(s, e) = s
    BY <1>1 DEF RemoveFirst
  <2> QED BY <1>1, <2>1
<1>2. ASSUME NEW i \in 1..Len(s), s[i] = e
      PROVE  /\ RemoveFirst(s, e) \in Seq(S) /\ Unique(RemoveFirst(s, e))
             /\ \A k \in 1..Len(RemoveFirst(s, e)) :
                   /\ RemoveFirst(s, e)[k] # e
                   /\ \E j \in 1..Len(s) : RemoveFirst(s, e)[k] = s[j]
  <2> DEFINE r == RemoveAt(s, i)
             at(k) == IF k < i THEN k ELSE k + 1
  <2>1. RemoveFirst(s, e) = r
    BY <1>2, FirstAt DEF Unique
  <2>2. r \in Seq(S) /\ Len(r) = Len(s) - 1
        /\ \A k \in 1..(Len(s) - 1) : r[k] = IF k < i THEN s[k] ELSE s[k + 1]
    BY RemovedAt
  <2>3. Len(s) \in Nat /\ i \in Nat /\ 1 <= i /\ i <= Len(s)
    OBVIOUS
  <2> HIDE DEF r
  <2>4. \A k \in 1..Len(r) : at(k) \in 1..Len(s) /\ at(k) # i /\ r[k] = s[at(k)]
    BY <2>2, <2>3
  <2>5. \A k, l \in 1..Len(r) : at(k) = at(l) => k = l
    BY <2>2, <2>3
  <2> HIDE DEF at
  <2>6. Unique(r) /\ \A k \in 1..Len(r) : r[k] # e
    BY <1>2, <2>4, <2>5 DEF Unique
  <2> QED BY <2>1, <2>2, <2>4, <2>6
<1> QED BY <1>1, <1>2

-----------------------------------------------------------------------------
(* Types.                                                                  *)

-----------------------------------------------------------------------------
(* The type invariant.                                                     *)

LEMMA TypeInvTypes == TypeInv => TypeOK
BY DEF TypeInv, StoreOK, FlagsOK, WorkOK, WaitOK, TimeOK, TypeOK

LEMMA NoMessagesType == NoMessages \in Batches /\ \A m \in Messages : NoMessages[m] = None
BY DEF NoMessages, Batches

LEMMA InitType == Init => TypeInv
<1> SUFFICES ASSUME Init PROVE TypeInv
  OBVIOUS
<1>1. StoreOK
  BY NoMessagesType DEF Init, StoreOK, NoMessages
<1>2. FlagsOK
  BY QueueAssumption DEF Init, FlagsOK
<1>3. WorkOK /\ TimeOK
  BY NoMessagesType DEF Init, WorkOK, TimeOK, Labels
<1>4. WaitOK
  BY DEF Init, WaitOK, Unique
<1> QED BY <1>1, <1>2, <1>3, <1>4 DEF TypeInv

\* A worker that is no waiter goes on.
LEMMA GoesOn ==
    ASSUME TypeInv, NEW w \in Workers, NEW l \in Labels, Goto(w, l), UNCHANGED waiters,
           pc[w] # "wait"
    PROVE  WaitOK'
BY DEF TypeInv, WorkOK, WaitOK, Goto

\* A worker is no longer a waiter.
LEMMA Unregisters ==
    ASSUME TypeInv, NEW w \in Workers, Unregister(w)
    PROVE  /\ waiters' \in [Tabs -> Seq(Workers)]
           /\ \A t \in Tabs :
                 /\ Unique(waiters'[t])
                 /\ \A i \in 1..Len(waiters'[t]) :
                       /\ waiters'[t][i] \in Workers \ {w}
                       /\ pc[waiters'[t][i]] = "wait" /\ Home[waiters'[t][i]] = t
<1>1. waiters \in [Tabs -> Seq(Workers)] /\ Home[w] \in Tabs
  BY QueueAssumption DEF TypeInv, WaitOK
<1> DEFINE h == Home[w]
           r == RemoveFirst(waiters[h], w)
<1>2. waiters' = [waiters EXCEPT ![h] = r]
  BY DEF Unregister
<1>3. waiters[h] \in Seq(Workers) /\ Unique(waiters[h])
  BY <1>1 DEF TypeInv, WaitOK
<1>4. /\ r \in Seq(Workers) /\ Unique(r)
      /\ \A i \in 1..Len(r) : r[i] # w /\ \E j \in 1..Len(waiters[h]) : r[i] = waiters[h][j]
  BY <1>3, Without
<1> HIDE DEF r
<1>5. ASSUME NEW t \in Tabs
      PROVE  /\ Unique(waiters'[t])
             /\ \A i \in 1..Len(waiters'[t]) :
                   /\ waiters'[t][i] \in Workers \ {w}
                   /\ pc[waiters'[t][i]] = "wait" /\ Home[waiters'[t][i]] = t
  <2>1. CASE t = h
    <3>1. waiters'[t] = r
      BY <1>1, <1>2, <2>1
    <3>2. \A i \in 1..Len(r) : r[i] \in Workers
      BY <1>4
    <3> QED BY <1>4, <2>1, <3>1, <3>2 DEF TypeInv, WaitOK
  <2>2. CASE t # h
    <3>1. waiters'[t] = waiters[t] /\ waiters[t] \in Seq(Workers)
      BY <1>1, <1>2, <2>2
    <3>2. \A i \in 1..Len(waiters[t]) : waiters[t][i] \in Workers
      BY <3>1
    <3> QED BY <2>2, <3>1, <3>2 DEF TypeInv, WaitOK
  <2> QED BY <2>1, <2>2
<1> QED BY <1>1, <1>2, <1>4, <1>5

\* A step of a worker's loop: it goes on with the messages b.
LEMMA WorkMoves ==
    ASSUME TypeInv, NEW w \in Workers, NEW l \in Labels, NEW b \in Batches, Goto(w, l),
           batch' = [batch EXCEPT ![w] = b], l \in Working \/ \A m \in Messages : b[m] = None
    PROVE  WorkOK'
BY DEF TypeInv, WorkOK, Goto

LEMMA KeepsBatch ==
    ASSUME TypeInv, NEW w \in Workers, UNCHANGED batch
    PROVE  batch' = [batch EXCEPT ![w] = batch[w]] /\ batch[w] \in Batches
           /\ (pc[w] \notin Working => \A m \in Messages : batch[w][m] = None)
BY DEF TypeInv, WorkOK

LEMMA SendType ==
    ASSUME TypeInv, NEW t \in Tabs, NEW m \in Messages, Send(t, m)
    PROVE  TypeInv'
<1>1. /\ queued' = [queued EXCEPT ![m] = 0] /\ sent' = sent \cup {m}
      /\ waking' = [waking EXCEPT ![t] = TRUE]
      /\ UNCHANGED <<processing, dlq, acked, failed, given, torn, waiters, pc, batch, stopping,
                     timers, renewal, requeue, left>>
  BY DEF Send
<1>2. StoreOK'
  BY <1>1 DEF TypeInv, StoreOK, Batches
<1>3. FlagsOK'
  BY <1>1 DEF TypeInv, FlagsOK
<1> QED BY <1>1, <1>2, <1>3 DEF TypeInv, WorkOK, WaitOK, TimeOK

LEMMA WakeupType ==
    ASSUME TypeInv, NEW t \in Tabs, Wakeup(t)
    PROVE  TypeInv'
<1>1. /\ waking' = [waking EXCEPT ![t] = FALSE]
      /\ UNCHANGED <<queued, processing, dlq, sent, acked, failed, given, torn, batch, stopping,
                     renewal, requeue, left>>
  BY DEF Wakeup, Ghosts, Store
<1>2. StoreOK' /\ TimeOK'
  BY <1>1 DEF TypeInv, StoreOK, TimeOK
<1>3. CASE waiters[t] = <<>>
  <2>1. UNCHANGED <<waiters, pc, timers>>
    BY <1>3 DEF Wakeup
  <2> QED BY <1>1, <1>2, <2>1 DEF TypeInv, FlagsOK, WorkOK, WaitOK
<1>4. CASE waiters[t] # <<>>
  <2> DEFINE s == waiters[t]
             w == Head(s)
             l == IF stopping[w] THEN "stopped" ELSE "poll"
  <2>1. /\ waiters' = [waiters EXCEPT ![t] = Tail(s)]
        /\ Goto(w, l) /\ timers' = [timers EXCEPT ![w] = @ + 1]
    BY <1>4 DEF Wakeup
  <2>2. waiters \in [Tabs -> Seq(Workers)] /\ s \in Seq(Workers) /\ s # <<>>
    BY <1>4 DEF TypeInv, WaitOK
  <2>3. /\ Len(s) \in Nat /\ Len(s) >= 1 /\ w = s[1] /\ w \in Workers
        /\ Tail(s) \in Seq(Workers) /\ Len(Tail(s)) = Len(s) - 1
        /\ \A i \in 1..(Len(s) - 1) : Tail(s)[i] = s[i + 1]
    BY <2>2
  <2> HIDE DEF s
  <2>4. pc[w] = "wait" /\ Home[w] = t
    BY <2>3 DEF TypeInv, WaitOK, s
  <2>5. l \in Labels /\ l \notin Working
    BY DEF Labels, Working
  <2>6. WorkOK'
    BY <1>1, <2>1, <2>3, <2>4, <2>5, KeepsBatch, WorkMoves DEF Working
  <2>7. FlagsOK'
    BY <1>1, <2>1, <2>3 DEF TypeInv, FlagsOK
  <2>8. Unique(Tail(s)) /\ \A i \in 1..Len(Tail(s)) : Tail(s)[i] # w /\ pc[Tail(s)[i]] = "wait"
                                                      /\ Home[Tail(s)[i]] = t
    <3>1. Unique(s) /\ \A i \in 1..Len(s) : pc[s[i]] = "wait" /\ Home[s[i]] = t
      BY DEF TypeInv, WaitOK, s
    <3> QED BY <2>3, <3>1 DEF Unique
  <2>9. pc' = [pc EXCEPT ![w] = l] /\ pc \in [Workers -> Labels]
    BY <2>1 DEF Goto, TypeInv, WorkOK
  <2> HIDE DEF w, l
  <2>10. ASSUME NEW u \in Tabs
         PROVE  /\ Unique(waiters'[u])
                /\ \A i \in 1..Len(waiters'[u]) : pc'[waiters'[u][i]] = "wait" /\ Home[waiters'[u][i]] = u
    <3>1. CASE u = t
      <4>1. waiters'[u] = Tail(s)
        BY <2>1, <2>2, <3>1
      <4>2. \A i \in 1..Len(Tail(s)) : Tail(s)[i] \in Workers
        BY <2>3
      <4> QED BY <2>8, <2>9, <3>1, <4>1, <4>2
    <3>2. CASE u # t
      <4>1. waiters'[u] = waiters[u] /\ waiters[u] \in Seq(Workers)
        BY <2>1, <2>2, <3>2
      <4>2. Unique(waiters[u]) /\ \A i \in 1..Len(waiters[u]) : waiters[u][i] \in Workers
            /\ pc[waiters[u][i]] = "wait" /\ Home[waiters[u][i]] = u
        BY <4>1 DEF TypeInv, WaitOK
      <4> QED BY <2>4, <2>9, <3>2, <4>1, <4>2
    <3> QED BY <3>1, <3>2
  <2>11. WaitOK'
    BY <2>1, <2>2, <2>3, <2>10 DEF WaitOK
  <2> QED BY <1>2, <2>6, <2>7, <2>11 DEF TypeInv
<1> QED BY <1>3, <1>4

LEMMA WorkerType ==
    ASSUME TypeInv, NEW w \in Workers, WorkerStep(w)
    PROVE  TypeInv'
<1>1. ASSUME Asleep, UNCHANGED <<requeue, left, renewal>> PROVE FlagsOK' /\ TimeOK'
  BY <1>1 DEF Asleep, TypeInv, FlagsOK, TimeOK
<1>2. ASSUME Ghosts, Store PROVE StoreOK'
  BY <1>2 DEF Ghosts, Store, TypeInv, StoreOK
<1>3. CASE Poll(w)
  <2> DEFINE b == [m \in Messages |-> IF m \in Oldest THEN queued[m] ELSE None]
             l == IF In(queued) = {} THEN "empty" ELSE "claim"
  <2>1. pc[w] = "poll" /\ batch' = [batch EXCEPT ![w] = b] /\ Goto(w, l)
        /\ UNCHANGED <<renewal, requeue, left>> /\ Ghosts /\ Asleep /\ Store
    BY <1>3 DEF Poll
  <2>2. b \in Batches
    BY DEF TypeInv, StoreOK, Batches
  <2>3. l \in Labels /\ (l \in Working \/ \A m \in Messages : b[m] = None)
    BY DEF Oldest, Labels, Working
  <2> HIDE DEF b, l
  <2>4. WorkOK' /\ WaitOK'
    BY <2>1, <2>2, <2>3, WorkMoves, GoesOn DEF Asleep
  <2> QED BY <1>1, <1>2, <2>1, <2>4 DEF TypeInv
<1>4. CASE Claim(w)
  <2>1. pc[w] = "claim" /\ Goto(w, "unqueue")
        /\ UNCHANGED <<queued, dlq, batch, renewal, requeue, left>> /\ Ghosts /\ Asleep
        /\ processing' = [m \in Messages |->
             IF m \in In(batch[w]) THEN [retries |-> batch[w][m], dead |-> FALSE]
             ELSE processing[m]]
    BY <1>4 DEF Claim
  <2>2. WorkOK' /\ WaitOK'
    BY <2>1, KeepsBatch, WorkMoves, GoesOn DEF Asleep, Labels, Working
  <2>3. ASSUME NEW m \in In(batch[w]) PROVE [retries |-> batch[w][m], dead |-> FALSE] \in Leases
    BY DEF In, TypeInv, WorkOK, Batches, Leases
  <2>4. StoreOK'
    BY <2>1, <2>3 DEF TypeInv, StoreOK, Ghosts
  <2> QED BY <1>1, <2>1, <2>2, <2>4 DEF TypeInv
<1>5. CASE Unqueue(w)
  <2>1. pc[w] = "unqueue" /\ Goto(w, "work")
        /\ UNCHANGED <<processing, dlq, sent, acked, failed, given, batch, renewal, requeue, left>>
        /\ queued' = [m \in Messages |-> IF m \in In(batch[w]) THEN None ELSE queued[m]]
        /\ torn' \subseteq torn \cup In(batch[w]) /\ Asleep
    BY <1>5 DEF Unqueue
  <2>2. WorkOK' /\ WaitOK'
    BY <2>1, KeepsBatch, WorkMoves, GoesOn DEF Asleep, Labels, Working
  <2>3. StoreOK'
    BY <2>1 DEF TypeInv, StoreOK, In, Batches
  <2> QED BY <1>1, <2>1, <2>2, <2>3 DEF TypeInv
<1>6. CASE Succeed(w)
  <2>1. WorkOK' /\ WaitOK'
    BY <1>6, KeepsBatch, WorkMoves, GoesOn DEF Succeed, Asleep, Labels, Working
  <2> QED BY <1>1, <1>2, <1>6, <2>1 DEF TypeInv, Succeed
<1>7. ASSUME Loop(w), pc[w] # "wait", UNCHANGED waiters PROVE WorkOK' /\ WaitOK'
  <2> DEFINE l == IF stopping[w] THEN "stopped" ELSE "poll"
  <2>1. Goto(w, l) /\ batch' = [batch EXCEPT ![w] = NoMessages] /\ l \in Labels
    BY <1>7 DEF Loop, Labels
  <2> HIDE DEF l
  <2> QED BY <1>7, <2>1, NoMessagesType, WorkMoves, GoesOn
<1>8. CASE Ack(w)
  <2>1. pc[w] = "ack" /\ Loop(w) /\ Asleep
        /\ UNCHANGED <<queued, dlq, sent, failed, given, torn, renewal, requeue, left>>
        /\ acked' = acked \cup In(batch[w])
        /\ processing' = [m \in Messages |-> IF m \in In(batch[w]) THEN None ELSE processing[m]]
    BY <1>8 DEF Ack
  <2>2. StoreOK'
    BY <2>1 DEF TypeInv, StoreOK, In
  <2>3. FlagsOK' /\ TimeOK'
    BY <2>1 DEF TypeInv, FlagsOK, TimeOK, Asleep
  <2> QED BY <1>7, <2>1, <2>2, <2>3 DEF TypeInv, Asleep
<1>9. CASE Wait(w)
  <2>1. /\ pc[w] = "empty" /\ Goto(w, "wait") /\ Ghosts /\ Store
        /\ waiters' = [waiters EXCEPT ![Home[w]] = Append(@, w)]
        /\ UNCHANGED <<waking, stopping, timers, batch, renewal, requeue, left>>
    BY <1>9 DEF Wait
  <2>2. FlagsOK' /\ TimeOK' /\ WorkOK'
    BY <2>1, KeepsBatch, WorkMoves DEF TypeInv, FlagsOK, TimeOK, Labels, Working
  <2>3. waiters \in [Tabs -> Seq(Workers)] /\ Home[w] \in Tabs /\ pc \in [Workers -> Labels]
    BY QueueAssumption DEF TypeInv, WaitOK, WorkOK
  <2>4. pc' = [pc EXCEPT ![w] = "wait"]
    BY <2>1 DEF Goto
  <2>5. ASSUME NEW u \in Tabs
        PROVE  /\ waiters'[u] \in Seq(Workers) /\ Unique(waiters'[u])
               /\ \A i \in 1..Len(waiters'[u]) : pc'[waiters'[u][i]] = "wait" /\ Home[waiters'[u][i]] = u
    <3> DEFINE s == waiters[u]
    <3>1. /\ s \in Seq(Workers) /\ Len(s) \in Nat /\ Unique(s)
          /\ \A i \in 1..Len(s) : s[i] \in Workers /\ pc[s[i]] = "wait" /\ Home[s[i]] = u /\ s[i] # w
      BY <2>1, <2>3 DEF TypeInv, WaitOK
    <3>2. CASE u = Home[w]
      <4>1. waiters'[u] = Append(s, w)
        BY <2>1, <2>3, <3>2
      <4> HIDE DEF s
      <4>2. /\ Append(s, w) \in Seq(Workers) /\ Len(Append(s, w)) = Len(s) + 1
            /\ \A i \in 1..Len(s) : Append(s, w)[i] = s[i]
            /\ Append(s, w)[Len(s) + 1] = w
        BY <3>1
      <4>3. Unique(Append(s, w))
        BY <3>1, <4>2 DEF Unique
      <4> QED BY <2>3, <2>4, <3>1, <3>2, <4>1, <4>2, <4>3
    <3>3. CASE u # Home[w]
      <4>1. waiters'[u] = s
        BY <2>1, <2>3, <3>3
      <4> QED BY <2>3, <2>4, <3>1, <4>1
    <3> QED BY <3>2, <3>3
  <2>6. WaitOK'
    BY <2>1, <2>3, <2>5 DEF WaitOK
  <2> QED BY <1>2, <2>1, <2>2, <2>6 DEF TypeInv
<1>10. CASE Elapse(w)
  <2> DEFINE l == IF stopping[w] THEN "stopped" ELSE "poll"
  <2>1. /\ pc[w] = "wait" /\ Goto(w, l) /\ Unregister(w) /\ l \in Labels
        /\ UNCHANGED <<waking, stopping, timers, batch, renewal, requeue, left>> /\ Ghosts /\ Store
    BY <1>10 DEF Elapse, Labels
  <2> HIDE DEF l
  <2>2. FlagsOK' /\ TimeOK' /\ WorkOK'
    BY <2>1, KeepsBatch, WorkMoves DEF TypeInv, FlagsOK, TimeOK, Working
  <2>3. WaitOK'
    BY <2>1, Unregisters DEF WaitOK, Goto, TypeInv, WorkOK
  <2> QED BY <1>2, <2>1, <2>2, <2>3 DEF TypeInv
<1>11. CASE Subscribe(w)
  <2>1. /\ pc[w] = "stopped" /\ Goto(w, "poll")
        /\ stopping' = [stopping EXCEPT ![w] = FALSE]
        /\ timers' = [timers EXCEPT ![w] = 0]
        /\ UNCHANGED <<waking, waiters, batch, renewal, requeue, left>> /\ Ghosts /\ Store
    BY <1>11 DEF Subscribe
  <2>2. FlagsOK' /\ TimeOK'
    BY <2>1 DEF TypeInv, FlagsOK, TimeOK
  <2>3. WorkOK' /\ WaitOK'
    BY <2>1, KeepsBatch, WorkMoves, GoesOn DEF Labels, Working
  <2> QED BY <1>2, <2>1, <2>2, <2>3 DEF TypeInv
<1> QED BY <1>3, <1>4, <1>5, <1>6, <1>8, <1>9, <1>10, <1>11 DEF WorkerStep

LEMMA OtherWorkerType ==
    ASSUME TypeInv, NEW w \in Workers,
           Fail(w) \/ RenewRead(w) \/ RenewWrite(w) \/ ElapseLate(w) \/ Stop(w)
    PROVE  TypeInv'
<1>1. ASSUME Ghosts, Store PROVE StoreOK'
  BY <1>1 DEF Ghosts, Store, TypeInv, StoreOK
<1>2. ASSUME UNCHANGED <<pc, batch, waiters>> PROVE WorkOK' /\ WaitOK'
  BY <1>2 DEF TypeInv, WorkOK, WaitOK
<1>3. CASE Fail(w)
  <2> DEFINE l == IF stopping[w] THEN "stopped" ELSE "poll"
  <2>1. /\ pc[w] = "work" /\ left.failures > 0 /\ left' = [left EXCEPT !.failures = @ - 1]
        /\ failed' = [m \in Messages |-> IF m \in In(batch[w]) THEN failed[m] + 1 ELSE failed[m]]
        /\ Goto(w, l) /\ batch' = [batch EXCEPT ![w] = NoMessages] /\ l \in Labels
        /\ UNCHANGED <<sent, acked, given, torn, renewal, requeue>> /\ Asleep /\ Store
    BY <1>3 DEF Fail, Failed, Loop, Labels
  <2> HIDE DEF l
  <2>2. StoreOK'
    BY <2>1 DEF TypeInv, StoreOK, Store
  <2>3. FlagsOK' /\ TimeOK'
    BY <2>1 DEF TypeInv, FlagsOK, TimeOK, Asleep
  <2>4. WorkOK' /\ WaitOK'
    BY <2>1, NoMessagesType, WorkMoves, GoesOn DEF Asleep
  <2> QED BY <2>2, <2>3, <2>4 DEF TypeInv
<1>4. CASE RenewRead(w)
  <2> DEFINE b == [m \in Messages |-> IF m \in In(batch[w]) /\ processing[m] # None
                                      THEN processing[m].retries ELSE None]
  <2>1. /\ left.renewals > 0 /\ left' = [left EXCEPT !.renewals = @ - 1]
        /\ renewal' = [renewal EXCEPT ![w] = b]
        /\ UNCHANGED <<pc, batch, requeue>> /\ Ghosts /\ Asleep /\ Store
    BY <1>4 DEF RenewRead
  <2>2. b \in Batches
    BY DEF TypeInv, StoreOK, Leases, Batches
  <2> HIDE DEF b
  <2>3. FlagsOK' /\ TimeOK'
    BY <2>1, <2>2 DEF TypeInv, FlagsOK, TimeOK, Asleep
  <2> QED BY <1>1, <1>2, <2>1, <2>3 DEF TypeInv, Asleep
<1>5. CASE RenewWrite(w)
  <2>1. /\ renewal[w] # None /\ renewal' = [renewal EXCEPT ![w] = None]
        /\ processing' = [m \in Messages |->
             IF m \in In(renewal[w]) THEN [retries |-> renewal[w][m], dead |-> FALSE]
             ELSE processing[m]]
        /\ UNCHANGED <<queued, dlq, pc, batch, requeue, left>> /\ Ghosts /\ Asleep
    BY <1>5 DEF RenewWrite
  <2>2. ASSUME NEW m \in In(renewal[w]) PROVE [retries |-> renewal[w][m], dead |-> FALSE] \in Leases
    BY <2>1 DEF In, TypeInv, TimeOK, Batches, Leases
  <2>3. StoreOK'
    BY <2>1, <2>2 DEF TypeInv, StoreOK, Ghosts
  <2>4. FlagsOK' /\ TimeOK'
    BY <2>1 DEF TypeInv, FlagsOK, TimeOK, Asleep
  <2> QED BY <1>2, <2>1, <2>3, <2>4 DEF TypeInv, Asleep
<1>6. CASE ElapseLate(w)
  <2>1. /\ timers[w] > 0 /\ timers' = [timers EXCEPT ![w] = @ - 1] /\ Unregister(w)
        /\ UNCHANGED <<pc, waking, stopping, batch, renewal, requeue, left>> /\ Ghosts /\ Store
    BY <1>6 DEF ElapseLate
  <2>2. FlagsOK' /\ TimeOK' /\ WorkOK'
    BY <2>1 DEF TypeInv, FlagsOK, TimeOK, WorkOK
  <2>3. WaitOK'
    BY <2>1, Unregisters DEF WaitOK
  <2> QED BY <1>1, <2>1, <2>2, <2>3 DEF TypeInv
<1>7. CASE Stop(w)
  <2> DEFINE l == IF pc[w] \in {"wait", "poll"} THEN "stopped" ELSE pc[w]
  <2>1. /\ left.stops > 0 /\ left' = [left EXCEPT !.stops = @ - 1]
        /\ stopping' = [stopping EXCEPT ![w] = TRUE] /\ Unregister(w) /\ Goto(w, l)
        /\ UNCHANGED <<waking, timers, batch, renewal, requeue>> /\ Ghosts /\ Store
    BY <1>7 DEF Stop
  <2>2. l \in Labels /\ (pc[w] \in Working => l \in Working)
    BY DEF TypeInv, WorkOK, Labels, Working
  <2> HIDE DEF l
  <2>3. FlagsOK' /\ TimeOK' /\ WorkOK'
    BY <2>1, <2>2, KeepsBatch, WorkMoves DEF TypeInv, FlagsOK, TimeOK
  <2>4. WaitOK'
    BY <2>1, <2>2, Unregisters DEF WaitOK, Goto, TypeInv, WorkOK
  <2> QED BY <1>1, <2>1, <2>3, <2>4 DEF TypeInv
<1> QED BY <1>3, <1>4, <1>5, <1>6, <1>7

LEMMA ReloadType ==
    ASSUME TypeInv, NEW t \in Tabs, Reload(t)
    PROVE  TypeInv'
<1> DEFINE mine == {w \in Workers : Home[w] = t}
<1>1. /\ left.reloads > 0 /\ left' = [left EXCEPT !.reloads = @ - 1]
      /\ pc' = [w \in Workers |-> IF w \in mine THEN "poll" ELSE pc[w]]
      /\ batch' = [w \in Workers |-> IF w \in mine THEN NoMessages ELSE batch[w]]
      /\ renewal' = [w \in Workers |-> IF w \in mine THEN None ELSE renewal[w]]
      /\ stopping' = [w \in Workers |-> w \notin mine /\ stopping[w]]
      /\ timers' = [w \in Workers |-> IF w \in mine THEN 0 ELSE timers[w]]
      /\ waking' = [waking EXCEPT ![t] = FALSE]
      /\ waiters' = [waiters EXCEPT ![t] = <<>>]
      /\ requeue' = [requeue EXCEPT ![t] = [step |-> "idle", found |-> NoMessages]]
      /\ torn' \subseteq torn \cup Requeued({t})
      /\ UNCHANGED <<sent, acked, given, queued, processing, dlq>>
      /\ \E S : failed' = [m \in Messages |-> IF m \in S THEN failed[m] + 1 ELSE failed[m]]
  BY DEF Reload, Failed, Store
<1>2. StoreOK'
  BY <1>1 DEF TypeInv, StoreOK, Requeued
<1>3. FlagsOK'
  <2>1. left' \in [failures : Nat, renewals : Nat, stops : Nat, reloads : Nat, late : Nat]
        /\ left'.reloads <= MaxReloads /\ left'.late <= MaxLate
    <3>1. left.reloads > 0 /\ left' = [left EXCEPT !.reloads = @ - 1]
      BY <1>1
    <3>2. left \in [failures : Nat, renewals : Nat, stops : Nat, reloads : Nat, late : Nat]
          /\ left.reloads <= MaxReloads /\ left.late <= MaxLate
      BY DEF TypeInv, FlagsOK
    <3> QED BY <3>1, <3>2, QueueAssumption
  <2>2. stopping' \in [Workers -> BOOLEAN] /\ waking' \in [Tabs -> BOOLEAN] /\ timers' \in [Workers -> Nat]
    BY <1>1 DEF TypeInv, FlagsOK
  <2> QED BY <2>1, <2>2 DEF FlagsOK
<1>4. WorkOK'
  BY <1>1, NoMessagesType DEF TypeInv, WorkOK, Labels
<1>5. TimeOK'
  BY <1>1, NoMessagesType DEF TypeInv, TimeOK
<1>6. WaitOK'
  <2>1. waiters \in [Tabs -> Seq(Workers)] /\ pc \in [Workers -> Labels]
    BY DEF TypeInv, WaitOK, WorkOK
  <2>2. ASSUME NEW u \in Tabs
        PROVE  /\ waiters'[u] \in Seq(Workers) /\ Unique(waiters'[u])
               /\ \A i \in 1..Len(waiters'[u]) :
                     pc'[waiters'[u][i]] = "wait" /\ Home[waiters'[u][i]] = u
    <3>1. CASE u = t
      <4>1. waiters'[u] = <<>>
        BY <1>1, <2>1, <3>1
      <4> QED BY <4>1 DEF Unique
    <3>2. CASE u # t
      <4>1. waiters'[u] = waiters[u] /\ waiters[u] \in Seq(Workers)
        BY <1>1, <2>1, <3>2
      <4>2. Unique(waiters[u]) /\ \A i \in 1..Len(waiters[u]) : waiters[u][i] \in Workers
            /\ pc[waiters[u][i]] = "wait" /\ Home[waiters[u][i]] = u
        BY <4>1 DEF TypeInv, WaitOK
      <4>3. \A w \in Workers : Home[w] = u => pc'[w] = pc[w]
        BY <1>1, <3>2
      <4> QED BY <4>1, <4>2, <4>3
    <3> QED BY <3>1, <3>2
  <2>3. waiters' \in [Tabs -> Seq(Workers)]
    BY <1>1, <2>1, <2>2
  <2> QED BY <2>2, <2>3 DEF WaitOK
<1> QED BY <1>2, <1>3, <1>4, <1>5, <1>6 DEF TypeInv

LEMMA LeaseType ==
    ASSUME TypeInv, NEW m \in Messages, Expire(m) \/ Outlive(m)
    PROVE  TypeInv'
<1>1. /\ processing[m] # None /\ processing' = [processing EXCEPT ![m].dead = TRUE]
      /\ UNCHANGED <<queued, dlq, sent, acked, given, torn, pc, batch, renewal, requeue>> /\ Asleep
  BY DEF Expire, Outlive, RunsOut
<1>2. processing' \in [Messages -> Leases \cup {None}]
  BY <1>1 DEF TypeInv, StoreOK, Leases
<1>3. failed' \in [Messages -> Nat]
  BY DEF Expire, Outlive, Failed, TypeInv, StoreOK
<1>4. /\ left' \in [failures : Nat, renewals : Nat, stops : Nat, reloads : Nat, late : Nat]
      /\ left'.reloads <= MaxReloads /\ left'.late <= MaxLate
  BY QueueAssumption DEF Expire, Outlive, TypeInv, FlagsOK
<1>5. StoreOK'
  BY <1>1, <1>2, <1>3 DEF TypeInv, StoreOK
<1>6. FlagsOK'
  BY <1>1, <1>4 DEF TypeInv, FlagsOK, Asleep
<1> QED BY <1>1, <1>5, <1>6 DEF TypeInv, WorkOK, WaitOK, TimeOK, Asleep

LEMMA TimeoutType ==
    ASSUME TypeInv, \E t \in Tabs : RequeueScan(t) \/ RequeueDelete(t) \/ RequeueSet(t)
    PROVE  TypeInv'
<1>1. UNCHANGED <<pc, batch, renewal, left, waking, waiters, stopping, timers, sent, acked, failed,
                  torn>>
  BY DEF RequeueScan, RequeueDelete, RequeueSet, Ghosts, Asleep
<1>2. FlagsOK' /\ WorkOK' /\ WaitOK'
  BY <1>1 DEF TypeInv, FlagsOK, WorkOK, WaitOK
<1>3. ASSUME NEW t \in Tabs, NEW step \in {"idle", "delete", "set"}, NEW b \in Batches,
             RequeueStep(t, step, b), step = "idle" => b = NoMessages
      PROVE  TimeOK'
  BY <1>1, <1>3 DEF TypeInv, TimeOK, RequeueStep
<1>5. ASSUME NEW t \in Tabs, RequeueScan(t) PROVE TypeInv'
  <2> DEFINE dead == {m \in In(processing) : processing[m].dead}
             b == [m \in Messages |-> IF m \in dead THEN processing[m].retries ELSE None]
  <2>1. RequeueStep(t, "delete", b) /\ UNCHANGED <<queued, processing, dlq, given>>
    BY <1>5 DEF RequeueScan, Ghosts, Store
  <2>2. b \in Batches
    BY DEF TypeInv, StoreOK, Leases, Batches, In
  <2> HIDE DEF b
  <2>3. StoreOK'
    BY <1>1, <2>1 DEF TypeInv, StoreOK
  <2> QED BY <1>2, <1>3, <2>1, <2>2, <2>3 DEF TypeInv
<1>6. ASSUME NEW t \in Tabs, RequeueDelete(t) PROVE TypeInv'
  <2>1. /\ RequeueStep(t, "set", requeue[t].found) /\ UNCHANGED <<queued, dlq, given>>
        /\ processing' = [m \in Messages |->
             IF m \in In(requeue[t].found) THEN None ELSE processing[m]]
    BY <1>6 DEF RequeueDelete, Ghosts
  <2>2. requeue[t].found \in Batches
    BY DEF TypeInv, TimeOK
  <2>3. StoreOK'
    BY <1>1, <2>1 DEF TypeInv, StoreOK
  <2> QED BY <1>2, <1>3, <2>1, <2>2, <2>3 DEF TypeInv
<1>7. ASSUME NEW t \in Tabs, RequeueSet(t) PROVE TypeInv'
  <2> DEFINE found == requeue[t].found
             over == {m \in In(found) : exhausted(found[m] + 1)}
  <2>1. /\ queued' = [m \in Messages |-> IF m \in In(found) \ over THEN found[m] + 1 ELSE queued[m]]
        /\ dlq' = (IF UseDLQ THEN dlq \cup over ELSE dlq) /\ given' = given \cup over
        /\ RequeueStep(t, "idle", NoMessages) /\ UNCHANGED processing
    BY <1>7 DEF RequeueSet
  <2>2. found \in Batches /\ over \subseteq Messages
    BY DEF TypeInv, TimeOK, In
  <2> HIDE DEF found, over
  <2>3. queued' \in Batches
    BY <2>1, <2>2 DEF TypeInv, StoreOK, Batches, In
  <2>4. StoreOK'
    BY <1>1, <2>1, <2>2, <2>3 DEF TypeInv, StoreOK
  <2> QED BY <1>2, <1>3, <2>1, <2>4, NoMessagesType DEF TypeInv
<1> QED BY <1>5, <1>6, <1>7

LEMMA NextType == TypeInv /\ [Next]_vars => TypeInv'
<1> SUFFICES ASSUME TypeInv, [Next]_vars PROVE TypeInv'
  OBVIOUS
<1>1. CASE UNCHANGED vars
  BY <1>1 DEF vars, TypeInv, StoreOK, FlagsOK, WorkOK, WaitOK, TimeOK
<1> QED BY <1>1, SendType, WakeupType, WorkerType, OtherWorkerType, ReloadType, LeaseType, TimeoutType
       DEF Next

\* The records of mq.datastore.ts keep their shape: queued messages carry
\* retries and claimed ones leases, and removeQueuedWorker leaves a list of
\* waiters, whatever waits, sleeps and stops overlap.
THEOREM TypeCorrect == Spec => []TypeOK
<1>1. Spec => []TypeInv
  BY InitType, NextType, PTL DEF Spec
<1> QED BY <1>1, TypeInvTypes, PTL

-----------------------------------------------------------------------------
(* Where a message is, and how often it was tried.                         *)

LEMMA Facts ==
    ASSUME TypeInv, NEW m \in Messages
    PROVE  /\ queued[m] \in Nat \cup {None} /\ failed[m] \in Nat
           /\ processing[m] # None =>
                 /\ processing[m] = [retries |-> processing[m].retries, dead |-> processing[m].dead]
                 /\ processing[m].retries \in Nat /\ processing[m].dead \in BOOLEAN
           /\ \A w \in Workers : batch[w][m] \in Nat \cup {None}
           /\ \A w \in Workers : renewal[w] # None => renewal[w][m] \in Nat \cup {None}
           /\ \A t \in Tabs : requeue[t].found[m] \in Nat \cup {None}
           /\ \A w \in Workers : Batched(w, m) => pc[w] \in Working
           /\ None \notin Nat /\ \A r \in Nat, d \in BOOLEAN : [retries |-> r, dead |-> d] # None
<1>1. None \notin Nat /\ None \notin Leases
  BY QueueAssumption
<1>2. \A r \in Nat, d \in BOOLEAN : [retries |-> r, dead |-> d] \in Leases
  BY DEF Leases
<1>3. \A r \in Nat, d \in BOOLEAN : [retries |-> r, dead |-> d] # None
  BY <1>1, <1>2
<1>4. processing[m] # None =>
                 /\ processing[m] = [retries |-> processing[m].retries, dead |-> processing[m].dead]
                 /\ processing[m].retries \in Nat /\ processing[m].dead \in BOOLEAN
  BY DEF TypeInv, StoreOK, Leases
<1> QED BY <1>1, <1>3, <1>4 DEF TypeInv, StoreOK, WorkOK, TimeOK, Batches, Batched

\* A step that leaves the message where it is.
Untouched(m) ==
    /\ queued'[m] = queued[m] /\ processing'[m] = processing[m] /\ failed'[m] = failed[m]
    /\ (m \in sent' => m \in sent) /\ (m \in sent => m \in sent') /\ (m \in given => m \in given')
    /\ (m \in torn => m \in torn')
    /\ \A w \in Workers :
          /\ batch'[w][m] = batch[w][m]
          /\ Batched(w, m) => pc'[w] = pc[w] \/ (pc[w] = "work" /\ pc'[w] = "ack")
          /\ renewal'[w] = renewal[w] \/ ~(Renewed(w, m) \/ Renewed(w, m)')
    /\ \A t \in Tabs :
          requeue'[t] = requeue[t] \/ ~(Found(t, m) \/ Found(t, m)')

\* Such a step keeps all that is said of the message.
LEMMA Stays ==
    ASSUME NEW m \in Messages, NEW calm, MessageInv(m, calm), Untouched(m)
    PROVE  Counted(m)' /\ Kept(m)' /\ (calm => Place(m)')
<1>1. \A w \in Workers :
        /\ (Batched(w, m)' => Batched(w, m)) /\ (Batched(w, m) => Batched(w, m)')
        /\ (Claimed(w, m)' => Claimed(w, m)) /\ (Claimed(w, m) => Claimed(w, m)')
        /\ (Renewed(w, m)' => Renewed(w, m)) /\ (Renewed(w, m) => Renewed(w, m)')
        /\ Renewed(w, m) => renewal'[w][m] = renewal[w][m]
        /\ (Has(w, m)' => Has(w, m)) /\ (Has(w, m) => Has(w, m)')
  BY DEF Untouched, Batched, Claimed, Renewed, Has
<1>2. (Alive(m)' => Alive(m)) /\ (Alive(m) => Alive(m)')
  BY DEF Untouched, Alive
<1>3. \A t \in Tabs : /\ (Found(t, m)' => Found(t, m)) /\ (Found(t, m) => Found(t, m)')
                      /\ Found(t, m) => requeue'[t] = requeue[t]
  BY DEF Untouched, Found
<1>4. ASSUME calm PROVE Place(m)'
  <2>0. Place(m)
    BY <1>4 DEF MessageInv
  <2>1. ASSUME NEW w \in Workers
        PROVE  /\ Batched(w, m)' => queued'[m] # None \/ Alive(m)'
               /\ Batched(w, m)' /\ pc'[w] # "claim" => Alive(m)'
               /\ Renewed(w, m)' => Alive(m)'
    BY <1>1, <1>2, <2>0 DEF Untouched, Place
  <2>2. processing'[m] # None /\ queued'[m] # None => \E w \in Workers : Batched(w, m)' /\ pc'[w] = "unqueue"
    BY <1>1, <2>0 DEF Untouched, Place
  <2>3. processing'[m] # None /\ processing'[m].dead => queued'[m] = None /\ \A w \in Workers : ~Has(w, m)'
    BY <1>1, <2>0 DEF Untouched, Place
  <2>4. ASSUME NEW t \in Tabs, Found(t, m)'
        PROVE  /\ queued'[m] = None /\ \A w \in Workers : ~Has(w, m)'
               /\ requeue'[t].step = "delete" => processing'[m] # None /\ processing'[m].dead
               /\ requeue'[t].step = "set" => processing'[m] = None
    BY <1>1, <1>3, <2>0, <2>4 DEF Untouched, Place
  <2>5. m \notin sent' => queued'[m] = None /\ processing'[m] = None /\ \A t \in Tabs : ~Found(t, m)'
    BY <1>3, <2>0 DEF Untouched, Place
  <2> QED BY <2>1, <2>2, <2>3, <2>4, <2>5 DEF Place
<1>5. Counted(m)'
  BY <1>1, <1>3 DEF Untouched, MessageInv, Counted, Batched
<1>6. Kept(m)'
  BY <1>3 DEF Untouched, MessageInv, Kept
<1> QED BY <1>4, <1>5, <1>6

\* A worker's batch, and the others'.
LEMMA BatchOf ==
    ASSUME TypeInv, NEW w \in Workers, NEW b, batch' = [batch EXCEPT ![w] = b]
    PROVE  batch'[w] = b /\ \A u \in Workers : u # w => batch'[u] = batch[u]
BY DEF TypeInv, WorkOK

LEMMA PcOf ==
    ASSUME TypeInv, NEW w \in Workers, NEW l, Goto(w, l)
    PROVE  pc'[w] = l /\ \A u \in Workers : u # w => pc'[u] = pc[u]
BY DEF TypeInv, WorkOK, Goto

LEMMA LoopOf ==
    ASSUME TypeInv, NEW w \in Workers, Loop(w), NEW m \in Messages
    PROVE  batch'[w][m] = None /\ \A u \in Workers : u # w => batch'[u] = batch[u] /\ pc'[u] = pc[u]
<1>1. batch' = [batch EXCEPT ![w] = NoMessages] /\ Goto(w, IF stopping[w] THEN "stopped" ELSE "poll")
  BY DEF Loop
<1>2. batch'[w] = NoMessages /\ \A u \in Workers : u # w => batch'[u] = batch[u]
  BY <1>1, BatchOf
<1>3. \A u \in Workers : u # w => pc'[u] = pc[u]
  BY <1>1, PcOf
<1> QED BY <1>2, <1>3, NoMessagesType

\* batchSend puts a new message into the queue, with no retries.
LEMMA SendKeeps ==
    ASSUME TypeInv, NEW t \in Tabs, NEW n \in Messages, Send(t, n),
           NEW m \in Messages, NEW calm, MessageInv(m, calm)
    PROVE  Counted(m)' /\ Kept(m)' /\ (calm => Place(m)')
<1>1. /\ queued' = [queued EXCEPT ![n] = 0] /\ sent' = sent \cup {n} /\ n \notin sent
      /\ UNCHANGED <<processing, failed, given, torn, pc, batch, renewal, requeue>>
      /\ queued \in Batches
  BY DEF Send, TypeInv, StoreOK
<1>2. CASE m # n
  <2>1. Untouched(m)
    BY <1>1, <1>2 DEF Untouched, Batches
  <2> QED BY <2>1, Stays
<1>3. CASE m = n
  <2>1. queued'[m] = 0 /\ m \in sent'
    BY <1>1, <1>3 DEF Batches
  <2>2. failed[m] \in Nat /\ None \notin Nat
    BY Facts
  <2>3. Counted(m)'
    BY <1>1, <2>1, <2>2 DEF MessageInv, Counted, Batched, Claimed, Renewed, Found
  <2>4. ASSUME calm PROVE Place(m)'
    <3>0. Place(m)
      BY <2>4 DEF MessageInv
    <3>1. processing'[m] = None /\ \A u \in Tabs : ~Found(u, m)'
      BY <1>1, <1>3, <3>0 DEF Place, Found
    <3>2. \A w \in Workers : ~Batched(w, m) /\ ~Renewed(w, m)
      BY <1>1, <1>3, <3>0 DEF Place, Alive
    <3>3. \A w \in Workers : ~Batched(w, m)' /\ ~Renewed(w, m)' /\ ~Has(w, m)'
      BY <1>1, <3>2 DEF Batched, Renewed, Has
    <3> QED BY <2>1, <3>1, <3>3 DEF Place
  <2> QED BY <2>1, <2>2, <2>3, <2>4 DEF Kept
<1> QED BY <1>2, <1>3

\* The scan of poll reads messages that stay queued.
LEMMA PollKeeps ==
    ASSUME TypeInv, NEW w \in Workers, Poll(w), NEW m \in Messages, NEW calm, MessageInv(m, calm)
    PROVE  Counted(m)' /\ Kept(m)' /\ (calm => Place(m)')
<1> DEFINE b == [n \in Messages |-> IF n \in Oldest THEN queued[n] ELSE None]
<1>1. /\ pc[w] = "poll" /\ batch' = [batch EXCEPT ![w] = b]
      /\ UNCHANGED <<queued, processing, sent, failed, given, torn, renewal, requeue>>
      /\ Goto(w, IF In(queued) = {} THEN "empty" ELSE "claim")
  BY DEF Poll, Ghosts, Store
<1>2. /\ batch'[w] = b /\ \A u \in Workers : u # w => batch'[u] = batch[u] /\ pc'[u] = pc[u]
      /\ pc'[w] = IF In(queued) = {} THEN "empty" ELSE "claim"
  BY <1>1, BatchOf, PcOf
<1>3. batch[w][m] = None
  BY <1>1, Facts DEF Batched, Working
<1>4. CASE m \notin Oldest
  <2>1. b[m] = None
    BY <1>4
  <2>2. Untouched(m)
    BY <1>1, <1>2, <1>3, <2>1 DEF Untouched, Batched
  <2> QED BY <2>2, Stays
<1>5. CASE m \in Oldest
  <2>1. b[m] = queued[m] /\ queued[m] # None /\ In(queued) # {}
    BY <1>5 DEF Oldest, In
  <2> HIDE DEF b
  <2>2. /\ Batched(w, m)' /\ pc'[w] = "claim" /\ batch'[w][m] = queued[m]
        /\ ~Claimed(w, m) /\ ~Claimed(w, m)'
        /\ \A u \in Workers : u # w => /\ pc'[u] = pc[u] /\ batch'[u][m] = batch[u][m]
                                      /\ (Batched(u, m)' => Batched(u, m))
                                      /\ (Batched(u, m) => Batched(u, m)')
                                      /\ (Claimed(u, m) => Claimed(u, m)')
        /\ \A u \in Workers : /\ (Renewed(u, m)' => Renewed(u, m)) /\ (Renewed(u, m) => Renewed(u, m)')
                              /\ renewal'[u] = renewal[u]
        /\ (Alive(m) => Alive(m)')
    BY <1>1, <1>2, <1>3, <2>1 DEF Batched, Claimed, Renewed, Alive
  <2>3. \A u \in Workers : Claimed(u, m) => Claimed(u, m)'
    BY <2>2
  <2>4. \A t \in Tabs : requeue'[t] = requeue[t] /\ (Found(t, m)' => Found(t, m))
    BY <1>1 DEF Found
  <2>5. Counted(m)'
    BY <1>1, <2>1, <2>2, <2>3, <2>4 DEF MessageInv, Counted
  <2>6. ASSUME calm PROVE Place(m)'
    <3>0. Place(m)
      BY <2>6 DEF MessageInv
    <3>1. \A t \in Tabs : ~Found(t, m)'
      BY <1>1, <2>1, <3>0 DEF Place, Found
    <3>2. ~(processing[m] # None /\ processing[m].dead)
      BY <2>1, <3>0 DEF Place
    <3> QED BY <1>1, <1>3, <2>1, <2>2, <3>0, <3>1, <3>2 DEF Place, Batched
  <2> QED BY <1>1, <2>1, <2>5, <2>6 DEF Kept
<1> QED BY <1>4, <1>5

\* poll writes mq/processing before it deletes from mq/queued ...
LEMMA ClaimKeeps ==
    ASSUME TypeInv, NEW w \in Workers, Claim(w), NEW m \in Messages, NEW calm, MessageInv(m, calm)
    PROVE  Counted(m)' /\ Kept(m)' /\ (calm => Place(m)')
<1>1. /\ pc[w] = "claim" /\ Goto(w, "unqueue")
      /\ UNCHANGED <<queued, batch, renewal, requeue, sent, failed, given, torn>>
      /\ processing' = [n \in Messages |->
           IF n \in In(batch[w]) THEN [retries |-> batch[w][n], dead |-> FALSE]
           ELSE processing[n]]
  BY DEF Claim, Ghosts
<1>2. pc'[w] = "unqueue" /\ \A u \in Workers : u # w => pc'[u] = pc[u]
  BY <1>1, PcOf
<1>3. CASE batch[w][m] = None
  <2>1. Untouched(m)
    BY <1>1, <1>2, <1>3 DEF Untouched, Batched, In
  <2> QED BY <2>1, Stays
<1>4. CASE batch[w][m] # None
  <2>1. processing'[m] = [retries |-> batch[w][m], dead |-> FALSE]
    BY <1>1, <1>4 DEF In
  <2>2. batch[w][m] \in Nat /\ processing'[m] # None
    BY <1>4, <2>1, Facts
  <2>3. processing'[m].retries = batch[w][m] /\ ~processing'[m].dead /\ Alive(m)'
    BY <2>1, <2>2 DEF Alive
  <2>4. \A u \in Workers : /\ (Renewed(u, m)' => Renewed(u, m)) /\ (Batched(u, m)' => Batched(u, m))
                           /\ (Batched(u, m) => Batched(u, m)')
                           /\ renewal'[u] = renewal[u] /\ batch'[u] = batch[u]
    BY <1>1 DEF Renewed, Batched
  <2>5. Has(w, m) /\ Batched(w, m) /\ Claimed(w, m)'
    BY <1>1, <1>2, <1>4 DEF Has, Batched, Claimed
  <2>6. \A t \in Tabs : requeue'[t] = requeue[t] /\ (Found(t, m)' => Found(t, m))
    BY <1>1 DEF Found
  <2>7. Counted(m)'
    BY <1>1, <2>2, <2>3, <2>4, <2>5, <2>6 DEF MessageInv, Counted
  <2>8. ASSUME calm PROVE Place(m)'
    <3>0. Place(m)
      BY <2>8 DEF MessageInv
    <3>1. \A t \in Tabs : ~Found(t, m)'
      BY <2>5, <2>6, <3>0 DEF Place
    <3>2. m \in sent'
      BY <1>1, <2>5, <3>0 DEF Place, Alive
    <3> QED BY <1>2, <2>2, <2>3, <2>4, <2>5, <3>1, <3>2 DEF Place
  <2> QED BY <2>2, <2>7, <2>8 DEF Kept
<1> QED BY <1>3, <1>4

\* ... so that the deletion leaves the copy with the lease, or a requeue holds
\* one, or it is the last that goes.
LEMMA UnqueueKeeps ==
    ASSUME TypeInv, NEW w \in Workers, Unqueue(w), NEW m \in Messages \ acked, NEW calm,
           MessageInv(m, calm)
    PROVE  Counted(m)' /\ Kept(m)' /\ (calm => Place(m)')
<1>0. m \in Messages /\ m \notin acked
  OBVIOUS
<1>1. /\ pc[w] = "unqueue" /\ Goto(w, "work")
      /\ UNCHANGED <<processing, batch, renewal, requeue, sent, failed, given>>
      /\ queued' = [n \in Messages |-> IF n \in In(batch[w]) THEN None ELSE queued[n]]
      /\ torn' = torn \cup
           ((In(batch[w]) \cap In(queued)) \ (acked \cup In(processing) \cup Requeued(Tabs)))
  BY DEF Unqueue
<1>2. pc'[w] = "work" /\ \A u \in Workers : u # w => pc'[u] = pc[u]
  BY <1>1, PcOf
<1>3. CASE batch[w][m] = None
  <2>1. Untouched(m)
    BY <1>0, <1>1, <1>2, <1>3 DEF Untouched, Batched, In
  <2> QED BY <1>0, <2>1, Stays
<1>4. CASE batch[w][m] # None
  <2>1. queued'[m] = None
    BY <1>0, <1>1, <1>4 DEF In
  <2>2. \A u \in Workers : /\ (Renewed(u, m)' => Renewed(u, m)) /\ (Batched(u, m)' => Batched(u, m))
                           /\ (Batched(u, m) => Batched(u, m)') /\ (Claimed(u, m) => Claimed(u, m)')
                           /\ renewal'[u] = renewal[u] /\ batch'[u] = batch[u]
    BY <1>1, <1>2 DEF Renewed, Batched, Claimed
  <2>3. \A t \in Tabs : requeue'[t] = requeue[t] /\ (Found(t, m)' => Found(t, m))
                        /\ (Found(t, m) => Found(t, m)')
    BY <1>1 DEF Found
  <2>4. Counted(m)'
    BY <1>1, <2>1, <2>2, <2>3 DEF MessageInv, Counted
  <2>5. Kept(m)'
    <3>1. CASE queued[m] = None
      BY <1>1, <2>3, <3>1 DEF MessageInv, Kept
    <3>2. CASE m \in Requeued(Tabs)
      BY <1>1, <2>3, <3>2 DEF Kept, Requeued, Found
    <3>3. CASE processing[m] # None
      BY <1>1, <3>3 DEF Kept
    <3>4. CASE queued[m] # None /\ processing[m] = None /\ m \notin Requeued(Tabs)
      <4>1. m \in In(batch[w]) /\ m \in In(queued) /\ m \notin In(processing)
        BY <1>0, <1>4, <3>4 DEF In
      <4> QED BY <1>0, <1>1, <3>4, <4>1 DEF Kept
    <3> QED BY <3>1, <3>2, <3>3, <3>4
  <2>6. ASSUME calm PROVE Place(m)'
    <3>0. Place(m)
      BY <2>6 DEF MessageInv
    <3>1. Batched(w, m) /\ Has(w, m) /\ Alive(m)
      BY <1>1, <1>4, <3>0 DEF Batched, Has, Place
    <3>2. Alive(m)' /\ processing[m] # None /\ ~processing[m].dead
      BY <1>1, <3>1 DEF Alive
    <3>3. \A t \in Tabs : ~Found(t, m)'
      BY <2>3, <3>0, <3>1 DEF Place
    <3>4. m \in sent'
      BY <1>1, <3>0, <3>2 DEF Place
    <3> QED BY <1>1, <2>1, <3>2, <3>3, <3>4 DEF Place
  <2> QED BY <2>4, <2>5, <2>6
<1> QED BY <1>3, <1>4

\* The steps that leave every message alone.
LEMMA IdleKeeps ==
    ASSUME TypeInv, NEW m \in Messages, NEW calm, MessageInv(m, calm),
           \/ \E t \in Tabs : Wakeup(t)
           \/ \E w \in Workers : \/ Succeed(w) \/ Wait(w) \/ Elapse(w) \/ Subscribe(w)
                                 \/ ElapseLate(w) \/ Stop(w)
           \/ UNCHANGED vars
    PROVE  Counted(m)' /\ Kept(m)' /\ (calm => Place(m)')
<1>1. UNCHANGED <<queued, processing, batch, renewal, requeue, sent, failed, given, torn>>
  BY DEF Wakeup, Succeed, Wait, Elapse, Subscribe, ElapseLate, Stop, vars, Ghosts, Store
<1>2. ASSUME NEW u \in Workers, Batched(u, m)
      PROVE  pc'[u] = pc[u] \/ (pc[u] = "work" /\ pc'[u] = "ack")
  <2>1. pc[u] \in Working
    BY <1>2, Facts
  <2>2. ASSUME NEW w \in Workers, NEW l, Goto(w, l), pc[w] \notin Working \/ l = pc[w]
        PROVE  pc'[u] = pc[u]
    BY <2>1, <2>2, PcOf
  <2>3. ASSUME NEW t \in Tabs, Wakeup(t) PROVE pc'[u] = pc[u]
    <3>1. CASE waiters[t] = <<>>
      BY <2>3, <3>1 DEF Wakeup
    <3>2. CASE waiters[t] # <<>>
      <4>1. PICK w : w = Head(waiters[t])
        OBVIOUS
      <4>2. waiters[t] \in Seq(Workers)
        BY DEF TypeInv, WaitOK
      <4>3. Len(waiters[t]) \in Nat /\ Len(waiters[t]) >= 1 /\ w = waiters[t][1] /\ w \in Workers
        BY <3>2, <4>1, <4>2
      <4>4. pc[w] = "wait"
        BY <4>3 DEF TypeInv, WaitOK
      <4>5. \E l : Goto(w, l)
        BY <2>3, <3>2, <4>1 DEF Wakeup
      <4> QED BY <2>2, <4>3, <4>4, <4>5 DEF Working
    <3> QED BY <3>1, <3>2
  <2>4. ASSUME NEW w \in Workers, Wait(w) \/ Elapse(w) \/ Subscribe(w) PROVE pc'[u] = pc[u]
    <3>1. pc[w] \notin Working /\ \E l : Goto(w, l)
      BY <2>4 DEF Wait, Elapse, Subscribe, Working
    <3> QED BY <2>2, <3>1
  <2>5. ASSUME NEW w \in Workers, ElapseLate(w) PROVE pc'[u] = pc[u]
    BY <2>5 DEF ElapseLate
  <2>6. ASSUME NEW w \in Workers, Stop(w) PROVE pc'[u] = pc[u]
    <3>1. PICK l : Goto(w, l) /\ (pc[w] \notin Working \/ l = pc[w])
      BY <2>6 DEF Stop, Working
    <3> QED BY <2>2, <3>1
  <2>7. ASSUME NEW w \in Workers, Succeed(w)
        PROVE  pc'[u] = pc[u] \/ (pc[u] = "work" /\ pc'[u] = "ack")
    BY <2>7, PcOf DEF Succeed
  <2> QED BY <2>3, <2>4, <2>5, <2>6, <2>7 DEF vars
<1>3. Untouched(m)
  BY <1>1, <1>2 DEF Untouched
<1> QED BY <1>3, Stays

\* batchAck touches only what it acknowledges.
LEMMA AckKeeps ==
    ASSUME TypeInv, NEW w \in Workers, Ack(w), NEW m \in Messages \ acked', NEW calm,
           MessageInv(m, calm)
    PROVE  Counted(m)' /\ Kept(m)' /\ (calm => Place(m)')
<1>1. /\ UNCHANGED <<queued, sent, failed, given, torn, renewal, requeue>>
      /\ acked' = acked \cup In(batch[w])
      /\ processing' = [n \in Messages |-> IF n \in In(batch[w]) THEN None ELSE processing[n]]
      /\ Loop(w)
  BY DEF Ack
<1>2. batch[w][m] = None /\ m \notin In(batch[w])
  BY <1>1 DEF In
<1>3. batch'[w][m] = None /\ \A u \in Workers : u # w => batch'[u] = batch[u] /\ pc'[u] = pc[u]
  BY <1>1, LoopOf
<1>4. Untouched(m)
  BY <1>1, <1>2, <1>3 DEF Untouched, Batched
<1> QED BY <1>4, Stays

\* A delivery that ends badly: the workers that claimed the message are fewer,
\* or its lease ran out, and the retries of the copies fall behind.
LEMMA Missed ==
    ASSUME TypeInv, NEW m \in Messages, Counted(m), failed'[m] = failed[m] + 1,
           queued'[m] = queued[m],
           processing'[m] # None => processing[m] # None /\ processing'[m].retries = processing[m].retries,
           \A w \in Workers : /\ Batched(w, m)' => batch'[w][m] = batch[w][m]
                              /\ Renewed(w, m)' => renewal'[w] = renewal[w],
           \A t \in Tabs : Found(t, m)' => requeue'[t].found[m] = requeue[t].found[m]
    PROVE  Counted(m)'
<1>1. /\ failed[m] \in Nat /\ queued[m] \in Nat \cup {None}
      /\ processing[m] # None => processing[m].retries \in Nat
      /\ \A w \in Workers : batch[w][m] \in Nat \cup {None}
      /\ \A w \in Workers : renewal[w] # None => renewal[w][m] \in Nat \cup {None}
      /\ \A t \in Tabs : requeue[t].found[m] \in Nat \cup {None}
  BY Facts
<1>2. queued'[m] # None => queued'[m] <= failed'[m]
  BY <1>1 DEF Counted
<1>3. processing'[m] # None => processing'[m].retries < failed'[m]
  BY <1>1 DEF Counted
<1>4. ASSUME NEW w \in Workers, Batched(w, m)' PROVE batch'[w][m] <= failed'[m]
  BY <1>1, <1>4 DEF Counted, Batched
<1>5. ASSUME NEW w \in Workers, Renewed(w, m)' PROVE renewal'[w][m] < failed'[m]
  BY <1>1, <1>5 DEF Counted, Renewed
<1>6. ASSUME NEW t \in Tabs, Found(t, m)' PROVE requeue'[t].found[m] < failed'[m]
  BY <1>1, <1>6 DEF Counted, Found
<1>7. /\ processing'[m] # None => processing'[m].retries \in Nat
      /\ \A w \in Workers : Renewed(w, m)' => renewal'[w][m] \in Nat
      /\ failed'[m] \in Nat
  BY <1>1 DEF Renewed
<1> QED BY <1>2, <1>3, <1>4, <1>5, <1>6, <1>7 DEF Counted

\* A callback that fails leaves a copy whose retries fall behind the failures.
LEMMA FailKeeps ==
    ASSUME TypeInv, NEW w \in Workers, Fail(w), NEW m \in Messages, NEW calm, MessageInv(m, calm)
    PROVE  Counted(m)' /\ Kept(m)' /\ (calm => Place(m)')
<1>1. /\ pc[w] = "work" /\ UNCHANGED <<queued, processing, sent, given, torn, renewal, requeue>>
      /\ failed' = [n \in Messages |-> IF n \in In(batch[w]) THEN failed[n] + 1 ELSE failed[n]]
      /\ Loop(w)
  BY DEF Fail, Failed, Store
<1>2. batch'[w][m] = None /\ \A u \in Workers : u # w => batch'[u] = batch[u] /\ pc'[u] = pc[u]
  BY <1>1, LoopOf
<1>3. CASE batch[w][m] = None
  <2>1. Untouched(m)
    BY <1>1, <1>2, <1>3 DEF Untouched, Batched, In
  <2> QED BY <2>1, Stays
<1>4. CASE batch[w][m] # None
  <2>1. failed'[m] = failed[m] + 1 /\ Counted(m)
    BY <1>1, <1>4 DEF In, MessageInv
  <2>2. \A u \in Workers :
          /\ Batched(u, m)' => Batched(u, m) /\ u # w /\ batch'[u] = batch[u] /\ pc'[u] = pc[u]
          /\ Batched(u, m) /\ u # w => Batched(u, m)'
          /\ (Renewed(u, m)' => Renewed(u, m)) /\ renewal'[u] = renewal[u]
    BY <1>1, <1>2 DEF Batched, Renewed
  <2>3. \A t \in Tabs : requeue'[t] = requeue[t] /\ (Found(t, m)' => Found(t, m))
                        /\ (Found(t, m) => Found(t, m)')
    BY <1>1 DEF Found
  <2>4. Counted(m)'
    BY <1>1, <2>1, <2>2, <2>3, Missed
  <2>5. Kept(m)'
    BY <1>1, <2>3 DEF MessageInv, Kept
  <2>6. ASSUME calm PROVE Place(m)'
    <3>0. Place(m)
      BY <2>6 DEF MessageInv
    <3>1. Batched(w, m) /\ Has(w, m) /\ Alive(m)
      BY <1>1, <1>4, <3>0 DEF Batched, Has, Place
    <3>2. Alive(m)' /\ processing[m] # None /\ ~processing[m].dead
      BY <1>1, <3>1 DEF Alive
    <3>3. \A t \in Tabs : ~Found(t, m)'
      BY <2>3, <3>0, <3>1 DEF Place
    <3>4. m \in sent'
      BY <1>1, <3>0, <3>2 DEF Place
    <3> QED BY <1>1, <2>2, <3>0, <3>2, <3>3, <3>4 DEF Place
  <2> QED BY <2>4, <2>5, <2>6
<1> QED BY <1>3, <1>4

\* A tab that dies leaves what its workers had claimed behind, as if their
\* callbacks had failed, and what its requeue held is gone.
LEMMA ReloadKeeps ==
    ASSUME TypeInv, NEW t \in Tabs, Reload(t), NEW m \in Messages \ acked, Counted(m), Kept(m)
    PROVE  Counted(m)' /\ Kept(m)'
<1> DEFINE mine == {w \in Workers : Home[w] = t}
           held == UNION {In(batch[w]) : w \in {v \in mine : pc[v] # "claim"}}
<1>0. m \in Messages /\ m \notin acked
  OBVIOUS
<1>1. /\ pc' = [w \in Workers |-> IF w \in mine THEN "poll" ELSE pc[w]]
      /\ batch' = [w \in Workers |-> IF w \in mine THEN NoMessages ELSE batch[w]]
      /\ renewal' = [w \in Workers |-> IF w \in mine THEN None ELSE renewal[w]]
      /\ requeue' = [requeue EXCEPT ![t] = [step |-> "idle", found |-> NoMessages]]
      /\ UNCHANGED <<sent, acked, given, queued, processing>>
  BY DEF Reload, Store
<1>2. torn' = torn \cup
        (Requeued({t}) \ (acked \cup In(queued) \cup In(processing) \cup Requeued(Tabs \ {t})))
  BY DEF Reload
<1>3. failed' = [n \in Messages |-> IF n \in held THEN failed[n] + 1 ELSE failed[n]]
  BY DEF Reload, Failed
<1>4. \A u \in Tabs : /\ u # t => requeue'[u] = requeue[u]
                      /\ ~Found(t, m)'
                      /\ Found(u, m)' => u # t /\ Found(u, m)
                      /\ Found(u, m) /\ u # t => Found(u, m)'
  BY <1>0, <1>1, NoMessagesType DEF TypeInv, TimeOK, Found
<1>5. \A w \in Workers :
        /\ Batched(w, m)' => Batched(w, m) /\ batch'[w] = batch[w]
        /\ Renewed(w, m)' => Renewed(w, m) /\ renewal'[w] = renewal[w]
        /\ Claimed(w, m) /\ w \notin mine => Claimed(w, m)'
  BY <1>0, <1>1, NoMessagesType DEF Batched, Renewed, Claimed
<1>6. \A w \in mine : Claimed(w, m) => m \in held
  BY <1>0 DEF Claimed, In
<1> HIDE DEF held
<1>7. Counted(m)'
  <2>1. CASE m \in held
    <3>1. failed'[m] = failed[m] + 1
      BY <1>0, <1>3, <2>1
    <3>2. \A w \in Workers : /\ Batched(w, m)' => batch'[w][m] = batch[w][m]
                             /\ Renewed(w, m)' => renewal'[w] = renewal[w]
      BY <1>5
    <3>3. \A u \in Tabs : Found(u, m)' => requeue'[u].found[m] = requeue[u].found[m]
      BY <1>4
    <3> QED BY <1>0, <1>1, <3>1, <3>2, <3>3, Missed
  <2>2. CASE m \notin held
    <3>1. failed'[m] = failed[m]
      BY <1>0, <1>3, <2>2
    <3>2. \A w \in Workers : Claimed(w, m) => Claimed(w, m)'
      BY <1>5, <1>6, <2>2
    <3> QED BY <1>1, <1>4, <1>5, <3>1, <3>2 DEF Counted
  <2> QED BY <2>1, <2>2
<1>8. Kept(m)'
  <2>1. CASE \E u \in Tabs : u # t /\ Found(u, m) /\ requeue[u].step = "set"
    BY <1>1, <1>4, <2>1 DEF Kept
  <2>2. CASE queued[m] # None \/ processing[m] # None \/ m \in given \/ m \in torn \/ m \notin sent
    BY <1>1, <1>2, <2>2 DEF Kept
  <2>3. CASE /\ queued[m] = None /\ processing[m] = None /\ Found(t, m) /\ requeue[t].step = "set"
             /\ ~\E u \in Tabs : u # t /\ Found(u, m) /\ requeue[u].step = "set"
    <3>1. m \in Requeued({t}) /\ m \notin In(queued) /\ m \notin In(processing)
          /\ m \notin Requeued(Tabs \ {t})
      BY <1>0, <2>3 DEF Requeued, In, Found
    <3> QED BY <1>0, <1>2, <3>1 DEF Kept
  <2> QED BY <2>1, <2>2, <2>3 DEF Kept
<1> QED BY <1>7, <1>8

\* A worker that is overtaken by its lease counts as one that failed.
LEMMA OutliveKeeps ==
    ASSUME TypeInv, NEW n \in Messages, Outlive(n), NEW m \in Messages, Counted(m), Kept(m)
    PROVE  Counted(m)' /\ Kept(m)'
<1>1. /\ processing[n] # None /\ processing' = [processing EXCEPT ![n].dead = TRUE]
      /\ UNCHANGED <<queued, sent, given, torn, pc, batch, renewal, requeue>>
      /\ failed' = [l \in Messages |-> IF l \in {n} THEN failed[l] + 1 ELSE failed[l]]
      /\ processing \in [Messages -> Leases \cup {None}]
  BY DEF Outlive, RunsOut, Failed, TypeInv, StoreOK
<1>2. CASE m # n
  <2>1. Untouched(m)
    BY <1>1, <1>2 DEF Untouched
  <2> QED BY <2>1, Stays DEF MessageInv
<1>3. CASE m = n
  <2>1. processing[m] \in Leases /\ processing'[m] = [processing[m] EXCEPT !.dead = TRUE]
    BY <1>1, <1>3
  <2>2. processing'[m].retries = processing[m].retries /\ processing'[m] \in Leases
    BY <2>1 DEF Leases
  <2>3. processing'[m] # None
    BY <2>2, QueueAssumption
  <2>4. failed'[m] = failed[m] + 1
    BY <1>1, <1>3
  <2>5. Counted(m)'
    BY <1>1, <1>3, <2>2, <2>4, Missed
  <2> QED BY <2>3, <2>5 DEF Kept
<1> QED BY <1>2, <1>3

\* renewLease writes back the retries it read.
LEMMA RenewKeeps ==
    ASSUME TypeInv, NEW w \in Workers, RenewRead(w) \/ RenewWrite(w),
           NEW m \in Messages, NEW calm, MessageInv(m, calm)
    PROVE  Counted(m)' /\ Kept(m)' /\ (calm => Place(m)')
<1>1. CASE RenewRead(w)
  <2> DEFINE b == [n \in Messages |-> IF n \in In(batch[w]) /\ processing[n] # None
                                      THEN processing[n].retries ELSE None]
  <2>1. /\ pc[w] \in {"work", "ack"} /\ renewal[w] = None
        /\ UNCHANGED <<queued, processing, sent, failed, given, torn, pc, batch, requeue>>
        /\ renewal' = [renewal EXCEPT ![w] = b]
    BY <1>1 DEF RenewRead, Ghosts, Store
  <2>2. renewal'[w] = b /\ \A u \in Workers : u # w => renewal'[u] = renewal[u]
    BY <2>1 DEF TypeInv, TimeOK
  <2>3. CASE b[m] = None
    <3>1. ~Renewed(w, m) /\ ~Renewed(w, m)'
      BY <2>1, <2>2, <2>3 DEF Renewed
    <3>2. Untouched(m)
      BY <2>1, <2>2, <3>1 DEF Untouched
    <3> QED BY <3>2, Stays
  <2>4. CASE b[m] # None
    <3>1. batch[w][m] # None /\ processing[m] # None /\ b[m] = processing[m].retries
      BY <2>4 DEF In
    <3> HIDE DEF b
    <3>2. Batched(w, m) /\ Has(w, m)
      BY <3>1 DEF Batched, Has
    <3>3. \A u \in Workers :
            /\ (Batched(u, m)' => Batched(u, m)) /\ (Batched(u, m) => Batched(u, m)')
            /\ (Claimed(u, m) => Claimed(u, m)') /\ batch'[u] = batch[u]
            /\ Renewed(u, m)' => (u = w /\ renewal'[u][m] = processing[m].retries)
                                 \/ (u # w /\ Renewed(u, m) /\ renewal'[u] = renewal[u])
      BY <2>1, <2>2, <3>1 DEF Batched, Claimed, Renewed
    <3>4. \A t \in Tabs : requeue'[t] = requeue[t] /\ (Found(t, m)' => Found(t, m))
                          /\ (Found(t, m) => Found(t, m)')
      BY <2>1 DEF Found
    <3>5. Counted(m)'
      BY <2>1, <3>1, <3>2, <3>3, <3>4 DEF MessageInv, Counted
    <3>6. Kept(m)'
      BY <2>1, <3>1 DEF Kept
    <3>7. ASSUME calm PROVE Place(m)'
      <4>0. Place(m)
        BY <3>7 DEF MessageInv
      <4>1. Alive(m)
        BY <2>1, <3>2, <4>0 DEF Place
      <4>2. Alive(m)' /\ ~processing[m].dead
        BY <2>1, <4>1 DEF Alive
      <4>3. \A t \in Tabs : ~Found(t, m)'
        BY <3>2, <3>4, <4>0 DEF Place
      <4> QED BY <2>1, <3>3, <4>0, <4>2, <4>3 DEF Place
    <3> QED BY <3>5, <3>6, <3>7
  <2> QED BY <2>3, <2>4
<1>2. CASE RenewWrite(w)
  <2>1. /\ renewal[w] # None /\ renewal' = [renewal EXCEPT ![w] = None]
        /\ processing' = [n \in Messages |->
             IF n \in In(renewal[w]) THEN [retries |-> renewal[w][n], dead |-> FALSE]
             ELSE processing[n]]
        /\ UNCHANGED <<queued, sent, failed, given, torn, pc, batch, requeue>>
    BY <1>2 DEF RenewWrite, Ghosts
  <2>2. renewal'[w] = None /\ \A u \in Workers : u # w => renewal'[u] = renewal[u]
    BY <2>1 DEF TypeInv, TimeOK
  <2>3. CASE renewal[w][m] = None
    <3>1. ~Renewed(w, m) /\ ~Renewed(w, m)'
      BY <2>2, <2>3 DEF Renewed
    <3>2. Untouched(m)
      BY <2>1, <2>2, <2>3, <3>1 DEF Untouched, In
    <3> QED BY <3>2, Stays
  <2>4. CASE renewal[w][m] # None
    <3>1. processing'[m] = [retries |-> renewal[w][m], dead |-> FALSE]
      BY <2>1, <2>4 DEF In
    <3>2. renewal[w][m] \in Nat /\ processing'[m] # None
      BY <2>1, <2>4, <3>1, Facts
    <3>3. processing'[m].retries = renewal[w][m] /\ ~processing'[m].dead /\ Alive(m)'
      BY <3>1, <3>2 DEF Alive
    <3>4. Renewed(w, m) /\ Has(w, m)
      BY <2>1, <2>4 DEF Renewed, Has
    <3>5. \A u \in Workers :
            /\ (Batched(u, m)' => Batched(u, m)) /\ (Batched(u, m) => Batched(u, m)')
            /\ (Claimed(u, m) => Claimed(u, m)') /\ batch'[u] = batch[u]
            /\ Renewed(u, m)' => Renewed(u, m) /\ renewal'[u] = renewal[u]
      BY <2>1, <2>2 DEF Batched, Claimed, Renewed
    <3>6. \A t \in Tabs : requeue'[t] = requeue[t] /\ (Found(t, m)' => Found(t, m))
                          /\ (Found(t, m) => Found(t, m)')
      BY <2>1 DEF Found
    <3>7. Counted(m)'
      BY <2>1, <3>3, <3>4, <3>5, <3>6 DEF MessageInv, Counted
    <3>8. ASSUME calm PROVE Place(m)'
      <4>0. Place(m)
        BY <3>8 DEF MessageInv
      <4>1. Alive(m) /\ processing[m] # None
        BY <3>4, <4>0 DEF Place, Alive
      <4>2. (\A t \in Tabs : ~Found(t, m)') /\ m \in sent'
        BY <2>1, <3>4, <3>6, <4>0, <4>1 DEF Place
      <4> QED BY <2>1, <3>3, <3>5, <4>0, <4>1, <4>2 DEF Place
    <3> QED BY <3>2, <3>7, <3>8 DEF Kept
  <2> QED BY <2>3, <2>4
<1> QED BY <1>1, <1>2

\* A lease runs out when no worker has the message any more.
LEMMA ExpireKeeps ==
    ASSUME TypeInv, NEW n \in Messages, Expire(n), NEW m \in Messages, NEW calm, MessageInv(m, calm)
    PROVE  Counted(m)' /\ Kept(m)' /\ (calm => Place(m)')
<1>1. /\ processing[n] # None /\ processing' = [processing EXCEPT ![n].dead = TRUE]
      /\ \A w \in Workers : ~Has(w, n)
      /\ UNCHANGED <<queued, sent, failed, given, torn, pc, batch, renewal, requeue>>
      /\ processing \in [Messages -> Leases \cup {None}]
  BY DEF Expire, RunsOut, TypeInv, StoreOK
<1>2. CASE m # n
  <2>1. Untouched(m)
    BY <1>1, <1>2 DEF Untouched
  <2> QED BY <2>1, Stays
<1>3. CASE m = n
  <2>1. \A w \in Workers : ~Has(w, m) /\ ~Batched(w, m) /\ ~Claimed(w, m) /\ ~Renewed(w, m)
    BY <1>1, <1>3 DEF Has, Batched, Claimed, Renewed
  <2>2. \A w \in Workers : ~Has(w, m)' /\ ~Batched(w, m)' /\ ~Claimed(w, m)' /\ ~Renewed(w, m)'
    BY <1>1, <2>1 DEF Has, Batched, Claimed, Renewed
  <2>3. processing[m].retries < failed[m]
    BY <1>1, <1>3, <2>1 DEF MessageInv, Counted
  <2>4. processing[m] \in Leases
    BY <1>1, <1>3
  <2>5. processing'[m] = [processing[m] EXCEPT !.dead = TRUE]
    BY <1>1, <1>3
  <2>6. processing'[m] = [retries |-> processing[m].retries, dead |-> TRUE]
        /\ processing[m].retries \in Nat
    BY <2>4, <2>5 DEF Leases
  <2>7. processing'[m] # None /\ processing'[m].dead /\ processing'[m].retries = processing[m].retries
    <3>1. [retries |-> processing[m].retries, dead |-> TRUE] \in Leases
      BY <2>6 DEF Leases
    <3>2. processing'[m] # None
      BY <2>6, <3>1, QueueAssumption
    <3> QED BY <2>6, <3>2
  <2>8. \A t \in Tabs : /\ Found(t, m)' => Found(t, m)
                        /\ requeue'[t] = requeue[t]
    BY <1>1 DEF Found
  <2>9. ASSUME calm PROVE Place(m)'
    <3>0. Place(m)
      BY <2>9 DEF MessageInv
    <3>1. queued[m] = None /\ m \in sent
      BY <1>1, <1>3, <2>1, <3>0 DEF Place
    <3> QED BY <1>1, <1>3, <2>2, <2>7, <2>8, <3>0, <3>1 DEF Place
  <2>10. processing[m].retries \in Nat /\ failed[m] \in Nat
    BY <2>6, Facts
  <2>11. Counted(m)'
    BY <1>1, <2>2, <2>3, <2>7, <2>8, <2>10 DEF MessageInv, Counted
  <2> QED BY <2>7, <2>9, <2>11 DEF Kept
<1> QED BY <1>2, <1>3

\* What requeueTimeouts found carries fewer retries than deliveries ended badly;
\* in one tab it stays where it was found, and out of reach of the workers,
\* until it is deleted there and then written back.
LEMMA RequeueKeeps ==
    ASSUME TypeInv, NEW t \in Tabs, RequeueScan(t) \/ RequeueDelete(t) \/ RequeueSet(t),
           NEW m \in Messages, NEW calm, calm => \A u \in Tabs : u = t, MessageInv(m, calm)
    PROVE  Counted(m)' /\ Kept(m)' /\ (calm => Place(m)')
<1>1. /\ UNCHANGED <<pc, batch, renewal, sent, failed, torn>>
      /\ requeue \in [Tabs -> [step : {"idle", "delete", "set"}, found : Batches]]
  BY DEF RequeueScan, RequeueDelete, RequeueSet, Ghosts, TypeInv, TimeOK
<1>2. \A w \in Workers : /\ (Batched(w, m)' => Batched(w, m)) /\ (Batched(w, m) => Batched(w, m)')
                         /\ (Claimed(w, m)' => Claimed(w, m)) /\ (Claimed(w, m) => Claimed(w, m)')
                         /\ (Renewed(w, m)' => Renewed(w, m)) /\ (Has(w, m)' => Has(w, m))
                         /\ batch'[w] = batch[w] /\ renewal'[w] = renewal[w]
  BY <1>1 DEF Batched, Claimed, Renewed, Has
<1>3. CASE RequeueScan(t)
  <2> DEFINE dead == {n \in In(processing) : processing[n].dead}
             b == [n \in Messages |-> IF n \in dead THEN processing[n].retries ELSE None]
  <2>1. RequeueStep(t, "delete", b) /\ UNCHANGED <<queued, processing, given>> /\ requeue[t].step = "idle"
    BY <1>3 DEF RequeueScan, Ghosts, Store
  <2>2. /\ requeue'[t].step = "delete" /\ requeue'[t].found = b
        /\ \A u \in Tabs : u # t => requeue'[u] = requeue[u]
    BY <1>1, <2>1 DEF RequeueStep
  <2>3. ~Found(t, m)
    BY <2>1, NoMessagesType DEF TypeInv, TimeOK, Found
  <2>4. CASE m \notin dead
    <3>1. b[m] = None
      BY <2>4
    <3>2. ~Found(t, m)'
      BY <2>2, <3>1 DEF Found
    <3>3. Untouched(m)
      BY <1>1, <2>1, <2>2, <2>3, <3>2 DEF Untouched
    <3> QED BY <3>3, Stays
  <2>5. CASE m \in dead
    <3>1. b[m] = processing[m].retries /\ processing[m] # None /\ processing[m].dead
      BY <2>5 DEF In
    <3> HIDE DEF b, dead
    <3>2. processing[m].retries < failed[m]
      BY <3>1 DEF MessageInv, Counted
    <3>3. ASSUME NEW u \in Tabs, Found(u, m)' PROVE requeue'[u].found[m] < failed'[m]
      BY <1>1, <2>2, <3>1, <3>2, <3>3 DEF MessageInv, Counted, Found
    <3>4. Counted(m)'
      BY <1>1, <1>2, <2>1, <3>3 DEF MessageInv, Counted
    <3>5. ASSUME calm PROVE Place(m)'
      <4>0. Place(m) /\ \A u \in Tabs : u = t
        BY <3>5 DEF MessageInv
      <4>1. queued[m] = None /\ (\A w \in Workers : ~Has(w, m)) /\ m \in sent
        BY <3>1, <4>0 DEF Place
      <4>2. \A w \in Workers : ~Batched(w, m) /\ ~Renewed(w, m)
        BY <4>1 DEF Has, Batched, Renewed
      <4> QED BY <1>1, <1>2, <2>1, <2>2, <3>1, <4>0, <4>1, <4>2 DEF Place
    <3> QED BY <2>1, <3>1, <3>4, <3>5 DEF Kept
  <2> QED BY <2>4, <2>5
<1>4. CASE RequeueDelete(t)
  <2>1. /\ RequeueStep(t, "set", requeue[t].found) /\ UNCHANGED <<queued, given>>
        /\ requeue[t].step = "delete"
        /\ processing' = [n \in Messages |->
             IF n \in In(requeue[t].found) THEN None ELSE processing[n]]
    BY <1>4 DEF RequeueDelete, Ghosts
  <2>2. /\ requeue'[t].step = "set" /\ requeue'[t].found = requeue[t].found
        /\ \A u \in Tabs : u # t => requeue'[u] = requeue[u]
    BY <1>1, <2>1 DEF RequeueStep
  <2>3. CASE ~Found(t, m)
    <3>1. ~Found(t, m)' /\ processing'[m] = processing[m]
      BY <2>1, <2>2, <2>3 DEF Found, In
    <3>2. Untouched(m)
      BY <1>1, <2>1, <2>2, <2>3, <3>1 DEF Untouched
    <3> QED BY <3>2, Stays
  <2>4. CASE Found(t, m)
    <3>1. processing'[m] = None /\ Found(t, m)'
      BY <2>1, <2>2, <2>4 DEF Found, In
    <3>2. \A u \in Tabs : requeue'[u].found = requeue[u].found /\ (Found(u, m)' => Found(u, m))
      BY <2>2 DEF Found
    <3>3. Counted(m)'
      BY <1>1, <1>2, <2>1, <3>1, <3>2 DEF MessageInv, Counted
    <3>4. ASSUME calm PROVE Place(m)'
      <4>0. Place(m) /\ \A u \in Tabs : u = t
        BY <3>4 DEF MessageInv
      <4>1. queued[m] = None /\ (\A w \in Workers : ~Has(w, m)) /\ m \in sent
        BY <2>4, <4>0 DEF Place
      <4>2. \A w \in Workers : ~Batched(w, m) /\ ~Renewed(w, m)
        BY <4>1 DEF Has, Batched, Renewed
      <4> QED BY <1>1, <1>2, <2>1, <2>2, <3>1, <4>0, <4>1, <4>2 DEF Place
    <3> QED BY <2>2, <3>1, <3>3, <3>4 DEF Kept
  <2> QED BY <2>3, <2>4
<1>5. CASE RequeueSet(t)
  <2> DEFINE found == requeue[t].found
             over == {n \in In(found) : exhausted(found[n] + 1)}
  <2>1. /\ queued' = [n \in Messages |-> IF n \in In(found) \ over THEN found[n] + 1 ELSE queued[n]]
        /\ given' = given \cup over
        /\ RequeueStep(t, "idle", NoMessages) /\ UNCHANGED processing /\ requeue[t].step = "set"
    BY <1>5 DEF RequeueSet
  <2>2. /\ requeue'[t].step = "idle" /\ ~Found(t, m)'
        /\ \A u \in Tabs : u # t => requeue'[u] = requeue[u]
    BY <1>1, <2>1, NoMessagesType DEF RequeueStep, Found
  <2>3. CASE ~Found(t, m)
    <3>1. queued'[m] = queued[m] /\ (m \in given => m \in given')
      BY <2>1, <2>3 DEF Found, In
    <3>2. Untouched(m)
      BY <1>1, <2>1, <2>2, <2>3, <3>1 DEF Untouched
    <3> QED BY <3>2, Stays
  <2>4. CASE Found(t, m)
    <3>1. found[m] < failed[m] /\ (queued[m] # None => queued[m] <= failed[m])
      BY <2>4 DEF MessageInv, Counted
    <3>2. found[m] \in Nat /\ failed[m] \in Nat /\ None \notin Nat /\ m \in In(found)
      BY <2>4, Facts DEF Found, In
    <3>3. /\ m \in over => queued'[m] = queued[m] /\ m \in given'
          /\ m \notin over => queued'[m] = found[m] + 1
      BY <2>1, <3>2
    <3> HIDE DEF found, over
    <3>4. queued'[m] # None => queued'[m] <= failed[m]
      BY <3>1, <3>2, <3>3
    <3>5. m \in given' \/ queued'[m] # None
      BY <3>2, <3>3
    <3>6. \A u \in Tabs : Found(u, m)' => u # t /\ Found(u, m) /\ requeue'[u] = requeue[u]
      BY <2>2 DEF Found
    <3>7. Counted(m)'
      BY <1>1, <1>2, <2>1, <3>4, <3>6 DEF MessageInv, Counted
    <3>8. ASSUME calm PROVE Place(m)'
      <4>0. Place(m) /\ \A u \in Tabs : u = t
        BY <3>8 DEF MessageInv
      <4>1. (\A w \in Workers : ~Has(w, m)) /\ m \in sent /\ processing[m] = None
        BY <2>1, <2>4, <4>0 DEF Place
      <4>2. \A w \in Workers : ~Batched(w, m) /\ ~Renewed(w, m)
        BY <4>1 DEF Has, Batched, Renewed
      <4> QED BY <1>1, <1>2, <2>1, <2>2, <4>0, <4>1, <4>2 DEF Place
    <3> QED BY <3>5, <3>7, <3>8 DEF Kept
  <2> QED BY <2>3, <2>4
<1> QED BY <1>3, <1>4, <1>5

\* Only requeueTimeouts gives a message up, and then its retries show one
\* failure more than it is allowed.
LEMMA GiveUpKeeps ==
    ASSUME TypeInv, QueueInv, NEW t \in Tabs, RequeueSet(t)
    PROVE  GivenUpLast'
<1> DEFINE found == requeue[t].found
           over == {n \in In(found) : exhausted(found[n] + 1)}
<1>1. given' = given \cup over /\ UNCHANGED <<acked, failed>>
  BY DEF RequeueSet
<1>2. \A m \in over \ acked : failed[m] > MaxRetries
  <2> SUFFICES ASSUME NEW m \in over \ acked PROVE failed[m] > MaxRetries
    OBVIOUS
  <2>1. m \in Messages /\ found[m] # None /\ found[m] + 1 > MaxRetries
    BY DEF In, exhausted
  <2>2. found[m] \in Nat /\ failed[m] \in Nat /\ MaxRetries \in Nat
    BY <2>1, Facts, QueueAssumption
  <2>3. MessageInv(m, Undisturbed)
    BY <2>1 DEF QueueInv
  <2>4. found[m] < failed[m]
    BY <2>1, <2>3 DEF MessageInv, Counted, Found
  <2> HIDE DEF found, over
  <2> QED BY <2>1, <2>2, <2>4
<1> HIDE DEF over
<1> QED BY <1>1, <1>2 DEF QueueInv, GivenUpLast

\* Every other step only adds failures and acknowledgements.
LEMMA OthersGiveUpNothing ==
    ASSUME TypeInv, [Next]_vars, \A t \in Tabs : ~RequeueSet(t)
    PROVE  given' = given /\ acked \subseteq acked' /\ \A m \in Messages : failed'[m] >= failed[m]
<1>1. \A m \in Messages : failed[m] \in Nat
  BY Facts
<1>2. CASE \E w \in Workers : Fail(w)
  BY <1>1, <1>2 DEF Fail, Failed
<1>3. CASE \E w \in Workers : Ack(w)
  BY <1>1, <1>3 DEF Ack
<1>4. CASE UNCHANGED <<given, acked, failed>>
  BY <1>1, <1>4
<1>5. ASSUME NEW w \in Workers, WorkerStep(w) PROVE Ack(w) \/ UNCHANGED <<given, acked, failed>>
  BY <1>5 DEF WorkerStep, Poll, Claim, Unqueue, Succeed, Wait, Elapse, Subscribe, Ghosts
<1>6. ASSUME NEW w \in Workers, RenewRead(w) \/ RenewWrite(w) \/ ElapseLate(w) \/ Stop(w)
      PROVE  UNCHANGED <<given, acked, failed>>
  BY <1>6 DEF RenewRead, RenewWrite, ElapseLate, Stop, Ghosts
<1>7. ASSUME NEW t \in Tabs, NEW m \in Messages, Send(t, m) PROVE UNCHANGED <<given, acked, failed>>
  BY <1>7 DEF Send
<1>8. ASSUME NEW t \in Tabs, Wakeup(t) \/ RequeueScan(t) \/ RequeueDelete(t)
      PROVE  UNCHANGED <<given, acked, failed>>
  BY <1>8 DEF Wakeup, RequeueScan, RequeueDelete, Ghosts
<1>9. ASSUME NEW m \in Messages, Expire(m) PROVE UNCHANGED <<given, acked, failed>>
  BY <1>9 DEF Expire, RunsOut
<1>10. CASE \E m \in Messages : Outlive(m)
  BY <1>1, <1>10 DEF Outlive, RunsOut, Failed
<1>11. CASE \E t \in Tabs : Reload(t)
  BY <1>1, <1>11 DEF Reload, Failed
<1>12. CASE UNCHANGED vars
  BY <1>12, <1>4 DEF vars
<1> QED BY <1>2, <1>3, <1>4, <1>5, <1>6, <1>7, <1>8, <1>9, <1>10, <1>11, <1>12 DEF Next

\* Giving up, over every step.
LEMMA GivenUpKeeps ==
    ASSUME TypeInv, TypeInv', QueueInv, [Next]_vars
    PROVE  GivenUpLast'
<1>1. CASE \E t \in Tabs : RequeueSet(t)
  BY <1>1, GiveUpKeeps
<1>2. CASE \A t \in Tabs : ~RequeueSet(t)
  <2>1. given' = given /\ acked \subseteq acked' /\ \A m \in Messages : failed'[m] >= failed[m]
    BY <1>2, OthersGiveUpNothing
  <2>2. given \subseteq Messages /\ MaxRetries \in Nat
        /\ \A m \in Messages : failed[m] \in Nat /\ failed'[m] \in Nat
    BY QueueAssumption DEF TypeInv, StoreOK
  <2> QED BY <2>1, <2>2 DEF QueueInv, GivenUpLast
<1> QED BY <1>1, <1>2

LEMMA AckedGrows ==
    ASSUME TypeInv, [Next]_vars
    PROVE  acked \subseteq acked'
BY OthersGiveUpNothing DEF RequeueSet

\* As long as a tab is Undisturbed it was, and no tab died and no worker was
\* overtaken by its lease just now.
LEMMA CalmBefore ==
    ASSUME TypeInv, [Next]_vars, Undisturbed'
    PROVE  /\ Undisturbed
           /\ \A t \in Tabs : ~Reload(t)
           /\ \A m \in Messages : ~Outlive(m)
<1>1. /\ left \in [failures : Nat, renewals : Nat, stops : Nat, reloads : Nat, late : Nat]
      /\ left.reloads <= MaxReloads /\ left.late <= MaxLate /\ MaxReloads \in Nat /\ MaxLate \in Nat
  BY QueueAssumption DEF TypeInv, FlagsOK
<1>2. left'.reloads = MaxReloads /\ left'.late = MaxLate /\ \A t, u \in Tabs : t = u
  BY DEF Undisturbed
<1>3. ASSUME NEW t \in Tabs, Reload(t) PROVE FALSE
  <2>1. left' = [left EXCEPT !.reloads = @ - 1]
    BY <1>3 DEF Reload
  <2> QED BY <1>1, <1>2, <2>1
<1>4. ASSUME NEW m \in Messages, Outlive(m) PROVE FALSE
  <2>1. left' = [left EXCEPT !.late = @ - 1]
    BY <1>4 DEF Outlive
  <2> QED BY <1>1, <1>2, <2>1
<1>5. ASSUME left' = left PROVE Undisturbed
  BY <1>2, <1>5 DEF Undisturbed
<1>6. ASSUME NEW w \in Workers, Fail(w) \/ RenewRead(w) \/ Stop(w) PROVE Undisturbed
  <2>1. \/ left' = [left EXCEPT !.failures = @ - 1] \/ left' = [left EXCEPT !.renewals = @ - 1]
        \/ left' = [left EXCEPT !.stops = @ - 1]
    BY <1>6 DEF Fail, RenewRead, Stop
  <2>2. left'.reloads = left.reloads /\ left'.late = left.late
    BY <1>1, <2>1
  <2> QED BY <1>2, <2>2 DEF Undisturbed
<1>7. ASSUME NEW w \in Workers, WorkerStep(w) \/ RenewWrite(w) \/ ElapseLate(w) PROVE left' = left
  BY <1>7 DEF WorkerStep, Poll, Claim, Unqueue, Succeed, Ack, Wait, Elapse, Subscribe, RenewWrite, ElapseLate
<1>8. ASSUME NEW t \in Tabs, NEW m \in Messages, Send(t, m) PROVE left' = left
  BY <1>8 DEF Send
<1>9. ASSUME NEW t \in Tabs, Wakeup(t) \/ RequeueScan(t) \/ RequeueDelete(t) \/ RequeueSet(t)
      PROVE  left' = left
  BY <1>9 DEF Wakeup, RequeueScan, RequeueDelete, RequeueSet
<1>10. ASSUME NEW m \in Messages, Expire(m) PROVE left' = left
  BY <1>10 DEF Expire
<1>11. ASSUME UNCHANGED vars PROVE Undisturbed
  BY <1>5, <1>11 DEF vars
<1> QED BY <1>3, <1>4, <1>5, <1>6, <1>7, <1>8, <1>9, <1>10, <1>11 DEF Next

\* A message nobody has acknowledged, through every step.
LEMMA NextKeeps ==
    ASSUME TypeInv, [Next]_vars, NEW m \in Messages \ acked', m \notin acked, NEW calm \in BOOLEAN,
           calm => Undisturbed', MessageInv(m, calm)
    PROVE  Counted(m)' /\ Kept(m)' /\ (calm => Place(m)')
<1>0. m \in Messages /\ m \in Messages \ acked
  OBVIOUS
<1> DEFINE Goal == Counted(m)' /\ Kept(m)' /\ (calm => Place(m)')
<1> SUFFICES Goal
  OBVIOUS
<1>1. ASSUME NEW w \in Workers, WorkerStep(w) PROVE Goal
  BY <1>0, <1>1, PollKeeps, ClaimKeeps, UnqueueKeeps, AckKeeps, IdleKeeps DEF WorkerStep
<1>2. ASSUME NEW w \in Workers, Fail(w) \/ RenewRead(w) \/ RenewWrite(w) \/ ElapseLate(w) \/ Stop(w)
      PROVE  Goal
  BY <1>0, <1>2, FailKeeps, RenewKeeps, IdleKeeps
<1>3. ASSUME NEW t \in Tabs, NEW n \in Messages, Send(t, n) PROVE Goal
  BY <1>0, <1>3, SendKeeps
<1>4. ASSUME NEW t \in Tabs, Wakeup(t) \/ RequeueScan(t) \/ RequeueDelete(t) \/ RequeueSet(t)
      PROVE  Goal
  <2>1. calm => \A u \in Tabs : u = t
    BY DEF Undisturbed
  <2> QED BY <1>0, <1>4, <2>1, IdleKeeps, RequeueKeeps
<1>5. ASSUME NEW n \in Messages, Expire(n) PROVE Goal
  BY <1>0, <1>5, ExpireKeeps
<1>6. ASSUME NEW n \in Messages, Outlive(n) PROVE Goal
  <2>1. ~calm
    BY <1>6, CalmBefore
  <2> QED BY <1>0, <1>6, <2>1, OutliveKeeps DEF MessageInv
<1>7. ASSUME NEW t \in Tabs, Reload(t) PROVE Goal
  <2>1. ~calm
    BY <1>7, CalmBefore
  <2> QED BY <1>0, <1>7, <2>1, ReloadKeeps DEF MessageInv
<1>8. CASE UNCHANGED vars
  BY <1>0, <1>8, IdleKeeps
<1> HIDE DEF Goal
<1> QED BY <1>1, <1>2, <1>3, <1>4, <1>5, <1>6, <1>7, <1>8 DEF Next

\* In an Undisturbed tab poll deletes no last copy: its claim is still there.
LEMMA TornKeeps ==
    ASSUME TypeInv, [Next]_vars, QueueInv, Undisturbed'
    PROVE  torn' = {}
<1>1. torn = {} /\ (\A m \in Messages \ acked : Place(m)) /\ (\A t \in Tabs : ~Reload(t))
  BY CalmBefore DEF QueueInv, MessageInv
<1>2. ASSUME NEW w \in Workers, Unqueue(w) PROVE torn' = {}
  <2>1. /\ pc[w] = "unqueue"
        /\ torn' = torn \cup
             ((In(batch[w]) \cap In(queued)) \ (acked \cup In(processing) \cup Requeued(Tabs)))
    BY <1>2 DEF Unqueue
  <2>2. ASSUME NEW m \in In(batch[w]), m \notin acked PROVE m \in In(processing)
    BY <1>1, <2>1, <2>2 DEF In, Place, Batched, Alive
  <2> QED BY <1>1, <2>1, <2>2
<1>3. ASSUME NEW w \in Workers, WorkerStep(w) PROVE torn' = torn \/ Unqueue(w)
  BY <1>3 DEF WorkerStep, Poll, Claim, Succeed, Ack, Wait, Elapse, Subscribe, Ghosts
<1>4. ASSUME NEW w \in Workers, Fail(w) \/ RenewRead(w) \/ RenewWrite(w) \/ ElapseLate(w) \/ Stop(w)
      PROVE  torn' = torn
  BY <1>4 DEF Fail, RenewRead, RenewWrite, ElapseLate, Stop, Ghosts
<1>5. ASSUME NEW t \in Tabs, NEW m \in Messages, Send(t, m) PROVE torn' = torn
  BY <1>5 DEF Send
<1>6. ASSUME NEW t \in Tabs, Wakeup(t) \/ RequeueScan(t) \/ RequeueDelete(t) \/ RequeueSet(t)
      PROVE  torn' = torn
  BY <1>6 DEF Wakeup, RequeueScan, RequeueDelete, RequeueSet, Ghosts
<1>7. ASSUME NEW m \in Messages, Expire(m) \/ Outlive(m) PROVE torn' = torn
  BY <1>7 DEF Expire, Outlive, RunsOut
<1>8. CASE UNCHANGED vars
  BY <1>1, <1>8 DEF vars
<1> QED BY <1>1, <1>2, <1>3, <1>4, <1>5, <1>6, <1>7, <1>8 DEF Next

\* The inductive invariant, from the first state on.
LEMMA InitQueue == Init => QueueInv
<1> SUFFICES ASSUME Init PROVE QueueInv
  OBVIOUS
<1>1. GivenUpLast /\ torn = {}
  BY DEF Init, GivenUpLast
<1>2. ASSUME NEW m \in Messages PROVE Counted(m) /\ Kept(m) /\ Place(m)
  <2>1. queued[m] = None /\ processing[m] = None /\ m \notin sent
    BY NoMessagesType DEF Init
  <2>2. \A w \in Workers : ~Batched(w, m) /\ ~Renewed(w, m)
    BY NoMessagesType DEF Init, Batched, Renewed
  <2>3. \A t \in Tabs : ~Found(t, m)
    BY NoMessagesType DEF Init, Found
  <2> QED BY <2>1, <2>2, <2>3 DEF Place, Counted, Kept
<1> QED BY <1>1, <1>2 DEF QueueInv, MessageInv

LEMMA NextQueue == TypeInv /\ TypeInv' /\ QueueInv /\ [Next]_vars => QueueInv'
<1> SUFFICES ASSUME TypeInv, TypeInv', QueueInv, [Next]_vars PROVE QueueInv'
  OBVIOUS
<1>1. GivenUpLast'
  BY GivenUpKeeps
<1>2. Undisturbed' => torn' = {}
  BY TornKeeps
<1>3. ASSUME NEW m \in Messages \ acked' PROVE Counted(m)' /\ Kept(m)' /\ (Undisturbed' => Place(m)')
  <2>1. m \in Messages \ acked
    BY AckedGrows
  <2>2. Counted(m) /\ Kept(m) /\ (Undisturbed => Place(m))
    BY <2>1 DEF QueueInv, MessageInv
  <2>3. CASE Undisturbed'
    <3>1. MessageInv(m, TRUE)
      BY <2>2, <2>3, CalmBefore DEF MessageInv
    <3> QED BY <1>3, <2>1, <2>3, <3>1, NextKeeps
  <2>4. CASE ~Undisturbed'
    <3>1. MessageInv(m, FALSE)
      BY <2>2 DEF MessageInv
    <3> QED BY <1>3, <2>1, <2>4, <3>1, NextKeeps
  <2> QED BY <2>3, <2>4
<1> QED BY <1>1, <1>2, <1>3 DEF QueueInv, MessageInv

LEMMA QueueInvHolds == Spec => [](TypeInv /\ QueueInv)
<1>1. Init => TypeInv /\ QueueInv
  BY InitType, InitQueue
<1>2. TypeInv /\ QueueInv /\ [Next]_vars => (TypeInv /\ QueueInv)'
  BY NextType, NextQueue
<1> QED BY <1>1, <1>2, PTL DEF Spec

\* batchSend's message is in mq/queued, in mq/processing or in the hands of a
\* requeueTimeouts that is about to write it back, until it is acknowledged or
\* given up, with any number of tabs that die at any point and leases that run
\* out too early: only the second write of a poll whose claim a requeue removed,
\* and a tab that dies between the two writes of a requeue, take the last copy
\* away, and neither happens in one tab that lives on and keeps its leases.
THEOREM NoMessageIsLost == Spec => []NoMessageLost
<1>1. TypeInv /\ QueueInv => NoMessageLost
  <2> SUFFICES ASSUME TypeInv, QueueInv, NEW m \in sent, m \notin acked
               PROVE  m \in given \cup In(queued) \cup In(processing) \cup Requeued(Tabs) \cup torn
    BY DEF NoMessageLost, QueueInv
  <2>1. m \in Messages
    BY DEF TypeInv, StoreOK
  <2>2. Kept(m)
    BY <2>1 DEF QueueInv, MessageInv
  <2> QED BY <2>1, <2>2 DEF Kept, In, Requeued, Found
<1> QED BY <1>1, QueueInvHolds, PTL

\* requeueTimeouts gives up only what failed, died with its tab or outlived its
\* lease more often than mqTimeoutRetry allows, or what was acknowledged after
\* all: with any number of tabs, workers and deaths, the retries a message
\* carries are never ahead of the deliveries that ended badly.
THEOREM GivenUpIsLast == Spec => []GivenUpLast
<1>1. QueueInv => GivenUpLast
  BY DEF QueueInv
<1> QED BY <1>1, QueueInvHolds, PTL
=============================================================================
