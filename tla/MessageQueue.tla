---------------------------- MODULE MessageQueue ----------------------------
(***************************************************************************)
(* The message queue on top of the client's datastore                      *)
(* (client/data/mq.datastore.ts): one queue, the workers that subscribe to *)
(* it (client/plugos/hooks/mq.ts) and the timer that puts messages back    *)
(* whose lease ran out (client/client_system.ts).  Every tab of the        *)
(* browser runs workers and such a timer on the same datastore, and a tab  *)
(* can be reloaded or killed at any point.                                 *)
(*                                                                         *)
(* A call of the datastore is one step and nothing is transactional across *)
(* calls: between the two writes of a poll, of a renewal and of a requeue  *)
(* other workers and other tabs run.  Messages are numbered in the order   *)
(* of their keys.  A lease is its age: whether requeueTimeouts would take  *)
(* it for dead.                                                            *)
(***************************************************************************)
EXTENDS Naturals, Sequences, FiniteSets, SequencesExt

CONSTANTS
    Messages,       \* the ids of messages, numbers
    Tabs,           \* tabs of the browser
    Workers,        \* slots for QueueWorker objects
    Home,           \* the tab of each worker
    BatchSize,      \* options.batchSize
    MaxRetries,     \* mqTimeoutRetry
    UseDLQ,         \* ~disableDLQ
    MaxFailures,    \* bound: callbacks that fail
    MaxRenewals,    \* bound: renewals of a lease
    MaxStops,       \* bound: reloads of the subscriptions
    MaxReloads,     \* bound: tabs that are reloaded or killed
    MaxLate,        \* bound: leases that run out while a worker has the message
    None

Leases == [retries : Nat, dead : BOOLEAN]

ASSUME QueueAssumption ==
    /\ Messages \subseteq Nat /\ IsFiniteSet(Messages) /\ None \notin Nat /\ None \notin Leases
    /\ Home \in [Workers -> Tabs] /\ BatchSize \in Nat \ {0} /\ MaxRetries \in Nat
    /\ UseDLQ \in BOOLEAN
    /\ MaxFailures \in Nat /\ MaxRenewals \in Nat /\ MaxStops \in Nat
    /\ MaxReloads \in Nat /\ MaxLate \in Nat

VARIABLES
    queued,         \* mq/queued: the retries of each message there, or None
    processing,     \* mq/processing: the lease of each message there, or None
    dlq,            \* mq/dlq
    sent,           \* the messages sent so far
    acked,          \* the messages some worker has acknowledged
    failed,         \* per message: deliveries that failed, died with their tab
                    \* or outlived their lease
    given,          \* the messages given up after too many retries
    torn,           \* the messages that are not acknowledged and whose last copy
                    \* went in the middle of a poll or of a requeue
    waking,         \* per tab: whether a batchSend is about to wake a worker
    waiters,        \* per tab: queueWaiters
    pc,             \* per worker: its next step
    batch,          \* per worker: the messages it polled, with their retries
    stopping,       \* per worker: stopping
    timers,         \* per worker: sleeps of waits that are over and still run
    renewal,        \* per worker: the leases a renewLease has read, or None
    requeue,        \* per tab: [step, found], a requeueTimeouts under way
    left            \* what is left of the bounds

vars == <<queued, processing, dlq, sent, acked, failed, given, torn, waking, waiters, pc,
          batch, stopping, timers, renewal, requeue, left>>

NoMessages == [m \in Messages |-> None]
Batches == [Messages -> Nat \cup {None}]
In(f) == {m \in Messages : f[m] # None}

Labels == {"poll", "claim", "unqueue", "work", "ack", "empty", "wait", "stopped"}

Init ==
    /\ queued = NoMessages /\ processing = NoMessages /\ dlq = {}
    /\ sent = {} /\ acked = {} /\ given = {} /\ torn = {} /\ failed = [m \in Messages |-> 0]
    /\ waking = [t \in Tabs |-> FALSE] /\ waiters = [t \in Tabs |-> <<>>]
    /\ pc = [w \in Workers |-> "poll"] /\ batch = [w \in Workers |-> NoMessages]
    /\ stopping = [w \in Workers |-> FALSE] /\ timers = [w \in Workers |-> 0]
    /\ renewal = [w \in Workers |-> None]
    /\ requeue = [t \in Tabs |-> [step |-> "idle", found |-> NoMessages]]
    /\ left = [failures |-> MaxFailures, renewals |-> MaxRenewals, stops |-> MaxStops,
               reloads |-> MaxReloads, late |-> MaxLate]

Goto(w, l) == pc' = [pc EXCEPT ![w] = l]
Ghosts == UNCHANGED <<sent, acked, failed, given, torn>>
Asleep == UNCHANGED <<waking, waiters, stopping, timers>>
Store == UNCHANGED <<queued, processing, dlq>>
Failed(S) == failed' = [m \in Messages |-> IF m \in S THEN failed[m] + 1 ELSE failed[m]]

-----------------------------------------------------------------------------
(* Senders                                                                 *)

\* batchSend: the write of the datastore ...
Send(t, m) ==
    /\ m \notin sent /\ \A n \in Messages : n < m => n \in sent
    /\ ~waking[t]
    /\ queued' = [queued EXCEPT ![m] = 0]
    /\ sent' = sent \cup {m}
    /\ waking' = [waking EXCEPT ![t] = TRUE]
    /\ UNCHANGED <<processing, dlq, acked, failed, given, torn, waiters, pc, batch, stopping,
                   timers, renewal, requeue, left>>

\* ... and then wakeupWorker, in the sender's tab.
Wakeup(t) ==
    /\ waking[t]
    /\ waking' = [waking EXCEPT ![t] = FALSE]
    /\ IF waiters[t] = <<>> THEN UNCHANGED <<waiters, pc, timers>>
       ELSE LET w == Head(waiters[t]) IN
            /\ waiters' = [waiters EXCEPT ![t] = Tail(@)]
            /\ Goto(w, IF stopping[w] THEN "stopped" ELSE "poll")
            /\ timers' = [timers EXCEPT ![w] = @ + 1]
    /\ UNCHANGED <<batch, stopping, renewal, requeue, left>> /\ Ghosts /\ Store

-----------------------------------------------------------------------------
(* Workers                                                                 *)

\* The loop of run(): the check of stopping and the scan of poll().
Oldest == {m \in In(queued) : Cardinality({n \in In(queued) : n < m}) < BatchSize}

Poll(w) ==
    /\ pc[w] = "poll" /\ ~stopping[w]
    /\ batch' = [batch EXCEPT ![w] =
          [m \in Messages |-> IF m \in Oldest THEN queued[m] ELSE None]]
    /\ Goto(w, IF In(queued) = {} THEN "empty" ELSE "claim")
    /\ UNCHANGED <<renewal, requeue, left>> /\ Ghosts /\ Asleep /\ Store

\* Mutant: poll deletes before it writes.
ClaimAfterDelete(w) ==
    /\ pc[w] = "claim"
    /\ queued' = [m \in Messages |-> IF m \in In(batch[w]) THEN None ELSE queued[m]]
    /\ Goto(w, "unqueue")
    /\ UNCHANGED <<processing, dlq, batch, renewal, requeue, left>> /\ Ghosts /\ Asleep

\* poll's batchSet into mq/processing
Claim(w) ==
    /\ pc[w] = "claim"
    /\ processing' = [m \in Messages |->
          IF m \in In(batch[w]) THEN [retries |-> batch[w][m], dead |-> FALSE]
          ELSE processing[m]]
    /\ Goto(w, "unqueue")
    /\ UNCHANGED <<queued, dlq, batch, renewal, requeue, left>> /\ Ghosts /\ Asleep

\* The messages that requeues of these tabs hold and have yet to write.
Requeued(tabs) ==
    {m \in Messages : \E t \in tabs : requeue[t].step = "set" /\ requeue[t].found[m] # None}

\* poll's batchDelete from mq/queued; what a requeue has put back there since
\* the claim, and removed from mq/processing, goes with it.
Unqueue(w) ==
    /\ pc[w] = "unqueue"
    /\ queued' = [m \in Messages |-> IF m \in In(batch[w]) THEN None ELSE queued[m]]
    /\ torn' = torn \cup
          ((In(batch[w]) \cap In(queued)) \ (acked \cup In(processing) \cup Requeued(Tabs)))
    /\ Goto(w, "work")
    /\ UNCHANGED <<processing, dlq, sent, acked, failed, given, batch, renewal, requeue, left>>
    /\ Asleep

\* The callback does the work, and acknowledges it, ...
Succeed(w) ==
    /\ pc[w] = "work" /\ Goto(w, "ack")
    /\ UNCHANGED <<batch, renewal, requeue, left>> /\ Ghosts /\ Asleep /\ Store

\* Back at the head of the loop.
Loop(w) ==
    /\ Goto(w, IF stopping[w] THEN "stopped" ELSE "poll")
    /\ batch' = [batch EXCEPT ![w] = NoMessages]

\* ... batchAck ...
Ack(w) ==
    /\ pc[w] = "ack"
    /\ processing' = [m \in Messages |-> IF m \in In(batch[w]) THEN None ELSE processing[m]]
    /\ acked' = acked \cup In(batch[w])
    /\ Loop(w)
    /\ UNCHANGED <<queued, dlq, sent, failed, given, torn, renewal, requeue, left>> /\ Asleep

\* ... or fails, and leaves the messages to requeueTimeouts.
Fail(w) ==
    /\ pc[w] = "work" /\ left.failures > 0
    /\ left' = [left EXCEPT !.failures = @ - 1]
    /\ Failed(In(batch[w]))
    /\ Loop(w)
    /\ UNCHANGED <<sent, acked, given, torn, renewal, requeue>> /\ Asleep /\ Store

\* renewLease, called while the callback runs, reads the leases ...
RenewRead(w) ==
    /\ pc[w] \in {"work", "ack"} /\ renewal[w] = None /\ left.renewals > 0
    /\ left' = [left EXCEPT !.renewals = @ - 1]
    /\ renewal' = [renewal EXCEPT ![w] =
          [m \in Messages |-> IF m \in In(batch[w]) /\ processing[m] # None
                              THEN processing[m].retries ELSE None]]
    /\ UNCHANGED <<pc, batch, requeue>> /\ Ghosts /\ Asleep /\ Store

\* Mutant: ... and writes all of them, found or not.
RenewWriteAll(w) ==
    /\ renewal[w] # None
    /\ processing' = [m \in Messages |-> [retries |-> renewal[w][m], dead |-> FALSE]]
    /\ renewal' = [renewal EXCEPT ![w] = None]
    /\ UNCHANGED <<queued, dlq, pc, batch, requeue, left>> /\ Ghosts /\ Asleep

\* ... and writes the ones it found, whatever became of them since.
RenewWrite(w) ==
    /\ renewal[w] # None
    /\ processing' = [m \in Messages |->
          IF m \in In(renewal[w]) THEN [retries |-> renewal[w][m], dead |-> FALSE]
          ELSE processing[m]]
    /\ renewal' = [renewal EXCEPT ![w] = None]
    /\ UNCHANGED <<queued, dlq, pc, batch, requeue, left>> /\ Ghosts /\ Asleep

\* With nothing to do the worker registers as a waiter and starts a sleep.
Wait(w) ==
    /\ pc[w] = "empty" /\ Goto(w, "wait")
    /\ waiters' = [waiters EXCEPT ![Home[w]] = Append(@, w)]
    /\ UNCHANGED <<waking, stopping, timers, batch, renewal, requeue, left>>
    /\ Ghosts /\ Store

Unregister(w) == waiters' = [waiters EXCEPT ![Home[w]] = RemoveFirst(@, w)]

\* Mutant: a worker sleeps until it is woken.
ElapseNever(w) ==
    /\ pc[w] = "wait" /\ stopping[w] /\ Goto(w, "stopped")
    /\ Unregister(w)
    /\ UNCHANGED <<waking, stopping, timers, batch, renewal, requeue, left>>
    /\ Ghosts /\ Store

\* The sleep of this wait ends first.
Elapse(w) ==
    /\ pc[w] = "wait" /\ Goto(w, IF stopping[w] THEN "stopped" ELSE "poll")
    /\ Unregister(w)
    /\ UNCHANGED <<waking, stopping, timers, batch, renewal, requeue, left>>
    /\ Ghosts /\ Store

\* The sleep of an earlier wait ends; it unregisters whatever waits now.
ElapseLate(w) ==
    /\ timers[w] > 0
    /\ timers' = [timers EXCEPT ![w] = @ - 1]
    /\ Unregister(w)
    /\ UNCHANGED <<pc, waking, stopping, batch, renewal, requeue, left>> /\ Ghosts /\ Store

\* MQHook.reloadQueues: stop() ...
Stop(w) ==
    /\ ~stopping[w] /\ left.stops > 0
    /\ left' = [left EXCEPT !.stops = @ - 1]
    /\ stopping' = [stopping EXCEPT ![w] = TRUE]
    /\ Unregister(w)
    /\ Goto(w, IF pc[w] \in {"wait", "poll"} THEN "stopped" ELSE pc[w])
    /\ UNCHANGED <<waking, timers, batch, renewal, requeue>> /\ Ghosts /\ Store

\* ... and subscribe(), which makes a new worker.
Subscribe(w) ==
    /\ pc[w] = "stopped" /\ Goto(w, "poll")
    /\ stopping' = [stopping EXCEPT ![w] = FALSE]
    /\ timers' = [timers EXCEPT ![w] = 0]
    /\ UNCHANGED <<waking, waiters, batch, renewal, requeue, left>> /\ Ghosts /\ Store

\* The page is reloaded, or the browser kills it: what its workers and its
\* requeueTimeouts had in memory is gone, and the new page subscribes anew.
\* What they had claimed is left to requeueTimeouts.
Reload(t) ==
    /\ left.reloads > 0
    /\ left' = [left EXCEPT !.reloads = @ - 1]
    /\ LET mine == {w \in Workers : Home[w] = t}
           held == UNION {In(batch[w]) : w \in {v \in mine : pc[v] # "claim"}}
       IN  /\ pc' = [w \in Workers |-> IF w \in mine THEN "poll" ELSE pc[w]]
           /\ batch' = [w \in Workers |-> IF w \in mine THEN NoMessages ELSE batch[w]]
           /\ renewal' = [w \in Workers |-> IF w \in mine THEN None ELSE renewal[w]]
           /\ stopping' = [w \in Workers |-> w \notin mine /\ stopping[w]]
           /\ timers' = [w \in Workers |-> IF w \in mine THEN 0 ELSE timers[w]]
           /\ Failed(held)
    /\ waking' = [waking EXCEPT ![t] = FALSE]
    /\ waiters' = [waiters EXCEPT ![t] = <<>>]
    /\ requeue' = [requeue EXCEPT ![t] = [step |-> "idle", found |-> NoMessages]]
    /\ torn' = torn \cup
          (Requeued({t}) \ (acked \cup In(queued) \cup In(processing) \cup Requeued(Tabs \ {t})))
    /\ UNCHANGED <<sent, acked, given>> /\ Store

-----------------------------------------------------------------------------
(* Timeouts                                                                *)

\* The worker has polled the message, or a renewal of its lease is under way.
Has(w, m) == batch[w][m] # None \/ (renewal[w] # None /\ renewal[w][m] # None)

RunsOut(m) ==
    /\ processing[m] # None /\ ~processing[m].dead
    /\ processing' = [processing EXCEPT ![m].dead = TRUE]
    /\ UNCHANGED <<queued, dlq, sent, acked, given, torn, pc, batch, renewal, requeue>>
    /\ Asleep

\* Ten seconds pass, and nobody is left to renew the lease.
Expire(m) ==
    /\ \A w \in Workers : ~Has(w, m)
    /\ RunsOut(m) /\ UNCHANGED <<failed, left>>

\* Ten seconds pass although a worker has the message: its tab is suspended,
\* or its timers are throttled.
Outlive(m) ==
    /\ \E w \in Workers : Has(w, m)
    /\ left.late > 0 /\ left' = [left EXCEPT !.late = @ - 1]
    /\ RunsOut(m) /\ Failed({m})

RequeueStep(t, step, found) ==
    requeue' = [requeue EXCEPT ![t] = [step |-> step, found |-> found]]

\* requeueTimeouts: the query ...
RequeueScan(t) ==
    /\ requeue[t].step = "idle"
    /\ LET dead == {m \in In(processing) : processing[m].dead} IN
       /\ dead # {}
       /\ RequeueStep(t, "delete", [m \in Messages |->
             IF m \in dead THEN processing[m].retries ELSE None])
    /\ UNCHANGED <<pc, batch, renewal, left>> /\ Ghosts /\ Asleep /\ Store

\* ... the deletion ...
RequeueDelete(t) ==
    /\ requeue[t].step = "delete"
    /\ processing' = [m \in Messages |->
          IF m \in In(requeue[t].found) THEN None ELSE processing[m]]
    /\ RequeueStep(t, "set", requeue[t].found)
    /\ UNCHANGED <<queued, dlq, pc, batch, renewal, left>> /\ Ghosts /\ Asleep

\* Mutant: the last retry is not granted.
exhaustedEarly(retries) == MaxRetries # 0 /\ retries >= MaxRetries

\* maxRetries && retries > maxRetries
exhausted(retries) == MaxRetries # 0 /\ retries > MaxRetries

\* ... and the write of the messages that may be tried again.
RequeueSet(t) ==
    /\ requeue[t].step = "set"
    /\ LET found == requeue[t].found
           over == {m \in In(found) : exhausted(found[m] + 1)}
       IN  /\ queued' = [m \in Messages |->
                IF m \in In(found) \ over THEN found[m] + 1 ELSE queued[m]]
           /\ dlq' = IF UseDLQ THEN dlq \cup over ELSE dlq
           /\ given' = given \cup over
    /\ RequeueStep(t, "idle", NoMessages)
    /\ UNCHANGED <<processing, sent, acked, failed, torn, pc, batch, renewal, left>> /\ Asleep

-----------------------------------------------------------------------------
WorkerStep(w) ==
    \/ Poll(w) \/ Claim(w) \/ Unqueue(w) \/ Succeed(w) \/ Ack(w)
    \/ Wait(w) \/ Elapse(w) \/ Subscribe(w)

Next ==
    \/ \E t \in Tabs :
          \/ \E m \in Messages : Send(t, m)
          \/ Wakeup(t) \/ RequeueScan(t) \/ RequeueDelete(t) \/ RequeueSet(t) \/ Reload(t)
    \/ \E w \in Workers :
          \/ WorkerStep(w) \/ Fail(w) \/ RenewRead(w) \/ RenewWrite(w)
          \/ ElapseLate(w) \/ Stop(w)
    \/ \E m \in Messages : Expire(m) \/ Outlive(m)

Spec == Init /\ [][Next]_vars

\* Datastore calls return, callbacks end, sleeps and leases run out, and the
\* interval timer of each tab fires.
LiveSpec ==
    /\ Spec
    /\ \A w \in Workers : WF_vars(WorkerStep(w)) /\ WF_vars(RenewWrite(w))
    /\ \A t \in Tabs :
          WF_vars(Wakeup(t)) /\ WF_vars(RequeueScan(t) \/ RequeueDelete(t) \/ RequeueSet(t))
    /\ \A m \in Messages : WF_vars(Expire(m))

-----------------------------------------------------------------------------
TypeOK ==
    /\ queued \in Batches /\ processing \in [Messages -> Leases \cup {None}]
    /\ dlq \subseteq Messages /\ sent \subseteq Messages
    /\ acked \subseteq Messages /\ given \subseteq Messages /\ torn \subseteq Messages
    /\ failed \in [Messages -> Nat]
    /\ waking \in [Tabs -> BOOLEAN] /\ waiters \in [Tabs -> Seq(Workers)]
    /\ pc \in [Workers -> Labels] /\ batch \in [Workers -> Batches]
    /\ stopping \in [Workers -> BOOLEAN] /\ timers \in [Workers -> Nat]
    /\ renewal \in [Workers -> Batches \cup {None}]
    /\ requeue \in [Tabs -> [step : {"idle", "delete", "set"}, found : Batches]]
    /\ left \in [failures : Nat, renewals : Nat, stops : Nat, reloads : Nat, late : Nat]

\* One tab, which was not reloaded yet, and whose workers kept their leases.
Undisturbed ==
    /\ \A t, u \in Tabs : t = u
    /\ left.reloads = MaxReloads /\ left.late = MaxLate

\* A message that was sent stays in the datastore until it is acknowledged or
\* given up, or a requeue is about to write it back.  Nothing but the second
\* write of a poll, and the death of a tab between the two of a requeue, takes
\* its last copy away, and neither does as long as the tab is Undisturbed.
NoMessageLost ==
    /\ sent \subseteq acked \cup given \cup In(queued) \cup In(processing)
                        \cup Requeued(Tabs) \cup torn
    /\ Undisturbed => torn = {}

\* A message is given up only when it was acknowledged after all, or more of
\* its deliveries than the retries it is allowed ended badly: the callback
\* failed, its tab died, or it outlived its lease.
GivenUpLast == \A m \in given \ acked : failed[m] > MaxRetries

\* Every message is acknowledged or given up, or its last copy was torn away.
EveryMessageSettled == \A m \in Messages : m \in sent ~> m \in acked \cup given \cup torn
=============================================================================
