----------------------------- MODULE DirtyQueue -----------------------------
(***************************************************************************)
(* The queue of client/service_worker/dirty_queue.ts: every trigger of the *)
(* sync engine marks a path (or asks for a full scan), and one consumer,   *)
(* the run loop of module SyncEngine, takes one entry at a time.           *)
(***************************************************************************)
EXTENDS SyncOrigin, Sequences

CONSTANT Paths

VARIABLES
    order,      \* the paths in the order they became dirty
    pending,    \* each path's origin, None when it is not dirty
    fullScan,   \* a full scan was asked for
    waiter      \* "unset"; "set" while a take waits; then "woken" by a mark
                \* or "late" by its timeout

queueVars == <<order, pending, fullScan, waiter>>

QueueTypeOK ==
    /\ order \in Seq(Paths)
    /\ pending \in [Paths -> Origins \cup {None}]
    /\ fullScan \in BOOLEAN
    /\ waiter \in {"unset", "set", "woken", "late"}

InitQueue ==
    /\ order = <<>>
    /\ pending = [p \in Paths |-> None]
    /\ fullScan = FALSE
    /\ waiter = "unset"

wake == waiter' = IF waiter = "set" THEN "woken" ELSE waiter

\* Mutant: a pending path is appended again.
markTwice(p, o) ==
    /\ order' = Append(order, p)
    /\ pending' = [pending EXCEPT ![p] = IF @ = None THEN o ELSE mergeOrigins(@, o)]
    /\ wake
    /\ UNCHANGED fullScan

\* Mutant: the consumer is not woken.
markSilently(p, o) ==
    /\ order' = IF pending[p] = None THEN Append(order, p) ELSE order
    /\ pending' = [pending EXCEPT ![p] = IF @ = None THEN o ELSE mergeOrigins(@, o)]
    /\ UNCHANGED <<fullScan, waiter>>

\* An entry that is already pending keeps its place.
mark(p, o) ==
    /\ order' = IF pending[p] = None THEN Append(order, p) ELSE order
    /\ pending' = [pending EXCEPT ![p] = IF @ = None THEN o ELSE mergeOrigins(@, o)]
    /\ wake
    /\ UNCHANGED fullScan

markFullScan ==
    /\ fullScan' = TRUE
    /\ wake
    /\ UNCHANGED <<order, pending>>

-----------------------------------------------------------------------------
(* One round of take: a full scan goes first, then the oldest path, and    *)
(* with neither the consumer times out or waits.                           *)

TakeFullScan ==
    /\ fullScan
    /\ fullScan' = FALSE
    /\ UNCHANGED <<order, pending, waiter>>

\* Mutant: the entry stays in the map after its path left the order.
TakePathKeepingEntry(p) ==
    /\ ~fullScan
    /\ order # <<>>
    /\ p = Head(order)
    /\ order' = Tail(order)
    /\ UNCHANGED <<pending, fullScan, waiter>>

TakePath(p) ==
    /\ ~fullScan
    /\ order # <<>>
    /\ p = Head(order)
    /\ order' = Tail(order)
    /\ pending' = [pending EXCEPT ![p] = None]
    /\ UNCHANGED <<fullScan, waiter>>

NothingToTake == ~fullScan /\ order = <<>>

Wait ==
    /\ NothingToTake
    /\ waiter' = "set"
    /\ UNCHANGED <<order, pending, fullScan>>

\* setTimeout(resolve, remaining)
WaitTimesOut ==
    /\ waiter = "set"
    /\ waiter' = "late"
    /\ UNCHANGED <<order, pending, fullScan>>

Resume ==
    /\ waiter \in {"woken", "late"}
    /\ waiter' = "unset"
    /\ UNCHANGED <<order, pending, fullScan>>
=============================================================================
