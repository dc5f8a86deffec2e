----------------------------- MODULE SyncEngine -----------------------------
(***************************************************************************)
(* The run loop of client/service_worker/sync_engine.ts over the dirty     *)
(* queue, next to the one other caller of syncSpace: the synchronization   *)
(* of a logout (client/service_worker.ts, client/service_worker/logout.ts).*)
(* What a cycle does to a file is module SpaceSync; here a cycle is the    *)
(* time during which it holds isSyncing.                                   *)
(*                                                                         *)
(* A service worker has one thread.  A continuation whose promise is       *)
(* already resolved runs before anything else happens, so messages,        *)
(* timers and the answers of stores and server are delivered only while    *)
(* the run loop waits for one of them (Turn).                              *)
(***************************************************************************)
EXTENDS DirtyQueue

CONSTANTS
    MarkTypes,   \* the types of origin that triggers mark paths with
    MaxMarks,    \* bound: marks by messages, saves and events
    MaxScans,    \* bound: requests for a full scan
    MaxFailures, \* bound: reads of the local store that fail for good
    Logouts      \* whether the user may log out

ASSUME EngineAssumption ==
    /\ MarkTypes \subseteq OriginTypes
    /\ MaxMarks \in Nat /\ MaxScans \in Nat /\ MaxFailures \in Nat
    /\ Logouts \in BOOLEAN

Entries == [path : Paths, origin : Origins]

ASSUME CycleAssumption == None # "run" /\ None # "logout"

ASSUME DefinedAssumption ==
    /\ \A o \in Origins : o # None
    /\ \A e \in Entries : e # None

VARIABLES
    loop,       \* where the run loop is
    taken,      \* the entry it took: [path, origin] or None
    cycle,      \* who holds isSyncing: "run", "logout" or None
    stopping,
    logout,     \* where the logout's synchronization is
    expired,    \* its 30 seconds are over
    used,       \* how much of each bound was consumed
    reported    \* history: the last revision reported for a pending path

engineVars == <<loop, taken, cycle, stopping>>
logoutVars == <<logout, expired>>
vars == <<queueVars, engineVars, logoutVars, used, reported>>

Loops == {"space", "spaceRunning", "pruning", "drain", "take", "takeLate", "waiting", "dispatch",
          "localMeta", "single", "singleRunning", "stopped", "dead"}

LogoutStates == {"none", "begin", "syncing", "pruning", "sleeping", "ready", "failed"}

TypeOK ==
    /\ QueueTypeOK
    /\ loop \in Loops
    /\ taken \in Entries \cup {None}
    /\ cycle \in {"run", "logout", None}
    /\ stopping \in BOOLEAN
    /\ logout \in LogoutStates
    /\ expired \in BOOLEAN
    /\ used \in [marks : 0..MaxMarks, scans : 0..MaxScans, failures : 0..MaxFailures]
    /\ reported \in [Paths -> Hashes \cup {None}]

Init ==
    /\ InitQueue
    /\ loop = "space"
    /\ taken = None
    /\ cycle = None
    /\ stopping = FALSE
    /\ logout = "none"
    /\ expired = FALSE
    /\ used = [marks |-> 0, scans |-> 0, failures |-> 0]
    /\ reported = [p \in Paths |-> None]

-----------------------------------------------------------------------------
(* The run loop.                                                           *)

\* The thread is free for the next task: everything that is left of the run
\* loop waits for a task's answer.
Turn ==
    \/ loop \in {"spaceRunning", "pruning", "localMeta", "singleRunning", "stopped", "dead"}
    \/ loop = "waiting" /\ waiter = "set"

Goto(label) == loop' = label

\* The top of the run loop: a full scan, unless one is running elsewhere
\* (syncFiles returns -1).  The deadline set after it lies in the future, so the
\* drain begins with one take.
RunSpace ==
    /\ loop = "space"
    /\ IF stopping THEN Goto("stopped") /\ UNCHANGED cycle
       ELSE IF cycle # None THEN Goto("take") /\ UNCHANGED cycle
       ELSE Goto("spaceRunning") /\ cycle' = "run"
    /\ UNCHANGED <<queueVars, taken, stopping, logoutVars, used, reported>>

\* The drain begins, unless the engine was stopped meanwhile.
IntoDrain == IF stopping THEN "stopped" ELSE "take"

\* The scan ends and releases isSyncing; the stores of safety copies and bases
\* are pruned before syncSpace returns, unless it threw.
SpaceEnds ==
    /\ loop = "spaceRunning"
    /\ cycle' = None
    /\ Goto("pruning") \/ Goto(IntoDrain)
    /\ UNCHANGED <<queueVars, taken, stopping, logoutVars, used, reported>>

Pruned ==
    /\ loop = "pruning"
    /\ Goto(IntoDrain)
    /\ UNCHANGED <<queueVars, taken, cycle, stopping, logoutVars, used, reported>>

\* The drain goes on until its deadline.
Drain ==
    /\ loop = "drain"
    /\ IF stopping THEN Goto("stopped") ELSE Goto("take") \/ Goto("space")
    /\ UNCHANGED <<queueVars, taken, cycle, stopping, logoutVars, used, reported>>

\* A take that finds nothing waits once, and returns when its time is over.
Take ==
    /\ loop \in {"take", "takeLate"}
    /\ \/ /\ TakeFullScan
          /\ Goto("space")
          /\ UNCHANGED <<taken, reported>>
       \/ \E p \in Paths :
            /\ TakePath(p)
            /\ IF pending[p] = None
               THEN UNCHANGED <<loop, taken>>
               ELSE /\ Goto("dispatch")
                    /\ taken' = [path |-> p, origin |-> pending[p]]
            /\ reported' = [reported EXCEPT ![p] = None]
       \/ /\ loop = "takeLate"
          /\ NothingToTake
          /\ Goto("drain")
          /\ UNCHANGED <<queueVars, taken, reported>>
       \/ /\ loop = "take"
          /\ Wait
          /\ Goto("waiting")
          /\ UNCHANGED <<taken, reported>>
    /\ UNCHANGED <<cycle, stopping, logoutVars, used>>

TakeTimeout ==
    /\ loop = "waiting"
    /\ WaitTimesOut
    /\ UNCHANGED <<engineVars, logoutVars, used, reported>>

TakeResumes ==
    /\ loop = "waiting"
    /\ Resume
    /\ Goto(IF waiter = "late" THEN "takeLate" ELSE "take")
    /\ UNCHANGED <<taken, cycle, stopping, logoutVars, used, reported>>

\* Mutant: a local write is handed to syncSingleFile without waiting for a store.
DispatchAtOnce ==
    /\ loop = "dispatch"
    /\ Goto("single")
    /\ UNCHANGED <<queueVars, taken, cycle, stopping, logoutVars, used, reported>>

\* The entry is redundant under some snapshot, or it asks for work; a local
\* write is first compared with the snapshot.
Dispatch ==
    /\ loop = "dispatch"
    /\ \E files \in {None} \cup (Times \X Times), recorded \in Hashes \cup {None},
          realtimeHealthy \in BOOLEAN :
         IF shouldSkip(taken.origin, files, recorded, realtimeHealthy)
         THEN Goto("drain") /\ taken' = None
         ELSE /\ Goto(IF taken.origin.type = "local" THEN "localMeta" ELSE "single")
              /\ UNCHANGED taken
    /\ UNCHANGED <<queueVars, cycle, stopping, logoutVars, used, reported>>

\* The local copy's timestamp and bytes arrive: an echo of the engine's own
\* write, or a write to sync.
LocalMeta ==
    /\ loop = "localMeta"
    /\ \/ Goto("drain") /\ taken' = None
       \/ Goto("single") /\ UNCHANGED taken
    /\ UNCHANGED <<queueVars, cycle, stopping, logoutVars, used, reported>>

\* The read of the bytes fails, other than for want of the file.  The call is
\* outside the try of the loop, so run() is rejected: nothing consumes the queue
\* until the service worker starts again.
LocalReadFails ==
    /\ loop = "localMeta"
    /\ used.failures < MaxFailures
    /\ used' = [used EXCEPT !.failures = @ + 1]
    /\ Goto("dead") /\ taken' = None
    /\ UNCHANGED <<queueVars, cycle, stopping, logoutVars, reported>>

\* syncSingleFile returns -1 while another cycle runs, and the entry is marked
\* again; for a path that isn't synced it returns at once.
Single ==
    /\ loop = "single"
    /\ IF cycle # None
       THEN /\ mark(taken.path, taken.origin)
            /\ reported' = [reported EXCEPT ![taken.path] =
                              IF @ = None THEN reportedRevision(taken.origin) ELSE @]
            /\ Goto("drain")
            /\ taken' = None
            /\ UNCHANGED cycle
       ELSE /\ \/ Goto("singleRunning") /\ cycle' = "run" /\ UNCHANGED taken
               \/ Goto("drain") /\ taken' = None /\ UNCHANGED cycle
            /\ UNCHANGED <<queueVars, reported>>
    /\ UNCHANGED <<stopping, logoutVars, used>>

\* The single-file cycle ends, also with an error, which drops the entry.
SingleEnds ==
    /\ loop = "singleRunning"
    /\ cycle' = None
    /\ taken' = None
    /\ Goto("drain")
    /\ UNCHANGED <<queueVars, stopping, logoutVars, used, reported>>

-----------------------------------------------------------------------------
(* The triggers, delivered between two turns of the run loop.              *)

Origin(type) ==
    CASE type = "local" -> {LocalOrigin}
      [] type = "probe" -> {ProbeOrigin}
      [] type = "any" -> {AnyOrigin(None)}
      [] type = "remote" -> {RemoteOrigin(t, h) : t \in Times, h \in Hashes \cup {None}}

requestFileSync ==
    /\ Turn
    /\ used.marks < MaxMarks
    /\ used' = [used EXCEPT !.marks = @ + 1]
    /\ \E p \in Paths, type \in MarkTypes : \E o \in Origin(type) :
         /\ mark(p, o)
         /\ reported' = [reported EXCEPT ![p] =
                           IF reportedRevision(o) = None THEN @
                                                         ELSE reportedRevision(o)]
    /\ UNCHANGED <<engineVars, logoutVars>>

requestSpaceSync ==
    /\ Turn
    /\ used.scans < MaxScans
    /\ used' = [used EXCEPT !.scans = @ + 1]
    /\ markFullScan
    /\ UNCHANGED <<engineVars, logoutVars, reported>>

stop ==
    /\ Turn
    /\ ~stopping
    /\ stopping' = TRUE
    /\ UNCHANGED <<queueVars, loop, taken, cycle, logoutVars, used, reported>>

-----------------------------------------------------------------------------
(* A logout scans until a scan finds nothing to do, sleeping in between,   *)
(* for at most 30 seconds.                                                 *)

LogoutBegins ==
    /\ Turn
    /\ Logouts
    /\ logout = "none"
    /\ logout' = "begin"
    /\ UNCHANGED <<queueVars, engineVars, expired, used, reported>>

\* The loop goes on unless the attempt expired.
Retry == IF expired THEN "failed" ELSE "sleeping"

\* Mutant: the scan of a logout does not look at isSyncing.
LogoutSyncsAnyway ==
    /\ Turn
    /\ logout = "begin"
    /\ logout' = "syncing"
    /\ cycle' = "logout"
    /\ UNCHANGED <<queueVars, loop, taken, stopping, expired, used, reported>>

LogoutSyncs ==
    /\ Turn
    /\ logout = "begin"
    /\ IF cycle # None THEN logout' = Retry /\ UNCHANGED cycle
                       ELSE logout' = "syncing" /\ cycle' = "logout"
    /\ UNCHANGED <<queueVars, loop, taken, stopping, expired, used, reported>>

LogoutSyncEnds ==
    /\ Turn
    /\ logout = "syncing"
    /\ cycle' = None
    /\ logout' \in {"pruning", "failed"}
    /\ UNCHANGED <<queueVars, loop, taken, stopping, expired, used, reported>>

\* Its syncSpace has pruned and returns the number of operations: with none the
\* logout is ready, unless it expired.
LogoutPruned ==
    /\ Turn
    /\ logout = "pruning"
    /\ logout' \in {IF expired THEN "failed" ELSE "ready", Retry}
    /\ UNCHANGED <<queueVars, engineVars, expired, used, reported>>

LogoutWakes ==
    /\ Turn
    /\ logout = "sleeping"
    /\ logout' = "begin"
    /\ UNCHANGED <<queueVars, engineVars, expired, used, reported>>

\* The expiry timer cancels the attempt; the loop notices after its next scan.
LogoutExpires ==
    /\ Turn
    /\ logout \in {"begin", "syncing", "pruning", "sleeping"}
    /\ ~expired
    /\ expired' = TRUE
    /\ UNCHANGED <<queueVars, engineVars, logout, used, reported>>

LogoutSteps ==
    LogoutSyncs \/ LogoutSyncEnds \/ LogoutPruned \/ LogoutWakes \/ LogoutExpires

-----------------------------------------------------------------------------
RunLoop ==
    RunSpace \/ SpaceEnds \/ Pruned \/ Drain \/ Take \/ TakeTimeout \/ TakeResumes
    \/ Dispatch \/ LocalMeta \/ Single \/ SingleEnds

Next ==
    RunLoop \/ LocalReadFails \/ requestFileSync \/ requestSpaceSync \/ stop
    \/ LogoutBegins \/ LogoutSteps

Spec == Init /\ [][Next]_vars

\* A promise that resolves has its continuation run, and of the tasks that stay
\* ready over infinitely many turns of the event loop each is delivered.
Fairness ==
    /\ WF_vars(RunLoop)
    /\ SF_vars(LogoutSyncs)
    /\ SF_vars(LogoutSyncEnds)
    /\ SF_vars(LogoutPruned)
    /\ SF_vars(LogoutWakes)
    /\ SF_vars(LogoutExpires)

LiveSpec == Spec /\ Fairness

-----------------------------------------------------------------------------
(* Properties.                                                             *)

\* `pending' and `order' name the same paths, each once: no entry of the map is
\* out of the consumer's reach, and none is handed out twice.
QueueConsistent ==
    /\ \A p \in Paths : pending[p] # None <=> \E i \in 1..Len(order) : order[i] = p
    /\ \A i, j \in 1..Len(order) : order[i] = order[j] => i = j

\* At most one cycle runs: isSyncing is held by the run loop exactly while its
\* own cycle runs, and by a logout exactly while that one's scan does.
CyclesAreMutexed ==
    /\ cycle = "run" <=> loop \in {"spaceRunning", "singleRunning"}
    /\ cycle = "logout" <=> logout = "syncing"

\* The consumer never sleeps over work: a take that waits while something is in
\* the queue has been resolved already.
NoLostWakeup ==
    loop = "waiting" /\ (order # <<>> \/ fullScan) => waiter \in {"woken", "late"}

\* However marks of a path are merged, and whether or not an entry is put back
\* because the engine was busy, the entry names the revision reported last.
NewestReportKept ==
    \A p \in Paths : pending[p] # None /\ reported[p] # None =>
        reportedRevision(pending[p]) = reported[p]

\* Every dirty path is taken: neither newer marks, a bounded number of requested
\* full scans nor other paths keep it in the queue for ever.  A loop whose read of
\* the local store failed takes nothing any more.
EveryMarkTaken ==
    \A p \in Paths : pending[p] # None ~> pending[p] = None \/ stopping \/ loop = "dead"

\* The synchronization of a logout ends, at the latest by its expiry, although saves
\* keep arriving.  An entry that is not a local write is taken, refused and marked
\* again while the logout's scan runs, without a turn for the scan: that case is
\* left out.
LogoutFinishes ==
    logout = "begin"
        ~> \/ logout \in {"ready", "failed"}
           \/ \E p \in Paths : pending[p] # None /\ pending[p].type # "local"
=============================================================================
