# Verification of the sync engine and its surroundings

TLA+ modules, TLC configurations and TLAPS proofs for the part of this
repository that can lose a user's work or leave it stale: the client's
offline-first sync engine with the queue and run loop that drive it, the server's
conditional file API, the event stream between the two, logging out, and the
message queue and file events that keep the client's index.  `PROJECT.json` lists
components, runs, mutants, findings, hazards and theorems, and maps every
definition to the lines it models.

## 1. Inventory

### 1.1 Parts, their state and how they interact

| Part | State | Operations | Interacts with |
|---|---|---|---|
| `SpaceSync` (client/spaces/sync.ts) | `isSyncing`, `reconcileUnsupported`; the `SyncSnapshot`: per path a pair of timestamps, the recorded remote revision, the merge base, the non-synced mark | `syncFiles` (scan), `syncSingleFile`, and `syncFile` with its twelve branches | reads and writes the local store, calls the server, saves the snapshot through events, marks paths through `onScheduleResync` |
| Dirty queue (client/service_worker/dirty_queue.ts) | `order`, `pending`, `fullScan`, `waiter` | `mark`, `markFullScan`, `take` | marked by saves, messages and the engine; consumed by the run loop |
| `SyncEngine` (client/service_worker/sync_engine.ts) | `stopping`, the snapshot in memory and in IndexedDB, the sync configuration, realtime health | `run`, `syncSpace`, `syncSingleFile`, `requestFileSync`, `requestSpaceSync`, `setSyncConfig`, `declareDivergentBase`, `stop`, `wipe` | owns queue, snapshot, stores and `SpaceSync` |
| Logout (client/logout.ts, logout_state.ts, logout_cleanup.ts, service_worker/logout.ts, dashboard SignedOut.tsx) | per tab the attempt it takes part in and whether its editor is frozen; per worker the attempt with its flags, `cleared`, the expiry timer; `sb-logout-state` in localStorage; the server's session | `logoutBrowserSession`, the worker's `logout-sync`, `-cancel`, `-clear`, `-complete`, `-revoked`, `-preserve`, `-force`, the clean-up of the signed-out page | messages between tabs and workers, the broadcast channel, `syncSpace` next to the run loop |
| Base and safety store (client/spaces/base_store.ts) | contents by hash, with times | `putBase`, `putSafety`, `pruneBases`, `pruneSafety` | written by `SpaceSync`, pruned by `syncSpace` |
| Request proxy (client/service_worker/proxy_router.ts) | online flag, list of non-synced files | `handlePut`, `handleDelete`, `handleGet`, listing | writes the local store, marks the queue, forwards what isn't synced |
| HTTP client (client/spaces/http_space_primitives.ts) | connectivity reports | conditional PUT and DELETE, GET with revision, reconcile | the server |
| Server file API (server/src/handlers/fs.rs) | the files | GET, PUT, DELETE with `If-Match`/`If-None-Match`, POST (reconcile) | path locks and hash cache of fs_guard.rs, the merge of server-merge, watcher, revision history |
| Path locks and hash cache (server/src/fs_guard.rs) | lock table, cached hashes with an eviction order, expected writes | `path_lock`, `hash_for`, `record`, `forget`, expected writes | every handler, the watcher |
| Merge (server-merge) | none | `merge`, conflict markers, word refinement | `reconcile_locked` |
| Watcher and realtime events (server/src/watcher.rs, handlers/events.rs, client/realtime_events.ts) | `pending` of the debouncer, the broadcast channel; the tab's `EventSource`, timers, pending events and flush; `realtimeHealthyUntil` | notify, debounce, flood control, subscribe, ping; connect, reconnect, batch, flush | reads the disk, marks the clients' queues, tells the service worker whether to trust it |
| Message queue (client/data/mq.datastore.ts, plugos/hooks/mq.ts) | the queued, processing and dead messages in IndexedDB; per tab the waiters and workers | `send`, `poll`, `ack`, `renewLease`, `requeueTimeouts`, `subscribe`, `stop` | all tabs share the datastore |
| Space events and indexing (client/spaces/evented_space_primitives.ts, plugs/index/queue.ts) | the snapshot of modification times, `operationCount`, the deferred listing; the index | wrapped reads, writes, deletions, listings; indexing a queued file | dispatches events, sends to the message queue |
| Revision history (server/src/revisions) | a Git repository | commits of the space | the handlers' mutation gate |
| Everything else: editor, plugs, Lua, markdown, dashboard, CLI, authentication, runtime manager | | | not part of these protocols |

### 1.2 What is hard here

* **Check-to-act windows.** The service worker has one thread, but every store
  access and request is an `await`.  Saves, deletions, messages and other
  clients' writes land in any of them.
* **Timestamps of one millisecond.** The scan compares timestamps and sizes;
  two writes within a millisecond look the same.  Revisions (hashes) and
  signals exist to make up for that.
* **A revision is recorded before it is adopted.** `readFromSecondary` records
  what it read; every exit that does not adopt it has to undo that.
* **Lost answers.** A PUT, DELETE or reconcile may have taken effect when its
  request fails.
* **Restarts.** The browser kills service workers at will; what is left is the
  local store and the snapshot saved last, possibly in the middle of a path, and
  between a write and the save that records it.  Pages are reloaded at will, too.
* **Two callers of one engine.** The run loop and a logout; and the workers of a
  failed scan that outlive it.
* **One thread and microtasks.** A loop that only waits for promises that are
  already resolved starves timers and I/O.
* **Locks that come and go.** The server creates path locks on demand and sweeps
  idle ones; reads take none and share a cache with the writers.
* **Datastores without transactions.** The message queue moves messages with two
  calls, and every tab runs workers and a requeue timer on the same store.
* **Trust with an expiry.** The service worker skips probes while a tab vouches
  for the event stream; intervals in three files decide whether that is right.
* **A logout is a distributed commit** over tabs that freeze, save, close, load
  and get restarted, and its last step deletes the local files.

### 1.3 What makes it correct

* No edit a user made disappears from everywhere (`NoLostEdit`).
* The engine deletes on the server only what its user deleted
  (`DeletionsAreTheUsers`).
* What the next conditional request claims to have seen was seen
  (`RecordedRevisionWasHeld`), and the merge base was common
  (`BaseIsPublished`).
* The two ends come to agree once users stop (`EventuallyConverged`).
* Marks are neither lost, doubled nor forgotten (`QueueConsistent`,
  `NewestReportKept`, `NoLostWakeup`, `EveryMarkTaken`), cycles exclude each
  other (`CyclesAreMutexed`), and a logout ends (`LogoutFinishes`).
* The server's handlers are atomic (`Atomic`, `LockExclusive`), answer with the
  hash of the content they judged (`HashIsCurrent`, `CacheBounded`), do not starve
  (`EveryRequestAnswered`), and a batch of the history is committed as it was at one
  moment (`CommitIsConsistent`).
* A change on the server is announced until it is pulled (`StaleIsAnnounced`,
  `ChangesGetPulled`), a stream is trusted while it delivers and not for longer
  (`QuietStreamStaysHealthy`, `OpenPageGetsFresh`), and a reconnect is one
  (`OneSource`) and catches up (`GapsAreCaughtUp`).
* Messages are lost in two known ways only, are not given up early, and get settled
  (`NoMessageLost`, `GivenUpLast`, `EveryMessageSettled`).
* A version the client calls seen is indexed or about to be, unless one of three
  named events hit it (`SeenGetsIndexed`, `ChangesGetIndexed`).
* A logout that was not forced takes no edit away (`LeavesSaved`, `DeletesSynced`)
  and leaves no editor frozen (`FrozenTabsRecover`).

## 2. Modules

```
SyncOrigin          pure functions on queue entries
  |-- DirtyQueue        the queue
  |     `-- SyncEngine      run loop, requests, logout   -- MCSyncEngine, SyncEngineProofs
  |-- SpaceSync         syncFile on one path             -- MCSpaceSync, SpaceSyncProofs
  `-- EventStream       watcher, stream, tab, health     -- MCEventStream, EventStreamProofs
CondStore           abstract: an atomic conditional store
  `-- FsStore           the server's handlers, implements it -- MCFsStore,
                                                            FsStoreProofs, FsStoreRefinement
Logout              tabs, workers, page and session      -- MCLogout, LogoutProofs
MessageQueue        the queue over the datastore         -- MCMessageQueue, MessageQueueProofs
SpaceEvents         snapshot, events and index           -- MCSpaceEvents, SpaceEventsProofs
```

How they fit: FsStore discharges what SpaceSync assumes of the server, that its
handlers are atomic.  EventStream reuses SyncOrigin's `mergeOrigins` and `shouldSkip`
for the marks it makes and treats a cycle of SpaceSync as one pull.  Logout takes
the synchronization that SyncEngine models for one step that may fail.
SpaceEvents uses the message queue as MessageQueue's properties let its callers
see it.

**SyncOrigin** translates `mergeOrigins`, `reportedRevision`, `signalFor`,
`shouldSkip` and `localWriteIsEcho` one to one.  `SpaceSync` instantiates it with
contents as hashes, `DirtyQueue` extends it.

**DirtyQueue** has the four fields of the class.  `take` is split into its rounds:
a full scan, a path, nothing (`Wait`), the timeout, the resumption.

**SyncEngine** is the run loop as a program counter over the queue.  A cycle is
only the interval during which it holds `isSyncing`.  `Turn` says when the thread
is free: triggers, timers and the steps of a logout are enabled only while the
run loop waits for a task, so a loop of microtasks shows as what it is.
`localWriteIsEcho` runs outside the loop's `try`: when the local store throws there
(`LocalReadFails`) `run` is rejected and the loop is `"dead"` until the service worker
starts again.
After a scan `syncSpace` prunes its stores (`pruning`) before it returns.  A logout
scans, sleeps and scans again until a scan finds nothing to do or its expiry
cancelled it.

**SpaceSync** is `syncFile` on one path.  Variables and code:

| Model | Code |
|---|---|
| `local`, `remote` | the path's file in the local store and on the server: content and timestamp |
| `snap`, `disk` | the `SyncSnapshot` in memory and the one saved last, as far as they are about this path; `others` stands for "some other path has a recorded revision", all that the code asks of the other entries |
| `safety`, `copies` | the safety store; the conflict copies on either side |
| `dirty` | the path's entry in the queue |
| `syncing` | who holds `isSyncing` |
| `pc`, `reg` | per running `syncFile`: its next step and its local variables |
| `made`, `dropped`, `published`, `seen` | history variables for the properties |

Content is the set of edits it contains: a save adds a fresh one, a hash is the
content itself, and a three-way merge is a merge of sets (`Merge3`).  Atom 0 stands
for conflict markers, which the server refuses to merge over.  One action is the
code between two accesses to a store or the server.  `Scenario` is the decision
tree of `syncFile`, in its order.  Every request may fail without effect (`Lost`),
and a mutating one after it took effect, if `Faults` names it.  A scan and a
single-file cycle differ as in the code in what they save when they end or fail
(`Return`, `Throw`, `EndScan`).

The last write of a call, the update of its entry and the save of the snapshot are one
step (`PullWrite`, `ReconcileWrite`, `DeleteLocalCopy`, `DropUnsynced`, the `Put` steps),
for nothing but the death of the worker tells them apart.  That death is an action:
`Killed` lets the write land and loses everything else, and `Kills` names the steps after
which it may come.  `Crash` is a restart between two steps.  The save itself is not
awaited (`void this.emit`, sync.ts:406 and 474); a cycle that starts before it has landed
is not told apart from one that starts after it.  In a scan the path's own progress is
saved when it completes, and the saves that other paths cause are `OtherPathSynced`.

The server's handlers are atomic here, because each runs under its path's lock
(fs.rs: `path_lock` in PUT, DELETE and reconcile); FsStore shows it.  Writers outside the server are seen in `PostRetry`, where they keep
the reconciliation from settling.

Abstractions worth knowing: the echo check of a local save and the reading of
the metadata that follows it are one step; the metadata lookups of the conflict
copies and the local write of the copy are one step; the stores of bases and
safety copies never lose anything; IndexedDB never fails; the path is eligible
for merging and not part of the standard library.  A save or deletion of a path
that isn't synced goes to the server and there is like any other client's.

The gaps between a check and the act it licenses are listed in `Gaps`, and
`Windows` says in which of them a save may land.  The passing runs keep saves out
of all of them: this separates what the protocol
guarantees from the windows the code leaves.  Deletions, remote writes,
failures and restarts land in the gaps in every run.

A PUT that is answered neither with success nor with 412 (`Rejected`, fault
`putAnswer`) drops the recorded revision before it throws, as the code does.

**CondStore** and **FsStore**.  CondStore is the promise: a request is called, takes
effect or not on the content of one moment (`Apply`), and returns.  FsStore has the
code's steps: a thread of the blocking pool enters the mutation gate, looks its
path's lock up (sweeping the table), takes it, stats, reads, consults and fills the
hash cache, writes by rename, and answers; GET, HEAD and the metadata requests take
no lock.  Other programs write files at any time except between a mutation's last
check and its write (`Exposed`): there the code has no defence, and `AnyWindow = TRUE`
shows it.  Writes of requests and of other programs may leave a stamp that was seen
before if `Repeats` says so.  `commit` is the commit of the revision engine that holds
`commit_lock`.  The commit of a batch (`CommitBegin`; engine.rs, `commit_locked`) also holds
the mutation gate (`gated`) and reads its files one by one.  The commits of the sweep and
of the second half of `snapshot_now` (`SweepBegin`) do not, and what those read is left
out: nothing in the code makes it consistent.  `Store` maps FsStore to CondStore; a
request's effect happens where its answer is decided.

**EventStream**.  A change on disk is notified (`raw`), received and debounced
(`pending`; which paths are due together is open), looked up and enriched with the
hash of a later moment (`resolved`), sent into a channel that drops its oldest event
for a slow subscriber, streamed with pings, coalesced by name in the tab (`box`), and
flushed: one by one, or as one scan when there are many.  `marks` and `full` are the
service worker's queue.  Both modes, with and without a service worker, are initial
states.  `missed` is a history variable: whether the event that mattered met no
connection, was lost with one, or belonged to a request that failed.  Time is
counted in ticks for the health only.  There is one tab: in the code all tabs share
`realtimeHealthyUntil`, and the report of another tab that its connection broke zeroes it
(sync_engine.ts:139), which costs probes and no change.  Left out: ignore rules, failures of stat
other than "not found", overflow of the operating system's notifications,
attribution of writes, `sync` events and `stop`.

**Logout**.  `tab`, `ini`, `att`, `hnd` are the LogoutParticipant of each editor, the
`logoutBrowserSession` it runs, WorkerLogout's attempt and the handler of its
`logout-sync`.  Messages to and from a worker keep their order, broadcasts do not.
An editor's text is whether it holds unsaved edits, a space's files whether they
hold edits the server lacks.  Tabs load and close, workers restart, answers time
out, and `Lapse` is the 30 s of the localStorage state.  `Listed` is the handler after it
listed the tabs: it asks them to save and, when the session was revoked meanwhile, tells
them so at once.  `CleanUp` makes one step of the page's several awaits.  Each of them only
removes something, the state that says "revoked" goes last and keeps tabs that load
meanwhile from starting, and a save that lands between two of them shares the fate of
one that landed before the first.

**MessageQueue**.  One datastore call is one step.  A lease is whether
`requeueTimeouts` would take it for dead: it runs out when nobody is left to renew it
(`Expire`), or under a worker whose tab is suspended or throttled (`Outlive`).  Waiters,
wake-ups, stale timers of earlier waits and `stop` are as in the code's `subscribe` loop.
`Reload` ends a tab at any step: what its workers had polled is left to the leases, and
what its `requeueTimeouts` had deleted and not yet written back is gone.  Two history
variables say what that costs.  `torn` has the messages whose last copy went with such a
death, or with the second write of a poll whose message was requeued since its first;
`failed` counts the deliveries of a message that ended in a failed callback, a death or an
outlived lease.  Left out: a datastore call that rejects, which ends its worker's loop.

**SpaceEvents**.  Every `await` of EventedSpacePrimitives is a step boundary: reads,
writes, deletions and one listing at a time, the saves of the snapshot, deferred
listings with their timer, and the clearing of a deleted file, which the listener of
`file:deleted` does after the snapshot has lost it (`ClearOp`, `ClearForgotten`).  The index
plug has several jobs at once (`work`): the messages of a batch, and those of the next batch
when a worker that `reloadQueues` stopped still runs one (`overlaps`).  A job clears and
reads (`IndexRead`), and writes on top of what is there (`IndexWrite`).  It may fail at
either (`IndexFails`), or its acknowledgement may, and then its message is delivered again
until its retries are spent.  `index` has the versions with objects, and the one written
last, so an older version that overwrites a newer one shows.  `missed` counts for each file
the version that nothing may index any more: its message was given up, the late clear of
a deletion wiped it, or a reload found it in the saved snapshot with its event lost.
Left out: the deferral of files the sync engine has not delivered (queue.ts:24-37),
listeners that fail without being noticed, several tabs, and what the queue itself loses,
which is MessageQueue's.  Clearing is one step (a query and a deletion), clearing and reading
of a job are one step, and messages that are equal are one.

## 3. Runs

Bounds: the file has up to three edits (two where faults multiply the states), made
on either end; the clock has two milliseconds, so that writes share one and
differ; one deletion; one worker slot, or two where cycles
overlap; the first edit changes the size and the others do not.  Every conflict in
this code is between two versions and a base, so three edits give every relation
of the three, with one edit left to land in the middle of the resolution.
`deletions` has two reconfigurations, one to exclude the path and one to include it again,
and a restart.  The run `queue` has two paths, two revisions and two marks, which merge,
reorder and are put back in every combination; the theorems cover its safety for any
number.

| Run | Checks | Shows |
|---|---|---|
| `edits` | `TypeOK`, `NoLostEdit`, `RecordedRevisionWasHeld`, `EventuallyConverged` | edits and deletions on both ends against scans and single-file cycles; agreement once users stop |
| `outages` | `NoLostEdit`, `RecordedRevisionWasHeld` | requests fail before or after taking effect; events get lost; a restart at any point, also between a write and the save of the snapshot |
| `deletions` | `DeletionsAreTheUsers` | a deletion, edits, the path excluded and included again, a restart as in `outages`, except right after the deletion of the excluded copy |
| `overlap` | `BaseIsPublished` | two cycles on the path at once, a resolution that fails midway, snapshots of a client that recorded no revisions |
| `queue` | `TypeOK`, `QueueConsistent`, `CyclesAreMutexed`, `NoLostWakeup`, `NewestReportKept`, `EveryMarkTaken`, `LogoutFinishes` | queue, run loop and logout, with marks of every kind, two requested full scans and a read of the local store that fails; a mark waits for finitely many full scans and is taken as long as the loop runs, and a logout ends unless entries that are no local saves are queued |
| `store` | `TypeOK`, `LockExclusive`, `CacheBounded`, `HashIsCurrent`, `Atomic` | two threads, two paths, a writer outside the server: FsStore implements CondStore |
| `store_waits` | `CommitIsConsistent`, `EveryRequestAnswered` | mutations of two paths, contention on one, retries of a reconciliation, a commit of a batch, or one of the sweep |
| `mq` | `TypeOK`, `NoMessageLost`, `GivenUpLast`, `EveryMessageSettled` | two workers of a tab, failures, renewals, stops, a reload at any step, a lease that is outlived |
| `logout` | `TypeOK`, `LeavesSaved`, `DeletesSynced`, `FrozenTabsRecover` | one logout or forced logout of two tabs, a third one loading, one fault |
| `events` | `TypeOK`, `SeenGetsIndexed`, `ChangesGetIndexed` | two operations and a listing overlap with remote changes, with two jobs of the index plug, and with a reload, a failure or overlapping batches |
| `stream` | `TypeOK`, `StaleIsAnnounced`, `QuietStreamStaysHealthy`, `OneSource`, `ChangesGetPulled`, `OpenPageGetsFresh`, `GapsAreCaughtUp` | two changes of two files and one fault |

`outages` lets every request fail but one, the lookup of a conflict copy, whose
failure is what `armed_delete` is about, and answers every PUT with success or 412.
A server that never reconciles is reached in `outages`, where every reconciliation
may fail and the resolver takes over.  Overlapping cycles, which a failed scan makes
possible, are reached in `overlap`, with one edit, one deletion and the failing lookup
that `outages` leaves out; the theorem `BasePublished` covers any number of them.

TLC also found `deletions` without error with two deletions, one reconfiguration and three
edits (10,927,719 states), and with two deletions, two reconfigurations and two edits
(1,854,357); and `NoLostEdit`, `RecordedRevisionWasHeld` and `DeletionsAreTheUsers` together, with every
kill and every failure of `outages` but those of the resolver's writes, with three edits and
one restart (9,254,323) and with two edits and two restarts (949,383).  These are larger
than the runs, or ask the same question.

The bounds of the other runs: `store` has a cache of one entry and sweeps the lock
table at every lookup, so eviction and sweep happen next to every request; three
lock identities suffice for two threads.  `store_waits` has two paths, so that a commit has something
to see in between, and one commit of either kind.  In `mq` one message is enough for every race between poll, renewal,
requeue and acknowledgement, which are all about one message.  `logout` has a tab
more than it starts with, since what loads during a logout matters.  `events` has one
file, two versions, three calls, two jobs, one retry and one fault (a reload, a failure or
an overlap): the races are between two writers of one snapshot entry, and two jobs of one
file (729,481 states).  TLC also checked its safety with two faults (2,613,974 states), and
with two files, two calls and two faults (379,510).
`stream` sets the flood and batch thresholds and the capacity of the channel so low
that two changes exceed each of them; its ticks are as few as keep the throttle and
the expiry apart, and the theorem covers the other values.

Deadlock is checked in the `SpaceSync` runs, `store_waits`, `events` and `stream`.  `queue`
switches it off: an engine that was stopped has nothing left to do.  So do `store`, `mq`
and `logout`: their bounded inputs run out.

Each property of a passing run has a mutant in `PROJECT.json`: a plausible slip in
one mapped definition under which TLC finds the property violated.  The mutated
definitions stand before their originals and say "Mutant" in their comment.

### Findings

`armed_delete` is a run that ends in a counterexample to something the repository
says of itself: the resolver records the revision it reads, fails at its next
request, and the next local deletion removes a remote edit that was never seen.

Further counterexamples, which a change of constants reproduces; the passing runs
exclude them by name:

| Change | Violated | What happens |
|---|---|---|
| SpaceSync, `MaxCrashes = 1`, `OtherPaths = TRUE`, two edits | `RecordedRevisionWasHeld`, `DeletionsAreTheUsers`, `NoLostEdit` | a snapshot saved for another path in the middle of a pull, and a restart, leave a revision recorded that was never held |
| `Windows = {"resolvePut"}` | `BaseIsPublished` | a save during the resolver's push becomes the merge base without having been published |
| `Others = {FALSE}`, `Starts = {"empty"}` | `NoLostEdit` | the first push of a client states no precondition and overwrites a file created since the listing |
| two workers, `OtherPaths = TRUE`, two edits | `DeletionsAreTheUsers`, `RecordedRevisionWasHeld`, `NoLostEdit` | a failed scan releases `isSyncing` while its other workers go on; two cycles delete an unseen edit |
| `Faults` with `putAnswer` | `NoLostEdit`, `DeletionsAreTheUsers`, `RecordedRevisionWasHeld` | a refused PUT (a 413, say) drops the recorded revision before it throws; the next cycle decides without it |
| `Windows` with one of `pullWrite`, `reconcileWrite`, `deleteLocal`, `resolvePut`, `resolverBase`, or with `resolveGet` where `put` may fail | `NoLostEdit` | a save between a recheck of the local copy and what the recheck guards is overwritten, deleted, or taken for the common base |
| `deletions` with `Faults = {"put"}` or `{"copyPut"}` | `DeletionsAreTheUsers` | a write of the resolver fails after it recorded the server's revision, which is only a conflict copy here; the next local deletion removes it from the server |
| `Starts = {"upgraded"}` | `NoLostEdit`, `DeletionsAreTheUsers`, `RecordedRevisionWasHeld` | without recorded revisions an edit in the recorded millisecond goes with a remote deletion |
| `Kills = {"unsynced"}`, `MaxCrashes = 1`, `MaxReconfigs = 2` | `DeletionsAreTheUsers` | a path that is excluded has its local copy deleted (sync.ts:770), the worker is killed before the snapshot is saved, and the path is included again: the old entry and the missing copy look like a deletion, and the remote file goes, which no user deleted (18 steps) |
| `MaxReconfigs = 1` | `NoLostEdit`, `RecordedRevisionWasHeld` | a path that stops being synced loses edits that were not pushed, and keeps the recorded revision of a copy it no longer has |
| `outages` with `copyMeta` | `RecordedRevisionWasHeld`, `DeletionsAreTheUsers`, `NoLostEdit` | the state that `armed_delete` exploits |
| SyncEngine, `LogoutFinishes` without its second disjunct | itself | an entry refused during a logout's scan is marked again in a loop of microtasks; the scan and the expiry never run again |
| SyncEngine, requests for full scans without a bound | `EveryMarkTaken` | by the code alone: a full scan goes before every path (dirty_queue.ts:165), so a path waits for all of them |
| SyncEngine, `EveryMarkTaken` without the dead loop | itself | the local store throws in `localWriteIsEcho` (sync_engine.ts:234), `run` ends, and marks pile up |
| FsStore, `Repeats = TRUE` | `HashIsCurrent` | a PUT, or a write of another program, that leaves the time and size of an earlier content makes the recorded hash stale |
| FsStore, `AnyWindow = TRUE` | `Atomic` | such a write between the last check and the rename is overwritten |
| MessageQueue, invariant `torn = {}`; `MaxLate = 1` | itself | a lease runs out under a poll that has written the claim; the message is requeued, and the poll's second write deletes it (9 steps) |
| the same; `MaxReloads = 1` | itself | the tab is reloaded between the deletion and the write of a requeue (mq.datastore.ts:300 and 341), and the message is in no store (10 steps) |
| the same; two tabs | itself | two tabs requeue one message; the second does so between the two writes of a poll (16 steps) |
| Logout, `MaxAttempts = 2`, no faults | `DeletesSynced` | the second tab's logout overwrites `sb-logout-state`, fails and clears it (logout.ts:446); a tab loads, is not asked to save, and its edits are deleted with the local files, although logout.ts:263 promises that only for a forced logout |
| Logout, `Dawdles = TRUE` | `DeletesSynced` | the confirmation dialog outlives the 30 s of the state, with the same result |
| Logout, `MaxAttempts = 2`, `LateEdits = TRUE` | `LeavesSaved` | an editor of an earlier attempt is released and then sent away |
| SpaceEvents, without `missed` of a reload | `SeenGetsIndexed` | a deletion saves entries a listing has not announced; a reload then forgets to index them (9 steps) |
| SpaceEvents, without `missed` of a clear | `SeenGetsIndexed` | a file is deleted and written again; a listing finds it and it is indexed before the deletion's clear comes, which wipes it; no fault is needed (14 steps) |
| SpaceEvents, `SeenGetsIndexed` with the order also for overlapping batches | itself | the batch of a worker that was stopped overlaps the next one and writes its older version last (19 steps) |
| SpaceEvents, invariant "one version per file in the index" | itself | a new file's message is delivered again after its objects were written; as it is new nothing clears them, although plugs/index/queue.ts:82 says that every route replaces (12 steps) |
| EventStream, `GapsAreCaughtUp` without `~worker` | itself | with a service worker the listing after a reconnect is of its own files (realtime_events.ts:170); the change waits for the periodic scan, while probes of the open page are skipped again |

When a change event is lost, a remote edit of the same millisecond and size is never
noticed by a scan; `EventuallyConverged` is checked without lost events.

### Fairness

`SpaceSync!Fairness`: weak fairness of every cycle's steps and of `StartScan`, strong
fairness of `Take`.  The run loop alternates a full scan with a drain of the queue
(sync_engine.ts, `run`), requests are bounded by timeouts or answered, and an entry in the
queue is taken in the drain that follows each scan, although scans keep
disabling `Take` in between.  `SyncEngine!Fairness`: weak fairness of the run loop (a resolved promise
has its continuation run) and strong fairness of the logout's steps and timers:
the event loop delivers a task that is ready over infinitely many turns.
Neither assumes that the run loop ever yields.

The other modules: FsStore, weak fairness of every thread and strong fairness of its
two locks (neither the gate nor a path's lock is handed to others for ever).
MessageQueue, weak fairness of the workers, of the interval timer of each tab and of
sleeps and leases that run out with nobody to renew them; none of a reload or of a lease
that is outlived.  Logout, weak fairness of delivery, saves, timeouts
and the expiry; nothing makes a tab close or a user log out.  SpaceEvents, weak fairness of
operations, the interval, the timers and the index plug (which may fail only as often as
the faults allow), and strong fairness of a listing that is put off again and again.  EventStream, weak fairness of the
watcher's thread, the timers, the delivery on a connection that works, flushes and
the run loop; nothing is assumed of the periodic scan, of a connection that fell
silent, or of the browser's online event, so the properties hold without them.

## 4. Proofs

All theorems hold for every value of the constants that satisfies the named
assumptions (naturals as bounds, `None` different from every value it stands next
to).

**SyncEngineProofs** (a loop that died included). `TypeCorrect`, `QueueIsConsistent`, `CyclesMutexed`,
`NoWakeupLost`, `NewestReportIsKept`.  The type invariant is inductive with
`HoldsEntry` (an entry is in hand exactly where the loop works on one).
`CyclesAreMutexed` is inductive as it stands.  `QueueConsistent` rests on
`MarkConsistent` and its counterpart for taking the head of the list.
`NoLostWakeup` needs that a waiting loop has a waiter (`WaitInv`), and
`NewestReportKept` that a revision is remembered only for a pending path
(`ReportInv`): without it an entry put back over an older report would not be
covered.

**SpaceSyncProofs.** `TypeCorrect`: `TypeInv` strengthens `TypeOK` with `Ready`, which
says for each step which locals earlier steps have filled in; one lemma per
action.  `BasePublished`: the merge base names no edit that the server has not
held, for any number of overlapping cycles, faults, restarts (any `Kills`) and
reconfigurations.  Its inductive invariant `PubInv` adds that the contents on their
way to become a base (the copy being pushed once it landed, the copy read from
the server, the merge result) are published; the theorem assumes that no save
lands in the resolver's windows, and it must (see the counterexamples).  Both
theorems include refused PUTs (`RejectedType`, `RejectedPub`).

The other three theorems are about what a delete or an overwrite relies on.  They share
two conditions.  `OneCycle`: two calls do not work on the path at the same time and no
snapshot is saved for another path in the middle of one and read back after a crash.
`Recording`: entries have revisions (`"upgraded"` is no start) and the faults do not
stop a call between recording a revision and holding its content (`copyMeta`,
`putAnswer`).

All three include restarts between two steps, and between a write and the save of the
snapshot as far as is said for each.

* `RecordedWasHeld` (`RecordedRevisionWasHeld`), if the sync configuration stays, for any
  `Kills`.  The property speaks of the moments between calls, and a call records a revision well
  before it holds the content.  `HeldInv` therefore says for each position of a call
  (`Holds`) what is still owed: which of its locals, the entry and the local copy
  consists of edits this replica had (`Had`), had and lost to a user (`Gone`), or may
  vouch for (`Vouch`, with the conflict copies where the resolver may fail).  After a kill
  between a local write and its save, the old entry's revision is no longer covered by the
  local copy and what users deleted; `Lasting` is what it is still covered by: the copies
  put aside if the cycle is careful, and the history `seen` otherwise.
* `DeletesAreTheUsers` (`DeletionsAreTheUsers`), if the resolver's writes do not fail and
  no kill comes between a write of the local copy and its save (`Kills \cap LocalWrites =
  {}`); for `"unsynced"` that is necessary, and for the other local writes the run
  `deletions` covers it and the theorem does not.  It follows from `HeldInv` without conflict copies: while the local copy is missing,
  what the entry records was in a file a user deleted, and the server compares the
  recorded revision with its file.  Reconfigurations, saves in all windows, and kills
  after a write of the server's file are included.
* `NothingIsLost` (`NoLostEdit`), under `OneCycle` and `Recording`, if no save lands in a
  window, the configuration stays, and the client has recorded a revision of some path
  before, so that its pushes state a precondition (`Careful`); for any `Kills`.
  `LossInv` splits the property in two (`Intact`): what was published is on the server
  or put aside, and what was not is here.  `Safe` says for each position of a call that
  overwrites or deletes a copy what it relies on: the precondition of a PUT covers the
  server's content with what is pushed and what is put aside, and the local copy a pull,
  a merge or a deletion is about to replace has been published or saved, and, since the
  worker may be killed right after the write, that the saved entry stays harmless without
  that copy (`Survives`).  It needs `HeldInv` (a deletion), `PubInv` (a merge) and `CalmInv` (the path is one that is
  synced).

The runs `edits` and `outages` are instances of `Careful`; `deletions` has more kills than
its theorem.  Every other condition is necessary: the table above has a counterexample
for each.

**EventStreamProofs.** `DeliveringIsHealthy` and `OnlyOneSource`, for every ping
interval, throttle and expiry with `PingInterval + Throttle <= HealthTtl` (30 s, 5 s
and 45 s in the code).  Health alone is not inductive: the invariant bounds two sums,
`life + beat` while the throttle runs and `life + idle` always, and needs that a tab
that is not connected has no throttle running (`reportDown` resets it).
`TypeCorrect`, and `NoChangeIsLost` (`StaleIsAnnounced`), without any condition on
thresholds, capacity, faults or the number of files.  That something on its way
announces a stale file is not inductive: a later event about the file replaces the one
in the tab's box, or is merged with its mark.  `AnnounceInv` says instead that a stale
file is with the watcher, will be swept by a resync, or that the *last* event about it,
in the order channel, box, flush, mark, is one that makes the client look
(`Newest`).

**FsStoreProofs, FsStoreRefinement.** `TypeCorrect`, `LocksExclude`, `CacheIsBounded`,
`CommitsAreConsistent`, `HashesAreCurrent` and `StoreIsAtomic`: the handlers implement
CondStore, step by step.  `CommitsAreConsistent` is about the commit of a batch, which
holds the mutation gate; sweeps and snapshots run beside it, and nothing is claimed of
what they read.  `TypeInv` adds the control state of a handler (which steps
its kind of request takes, which locals are filled in).  `LockInv` says that a
lock a thread refers to stays in the table, which is what the sweep must respect.
`CacheInv` says that the eviction queue (`order`) has at most `Capacity` paths and that every
cached path is in it, so the bound holds although `forget` leaves paths in the queue.  `HashInv` adds what a handler may still vouch for when it writes a
hash down.  The refinement rests on `JudgedInv`: what a handler has judged of the
file stays true until it acts on it.  `CommitsAreConsistent` assumes that other programs
do not write in the exposed windows (`~AnyWindow`), `HashesAreCurrent` and
`StoreIsAtomic` also that no write repeats time and size (`~Repeats`).  Both conditions
are necessary: the table above has the counterexamples.  The others have none.

**MessageQueueProofs.** `TypeCorrect`, `NoMessageIsLost` and `GivenUpIsLast` for any number
of tabs, workers, messages, failures, reloads and outlived leases, without a condition.
The invariant `QueueInv` says of each message that is not acknowledged that every record
of it carries fewer retries than its deliveries ended badly (`Counted`), that it has a copy
or is `torn` or given up (`Kept`), and, as long as the one tab there is was not reloaded and
no lease was outlived (`Undisturbed`), where its copies may be (`Place`), from which
`torn = {}` follows.

**SpaceEventsProofs.** `TypeCorrect` and `SeenIsIndexed` (`SeenGetsIndexed`), without a
condition: the events that harm are named by `missed` and `overlaps`.  What an operation saw
goes into the snapshot only when it runs alone (`AloneInv`).  `SeenTold`, `SavedInv` and
`CacheInv` say of the snapshot, of its saved copy and of an operation about to update it
that the file's version is `Told`: missed, queued, or indexed or being read with no job
about to write an older one (`Stale`) unless batches overlapped.

**LogoutProofs.** `TypeCorrect`, and `LeaversAreSaved` (`LeavesSaved`) if nobody edits after
the session is revoked (`~LateEdits`, see the table), for any number of tabs, workers,
attempts, forced attempts and faults.  The invariant `LogoutInv` is about who may believe what:
messages on their way, workers and editors speak of a revoked session only when it
is, and of a cancelled attempt only when no tab runs it (`MailInv`, `WorkerInv`);
therefore an editor that takes part is frozen while the session lasts, and what it
saved stays saved (`Editor`), also in the tab that runs the attempt (`Runner`).
`OwnInv` says that an attempt has one initiator and that only its own editor answers
it first; without it the save of another tab could let an attempt go on.

`DeletedFilesAreSynced` (`DeletesSynced`) for one attempt whose user answers the confirm
dialog within the 30 s of the logout state (`OneAttempt`; both are necessary, see the
table), with any number of tabs, workers, closed tabs, restarts, edits to the end, and a
forced attempt instead.  What must hold when the files are deleted is decided much earlier,
in other processes.  `SyncInv` follows the attempt through three phases.  *Before* the
revocation is recorded, `Stage` relates each worker's mail, its handler and the answer
the initiator has: a handler that waits for an editor's save covers it, one that
synchronizes has every open editor saved and frozen (`Ready`), and a worker whose
success the initiator counts is `Settled`, or was restarted since, with nothing left to
synchronize.  No tab can start meanwhile, since the logout state is the attempt's own
(this is what a second attempt, or its lapse, breaks).  Once the revocation is
*recorded*, no message is on its way that could release a `Ready` editor, and a worker's
expiry finds it cleared or about to be (`ClearComes`).  Then the files are *gone*, and no
cleared worker gets new ones.  `BooksInv` says that an expiry belongs to its worker's
attempt and a handler to an attempt that began.

**Only model-checked:** the liveness properties (`EventuallyConverged`, `EveryMarkTaken`,
`LogoutFinishes`, `EveryRequestAnswered`, `EveryMessageSettled`, `FrozenTabsRecover`,
`ChangesGetIndexed`, `ChangesGetPulled`, `OpenPageGetsFresh`, `GapsAreCaughtUp`), since
fairness and `ENABLED` are outside the prover's reach; and what the conditions above
exclude, for which the table has the counterexamples.

## 5. Plan

Done: the modules of section 2, their runs, and the proofs above: every safety property
of a passing run is stated by a theorem.  What would come next:

1. **SpaceSync**: a weaker promise than `NoLostEdit` that holds with saves in the windows
   (which edits may go, and only those), so that the theorem needs no `Windows = {}`.
2. **Logout**: the same for several attempts, once `sb-logout-state` belongs to the
   attempt that wrote it.
3. **Base and safety store**: pruning, so that `Kept` may shrink.

## 6. Not modelled

* **Base and safety store**: pruning by age and size. SpaceSync keeps every base; a
  base that is gone only sends a path to the conflict resolver.
* **Line merge internals**: the alignment of lines is a sequential algorithm over
  texts; its effect on edits is `Merge3`.
* **declareDivergentBase, wipe and the standard library's resolver** of the sync
  engine; **flushQueue, flushDLQ, isQueueEmpty** of the message queue; **ignore rules
  and attribution** of the watcher; **range reads and If-Modified-Since** of the
  server.
* **Revision history** apart from its commits: what the commits of the sweep and of a
  snapshot read, debounce, pruning and a Git remote.
* **Authentication, multiple spaces, runtime manager**: request-scoped checks and the
  supervision of a browser process.
* **Lua runtime, markdown and other parsers, plugs, editor, navigator, dashboard,
  command line, benchmarks**: about nine tenths of the repository's lines.  They are
  sequential interpreters, parsers and user interface over unbounded texts and
  trees, without shared state or messages a model checker could interleave; their
  correctness is what a value is, which tests reach.  The map therefore covers a small
  share of the whole repository, and most of the files that keep the shared state
  described above.
