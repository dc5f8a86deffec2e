---------------------------- MODULE SpaceEvents ----------------------------
(***************************************************************************)
(* How a client learns of changed files and has them indexed:              *)
(* client/spaces/evented_space_primitives.ts.  It wraps every operation on *)
(* the space, remembers the modification time it last saw of each file     *)
(* (the snapshot) and turns differences into events.  file:changedBatch    *)
(* queues files for indexing, file:deleted clears their index              *)
(* (client/client.ts, client/data/object_index.ts), and the index plug     *)
(* takes files from the queue (plugs/index/queue.ts).                      *)
(*                                                                         *)
(* Every await is a step boundary.  A modification time is a version,      *)
(* which grows with every write; None is a file that is not there.  The    *)
(* queue is MessageQueue as its callers see it: it outlives the tab,       *)
(* delivers a file again that was not acknowledged, and gives it up after  *)
(* MaxRetries of them.  Files of one batch are indexed at the same time.   *)
(***************************************************************************)
EXTENDS Naturals, FiniteSets

CONSTANTS
    Files,
    Slots,          \* bound: operations on the space that run at a time, numbered
    MaxVersion,     \* bound: writes
    MaxCalls,       \* bound: operations here and writes and deletions elsewhere
    MaxFaults,      \* bound: reloads of the tab, files that fail and overlapping batches
    MaxWork,        \* bound: messages in work at a time
    MaxRetries,     \* mqTimeoutRetry
    None

ASSUME EventsAssumption ==
    /\ MaxVersion \in Nat /\ MaxCalls \in Nat /\ MaxFaults \in Nat
    /\ MaxRetries \in Nat /\ MaxWork \in Nat
    /\ None \notin Nat /\ Slots \subseteq Nat /\ IsFiniteSet(Slots)

Versions == 1..MaxVersion
Listing == [Files -> Versions \cup {None}]
\* IndexQueueBody, where cleared is isNew, and the message's count of retries.
Changes == [file : Files, cleared : BOOLEAN, retries : 0..MaxRetries]
Change(f, isNew) == [file |-> f, cleared |-> isNew, retries |-> 0]

VARIABLES
    disk,       \* the files of the wrapped space
    snapshot,   \* spaceSnapshot
    changed,    \* snapshotChanged
    saved,      \* the snapshot in the datastore
    op,         \* per slot: the operation it runs
    list,       \* the listing in flight
    deferred,   \* deferredFetchFileList
    timers,     \* whether the timer of a deferred listing runs
    queue,      \* indexQueue: the files to index
    work,       \* the messages the index plug works on, with the version it has read
    index,      \* per file: the versions the index has objects of, and the one written last
    missed,     \* history: the version of each file that Missed counted last
    used        \* [version, calls, faults, overlaps] so far

vars == <<disk, snapshot, changed, saved, op, list, deferred, timers, queue, work, index,
          missed, used>>

NoFiles == [f \in Files |-> None]
NoOp == [at |-> "idle", file |-> None, seen |-> None]
NoObjects == [has |-> {}, last |-> None]
NoListing == [at |-> "idle", found |-> NoFiles, changes |-> {}, gone |-> {},
              clearing |-> None]

Init ==
    /\ disk = NoFiles /\ snapshot = NoFiles /\ saved = NoFiles /\ changed = FALSE
    /\ op = [s \in Slots |-> NoOp] /\ list = NoListing
    /\ deferred = FALSE /\ timers = FALSE
    /\ queue = {} /\ work = {}
    /\ index = [f \in Files |-> NoObjects] /\ missed = NoFiles
    /\ used = [version |-> 0, calls |-> 0, faults |-> 0, overlaps |-> 0]

Busy == {s \in Slots : op[s] # NoOp}
operationCount == Cardinality(Busy) + (IF list = NoListing THEN 0 ELSE 1)

Events == UNCHANGED <<queue, work, index, missed>>
Snapshots == UNCHANGED <<snapshot, changed, saved>>
Goto(s, l) == op' = [op EXCEPT ![s].at = l]

updateInSnapshot(f, v) ==
    /\ snapshot' = [snapshot EXCEPT ![f] = v]
    /\ changed' = (changed \/ snapshot[f] # v)

\* What the listeners of file:changedBatch and of file:deleted do.
Enqueue(changes) == queue' = queue \cup changes /\ UNCHANGED <<work, index, missed>>
Clear(f) == index' = [index EXCEPT ![f] = NoObjects]

\* The version of the file that is there may never be indexed.
Missed(fs) == missed' = [f \in Files |-> IF f \in fs THEN disk[f] ELSE missed[f]]

\* The listeners run after the snapshot has changed.  A listing may have found
\* the file again by then, and the index plug indexed it: that is cleared too.
ClearLate(f) ==
    /\ Clear(f) /\ Missed(IF disk[f] \in index[f].has THEN {f} ELSE {})
    /\ UNCHANGED <<queue, work>>

\* saveSnapshot writes what the snapshot is now; the flag falls when that is done.
Save == saved' = IF changed THEN snapshot ELSE saved

-----------------------------------------------------------------------------
(* Another device, or the sync engine, writes and deletes files.           *)

Elsewhere ==
    /\ used.version < MaxVersion /\ used.calls < MaxCalls
    /\ used' = [used EXCEPT !.version = @ + 1, !.calls = @ + 1]

RemoteWrite(f) ==
    /\ Elsewhere
    /\ disk' = [disk EXCEPT ![f] = used.version + 1]
    /\ Events /\ Snapshots /\ UNCHANGED <<op, list, deferred, timers>>

RemoteDelete(f) ==
    /\ Elsewhere /\ disk[f] # None
    /\ disk' = [disk EXCEPT ![f] = None]
    /\ Events /\ Snapshots /\ UNCHANGED <<op, list, deferred, timers>>

-----------------------------------------------------------------------------
(* readFile, getFileMeta, writeFile, deleteFile.                           *)

\* Slots are interchangeable: a new operation takes the first free one.
Begin(s, call, f) ==
    /\ op[s] = NoOp /\ \A t \in Slots : t < s => op[t] # NoOp
    /\ used.calls < MaxCalls /\ used' = [used EXCEPT !.calls = @ + 1]
    /\ op' = [op EXCEPT ![s] = [at |-> call, file |-> f, seen |-> None]]
    /\ Events /\ Snapshots /\ UNCHANGED <<disk, list, deferred, timers>>

\* The finally blocks, with checkDeferredFetchFileList.
Ended(s) ==
    /\ op' = [op EXCEPT ![s] = NoOp]
    /\ LET now == deferred /\ operationCount = 1 IN
       /\ deferred' = (deferred /\ ~now)
       /\ timers' = (timers \/ now)

\* The wrapped space has answered; what it said is used in a later step.
Answer(s, v) == op' = [op EXCEPT ![s].at = "back", ![s].seen = v]

Read(s) ==
    /\ op[s].at = "read" /\ disk[op[s].file] # None
    /\ Answer(s, disk[op[s].file])
    /\ Events /\ Snapshots /\ UNCHANGED <<disk, list, deferred, timers, used>>

Write(s) ==
    /\ op[s].at = "write" /\ used.version < MaxVersion
    /\ used' = [used EXCEPT !.version = @ + 1]
    /\ disk' = [disk EXCEPT ![op[s].file] = used.version + 1]
    /\ Answer(s, used.version + 1)
    /\ Events /\ Snapshots /\ UNCHANGED <<list, deferred, timers>>

\* The file is not there, or the wrapped space refuses or cannot be reached.
Fails(s) ==
    /\ op[s].at \in {"read", "write"}
    /\ Ended(s)
    /\ Events /\ Snapshots /\ UNCHANGED <<disk, list, used>>

\* Whether what it said is news, by the snapshot.
Noticed(s) ==
    LET old == snapshot[op[s].file] IN
    IF old = None THEN "new" ELSE IF old # op[s].seen THEN "changed" ELSE "cache"

\* Mutant: it is remembered whatever else runs.
UsedAlways(s) ==
    /\ op[s].at = "back"
    /\ Goto(s, IF operationCount = 1 THEN Noticed(s) ELSE "cache")
    /\ Events /\ Snapshots /\ UNCHANGED <<disk, list, deferred, timers, used>>

\* It is used only when the operation runs alone, and is an event when it is news.
Used(s) ==
    /\ op[s].at = "back"
    /\ IF operationCount > 1
       THEN Ended(s)
       ELSE Goto(s, Noticed(s)) /\ UNCHANGED <<deferred, timers>>
    /\ Events /\ Snapshots /\ UNCHANGED <<disk, list, used>>

\* triggerEventsAndCache: file:changed and file:changedBatch ...
Trigger(s) ==
    /\ op[s].at \in {"new", "changed"}
    /\ Enqueue({Change(op[s].file, op[s].at = "new")}) /\ Goto(s, "cache")
    /\ Snapshots /\ UNCHANGED <<disk, list, deferred, timers, used>>

\* ... and then the snapshot.
Cache(s) ==
    /\ op[s].at = "cache"
    /\ updateInSnapshot(op[s].file, op[s].seen)
    /\ op' = [op EXCEPT ![s].at = "save", ![s].seen = None]
    /\ Events /\ UNCHANGED <<disk, saved, list, deferred, timers, used>>

\* deleteFile: the file goes, or that fails ...
Delete(s) ==
    LET f == op[s].file IN
    /\ op[s].at = "delete"
    /\ \/ disk[f] # None /\ disk' = [disk EXCEPT ![f] = None] /\ Goto(s, "deleted")
       \/ UNCHANGED disk /\ Goto(s, "save")
    /\ Events /\ Snapshots /\ UNCHANGED <<list, deferred, timers, used>>

\* ... then its entry of the snapshot, and with file:deleted the index.
Deleted(s) ==
    LET f == op[s].file IN
    /\ op[s].at = "deleted"
    /\ snapshot' = [snapshot EXCEPT ![f] = None] /\ changed' = TRUE
    /\ Goto(s, "clear")
    /\ Events /\ UNCHANGED <<disk, saved, list, deferred, timers, used>>

ClearOp(s) ==
    /\ op[s].at = "clear"
    /\ ClearLate(op[s].file) /\ Goto(s, "save")
    /\ Snapshots /\ UNCHANGED <<disk, list, deferred, timers, used>>

SaveOp(s) ==
    /\ op[s].at = "save"
    /\ IF changed THEN Goto(s, "saved") /\ UNCHANGED <<deferred, timers>> ELSE Ended(s)
    /\ Save /\ Events /\ UNCHANGED <<disk, snapshot, changed, list, used>>

SavedOp(s) ==
    /\ op[s].at = "saved"
    /\ changed' = FALSE /\ Ended(s)
    /\ Events /\ UNCHANGED <<disk, snapshot, saved, list, used>>

-----------------------------------------------------------------------------
(* fetchFileList.                                                          *)

\* The interval of 10 s, the timer of a deferred listing, and a refresh that
\* an event of the server asks for.  A second call joins the listing in flight.
Ask ==
    /\ list = NoListing
    /\ IF operationCount > 0
       THEN deferred' = TRUE /\ UNCHANGED list
       ELSE list' = [NoListing EXCEPT !.at = "wrapped"] /\ UNCHANGED deferred
    /\ Events /\ Snapshots

AskByInterval == Ask /\ UNCHANGED <<disk, op, timers, used>>

AskDeferred ==
    /\ timers /\ timers' = FALSE
    /\ Ask \/ (list # NoListing /\ Events /\ Snapshots /\ UNCHANGED <<list, deferred>>)
    /\ UNCHANGED <<disk, op, used>>

List ==
    /\ list.at = "wrapped"
    /\ list' = [at |-> "files", found |-> disk, changes |-> {},
                gone |-> {f \in Files : snapshot[f] # None}, clearing |-> None]
    /\ Events /\ Snapshots /\ UNCHANGED <<disk, op, deferred, timers, used>>

ListFails ==
    /\ list.at = "wrapped"
    /\ list' = [list EXCEPT !.at = "save"]
    /\ Events /\ Snapshots /\ UNCHANGED <<disk, op, deferred, timers, used>>

\* Each listed file is compared with the snapshot ...
Compare(f) ==
    LET v == list.found[f] IN
    /\ list.at = "files" /\ v # None
    /\ updateInSnapshot(f, v)
    /\ list' = [list EXCEPT !.found[f] = None, !.gone = @ \ {f},
                            !.changes = IF snapshot[f] = v THEN @
                                ELSE @ \cup {Change(f, snapshot[f] = None)}]
    /\ Events /\ UNCHANGED <<disk, saved, op, deferred, timers, used>>

\* ... what it has beyond them is deleted, and then cleared, one by one ...
Forget(f) ==
    /\ list.at = "files" /\ list.found = NoFiles /\ list.clearing = None /\ f \in list.gone
    /\ snapshot' = [snapshot EXCEPT ![f] = None] /\ changed' = TRUE
    /\ list' = [list EXCEPT !.gone = @ \ {f}, !.clearing = f]
    /\ Events /\ UNCHANGED <<disk, saved, op, deferred, timers, used>>

ClearForgotten ==
    /\ list.at = "files" /\ list.clearing # None
    /\ ClearLate(list.clearing)
    /\ list' = [list EXCEPT !.clearing = None]
    /\ Snapshots /\ UNCHANGED <<disk, op, deferred, timers, used>>

\* ... and the batch of changes is dispatched.
Batch ==
    /\ list.at = "files" /\ list.found = NoFiles /\ list.gone = {} /\ list.clearing = None
    /\ Enqueue(list.changes)
    /\ list' = [list EXCEPT !.at = "save", !.changes = {}]
    /\ Snapshots /\ UNCHANGED <<disk, op, deferred, timers, used>>

\* Mutant: a listing that changed nothing stays the one in flight.
SaveListStuck ==
    /\ list.at = "save"
    /\ Save /\ list' = IF changed THEN [list EXCEPT !.at = "saved"] ELSE list
    /\ Events /\ UNCHANGED <<disk, snapshot, changed, op, deferred, timers, used>>

SaveList ==
    /\ list.at = "save"
    /\ Save /\ list' = IF changed THEN [list EXCEPT !.at = "saved"] ELSE NoListing
    /\ Events /\ UNCHANGED <<disk, snapshot, changed, op, deferred, timers, used>>

SavedList ==
    /\ list.at = "saved"
    /\ changed' = FALSE /\ list' = NoListing
    /\ Events /\ UNCHANGED <<disk, snapshot, saved, op, deferred, timers, used>>

-----------------------------------------------------------------------------
(* processIndexQueue and indexFile of the index plug, and what the queue   *)
(* does with a message that was not acknowledged.                          *)

\* A job is a message, and the version of its page once that is read.
Job(m, v) == [message |-> m, seen |-> v]
RunsOut(m) == m.retries = MaxRetries

Fault == used.faults < MaxFaults
Faulty == Fault /\ used' = [used EXCEPT !.faults = @ + 1]

\* requeueTimeouts delivers a message again, or gives it up after enough retries.
Again(ms) ==
    queue' = queue \cup {[m EXCEPT !.retries = @ + 1] : m \in {n \in ms : ~RunsOut(n)}}

\* A batch is taken when the one before it is done, except that a worker that
\* reloadQueues has stopped still runs its batch.  A job that has not read its
\* page counts as one of the batch that is being taken.
OneBatch == \A j \in work : j.seen = None

Take(m) ==
    /\ m \in queue /\ queue' = queue \ {m}
    /\ Cardinality(work) < MaxWork /\ work' = work \cup {Job(m, None)}
    /\ IF OneBatch THEN UNCHANGED used
       ELSE Fault /\ used' = [used EXCEPT !.faults = @ + 1, !.overlaps = 1]
    /\ Snapshots /\ UNCHANGED <<disk, op, list, deferred, timers, index, missed>>

Cleared(m) == IF m.cleared THEN index ELSE [index EXCEPT ![m.file] = NoObjects]

\* Mutant: a page that is gone is indexed too.
IndexReadMissing(j) ==
    LET v == disk[j.message.file] IN
    /\ j \in work /\ j.seen = None
    /\ index' = IF v = None THEN [index EXCEPT ![j.message.file].has = {v}] ELSE Cleared(j.message)
    /\ work' = (work \ {j}) \cup (IF v = None THEN {} ELSE {Job(j.message, v)})
    /\ Snapshots /\ UNCHANGED <<disk, op, list, deferred, timers, queue, missed, used>>

\* indexFile clears what the index has of the file, unless the file was new, and
\* reads the page, which may be gone; that this read is itself an operation of
\* the space is one of the Reads above ...
IndexRead(j) ==
    LET v == disk[j.message.file] IN
    /\ j \in work /\ j.seen = None
    /\ index' = Cleared(j.message)
    /\ work' = (work \ {j}) \cup (IF v = None THEN {} ELSE {Job(j.message, v)})
    /\ Snapshots /\ UNCHANGED <<disk, op, list, deferred, timers, queue, missed, used>>

\* ... or fails at either for another reason, and the message is left to the queue.
IndexFails(j) ==
    LET m == j.message IN
    /\ j \in work /\ j.seen = None
    /\ work' = work \ {j}
    /\ index' \in {index, Cleared(m)}
    /\ Again({m}) /\ Missed(IF RunsOut(m) THEN {m.file} ELSE {})
    /\ Faulty /\ Snapshots /\ UNCHANGED <<disk, op, list, deferred, timers>>

\* page:index writes its objects on top of what is stored, and the message is
\* acknowledged, unless that fails and it is delivered again.
IndexWrite(j) ==
    LET m == j.message IN
    /\ j \in work /\ j.seen # None
    /\ index' = [index EXCEPT ![m.file] = [has |-> @.has \cup {j.seen}, last |-> j.seen]]
    /\ work' = work \ {j}
    /\ \/ UNCHANGED <<queue, used>>
       \/ Again({m}) /\ Faulty
    /\ Snapshots /\ UNCHANGED <<disk, op, list, deferred, timers, missed>>

IndexStep ==
    \/ \E m \in queue : Take(m)
    \/ \E j \in work : IndexRead(j) \/ IndexFails(j) \/ IndexWrite(j)

\* The datastore's snapshot has the version that is there, while the one in
\* memory has lost it to a deletion, or has it from a listing whose batch is
\* not out.
Vouched(f) ==
    /\ saved[f] # None /\ saved[f] = disk[f]
    /\ snapshot[f] = None \/ \E m \in list.changes : m.file = f

\* The tab is reloaded: enable reads the snapshot of the datastore, and what the
\* plug has not acknowledged is delivered again.
Reload ==
    /\ Faulty
    /\ snapshot' = saved /\ changed' = FALSE
    /\ op' = [s \in Slots |-> NoOp] /\ list' = NoListing /\ deferred' = FALSE /\ timers' = FALSE
    /\ LET ms == {j.message : j \in work} IN
       /\ Again(ms) /\ work' = {}
       /\ Missed({f \in Files : Vouched(f)} \cup {m.file : m \in {n \in ms : RunsOut(n)}})
    /\ UNCHANGED <<disk, saved, index>>

-----------------------------------------------------------------------------
OpStep(s) ==
    \/ Read(s) \/ Write(s) \/ Fails(s) \/ Used(s) \/ Trigger(s) \/ Cache(s)
    \/ Delete(s) \/ Deleted(s) \/ ClearOp(s) \/ SaveOp(s) \/ SavedOp(s)

ListStep ==
    \/ List \/ ListFails \/ \E f \in Files : Compare(f) \/ Forget(f)
    \/ ClearForgotten \/ Batch \/ SaveList \/ SavedList

Next ==
    \/ \E f \in Files : RemoteWrite(f) \/ RemoteDelete(f)
    \/ \E s \in Slots :
          OpStep(s) \/ \E call \in {"read", "write", "delete"}, f \in Files : Begin(s, call, f)
    \/ AskByInterval \/ AskDeferred \/ ListStep \/ IndexStep \/ Reload

Spec == Init /\ [][Next]_vars

\* Operations end, the interval and the timers fire, and a listing that is
\* tried again and again gets through.
LiveSpec ==
    /\ Spec
    /\ \A s \in Slots : WF_vars(OpStep(s))
    /\ WF_vars(AskByInterval) /\ WF_vars(AskDeferred) /\ WF_vars(ListStep) /\ SF_vars(List)
    /\ WF_vars(IndexStep)

-----------------------------------------------------------------------------
TypeOK ==
    /\ disk \in Listing /\ snapshot \in Listing /\ saved \in Listing /\ changed \in BOOLEAN
    /\ op \in [Slots -> [at : {"idle", "read", "write", "delete", "back", "new", "changed", "cache",
                               "deleted", "clear", "save", "saved"},
                         file : Files \cup {None}, seen : Versions \cup {None}]]
    /\ list \in [at : {"idle", "wrapped", "files", "save", "saved"}, found : Listing,
                 changes : SUBSET Changes, gone : SUBSET Files,
                 clearing : Files \cup {None}]
    /\ deferred \in BOOLEAN /\ timers \in BOOLEAN
    /\ queue \subseteq Changes /\ missed \in Listing
    /\ index \in [Files -> [has : SUBSET Versions, last : Versions \cup {None}]]
    /\ work \subseteq [message : Changes, seen : Versions \cup {None}]
    /\ used \in [version : 0..MaxVersion, calls : 0..MaxCalls, faults : 0..MaxFaults,
                 overlaps : 0..1]

\* A message of the file will be read, or has been and is not yet written.
Underway(f) ==
    \/ \E m \in queue \cup list.changes : m.file = f
    \/ \E j \in work : j.message.file = f /\ j.seen \in {None, disk[f]}

\* A version that the snapshot knows is in the index or on its way there, for
\* the snapshot is all that later listings compare with; and it is what the
\* index got last if batches run one after another.
SeenGetsIndexed ==
    \A f \in Files : snapshot[f] # None /\ snapshot[f] = disk[f] =>
        \/ disk[f] \in index[f].has /\ (used.overlaps = 0 => index[f].last = disk[f])
        \/ Underway(f)
        \/ disk[f] = missed[f]

\* The index catches up with every version of a file that stays.
ChangesGetIndexed ==
    \A f \in Files, v \in Versions :
        disk[f] = v ~> v \in index[f].has \/ disk[f] # v \/ v = missed[f]
=============================================================================
