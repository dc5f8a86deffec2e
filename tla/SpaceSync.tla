------------------------------ MODULE SpaceSync ------------------------------
(***************************************************************************)
(* The client's sync engine (client/spaces/sync.ts) on one path: a note    *)
(* that the browser keeps locally (the primary) and the server keeps       *)
(* remotely (the secondary), edited on both ends while the engine runs.    *)
(*                                                                         *)
(* One action per stretch of code between two `await's that read or write  *)
(* a store: every local read, local write and server request is a step of  *)
(* its own, so saves and other clients' writes land anywhere in between.   *)
(*                                                                         *)
(* Content is the set of edits it contains, so a hash is the content       *)
(* itself and byte equality is set equality.  A save adds a fresh edit.    *)
(* Atom 0 stands for conflict markers.  Timestamps are milliseconds of a   *)
(* clock that need not advance between two writes; the size of a file is   *)
(* seen only through the edits that change it (Growing).                   *)
(***************************************************************************)
EXTENDS Naturals, FiniteSets

CONSTANTS
    Workers,       \* slots for concurrent syncFile calls on the path
    None,          \* "undefined": no file, no hash, no snapshot entry
    MaxEdits,      \* bound: edits made on either end
    MaxClock,      \* bound: milliseconds that pass
    Growing,       \* the edits that change the file's size
    Reconciles,    \* whether the server offers three-way reconciliation
    Faults,        \* the server requests that may fail
    Windows,       \* the check-to-act gaps (see Gaps) in which a save may land
    Starts,        \* the situations the engine may start from
    Others,        \* whether other paths have a recorded revision at the start
    OtherPaths,    \* whether a scan works on other paths at the same time
    EventLoss,     \* whether change events of the server may get lost
    MaxCrashes,    \* bound: restarts of the service worker
    Kills,         \* the steps after whose write the worker may be killed
    MaxDeletes,    \* bound: deletions of the file by users
    MaxReconfigs   \* bound: changes of the sync.ignore configuration

Markers == 0
Edits == 1..MaxEdits
Contents == SUBSET (Edits \cup {Markers})
Clock == 1..MaxClock

Requests == {"meta", "get", "put", "delete", "reconcile", "copyMeta", "copyPut", "putAnswer"}

\* The steps at which the engine waits to act on a local copy it read before:
\* a save landing there goes unnoticed by what the step does.
Gaps == {"pullWrite", "reconcileWrite", "deleteLocal", "dropLocal", "unsynced",
         "resolveGet", "resolvePut", "resolverBase"}

\* The steps that write a store and end the call, the saving of the snapshot
\* included: killed in between, the engine keeps the write and not the entry.
LocalWrites == {"pullWrite", "reconcileWrite", "deleteLocal", "dropLocal", "unsynced"}
RemoteWrites == {"putNew", "putChanged", "putRecreate", "deleteRemote"}

Situations == {"empty", "synced", "remoteOnly", "upgraded"}

ASSUME ConstantsAssumption ==
    /\ MaxEdits \in Nat
    /\ MaxClock \in Nat \ {0}
    /\ Reconciles \in BOOLEAN /\ EventLoss \in BOOLEAN /\ OtherPaths \in BOOLEAN
    /\ Faults \subseteq Requests
    /\ Windows \subseteq Gaps
    /\ Kills \subseteq LocalWrites \cup RemoteWrites
    /\ Starts \subseteq Situations
    /\ Others \subseteq BOOLEAN
    /\ MaxCrashes \in Nat /\ MaxDeletes \in Nat /\ MaxReconfigs \in Nat

ASSUME UndefinedAssumption ==
    /\ \A c \in Contents : c # None
    /\ \A f \in [c : Contents, t : Clock] : f # None
    /\ \A m \in [t : Clock, size : Contents] : m # None
    /\ \A p \in Clock \X Clock : p # None
    /\ \A w \in Workers : w # None

INSTANCE SyncOrigin WITH Hashes <- Contents, Times <- Clock

VARIABLES
    local,      \* the primary's copy: [c, t] or None
    remote,     \* the secondary's copy
    clock,      \* the current millisecond
    snap,       \* the SyncSnapshot in memory, as far as it is about this path
    disk,       \* the snapshot last saved to IndexedDB
    safety,     \* contents in the safety store
    copies,     \* contents of the conflict copies on either side
    dirty,      \* the path's entry in the dirty queue, or None
    syncing,    \* the worker of the cycle that holds isSyncing, or None
    pc, reg,    \* per worker: the next step of its syncFile, and its locals
    candidate,  \* isSyncCandidate(path) under the current configuration
    used,       \* how much of each bound was consumed
    made,       \* history: edits 1..made were made
    dropped,    \* history: edits in a file when its user deleted it
    published,  \* history: edits the remote has held
    seen        \* history: edits the local copy has held

world == <<local, remote, clock>>
kept == <<safety, copies>>
engine == <<snap, disk, dirty, syncing, pc, reg>>
history == <<made, dropped, published, seen>>
vars == <<world, kept, engine, candidate, used, history>>

-----------------------------------------------------------------------------
(* Files, metadata, snapshots.                                             *)

Files == [c : Contents, t : Clock]
Metas == [t : Clock, size : Contents]

Content(f) == IF f = None THEN {} ELSE f.c

\* getFileMeta: the size is told apart only by the edits that change it.
Meta(f) == IF f = None THEN None ELSE [t |-> f.t, size |-> f.c \cap Growing]

\* `others': some other path has a recorded revision, so remoteHashes.size > 0
\* whatever is recorded for this one.
Snapshots == [files : (Clock \X Clock) \cup {None},
              remoteHash : Contents \cup {None},
              baseHash : Contents \cup {None},
              nonSynced : BOOLEAN,
              others : BOOLEAN]

NoEntry(s) == [s EXCEPT !.files = None, !.remoteHash = None, !.baseHash = None]
Forget(s) == [NoEntry(s) EXCEPT !.nonSynced = FALSE]

\* remoteHashes.size > 0
KnowsRevisions(s) == s.remoteHash # None \/ s.others

\* The snapshot entry after a push or a pull left both sides with content c.
Agreed(s, c, tl, tr) ==
    [s EXCEPT !.files = <<tl, tr>>, !.remoteHash = c, !.baseHash = c,
              !.nonSynced = FALSE]

Labels == {"idle", "tail", "secondary", "classify", "newLocal", "putNew", "noteNew",
           "deletedRemote", "recreate", "putRecreate", "deleteLocal",
           "revisionForDelete", "deleteRemote", "forget", "changedLocal",
           "revisionForPush", "putChanged", "changedRemote", "unwanted",
           "dropLocal", "unsynced", "verify", "verifyRemote", "note", "done",
           "pull", "pullGet", "pullCheck", "pullWrite",
           "reconcile", "post", "reconciled", "reconcileWrite",
           "resolve", "resolveGet", "copyCheck", "copyPut", "resolveCheck",
           "resolvePut", "resolverBase"}

\* What a write states about the revision it replaces.
Preconditions == [type : {"none", "notExists", "matchesHash"},
                  hash : Contents \cup {None}]

Unconditional == [type |-> "none", hash |-> None]
NotExists == [type |-> "notExists", hash |-> None]

\* Mutant: the If-Match header is not sent.
MatchesAnything(h) == Unconditional

Matches(h) == [type |-> "matchesHash", hash |-> h]

\* The locals of one syncFile call.
Registers == [scan : BOOLEAN,                     \* part of a full scan
              back : BOOLEAN,                     \* syncBack
              signal : Signals,
              pm : Metas \cup {None},             \* primaryMeta
              sm : Metas \cup {None},             \* secondaryMeta
              data : Files \cup {None},           \* local copy read last
              rem : Files \cup {None},            \* remote copy read last
              prior : Contents \cup {None},       \* recorded / base hash read last
              pre : Preconditions,                \* of the write to send
              ops : BOOLEAN]                      \* operations > 0

Blank == [scan |-> FALSE, back |-> TRUE, signal |-> UnknownSignal, pm |-> None, sm |-> None,
          data |-> None, rem |-> None, prior |-> None, pre |-> Unconditional,
          ops |-> FALSE]

TypeOK ==
    /\ local \in Files \cup {None}
    /\ remote \in Files \cup {None}
    /\ clock \in Clock
    /\ snap \in Snapshots
    /\ disk \in Snapshots
    /\ safety \subseteq Contents
    /\ copies \in [primary : SUBSET Contents, secondary : SUBSET Contents]
    /\ dirty \in Origins \cup {None}
    /\ syncing \in Workers \cup {None}
    /\ pc \in [Workers -> Labels]
    /\ reg \in [Workers -> Registers]
    /\ candidate \in BOOLEAN
    /\ used \in [crashes : 0..MaxCrashes, deletes : 0..MaxDeletes,
                 reconfigs : 0..MaxReconfigs]
    /\ made \in 0..MaxEdits
    /\ dropped \subseteq Edits
    /\ published \subseteq Edits
    /\ seen \subseteq Edits

-----------------------------------------------------------------------------
(* Initial situations: nothing anywhere yet; both ends agree after an      *)
(* earlier sync; a new client of a server that has the file; and both ends *)
(* agree but the snapshot was saved by a client that recorded no revisions.*)

Original == [c |-> {}, t |-> 1]

Fresh(others) == [files |-> None, remoteHash |-> None, baseHash |-> None,
                  nonSynced |-> FALSE, others |-> others]

InitStore(situation) ==
    /\ local = IF situation \in {"empty", "remoteOnly"} THEN None ELSE Original
    /\ remote = IF situation = "empty" THEN None ELSE Original
    /\ \E others \in Others :
         snap = CASE situation = "synced" -> Agreed(Fresh(others), {}, 1, 1)
                  [] situation = "upgraded" ->
                       [Fresh(others) EXCEPT !.files = <<1, 1>>]
                  [] OTHER -> Fresh(others)
    /\ disk = snap

Init ==
    /\ \E situation \in Starts : InitStore(situation)
    /\ clock = 1
    /\ safety = {}
    /\ copies = [primary |-> {}, secondary |-> {}]
    /\ dirty = None
    /\ syncing = None
    /\ pc = [w \in Workers |-> "idle"]
    /\ reg = [w \in Workers |-> Blank]
    /\ candidate = TRUE
    /\ used = [crashes |-> 0, deletes |-> 0, reconfigs |-> 0]
    /\ made = 0
    /\ dropped = {} /\ published = {} /\ seen = {}

-----------------------------------------------------------------------------
(* Shared pieces of the actions.                                           *)

\* Date.now() at a write: the clock may or may not have advanced.
Now == {clock, clock + 1} \cap Clock

SetLocal(f) ==
    /\ local' = f
    /\ seen' = seen \cup (Content(f) \ {Markers})

SetRemote(f) ==
    /\ remote' = f
    /\ published' = published \cup (Content(f) \ {Markers})

KeepLocal == UNCHANGED <<local, seen>>
Users == <<made, dropped, candidate, used>>

\* queue.mark: the path becomes, or stays, dirty.
Mark(o) == dirty' = IF dirty = None THEN o ELSE mergeOrigins(dirty, o)

Goto(w, label) == pc' = [pc EXCEPT ![w] = label]

\* A step inside syncFile: only this worker's position and locals move.
Step(w, label, regs) ==
    /\ Goto(w, label)
    /\ reg' = [reg EXCEPT ![w] = regs]
    /\ UNCHANGED <<disk, syncing>>

\* syncFile returns with the snapshot `snap''.  A single-file cycle releases
\* isSyncing and saves the snapshot if there were operations.  A scan saves it
\* (syncProgress) if there were, and goes on with other paths before it ends.
Return(w, ops) ==
    LET holds == syncing = w
    IN  /\ Goto(w, IF reg[w].scan /\ holds THEN "tail" ELSE "idle")
        /\ reg' = [reg EXCEPT ![w] = [Blank EXCEPT !.scan = reg[w].scan /\ holds]]
        /\ syncing' = IF holds /\ ~reg[w].scan THEN None ELSE syncing
        /\ disk' = IF ops THEN snap' ELSE disk

\* syncFile throws: the cycle ends, and only a scan saves the snapshot.
Abort(w) ==
    /\ Goto(w, "idle")
    /\ reg' = [reg EXCEPT ![w] = Blank]
    /\ syncing' = IF syncing = w THEN None ELSE syncing
    /\ disk' = IF reg[w].scan /\ syncing = w THEN snap' ELSE disk

Throw(w) ==
    /\ UNCHANGED <<snap, dirty>>
    /\ Abort(w)

\* A request that fails without having had an effect.
Lost(w, request) ==
    /\ request \in Faults
    /\ Throw(w)
    /\ UNCHANGED <<world, kept, Users, published, seen>>

\* A PUT answered with neither success nor 412 (a 413, say), without effect.
\* The answer carries no revision: pushToSecondary drops the recorded one, and
\* its caller throws for want of the file's metadata.
Rejected(w) ==
    /\ "putAnswer" \in Faults
    /\ snap' = [snap EXCEPT !.remoteHash = None]
    /\ Abort(w)
    /\ UNCHANGED <<world, kept, Users, published, seen, dirty>>

\* What evaluate_preconditions makes of the precondition of a write.
Passes(pre) ==
    CASE pre.type = "none" -> TRUE
      [] pre.type = "notExists" -> remote = None
      [] pre.type = "matchesHash" -> remote # None /\ remote.c = pre.hash

-----------------------------------------------------------------------------
(* Starting a cycle.                                                       *)

Begin(w, scan, signal) ==
    /\ syncing' = w
    /\ Goto(w, "secondary")
    /\ reg' = [reg EXCEPT ![w] = [Blank EXCEPT !.scan = scan, !.signal = signal,
                                               !.pm = Meta(local)]]

\* syncFiles: the periodic scan lists the primary first.
StartScan(w) ==
    /\ syncing = None
    /\ pc[w] = "idle"
    /\ Begin(w, TRUE, UnknownSignal)
    /\ UNCHANGED <<world, kept, history, candidate, used, snap, disk, dirty>>

\* The run loop drops an entry that asks for nothing.
Redundant ==
    \/ shouldSkip(dirty, snap.files, snap.remoteHash, TRUE)
    \/ /\ dirty.type = "local"
       /\ localWriteIsEcho(IF local = None THEN None ELSE local.t,
                           Content(local), snap.files, snap.remoteHash)

\* The run loop takes the path's entry: dropped, or handed to syncSingleFile,
\* which does nothing for a path that isn't synced.
Take(w) ==
    /\ dirty # None
    /\ syncing = None
    /\ pc[w] = "idle"
    /\ dirty' = None
    /\ IF Redundant \/ snap.nonSynced
       THEN UNCHANGED <<syncing, pc, reg>>
       ELSE Begin(w, FALSE, signalFor(dirty))
    /\ UNCHANGED <<world, kept, history, candidate, used, snap, disk>>

\* The scan ends: isSyncing is released and the snapshot always saved.
EndScan(w) ==
    /\ pc[w] = "tail"
    /\ Goto(w, "idle")
    /\ reg' = [reg EXCEPT ![w] = Blank]
    /\ syncing' = IF syncing = w THEN None ELSE syncing
    /\ disk' = IF syncing = w THEN snap ELSE disk
    /\ UNCHANGED <<world, kept, history, candidate, used, snap, dirty>>

\* remoteRevision asks the remote when nothing is recorded for this path but
\* the remote is known to report revisions.
MustAsk(s) == s.remoteHash = None /\ s.others

\* The decision tree of syncFile, in its order.
Scenario(s, pm, sm, syncBack, signal) ==
    LET has == s.files # None
        localMoved == has /\ pm # None /\ pm.t # s.files[1]
        remoteMoved == has /\ sm # None /\ sm.t # s.files[2]
        both == pm # None /\ sm # None
    IN  CASE pm # None /\ sm = None /\ ~has -> "newLocal"
          [] sm # None /\ pm = None /\ (~has \/ (s.nonSynced /\ syncBack)) ->
               IF syncBack THEN "pull" ELSE "noteNew"
          [] pm # None /\ sm = None /\ has ->
               IF s.nonSynced THEN "forget"
               ELSE IF localMoved THEN "recreate" ELSE "deletedRemote"
          [] pm = None /\ sm # None /\ has /\ ~s.nonSynced /\ syncBack ->
               IF MustAsk(s) THEN "revisionForDelete" ELSE "deleteRemote"
          [] pm = None /\ sm = None /\ has -> "forget"
          [] both /\ localMoved /\ ~remoteMoved -> "changedLocal"
          [] both /\ has /\ ~localMoved /\ remoteMoved ->
               IF syncBack THEN "changedRemote" ELSE "unwanted"
          [] both /\ (~has \/ (localMoved /\ remoteMoved)) -> "reconcile"
          [] both /\ has /\ ~localMoved /\ ~remoteMoved /\ ~syncBack -> "unsynced"
          [] both /\ has /\ ~localMoved /\ ~remoteMoved /\ syncBack ->
               IF pm.size # sm.size THEN "reconcile"
               ELSE IF signal.type = "unknown" THEN "done" ELSE "verify"
          [] OTHER -> IF ~syncBack /\ sm # None THEN "note" ELSE "done"

\* The secondary's metadata arrives: getFileMeta, or the scan's file list,
\* which is where a scan decides whether to sync the path back.
Secondary(w) ==
    /\ pc[w] = "secondary"
    /\ \/ Lost(w, "meta")
       \/ /\ Step(w, "classify",
                  [reg[w] EXCEPT
                     !.sm = Meta(remote),
                     !.back = ~(reg[w].scan /\ remote # None /\ ~candidate)])
          /\ UNCHANGED <<world, kept, history, candidate, used, snap, dirty>>

\* Mutant: the delete states no revision.
deleteUnconditionally(recorded) == Unconditional

deletePrecondition(recorded) ==
    IF recorded # None THEN Matches(recorded) ELSE Unconditional

\* The call of syncFile, up to its first wait: a scan gets to it any time
\* after it listed the files.
Classify(w) ==
    /\ pc[w] = "classify"
    /\ LET r == reg[w]
       IN  Step(w, Scenario(snap, r.pm, r.sm, r.back, r.signal),
                [r EXCEPT !.prior = snap.remoteHash,
                          !.pre = deletePrecondition(snap.remoteHash)])
    /\ UNCHANGED <<world, kept, history, candidate, used, snap, dirty>>

-----------------------------------------------------------------------------
(* Pushing: new on the primary, changed on the primary, deleted on the     *)
(* secondary but modified locally.                                         *)

\* primary.readFile(path) ahead of a push; it throws without a local copy.
ReadForPush(w, from, label, pre) ==
    /\ pc[w] = from
    /\ IF local = None
       THEN Throw(w)
       ELSE /\ Step(w, label, [reg[w] EXCEPT !.data = local, !.pre = pre])
            /\ UNCHANGED <<snap, dirty>>
    /\ UNCHANGED <<world, kept, history, candidate, used>>

\* A file the remote should not have: unconditional as long as the remote was
\* never seen to report revisions.
CreateOnly == IF KnowsRevisions(snap) THEN NotExists ELSE Unconditional

ReadNew(w) == ReadForPush(w, "newLocal", "putNew", CreateOnly)

ReadRecreate(w) == ReadForPush(w, "recreate", "putRecreate", CreateOnly)

pushPrecondition(recorded) ==
    IF recorded # None THEN Matches(recorded)
    ELSE IF snap.others THEN NotExists ELSE Unconditional

ReadChanged(w) ==
    ReadForPush(w, "changedLocal",
                IF MustAsk(snap) THEN "revisionForPush" ELSE "putChanged",
                pushPrecondition(snap.remoteHash))

\* Asked for its revision, a remote that has the file gets it recorded.
remoteRevision == IF remote = None THEN snap ELSE [snap EXCEPT !.remoteHash = remote.c]

\* The remote's current revision is read and recorded before the push.
RevisionForPush(w) ==
    LET current == IF remote = None THEN None ELSE remote.c
    IN  /\ pc[w] = "revisionForPush"
        /\ \/ Lost(w, "get")
           \/ /\ snap' = remoteRevision
              /\ Step(w, "putChanged",
                      [reg[w] EXCEPT !.pre = pushPrecondition(current)])
              /\ UNCHANGED <<world, kept, history, candidate, used, dirty>>

\* pushToSecondary of the copy read before: the file the server then holds
\* carries the local timestamp.  The response may get lost after the write.
PushLands(w) ==
    /\ Passes(reg[w].pre)
    /\ SetRemote(reg[w].data)
    /\ KeepLocal
    /\ \/ /\ snap' = Agreed(snap, reg[w].data.c, reg[w].data.t, reg[w].data.t)
          /\ Return(w, TRUE)
          /\ UNCHANGED dirty
       \/ "put" \in Faults /\ Throw(w)
    /\ UNCHANGED <<clock, kept, Users>>

\* The 412 of a push sends the path to another branch of the engine.
PushRefused(w, label) ==
    /\ ~Passes(reg[w].pre)
    /\ Step(w, label, reg[w])
    /\ UNCHANGED <<world, kept, history, candidate, used, snap, dirty>>

PutNew(w) ==
    /\ pc[w] = "putNew"
    /\ PushLands(w) \/ Lost(w, "put") \/ Rejected(w) \/ PushRefused(w, "resolve")

PutChanged(w) ==
    /\ pc[w] = "putChanged"
    /\ PushLands(w) \/ Lost(w, "put") \/ Rejected(w) \/ PushRefused(w, "reconcile")

\* A 412 here means the file reappeared: the path is marked again.
PutRecreate(w) ==
    /\ pc[w] = "putRecreate"
    /\ \/ PushLands(w)
       \/ Lost(w, "put")
       \/ Rejected(w)
       \/ /\ ~Passes(reg[w].pre)
          /\ Mark(AnyOrigin(None))
          /\ UNCHANGED snap
          /\ Return(w, TRUE)
          /\ UNCHANGED <<world, kept, history, candidate, used>>

-----------------------------------------------------------------------------
(* Deletions.                                                              *)

\* The local copy no longer is the revision recorded when the step began;
\* false whenever there is nothing to compare.
localDivergedFromRecorded(recorded) ==
    /\ recorded # None
    /\ local # None
    /\ local.c # recorded

\* Deleted on the secondary: a local modification wins, otherwise the entry
\* goes first and the local copy in the next step.
DeletedRemote(w) ==
    /\ pc[w] = "deletedRemote"
    /\ IF localDivergedFromRecorded(reg[w].prior)
       THEN Step(w, "recreate", reg[w]) /\ UNCHANGED snap
       ELSE Step(w, "deleteLocal", reg[w]) /\ snap' = NoEntry(snap)
    /\ UNCHANGED <<world, kept, history, candidate, used, dirty>>

DeleteLocalCopy(w) ==
    /\ pc[w] = "deleteLocal"
    /\ IF local = None
       THEN Throw(w) /\ KeepLocal
       ELSE SetLocal(None) /\ UNCHANGED <<snap, dirty>> /\ Return(w, TRUE)
    /\ UNCHANGED <<remote, published, clock, kept, Users>>

\* deleteFromSecondary without a recorded revision reads one first.
RevisionForDelete(w) ==
    /\ pc[w] = "revisionForDelete"
    /\ \/ Lost(w, "get")
       \/ /\ remote = None
          /\ snap' = Forget(snap)
          /\ Return(w, TRUE)
          /\ UNCHANGED <<world, kept, history, candidate, used, dirty>>
       \/ /\ remote # None
          /\ snap' = remoteRevision
          /\ Step(w, "deleteRemote", [reg[w] EXCEPT !.pre = Matches(remote.c)])
          /\ UNCHANGED <<world, kept, history, candidate, used, dirty>>

\* A 412 pulls the revision that moved instead; a 404 throws.
DeleteRemote(w) ==
    /\ pc[w] = "deleteRemote"
    /\ \/ /\ Passes(reg[w].pre) /\ remote # None
          /\ SetRemote(None)
          /\ \/ /\ snap' = Forget(snap)
                /\ Return(w, TRUE)
                /\ UNCHANGED dirty
             \/ "delete" \in Faults /\ Throw(w)
          /\ UNCHANGED <<local, seen, clock, kept, Users>>
       \/ Lost(w, "delete")
       \/ PushRefused(w, "pull")
       \/ /\ Passes(reg[w].pre) /\ remote = None
          /\ Throw(w)
          /\ UNCHANGED <<world, kept, history, candidate, used>>

\* Deleted on both ends, or on the secondary while it was not synced here.
ForgetPath(w) ==
    /\ pc[w] = "forget"
    /\ snap' = Forget(snap)
    /\ Return(w, TRUE)
    /\ UNCHANGED <<world, kept, history, candidate, used, dirty>>

-----------------------------------------------------------------------------
(* Paths the configuration excludes, and paths nothing happened to.        *)

\* New on the secondary, or changed there: only its metadata is recorded; in
\* the second case the local copy is out of date and deleted next.
NoteNew(w) ==
    /\ pc[w] \in {"noteNew", "unwanted"}
    /\ snap' = [snap EXCEPT !.files = <<reg[w].sm.t, reg[w].sm.t>>,
                            !.nonSynced = TRUE]
    /\ IF pc[w] = "noteNew" THEN Return(w, FALSE)
                            ELSE Step(w, "dropLocal", reg[w])
    /\ UNCHANGED <<world, kept, history, candidate, used, dirty>>

DropLocal(w) ==
    /\ pc[w] = "dropLocal"
    /\ IF local = None THEN KeepLocal ELSE SetLocal(None)
    /\ UNCHANGED snap
    /\ Return(w, local # None)
    /\ UNCHANGED <<remote, published, clock, kept, Users, dirty>>

\* No longer synced: the local copy is deleted, then the path noted.
DropUnsynced(w) ==
    /\ pc[w] = "unsynced"
    /\ IF local = None
       THEN Throw(w) /\ KeepLocal
       ELSE /\ SetLocal(None)
            /\ snap' = [snap EXCEPT !.nonSynced = TRUE]
            /\ Return(w, TRUE)
            /\ UNCHANGED dirty
    /\ UNCHANGED <<remote, published, clock, kept, Users>>

NothingToDo(w) ==
    /\ pc[w] \in {"note", "done"}
    /\ snap' = [snap EXCEPT !.nonSynced = @ \/ pc[w] = "note"]
    /\ Return(w, FALSE)
    /\ UNCHANGED <<world, kept, history, candidate, used, dirty>>

\* classifySignalled: a signalled path whose timestamps and sizes match is
\* compared by content, once.
Verify(w) ==
    /\ pc[w] = "verify"
    /\ UNCHANGED snap
    /\ LET recorded == snap.remoteHash
           reported == reg[w].signal.hash
           localChanged == recorded # None /\ local # None /\ local.c # recorded
           remoteChanged == recorded # None /\ reported # None /\ reported # recorded
           next == IF local = None THEN "none"
                   ELSE IF recorded = None
                        THEN IF snap.others THEN "verifyRemote" ELSE "none"
                   ELSE IF localChanged /\ remoteChanged THEN "reconcile"
                   ELSE IF localChanged THEN "changedLocal"
                   ELSE IF remoteChanged THEN "changedRemote" ELSE "none"
       IN  IF next = "none"
           THEN Return(w, FALSE)
           ELSE Step(w, next, [reg[w] EXCEPT !.data = local, !.prior = recorded])
    /\ UNCHANGED <<world, kept, history, candidate, used, dirty>>

VerifyRemote(w) ==
    /\ pc[w] = "verifyRemote"
    /\ \/ Lost(w, "get")
       \/ /\ snap' = remoteRevision
          /\ IF remote # None /\ remote.c # reg[w].data.c
             THEN Step(w, "reconcile", reg[w])
             ELSE Return(w, FALSE)
          /\ UNCHANGED <<world, kept, history, candidate, used, dirty>>

-----------------------------------------------------------------------------
(* Pulling.                                                                *)

\* pullRemoteCopy: a local copy that holds an unsynced edit despite its
\* unchanged timestamp is reconciled instead.
ChangedRemote(w) ==
    /\ pc[w] = "changedRemote"
    /\ Step(w, IF localDivergedFromRecorded(reg[w].prior) THEN "reconcile" ELSE "pull",
            reg[w])
    /\ UNCHANGED <<world, kept, history, candidate, used, snap, dirty>>

PullBefore(w) ==
    /\ pc[w] = "pull"
    /\ Step(w, "pullGet", [reg[w] EXCEPT !.data = local, !.prior = snap.remoteHash])
    /\ UNCHANGED <<world, kept, history, candidate, used, snap, dirty>>

\* captureSafety keeps the bytes about to be replaced, unless they are the
\* incoming ones or the merge base.
captureSafety(before, incoming) ==
    safety' = IF before # None /\ before.c # incoming /\ before.c # snap.baseHash
              THEN safety \cup {before.c} ELSE safety

\* readFromSecondary records the revision read, adopted or not.
PullGet(w) ==
    /\ pc[w] = "pullGet"
    /\ \/ Lost(w, "get")
       \/ /\ remote = None
          /\ Throw(w)
          /\ UNCHANGED <<world, kept, history, candidate, used>>
       \/ /\ remote # None
          /\ snap' = [snap EXCEPT !.remoteHash = remote.c]
          /\ captureSafety(reg[w].data, remote.c)
          /\ Step(w, "pullCheck", [reg[w] EXCEPT !.rem = remote])
          /\ UNCHANGED <<world, copies, history, candidate, used, dirty>>

\* Mutant: the recheck compares timestamps only.
localHeldByTime(r) ==
    IF r.pm = None THEN local = None ELSE local # None /\ local.t = r.pm.t

\* The local copy still is what it was before the remote read, and still has
\* the timestamp (or the absence) the cycle classified.
localHeld(r) ==
    /\ IF r.data = None THEN local = None
                        ELSE local # None /\ local.c = r.data.c
    /\ IF r.pm = None THEN local = None
                      ELSE local # None /\ local.t = r.pm.t

\* Mutant: an abandoned pull leaves the revision it read recorded.
UnrecordedNot(prior) == snap

\* The snapshot with the revision recorded before the pull put back.
Unrecorded(prior) == [snap EXCEPT !.remoteHash = prior]

\* If not, the pull is abandoned and the revision it read is unrecorded.
PullCheck(w) ==
    /\ pc[w] = "pullCheck"
    /\ IF localHeld(reg[w])
       THEN Step(w, "pullWrite", reg[w]) /\ UNCHANGED <<snap, dirty>>
       ELSE /\ snap' = Unrecorded(reg[w].prior)
            /\ Mark(AnyOrigin(None))
            /\ Return(w, FALSE)
    /\ UNCHANGED <<world, kept, history, candidate, used>>

PullWrite(w) ==
    /\ pc[w] = "pullWrite"
    /\ SetLocal(reg[w].rem)
    /\ snap' = [Agreed(snap, reg[w].rem.c, reg[w].rem.t, reg[w].rem.t)
                  EXCEPT !.remoteHash = snap.remoteHash]
    /\ Return(w, TRUE)
    /\ UNCHANGED <<remote, published, clock, kept, Users, dirty>>

-----------------------------------------------------------------------------
(* Three-way reconciliation on the server.                                 *)

\* What the line-based merge of server-merge does to edits: what both sides
\* hold stays, what one side added to the base stays, and what one side lost
\* from the base goes.
Merge3(base, a, b) == (a \cap b) \cup (a \ base) \cup (b \ base)

\* The texts reconcile_locked may leave, and return, for the current file
\* `cur'.  Overlapping changes come back with conflict markers around them.
MergeResults(base, proposed, cur) ==
    IF cur = None \/ Content(cur) \in {proposed, base}
    THEN {proposed}
    ELSE LET clean == Merge3(base, proposed, cur.c)
         IN  {clean} \cup (IF proposed = base THEN {} ELSE {clean \cup {Markers}})

\* The 409s: markers in what was sent, or in a current file that needs merging.
MergeRejected(base, proposed, cur) ==
    \/ Markers \in base \cup proposed
    \/ cur # None /\ cur.c \notin {proposed, base} /\ Markers \in cur.c

\* tryReconcile up to its request; without a base, a server that reconciles or
\* a local copy it is the conflict resolver's turn.
Reconcile(w) ==
    /\ pc[w] = "reconcile"
    /\ IF Reconciles /\ snap.baseHash # None /\ local # None
       THEN Step(w, "post", [reg[w] EXCEPT !.data = local, !.prior = snap.baseHash])
       ELSE Step(w, "resolve", reg[w])
    /\ UNCHANGED <<world, kept, history, candidate, used, snap, dirty>>

\* The server's write of the merged text; a file that already holds the
\* proposal is left alone.
ServerReconciles(base, proposed, result) ==
    IF remote # None /\ remote.c = proposed
    THEN result = remote /\ UNCHANGED <<remote, published, clock>>
    ELSE /\ result.c \in MergeResults(base, proposed, remote)
         /\ result.t \in Now
         /\ clock' = result.t
         /\ SetRemote(result)

\* The request.  Any error sends the path to the conflict resolver, also one
\* that hides a write the server made.
Post(w) ==
    LET base == reg[w].prior
        proposed == reg[w].data.c
        rejected == MergeRejected(base, proposed, remote)
    IN  /\ pc[w] = "post"
        /\ \/ /\ rejected \/ "reconcile" \in Faults
              /\ Step(w, "resolve", reg[w])
              /\ UNCHANGED <<remote, published, clock>>
           \/ /\ ~rejected
              /\ \E result \in Files :
                   /\ ServerReconciles(base, proposed, result)
                   /\ \/ Step(w, "reconciled", [reg[w] EXCEPT !.rem = result])
                      \/ "reconcile" \in Faults /\ Step(w, "resolve", reg[w])
        /\ UNCHANGED <<local, seen, kept, Users, snap, dirty>>

\* status "retry": writers outside the server's locks changed the file under
\* every attempt.  Nothing is recorded and the path is marked again.
PostRetry(w) ==
    /\ pc[w] = "post"
    /\ remote # None
    /\ remote.c \notin {reg[w].data.c, reg[w].prior}
    /\ ~MergeRejected(reg[w].prior, reg[w].data.c, remote)
    /\ made < MaxEdits
    /\ made' = made + 1
    /\ \E t \in Now :
         clock' = t /\ SetRemote([c |-> remote.c \cup {made + 1}, t |-> t])
    /\ Mark(AnyOrigin(None))
    /\ UNCHANGED snap
    /\ Return(w, TRUE)
    /\ UNCHANGED <<local, seen, kept, dropped, candidate, used>>

\* Mutant: the newer local copy, never sent, becomes the base.
localAdvancedToLocal(proposed) == [snap EXCEPT !.baseHash = Content(local)]

\* The local copy moved on while the server merged what was proposed: that is
\* what the next attempt differs from, so it becomes the base.
localAdvanced(proposed) == [snap EXCEPT !.baseHash = proposed]

\* The answer is applied only to the content it was computed from; otherwise
\* the path is marked again.  The displaced proposal
\* is kept unless it survives as base or result.
Reconciled(w) ==
    /\ pc[w] = "reconciled"
    /\ LET proposed == reg[w].data.c
           result == reg[w].rem.c
       IN  IF local # None /\ local.c = proposed
           THEN /\ safety' = IF proposed \notin {reg[w].prior, result}
                             THEN safety \cup {proposed} ELSE safety
                /\ Step(w, "reconcileWrite", reg[w])
                /\ UNCHANGED <<snap, dirty>>
           ELSE /\ snap' = localAdvanced(proposed)
                /\ Mark(AnyOrigin(None))
                /\ Return(w, TRUE)
                /\ UNCHANGED safety
    /\ UNCHANGED <<world, copies, history, candidate, used>>

ReconcileWrite(w) ==
    /\ pc[w] = "reconcileWrite"
    /\ SetLocal(reg[w].rem)
    /\ snap' = [snap EXCEPT !.files = <<reg[w].rem.t, reg[w].rem.t>>,
                            !.remoteHash = reg[w].rem.c,
                            !.baseHash = reg[w].rem.c]
    /\ Return(w, TRUE)
    /\ UNCHANGED <<remote, published, clock, kept, Users, dirty>>

-----------------------------------------------------------------------------
(* primaryConflictResolver, and the base captured after it.                *)

ResolveRead(w) == ReadForPush(w, "resolve", "resolveGet", Unconditional)

\* Equal bytes end the conflict.  The revision read is recorded either way.
ResolveGet(w) ==
    /\ pc[w] = "resolveGet"
    /\ \/ Lost(w, "get")
       \/ /\ remote = None
          /\ Throw(w)
          /\ UNCHANGED <<world, kept, history, candidate, used>>
       \/ /\ remote # None
          /\ LET s == [snap EXCEPT !.remoteHash = remote.c]
             IN  IF remote.c = reg[w].data.c
                 THEN /\ snap' = [s EXCEPT !.files = <<reg[w].data.t, remote.t>>]
                      /\ Step(w, "resolverBase", reg[w])
                 ELSE /\ snap' = s
                      /\ Step(w, "copyCheck", [reg[w] EXCEPT !.rem = remote])
          /\ UNCHANGED <<world, kept, history, candidate, used, dirty>>

\* Whether each side holds the copy of the losing revision already; the
\* primary's is written at once where it is missing.
CopyCheck(w) ==
    /\ pc[w] = "copyCheck"
    /\ \/ Lost(w, "copyMeta")
       \/ LET losing == reg[w].rem.c
          IN  /\ copies' = [copies EXCEPT !.primary = @ \cup {losing}]
              /\ Step(w, IF losing \in copies.secondary THEN "resolveCheck"
                                                        ELSE "copyPut",
                      [reg[w] EXCEPT !.ops = losing \notin copies.primary])
              /\ UNCHANGED <<world, safety, history, candidate, used, snap, dirty>>

CopyPut(w) ==
    /\ pc[w] = "copyPut"
    /\ \/ Lost(w, "copyPut")
       \/ /\ copies' = [copies EXCEPT !.secondary = @ \cup {reg[w].rem.c}]
          /\ \/ /\ snap' = [snap EXCEPT !.others = TRUE]
                /\ Step(w, "resolveCheck", [reg[w] EXCEPT !.ops = TRUE])
                /\ UNCHANGED dirty
             \/ "copyPut" \in Faults /\ Throw(w)
          /\ UNCHANGED <<world, safety, history, candidate, used>>

\* A local edit since the resolution began defers it.
ResolveCheck(w) ==
    /\ pc[w] = "resolveCheck"
    /\ IF local # None /\ local.c = reg[w].data.c
       THEN Step(w, "resolvePut", reg[w]) /\ UNCHANGED snap
       ELSE snap' = [snap EXCEPT !.files = None] /\ Return(w, reg[w].ops)
    /\ UNCHANGED <<world, kept, history, candidate, used, dirty>>

\* Mutant: an answer without a timestamp is recorded as it is.
ResolvedWithoutTime(data, t) ==
    [snap EXCEPT !.files = <<data.t, None>>, !.remoteHash = data.c]

\* The entry of a path whose local copy `data' was written to the remote at t.
Resolved(data, t) ==
    [snap EXCEPT !.files = <<data.t, t>>, !.remoteHash = data.c]

\* The primary wins, if the remote still is the revision inspected.
ResolvePut(w) ==
    LET data == reg[w].data
        pre == Matches(reg[w].rem.c)
    IN  /\ pc[w] = "resolvePut"
        /\ \/ Lost(w, "put")
           \/ Rejected(w)
           \/ /\ Passes(pre)
              /\ \E t \in Now :
                   /\ clock' = t
                   /\ SetRemote([c |-> data.c, t |-> t])
                   /\ \/ /\ snap' = Resolved(data, t)
                         /\ Step(w, "resolverBase", [reg[w] EXCEPT !.ops = TRUE])
                         /\ UNCHANGED dirty
                      \/ "put" \in Faults /\ Throw(w)
              /\ UNCHANGED <<local, seen, kept, Users>>
           \/ /\ ~Passes(pre)
              /\ snap' = [snap EXCEPT !.files = None, !.remoteHash = None]
              /\ Return(w, reg[w].ops)
              /\ UNCHANGED <<world, kept, history, candidate, used, dirty>>

\* callConflictResolver captures the base from a fresh read of the primary.
ResolverBase(w) ==
    /\ pc[w] = "resolverBase"
    /\ snap' = IF local # None /\ snap.files # None
               THEN [snap EXCEPT !.baseHash = local.c] ELSE snap
    /\ Return(w, reg[w].ops)
    /\ UNCHANGED <<world, kept, history, candidate, used, dirty>>

-----------------------------------------------------------------------------
(* Everyone else: the editor, other clients, the configuration, restarts.  *)

\* handlePut of the service worker: a save in the editor.  The editor edits
\* what the local copy holds, and may resolve the conflict markers in it.  A path
\* that isn't synced is saved locally while the worker is offline; online the
\* request goes to the server, where it is like another client's (SaveRemote).
SaveLocal ==
    /\ made < MaxEdits
    /\ \A w \in Workers : pc[w] \in Gaps => pc[w] \in Windows
    /\ made' = made + 1
    /\ \E t \in Now, old \in {Content(local), Content(local) \ {Markers}} :
         clock' = t /\ SetLocal([c |-> old \cup {made + 1}, t |-> t])
    /\ Mark(LocalOrigin)
    /\ UNCHANGED <<remote, published, kept, dropped, candidate, used>>
    /\ UNCHANGED <<snap, disk, syncing, pc, reg>>

\* handleDelete: marks nothing, the next scan notices.  For a path that isn't
\* synced the request goes to the server instead (DeleteRemotely).
DeleteLocal ==
    /\ candidate
    /\ local # None
    /\ used.deletes < MaxDeletes
    /\ used' = [used EXCEPT !.deletes = @ + 1]
    /\ dropped' = dropped \cup (local.c \ {Markers})
    /\ SetLocal(None)
    /\ UNCHANGED <<remote, published, clock, kept, engine, candidate, made>>

\* The realtime event of a remote change reaches the engine, or gets lost.
Announce(o) == Mark(o) \/ (EventLoss /\ UNCHANGED dirty)

\* Another client's save.  Its push states the revision it edited, so a push
\* that lands extends what the server holds.
SaveRemote ==
    /\ made < MaxEdits
    /\ made' = made + 1
    /\ \E t \in Now :
         LET c == Content(remote) \cup {made + 1}
         IN  /\ clock' = t
             /\ SetRemote([c |-> c, t |-> t])
             /\ Announce(RemoteOrigin(t, c))
    /\ UNCHANGED <<local, seen, kept, dropped, candidate, used>>
    /\ UNCHANGED <<snap, disk, syncing, pc, reg>>

DeleteRemotely ==
    /\ remote # None
    /\ used.deletes < MaxDeletes
    /\ used' = [used EXCEPT !.deletes = @ + 1]
    /\ dropped' = dropped \cup (remote.c \ {Markers})
    /\ SetRemote(None)
    /\ Announce(AnyOrigin(None))
    /\ UNCHANGED <<local, seen, clock, kept, candidate, made>>
    /\ UNCHANGED <<snap, disk, syncing, pc, reg>>

\* setSyncConfig with another sync.ignore.
SetSyncConfig ==
    /\ used.reconfigs < MaxReconfigs
    /\ used' = [used EXCEPT !.reconfigs = @ + 1]
    /\ candidate' = ~candidate
    /\ UNCHANGED <<world, kept, engine, history>>

\* Another path of the same scan completes (syncProgress): the whole snapshot
\* is saved, whatever this path's entry holds just then.
OtherPathSynced ==
    /\ OtherPaths
    /\ \E w \in Workers : syncing = w /\ reg[w].scan
    /\ disk' = snap
    /\ UNCHANGED <<world, kept, history, candidate, used>>
    /\ UNCHANGED <<snap, dirty, syncing, pc, reg>>

\* Another path of the same scan throws: the scan saves and releases isSyncing
\* while its worker on this path goes on.
OtherPathFails(w) ==
    /\ OtherPaths
    /\ syncing = w /\ reg[w].scan /\ pc[w] \notin {"secondary", "tail"}
    /\ \E v \in Workers : pc[v] = "idle"
    /\ syncing' = None
    /\ disk' = snap
    /\ UNCHANGED <<world, kept, history, candidate, used>>
    /\ UNCHANGED <<snap, dirty, pc, reg>>

\* The browser kills the service worker and starts it again: memory is gone,
\* the local copy, the safety store and the saved snapshot are not.
Restart ==
    /\ used.crashes < MaxCrashes
    /\ used' = [used EXCEPT !.crashes = @ + 1]
    /\ snap' = disk
    /\ dirty' = None
    /\ syncing' = None
    /\ pc' = [w \in Workers |-> "idle"]
    /\ reg' = [w \in Workers |-> Blank]
    /\ UNCHANGED <<clock, kept, made, dropped, candidate, disk>>

Crash ==
    /\ Restart
    /\ UNCHANGED <<local, remote, published, seen>>

\* It kills the worker when the write of a step has landed and the snapshot
\* that says so is not saved yet.
Killed(w) ==
    /\ pc[w] \in Kills
    /\ \/ /\ pc[w] \in {"pullWrite", "reconcileWrite"}
          /\ SetLocal(reg[w].rem)
          /\ UNCHANGED <<remote, published>>
       \/ /\ pc[w] \in {"deleteLocal", "dropLocal", "unsynced"}
          /\ SetLocal(None)
          /\ UNCHANGED <<remote, published>>
       \/ /\ pc[w] \in {"putNew", "putChanged", "putRecreate"}
          /\ Passes(reg[w].pre)
          /\ SetRemote(reg[w].data)
          /\ KeepLocal
       \/ /\ pc[w] = "deleteRemote"
          /\ Passes(reg[w].pre)
          /\ SetRemote(None)
          /\ KeepLocal
    /\ Restart

-----------------------------------------------------------------------------
Pushes(w) ==
    ReadNew(w) \/ ReadRecreate(w) \/ ReadChanged(w) \/ RevisionForPush(w)
    \/ PutNew(w) \/ PutRecreate(w) \/ PutChanged(w)

Deletes(w) ==
    DeletedRemote(w) \/ DeleteLocalCopy(w) \/ RevisionForDelete(w)
    \/ DeleteRemote(w) \/ ForgetPath(w)

Notes(w) ==
    NoteNew(w) \/ DropLocal(w) \/ DropUnsynced(w) \/ NothingToDo(w)
    \/ Verify(w) \/ VerifyRemote(w)

Pulls(w) ==
    ChangedRemote(w) \/ PullBefore(w) \/ PullGet(w) \/ PullCheck(w) \/ PullWrite(w)

Merges(w) ==
    Reconcile(w) \/ Post(w) \/ PostRetry(w) \/ Reconciled(w) \/ ReconcileWrite(w)

Resolves(w) ==
    ResolveRead(w) \/ ResolveGet(w) \/ CopyCheck(w) \/ CopyPut(w)
    \/ ResolveCheck(w) \/ ResolvePut(w) \/ ResolverBase(w)

\* A step of the code that runs a cycle on the path.
SyncStep(w) ==
    Secondary(w) \/ Classify(w) \/ Pushes(w) \/ Deletes(w) \/ Notes(w) \/ Pulls(w) \/ Merges(w)
    \/ Resolves(w) \/ EndScan(w)

Environment ==
    SaveLocal \/ DeleteLocal \/ SaveRemote \/ DeleteRemotely \/ SetSyncConfig
    \/ OtherPathSynced \/ Crash

Next ==
    \/ \E w \in Workers :
         StartScan(w) \/ Take(w) \/ SyncStep(w) \/ OtherPathFails(w) \/ Killed(w)
    \/ Environment

Spec == Init /\ [][Next]_vars

\* The run loop alternates full scans with draining the queue, and every
\* request is answered: a cycle that began goes on, a scan comes around, and an
\* entry left in the queue is taken in the drain that follows each scan.
Fairness ==
    \A w \in Workers :
        WF_vars(SyncStep(w)) /\ WF_vars(StartScan(w)) /\ SF_vars(Take(w))

LiveSpec == Spec /\ Fairness

-----------------------------------------------------------------------------
(* Properties.                                                             *)

Kept == UNION (safety \cup copies.primary \cup copies.secondary)

\* Every edit a user made is still somewhere a user can find it: in either
\* copy, in a conflict copy or in the safety store, unless it was in a file
\* when a user deleted that file.  Pull, reconciliation, conflict resolution,
\* deletion and recreation must not drop an edit between them.
NoLostEdit ==
    1..made \subseteq dropped \cup Content(local) \cup Content(remote) \cup Kept

\* The merge base is a revision both ends have agreed on: it never names an
\* edit the server has not held.  tryReconcile treats what the base holds and
\* the server lacks as deleted on the server.
BaseIsPublished ==
    \A s \in {snap, disk} :
        s.baseHash # None => s.baseHash \ {Markers} \subseteq published

\* Between cycles, the recorded remote revision is one this replica has held
\* (or put aside as a conflict copy): it is what the next delete or push
\* claims to have seen.
RecordedRevisionWasHeld ==
    (\A w \in Workers : pc[w] \in {"idle", "tail"}) =>
        (snap.files # None /\ snap.remoteHash # None =>
            snap.remoteHash \ {Markers} \subseteq seen \cup Kept)

\* The engine deletes the remote file only with content the user deleted: a
\* deletion never wins over an edit made elsewhere.
DeletionsAreTheUsers ==
    [][\A w \in Workers :
         (DeleteRemote(w) \/ Killed(w)) /\ remote # None /\ remote' = None =>
             remote.c \ {Markers} \subseteq dropped]_vars

\* Both ends hold the same content.
Converged == (local = None <=> remote = None) /\ Content(local) = Content(remote)

\* Once users stop editing, the two ends come to agree and stay that way.
EventuallyConverged == <>[]Converged
=============================================================================
