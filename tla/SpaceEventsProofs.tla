------------------------- MODULE SpaceEventsProofs -------------------------
(***************************************************************************)
(* Proofs about the events of the space and the indexing queue, for any    *)
(* files and any number of operations and jobs at a time, of writes, of    *)
(* retries, of reloads and of overlapping batches.                         *)
(*                                                                         *)
(* That the snapshot never runs ahead of the index rests on operationCount *)
(* (AloneInv): what an operation has seen goes into the snapshot only when *)
(* it runs alone.  The rest says what the datastore's copy of the snapshot *)
(* (SavedInv) and an operation about to update it (CacheInv) may know.     *)
(***************************************************************************)
EXTENDS SpaceEvents, FiniteSetTheorems, TLAPS

\* The places of an operation that has compared what it saw with the snapshot.
Noted == {"new", "changed", "cache"}

Places == {"idle", "read", "write", "delete", "back", "new", "changed", "cache", "deleted",
           "clear", "save", "saved"}
Ops == [at : Places, file : Files \cup {None}, seen : Versions \cup {None}]

\* A slot that runs an operation runs it on a file.
OpOK(s) == op[s] # NoOp => op[s].at # "idle" /\ op[s].file \in Files

\* Changes are collected only while files are compared.
ListOK == list.at # "files" => list.changes = {}

TypeInv == TypeOK /\ ListOK /\ \A s \in Slots : OpOK(s)

\* No version is known that has not been written.
Old(v, n) == v = None \/ v <= n
FreshInv ==
    LET n == used.version IN
    /\ \A f \in Files :
          Old(disk[f], n) /\ Old(snapshot[f], n) /\ Old(saved[f], n) /\ Old(list.found[f], n)
    /\ \A s \in Slots : Old(op[s].seen, n)

\* Such an operation was alone: there is no listing, and no other got that far.
AloneInv ==
    \A s \in Slots : op[s].at \in Noted =>
        /\ list = NoListing
        /\ \A t \in Slots : op[t].at \in Noted => t = s

\* A job that is going to write an older version of the file.
Stale(f) == \E j \in work : j.message.file = f /\ j.seen \notin {None, disk[f]}
Reading(f) == \E j \in work : j.message.file = f /\ j.seen \in {None, disk[f]}
Queued(f) == \E m \in queue \cup list.changes : m.file = f
Indexed(f) == disk[f] \in index[f].has /\ (used.overlaps = 0 => index[f].last = disk[f])

\* The index has the file's version or will read it, and nothing older comes
\* after that, unless batches overlapped.
Told(f) ==
    \/ disk[f] = missed[f]
    \/ Queued(f)
    \/ (Indexed(f) \/ Reading(f)) /\ (used.overlaps = 0 => ~Stale(f))

SeenTold == \A f \in Files : snapshot[f] # None /\ snapshot[f] = disk[f] => Told(f)

\* What a reload would bring back.
SavedInv ==
    \A f \in Files : saved[f] # None /\ saved[f] = disk[f] => snapshot[f] = None \/ Told(f)

\* An operation whose event is out: the index is told before the snapshot.
CacheInv ==
    \A s \in Slots, f \in Files :
       op[s].at = "cache" /\ op[s].file = f /\ disk[f] # None /\ disk[f] \in {op[s].seen, saved[f]}
          => Told(f)

SeenInv == SeenTold /\ SavedInv /\ CacheInv

-----------------------------------------------------------------------------
(* Types.                                                                  *)

LEMMA InitType == Init => TypeInv
<1> SUFFICES ASSUME Init PROVE TypeInv
  OBVIOUS
<1>1. NoFiles \in Listing
  BY DEF NoFiles, Listing
<1>2. NoOp \in Ops
  BY DEF NoOp, Ops, Places
<1>3. op \in [Slots -> Ops]
  BY <1>2 DEF Init
<1>4. used \in [version : 0..MaxVersion, calls : 0..MaxCalls, faults : 0..MaxFaults, overlaps : 0..1]
  BY EventsAssumption DEF Init
<1>5. /\ list \in [at : {"idle", "wrapped", "files", "save", "saved"}, found : Listing,
                  changes : SUBSET Changes, gone : SUBSET Files, clearing : Files \cup {None}]
      /\ ListOK
  BY <1>1 DEF Init, NoListing, ListOK
<1>6. index \in [Files -> [has : SUBSET Versions, last : Versions \cup {None}]]
  BY DEF Init, NoObjects
<1> QED BY <1>1, <1>3, <1>4, <1>5, <1>6 DEF Init, TypeInv, TypeOK, OpOK, Ops, Places

\* The parts of the type invariant that a step can disturb together.
SnapOK == disk \in Listing /\ snapshot \in Listing /\ saved \in Listing /\ changed \in BOOLEAN
OpsOK == op \in [Slots -> Ops] /\ \A s \in Slots : OpOK(s)
ListsOK ==
    /\ list \in [at : {"idle", "wrapped", "files", "save", "saved"}, found : Listing,
                 changes : SUBSET Changes, gone : SUBSET Files, clearing : Files \cup {None}]
    /\ deferred \in BOOLEAN /\ timers \in BOOLEAN /\ ListOK
Indexes == [Files -> [has : SUBSET Versions, last : Versions \cup {None}]]
Jobs == [message : Changes, seen : Versions \cup {None}]
IndexOK == queue \subseteq Changes /\ index \in Indexes /\ missed \in Listing /\ work \subseteq Jobs
UsedOK ==
    used \in [version : 0..MaxVersion, calls : 0..MaxCalls, faults : 0..MaxFaults, overlaps : 0..1]

LEMMA TypeParts ==
    /\ TypeInv <=> SnapOK /\ OpsOK /\ ListsOK /\ IndexOK /\ UsedOK
    /\ TypeInv' <=> SnapOK' /\ OpsOK' /\ ListsOK' /\ IndexOK' /\ UsedOK'
BY DEF TypeInv, TypeOK, SnapOK, OpsOK, ListsOK, IndexOK, UsedOK, Ops, Places, Indexes, Jobs

\* An operation goes on, or ends.
LEMMA OpKeeps ==
    ASSUME OpsOK, NEW s \in Slots, NEW l \in Places \ {"idle"},
           op[s].at # "idle", Goto(s, l)
    PROVE  OpsOK'
<1>1. op' \in [Slots -> Ops]
  BY DEF OpsOK, Ops, Goto
<1>2. ASSUME NEW t \in Slots PROVE OpOK(t)'
  BY <1>2 DEF OpsOK, OpOK, Ops, Goto, NoOp
<1> QED BY <1>1, <1>2 DEF OpsOK

LEMMA EndedKeeps ==
    ASSUME OpsOK, NEW s \in Slots, Ended(s)
    PROVE  OpsOK' /\ deferred' \in BOOLEAN /\ (timers \in BOOLEAN => timers' \in BOOLEAN)
<1>1. NoOp \in Ops
  BY DEF NoOp, Ops, Places
<1>2. op' \in [Slots -> Ops]
  BY <1>1 DEF OpsOK, Ended
<1>3. ASSUME NEW t \in Slots PROVE OpOK(t)'
  BY <1>3 DEF OpsOK, OpOK, Ended
<1>4. deferred' \in BOOLEAN /\ (timers \in BOOLEAN => timers' \in BOOLEAN)
  BY Zenon DEF Ended
<1> QED BY <1>2, <1>3, <1>4 DEF OpsOK

LEMMA BusyOp ==
    ASSUME OpsOK, NEW s \in Slots, op[s].at # "idle"
    PROVE  op[s].file \in Files /\ op[s] \in Ops /\ op[s].seen \in Versions \cup {None} /\ op[s] # NoOp
BY DEF OpsOK, OpOK, Ops, NoOp

LEMMA ChangeType ==
    ASSUME NEW f \in Files, NEW b \in BOOLEAN
    PROVE  Change(f, b) \in Changes /\ Change(f, b).file = f
<1>1. 0 \in 0..MaxRetries
  BY EventsAssumption
<1> QED BY <1>1, Zenon DEF Change, Changes

\* Clearing a file, and counting versions as missed.
LEMMA MissedKeeps ==
    ASSUME SnapOK, IndexOK, NEW fs, Missed(fs)
    PROVE  missed' \in Listing
BY DEF SnapOK, IndexOK, Missed, Listing

LEMMA ClearKeeps ==
    ASSUME IndexOK, NEW f \in Files, Clear(f)
    PROVE  index' \in Indexes
BY DEF IndexOK, Indexes, Clear, NoObjects

LEMMA ClearLateKeeps ==
    ASSUME SnapOK, IndexOK, NEW f \in Files, ClearLate(f)
    PROVE  IndexOK'
BY MissedKeeps, ClearKeeps DEF ClearLate, IndexOK

LEMMA OpType ==
    ASSUME TypeInv, NEW s \in Slots, OpStep(s)
    PROVE  TypeInv'
<1>1. SnapOK /\ OpsOK /\ ListsOK /\ IndexOK /\ UsedOK
  BY TypeParts
<1>2. used.version < MaxVersion => used.version + 1 \in Versions
  BY <1>1, EventsAssumption DEF UsedOK, Versions
<1>3. ASSUME NEW v \in Versions \cup {None}, op[s].at # "idle", Answer(s, v) PROVE OpsOK'
  <2>1. op' \in [Slots -> Ops]
    BY <1>1, <1>3 DEF OpsOK, Ops, Places, Answer
  <2>2. ASSUME NEW t \in Slots PROVE OpOK(t)'
    BY <1>1, <1>3, <2>2 DEF OpsOK, OpOK, Ops, Places, Answer, NoOp
  <2> QED BY <2>1, <2>2 DEF OpsOK
<1>4. CASE Read(s)
  <2>1. /\ UNCHANGED <<disk, snapshot, changed, saved, list, deferred, timers, queue, work, index, missed, used>>
        /\ op[s].at = "read" /\ Answer(s, disk[op[s].file])
    BY <1>4 DEF Read, Events, Snapshots
  <2>2. disk[op[s].file] \in Versions \cup {None}
    BY <1>1, <2>1, BusyOp DEF SnapOK, Listing
  <2>3. OpsOK'
    BY <1>3, <2>1, <2>2
  <2> QED BY <1>1, <2>1, <2>3, TypeParts DEF SnapOK, ListsOK, IndexOK, UsedOK, ListOK
<1>5. CASE Write(s)
  <2>1. /\ UNCHANGED <<snapshot, changed, saved, list, deferred, timers, queue, work, index, missed>>
        /\ op[s].at = "write" /\ Answer(s, used.version + 1) /\ used.version < MaxVersion
        /\ disk' = [disk EXCEPT ![op[s].file] = used.version + 1]
        /\ used' = [used EXCEPT !.version = @ + 1]
    BY <1>5 DEF Write, Events, Snapshots
  <2>2. OpsOK'
    BY <1>2, <1>3, <2>1
  <2>3. disk' \in Listing
    BY <1>1, <1>2, <2>1 DEF SnapOK, Listing
  <2>4. UsedOK'
    BY <1>1, <2>1, EventsAssumption DEF UsedOK
  <2> QED BY <1>1, <2>1, <2>2, <2>3, <2>4, TypeParts DEF SnapOK, ListsOK, IndexOK, ListOK
<1>6. CASE Fails(s)
  <2>1. UNCHANGED <<disk, snapshot, changed, saved, list, queue, work, index, missed, used>> /\ Ended(s)
    BY <1>6 DEF Fails, Events, Snapshots
  <2> QED BY <1>1, <2>1, EndedKeeps, TypeParts DEF SnapOK, ListsOK, IndexOK, UsedOK, ListOK
<1>7. CASE Used(s)
  <2>1. UNCHANGED <<disk, snapshot, changed, saved, list, queue, work, index, missed, used>>
        /\ op[s].at = "back"
    BY <1>7 DEF Used, Events, Snapshots
  <2>2. OpsOK' /\ deferred' \in BOOLEAN /\ timers' \in BOOLEAN
    <3>1. CASE operationCount > 1
      BY <1>1, <1>7, <3>1, EndedKeeps DEF Used, ListsOK
    <3>2. CASE ~(operationCount > 1)
      <4>1. Goto(s, Noticed(s)) /\ UNCHANGED <<deferred, timers>>
        BY <1>7, <3>2 DEF Used
      <4>2. Noticed(s) \in {"new", "changed", "cache"}
        BY DEF Noticed
      <4> QED BY <1>1, <2>1, <4>1, <4>2, OpKeeps DEF ListsOK, Places
    <3> QED BY <3>1, <3>2
  <2> QED BY <1>1, <2>1, <2>2, TypeParts DEF SnapOK, ListsOK, IndexOK, UsedOK, ListOK
<1>8. CASE Trigger(s)
  <2>1. UNCHANGED <<disk, snapshot, changed, saved, list, deferred, timers, work, index, missed, used>>
        /\ op[s].at \in {"new", "changed"} /\ Goto(s, "cache")
        /\ queue' = queue \cup {Change(op[s].file, op[s].at = "new")}
    BY <1>8 DEF Trigger, Enqueue, Snapshots
  <2>2. OpsOK' /\ op[s].file \in Files
    BY <1>1, <2>1, OpKeeps, BusyOp DEF Places
  <2>3. Change(op[s].file, op[s].at = "new") \in Changes
    BY <2>2, ChangeType, Zenon
  <2>4. IndexOK'
    BY <1>1, <2>1, <2>3 DEF IndexOK
  <2> QED BY <1>1, <2>1, <2>2, <2>4, TypeParts DEF SnapOK, ListsOK, UsedOK, ListOK
<1>9. CASE Cache(s)
  <2>1. UNCHANGED <<disk, saved, list, deferred, timers, queue, work, index, missed, used>>
        /\ op[s].at = "cache" /\ op' = [op EXCEPT ![s].at = "save", ![s].seen = None]
        /\ updateInSnapshot(op[s].file, op[s].seen)
    BY <1>9 DEF Cache, Events
  <2>2. op[s].file \in Files /\ op[s].seen \in Versions \cup {None}
    BY <1>1, <2>1, BusyOp
  <2>3. op' \in [Slots -> Ops]
    BY <1>1, <2>1 DEF OpsOK, Ops, Places
  <2>4. ASSUME NEW t \in Slots PROVE OpOK(t)'
    BY <1>1, <2>1, <2>2, <2>4 DEF OpsOK, OpOK, Ops, Places, NoOp
  <2>5. snapshot' \in Listing
    BY <1>1, <2>1, <2>2 DEF SnapOK, Listing, updateInSnapshot
  <2>6. changed' \in BOOLEAN
    BY <2>1, Zenon DEF updateInSnapshot
  <2> QED BY <1>1, <2>1, <2>3, <2>4, <2>5, <2>6, TypeParts DEF SnapOK, OpsOK, ListsOK, IndexOK, UsedOK, ListOK
<1>10. CASE Delete(s)
  <2>1. UNCHANGED <<snapshot, changed, saved, list, deferred, timers, queue, work, index, missed, used>>
        /\ op[s].at = "delete" /\ (disk' = disk \/ disk' = [disk EXCEPT ![op[s].file] = None])
        /\ (Goto(s, "deleted") \/ Goto(s, "save"))
    BY <1>10 DEF Delete, Events, Snapshots
  <2>2. OpsOK'
    BY <1>1, <2>1, OpKeeps DEF Places
  <2>3. disk' \in Listing
    BY <1>1, <2>1 DEF SnapOK, Listing
  <2> QED BY <1>1, <2>1, <2>2, <2>3, TypeParts DEF SnapOK, ListsOK, IndexOK, UsedOK, ListOK
<1>11. CASE Deleted(s)
  <2>1. UNCHANGED <<disk, saved, list, deferred, timers, queue, work, index, missed, used>>
        /\ op[s].at = "deleted" /\ Goto(s, "clear") /\ changed' = TRUE
        /\ snapshot' = [snapshot EXCEPT ![op[s].file] = None]
    BY <1>11 DEF Deleted, Events
  <2>2. OpsOK'
    BY <1>1, <2>1, OpKeeps DEF Places
  <2>3. snapshot' \in Listing
    BY <1>1, <2>1 DEF SnapOK, Listing
  <2> QED BY <1>1, <2>1, <2>2, <2>3, TypeParts DEF SnapOK, ListsOK, IndexOK, UsedOK, ListOK
<1>12. CASE SaveOp(s)
  <2>1. UNCHANGED <<disk, snapshot, changed, list, queue, work, index, missed, used>>
        /\ op[s].at = "save" /\ saved' = IF changed THEN snapshot ELSE saved
    BY <1>12 DEF SaveOp, Save, Events
  <2>2. OpsOK' /\ deferred' \in BOOLEAN /\ timers' \in BOOLEAN
    <3>1. CASE changed
      BY <1>1, <1>12, <2>1, <3>1, OpKeeps DEF SaveOp, ListsOK, Places
    <3>2. CASE ~changed
      BY <1>1, <1>12, <3>2, EndedKeeps DEF SaveOp, ListsOK
    <3> QED BY <3>1, <3>2
  <2> QED BY <1>1, <2>1, <2>2, TypeParts DEF SnapOK, ListsOK, IndexOK, UsedOK, ListOK
<1>13. CASE SavedOp(s)
  <2>1. UNCHANGED <<disk, snapshot, saved, list, queue, work, index, missed, used>> /\ Ended(s)
        /\ changed' = FALSE
    BY <1>13 DEF SavedOp, Events
  <2> QED BY <1>1, <2>1, EndedKeeps, TypeParts DEF SnapOK, ListsOK, IndexOK, UsedOK, ListOK
<1>14. CASE ClearOp(s)
  <2>1. UNCHANGED <<disk, snapshot, changed, saved, list, deferred, timers, used>>
        /\ op[s].at = "clear" /\ ClearLate(op[s].file) /\ Goto(s, "save")
    BY <1>14 DEF ClearOp, Snapshots
  <2>2. OpsOK' /\ op[s].file \in Files
    BY <1>1, <2>1, OpKeeps, BusyOp DEF Places
  <2>3. IndexOK'
    BY <1>1, <2>1, <2>2, ClearLateKeeps
  <2> QED BY <1>1, <2>1, <2>2, <2>3, TypeParts DEF SnapOK, ListsOK, UsedOK, ListOK
<1> QED BY <1>4, <1>5, <1>6, <1>7, <1>8, <1>9, <1>10, <1>11, <1>12, <1>13, <1>14 DEF OpStep

LEMMA NoListingOK ==
    /\ NoListing \in [at : {"idle", "wrapped", "files", "save", "saved"}, found : Listing,
                      changes : SUBSET Changes, gone : SUBSET Files, clearing : Files \cup {None}]
    /\ NoListing.at = "idle" /\ NoListing.changes = {} /\ NoFiles \in Listing
    /\ NoListing.found = NoFiles
BY DEF NoListing, NoFiles, Listing

LEMMA ListType ==
    ASSUME TypeInv, ListStep
    PROVE  TypeInv'
<1>1. SnapOK /\ OpsOK /\ ListsOK /\ IndexOK /\ UsedOK
  BY TypeParts
<1>2. CASE List
  <2>1. UNCHANGED <<disk, snapshot, changed, saved, op, deferred, timers, queue, work, index, missed, used>>
        /\ list' = [at |-> "files", found |-> disk, changes |-> {},
                    gone |-> {f \in Files : snapshot[f] # None}, clearing |-> None]
    BY <1>2 DEF List, Events, Snapshots
  <2>2. ListsOK'
    BY <1>1, <2>1 DEF ListsOK, SnapOK, ListOK
  <2> QED BY <1>1, <2>1, <2>2, TypeParts DEF SnapOK, OpsOK, OpOK, IndexOK, UsedOK
<1>3. CASE ListFails
  <2>1. UNCHANGED <<disk, snapshot, changed, saved, op, deferred, timers, queue, work, index, missed, used>>
        /\ list.at = "wrapped" /\ list' = [list EXCEPT !.at = "save"]
    BY <1>3 DEF ListFails, Events, Snapshots
  <2>2. ListsOK'
    BY <1>1, <2>1 DEF ListsOK, ListOK
  <2> QED BY <1>1, <2>1, <2>2, TypeParts DEF SnapOK, OpsOK, OpOK, IndexOK, UsedOK
<1>4. ASSUME NEW f \in Files, Compare(f) PROVE TypeInv'
  <2> DEFINE v == list.found[f]
             c == Change(f, snapshot[f] = None)
  <2>1. UNCHANGED <<disk, saved, op, deferred, timers, queue, work, index, missed, used>>
        /\ list.at = "files" /\ updateInSnapshot(f, v)
        /\ list' = [list EXCEPT !.found[f] = None, !.gone = @ \ {f},
                            !.changes = IF snapshot[f] = v THEN @ ELSE @ \cup {c}]
    BY <1>4 DEF Compare, Events
  <2>2. v \in Versions \cup {None}
    BY <1>1 DEF ListsOK, Listing
  <2>3. c \in Changes
    BY ChangeType, Zenon
  <2> HIDE DEF v, c
  <2>4. ListsOK'
    BY <1>1, <2>1, <2>3 DEF ListsOK, ListOK, Listing
  <2>5. snapshot' \in Listing
    BY <1>1, <2>1, <2>2 DEF SnapOK, Listing, updateInSnapshot
  <2>6. changed' \in BOOLEAN
    BY <2>1, Zenon DEF updateInSnapshot
  <2> QED BY <1>1, <2>1, <2>4, <2>5, <2>6, TypeParts DEF SnapOK, OpsOK, OpOK, IndexOK, UsedOK
<1>5. ASSUME NEW f \in Files, Forget(f) PROVE TypeInv'
  <2>1. UNCHANGED <<disk, saved, op, deferred, timers, queue, work, index, missed, used>>
        /\ list.at = "files" /\ changed' = TRUE
        /\ snapshot' = [snapshot EXCEPT ![f] = None]
        /\ list' = [list EXCEPT !.gone = @ \ {f}, !.clearing = f]
    BY <1>5 DEF Forget, Events
  <2>2. ListsOK'
    BY <1>1, <2>1 DEF ListsOK, ListOK
  <2>3. snapshot' \in Listing
    BY <1>1, <2>1 DEF SnapOK, Listing
  <2> QED BY <1>1, <2>1, <2>2, <2>3, TypeParts DEF SnapOK, OpsOK, OpOK, IndexOK, UsedOK
<1>6. CASE Batch
  <2>1. UNCHANGED <<disk, snapshot, changed, saved, op, deferred, timers, work, index, missed, used>>
        /\ queue' = queue \cup list.changes
        /\ list' = [list EXCEPT !.at = "save", !.changes = {}]
    BY <1>6 DEF Batch, Enqueue, Snapshots
  <2>2. ListsOK'
    BY <1>1, <2>1 DEF ListsOK, ListOK
  <2>3. IndexOK'
    BY <1>1, <2>1 DEF ListsOK, IndexOK
  <2> QED BY <1>1, <2>1, <2>2, <2>3, TypeParts DEF SnapOK, OpsOK, OpOK, UsedOK
<1>7. CASE SaveList
  <2>1. UNCHANGED <<disk, snapshot, changed, op, deferred, timers, queue, work, index, missed, used>>
        /\ list.at = "save" /\ list' \in {[list EXCEPT !.at = "saved"], NoListing}
        /\ saved' = IF changed THEN snapshot ELSE saved
    BY <1>7 DEF SaveList, Save, Events
  <2>2. ListsOK'
    BY <1>1, <2>1, NoListingOK DEF ListsOK, ListOK
  <2> QED BY <1>1, <2>1, <2>2, TypeParts DEF SnapOK, OpsOK, OpOK, IndexOK, UsedOK
<1>8. CASE SavedList
  <2>1. UNCHANGED <<disk, snapshot, saved, op, deferred, timers, queue, work, index, missed, used>>
        /\ list' = NoListing /\ changed' = FALSE
    BY <1>8 DEF SavedList, Events
  <2>2. ListsOK'
    BY <1>1, <2>1, NoListingOK DEF ListsOK, ListOK
  <2> QED BY <1>1, <2>1, <2>2, TypeParts DEF SnapOK, OpsOK, OpOK, IndexOK, UsedOK
<1>9. CASE ClearForgotten
  <2>1. UNCHANGED <<disk, snapshot, changed, saved, op, deferred, timers, used>>
        /\ list.at = "files" /\ list.clearing # None /\ ClearLate(list.clearing)
        /\ list' = [list EXCEPT !.clearing = None]
    BY <1>9 DEF ClearForgotten, Snapshots
  <2>2. ListsOK' /\ list.clearing \in Files
    BY <1>1, <2>1 DEF ListsOK, ListOK
  <2>3. IndexOK'
    BY <1>1, <2>1, <2>2, ClearLateKeeps
  <2> QED BY <1>1, <2>1, <2>2, <2>3, TypeParts DEF SnapOK, OpsOK, OpOK, UsedOK
<1> QED BY <1>2, <1>3, <1>4, <1>5, <1>6, <1>7, <1>8, <1>9 DEF ListStep

\* What is delivered again is a message, with one retry more.
LEMMA AgainKeeps ==
    ASSUME IndexOK, NEW ms \in SUBSET Changes, Again(ms)
    PROVE  /\ queue' \subseteq Changes /\ queue \subseteq queue'
           /\ \A m \in ms : RunsOut(m) \/ \E n \in queue' : n.file = m.file
<1>1. ASSUME NEW m \in ms, ~RunsOut(m)
      PROVE  [m EXCEPT !.retries = @ + 1] \in Changes /\ [m EXCEPT !.retries = @ + 1].file = m.file
  BY <1>1, EventsAssumption DEF Changes, RunsOut
<1>2. queue' = queue \cup {[m EXCEPT !.retries = @ + 1] : m \in {n \in ms : ~RunsOut(n)}}
  BY DEF Again
<1>3. \A m \in ms : ~RunsOut(m) => [m EXCEPT !.retries = @ + 1] \in queue'
  BY <1>2
<1>4. queue' \subseteq Changes
  BY <1>1, <1>2 DEF IndexOK
<1> QED BY <1>1, <1>2, <1>3, <1>4

LEMMA FaultyKeeps ==
    ASSUME UsedOK, Faulty
    PROVE  UsedOK' /\ used'.version = used.version /\ used'.overlaps = used.overlaps
BY EventsAssumption DEF UsedOK, Faulty, Fault

LEMMA ClearedKeeps ==
    ASSUME IndexOK, NEW m \in Changes
    PROVE  /\ Cleared(m) \in Indexes
           /\ \A f \in Files : f # m.file => Cleared(m)[f] = index[f]
BY DEF IndexOK, Indexes, Cleared, NoObjects, Changes

LEMMA IndexType ==
    ASSUME SnapOK, IndexOK, UsedOK, IndexStep
    PROVE  IndexOK' /\ UsedOK'
<1>1. ASSUME NEW m \in queue, Take(m) PROVE IndexOK' /\ UsedOK'
  <2>1. UNCHANGED <<index, missed>> /\ queue' = queue \ {m} /\ work' = work \cup {Job(m, None)}
    BY <1>1 DEF Take
  <2>2. Job(m, None) \in Jobs
    BY DEF Job, Jobs, IndexOK
  <2>3. UsedOK'
    <3>1. CASE OneBatch
      BY <1>1, <3>1 DEF Take, UsedOK
    <3>2. CASE ~OneBatch
      <4>1. used.faults < MaxFaults /\ used' = [used EXCEPT !.faults = @ + 1, !.overlaps = 1]
        BY <1>1, <3>2 DEF Take, Fault
      <4>2. used.faults + 1 \in 0..MaxFaults /\ 1 \in 0..1
        BY <4>1, EventsAssumption DEF UsedOK
      <4> QED BY <4>1, <4>2 DEF UsedOK
    <3> QED BY <3>1, <3>2
  <2> QED BY <2>1, <2>2, <2>3 DEF IndexOK
<1>2. ASSUME NEW j \in work, IndexRead(j) PROVE IndexOK' /\ UsedOK'
  <2>1. j.message \in Changes /\ j.message.file \in Files
    BY DEF IndexOK, Jobs, Changes
  <2>2. UNCHANGED <<queue, missed, used>> /\ index' = Cleared(j.message)
        /\ work' \subseteq work \cup {Job(j.message, disk[j.message.file])}
    BY <1>2 DEF IndexRead
  <2>3. Job(j.message, disk[j.message.file]) \in Jobs
    BY <2>1 DEF SnapOK, Listing, Job, Jobs
  <2> QED BY <2>1, <2>2, <2>3, ClearedKeeps DEF IndexOK, UsedOK
<1>3. ASSUME NEW j \in work, IndexFails(j) PROVE IndexOK' /\ UsedOK'
  <2>1. j.message \in Changes /\ j.message.file \in Files
    BY DEF IndexOK, Jobs, Changes
  <2>2. /\ work' = work \ {j} /\ index' \in {index, Cleared(j.message)}
        /\ Again({j.message}) /\ \E fs : Missed(fs)
        /\ Faulty
    BY <1>3, Zenon DEF IndexFails
  <2>3. queue' \subseteq Changes
    BY <2>1, <2>2, AgainKeeps
  <2> QED BY <2>1, <2>2, <2>3, ClearedKeeps, MissedKeeps, FaultyKeeps DEF IndexOK
<1>4. ASSUME NEW j \in work, IndexWrite(j) PROVE IndexOK' /\ UsedOK'
  <2>1. j.message \in Changes /\ j.message.file \in Files /\ j.seen \in Versions
    BY <1>4 DEF IndexOK, Jobs, Changes, IndexWrite
  <2>2. /\ work' = work \ {j} /\ UNCHANGED missed
        /\ index' = [index EXCEPT ![j.message.file] =
                        [has |-> @.has \cup {j.seen}, last |-> j.seen]]
        /\ UNCHANGED <<queue, used>> \/ (Again({j.message}) /\ Faulty)
    BY <1>4 DEF IndexWrite
  <2>3. queue' \subseteq Changes
    BY <2>1, <2>2, AgainKeeps DEF IndexOK
  <2>4. index' \in Indexes
    BY <2>1, <2>2 DEF IndexOK, Indexes
  <2>5. UsedOK'
    BY <2>2, FaultyKeeps DEF UsedOK
  <2> QED BY <2>2, <2>3, <2>4, <2>5 DEF IndexOK
<1> QED BY <1>1, <1>2, <1>3, <1>4 DEF IndexStep

LEMMA NextType == TypeInv /\ [Next]_vars => TypeInv'
<1> SUFFICES ASSUME TypeInv, [Next]_vars PROVE TypeInv'
  OBVIOUS
<1>1. SnapOK /\ OpsOK /\ ListsOK /\ IndexOK /\ UsedOK
  BY TypeParts
<1>2. ASSUME NEW f \in Files, RemoteWrite(f) \/ RemoteDelete(f) PROVE TypeInv'
  <2>1. UNCHANGED <<snapshot, changed, saved, op, list, deferred, timers, queue, work, index, missed>>
        /\ used.version < MaxVersion /\ used.calls < MaxCalls
        /\ used' = [used EXCEPT !.version = @ + 1, !.calls = @ + 1]
        /\ \E v \in {None, used.version + 1} : disk' = [disk EXCEPT ![f] = v]
    BY <1>2 DEF RemoteWrite, RemoteDelete, Events, Snapshots, Elsewhere
  <2>2. used.version + 1 \in Versions
    BY <1>1, <2>1, EventsAssumption DEF UsedOK, Versions
  <2>3. UsedOK'
    <3>1. used.version + 1 \in 0..MaxVersion /\ used.calls + 1 \in 0..MaxCalls
      BY <1>1, <2>1, EventsAssumption DEF UsedOK
    <3> QED BY <1>1, <2>1, <3>1 DEF UsedOK
  <2>4. disk' \in Listing
    BY <1>1, <2>1, <2>2 DEF SnapOK, Listing
  <2> QED BY <1>1, <2>1, <2>3, <2>4, TypeParts DEF SnapOK, OpsOK, OpOK, ListsOK, ListOK, IndexOK
<1>3. ASSUME NEW s \in Slots, NEW call \in {"read", "write", "delete"}, NEW f \in Files,
             Begin(s, call, f)
      PROVE  TypeInv'
  <2> DEFINE o == [at |-> call, file |-> f, seen |-> None]
  <2>1. UNCHANGED <<disk, snapshot, changed, saved, list, deferred, timers, queue, work, index, missed>>
        /\ used.calls < MaxCalls /\ used' = [used EXCEPT !.calls = @ + 1]
        /\ op' = [op EXCEPT ![s] = o]
    BY <1>3 DEF Begin, Events, Snapshots
  <2>2. o \in Ops /\ o.at # "idle" /\ o.file \in Files
    BY DEF Ops, Places
  <2> HIDE DEF o
  <2>3. OpsOK'
    BY <1>1, <2>1, <2>2 DEF OpsOK, OpOK
  <2>4. UsedOK'
    BY <1>1, <2>1, EventsAssumption DEF UsedOK
  <2> QED BY <1>1, <2>1, <2>3, <2>4, TypeParts DEF SnapOK, ListsOK, ListOK, IndexOK
<1>4. CASE AskByInterval \/ AskDeferred
  <2>1. /\ UNCHANGED <<disk, snapshot, changed, saved, op, queue, work, index, missed, used>>
        /\ list' = list \/ list' = [NoListing EXCEPT !.at = "wrapped"]
        /\ deferred' = deferred \/ deferred' = TRUE
        /\ timers' = timers \/ timers' = FALSE
    BY <1>4 DEF AskByInterval, AskDeferred, Ask, Events, Snapshots
  <2>2. deferred' \in BOOLEAN /\ timers' \in BOOLEAN
    BY <1>1, <2>1, Zenon DEF ListsOK
  <2>3. ListsOK'
    BY <1>1, <2>1, <2>2, NoListingOK DEF ListsOK, ListOK
  <2> QED BY <1>1, <2>1, <2>3, TypeParts DEF SnapOK, OpsOK, OpOK, IndexOK, UsedOK
<1>5. CASE IndexStep
  <2>1. UNCHANGED <<disk, snapshot, changed, saved, op, list, deferred, timers>>
    BY <1>5 DEF IndexStep, Take, IndexRead, IndexFails, IndexWrite, Snapshots
  <2> QED BY <1>1, <1>5, <2>1, IndexType, TypeParts DEF SnapOK, OpsOK, OpOK, ListsOK, ListOK
<1>6. CASE Reload
  <2>1. /\ UNCHANGED <<disk, saved, index>> /\ Faulty
        /\ snapshot' = saved /\ changed' = FALSE
        /\ op' = [s \in Slots |-> NoOp] /\ list' = NoListing /\ deferred' = FALSE /\ timers' = FALSE
        /\ Again({j.message : j \in work}) /\ work' = {} /\ \E fs : Missed(fs)
    BY <1>6, Zenon DEF Reload
  <2>2. OpsOK'
    BY <2>1 DEF OpsOK, OpOK, Ops, Places, NoOp
  <2>3. ListsOK'
    BY <2>1, NoListingOK DEF ListsOK, ListOK
  <2>4. {j.message : j \in work} \subseteq Changes
    BY <1>1 DEF IndexOK, Jobs
  <2>5. queue' \subseteq Changes
    BY <1>1, <2>1, <2>4, AgainKeeps
  <2>6. missed' \in Listing
    BY <1>1, <2>1, MissedKeeps
  <2>7. IndexOK'
    BY <1>1, <2>1, <2>5, <2>6 DEF IndexOK
  <2> QED BY <1>1, <2>1, <2>2, <2>3, <2>7, FaultyKeeps, TypeParts DEF SnapOK
<1>7. CASE UNCHANGED vars
  BY <1>1, <1>7, TypeParts DEF vars, SnapOK, OpsOK, OpOK, ListsOK, ListOK, IndexOK, UsedOK
<1> QED BY <1>2, <1>3, <1>4, <1>5, <1>6, <1>7, OpType, ListType DEF Next

\* Every reachable state of the snapshot, the operations, the listing and the
\* indexing queue is well typed; an operation that runs has a file.
THEOREM TypeCorrect == Spec => []TypeOK
<1>1. Spec => []TypeInv
  BY InitType, NextType, PTL DEF Spec
<1>2. TypeInv => TypeOK
  BY DEF TypeInv
<1> QED BY <1>1, <1>2, PTL

-----------------------------------------------------------------------------
(* Versions, and operationCount.                                           *)

\* Where a step takes versions from.
Taken ==
    /\ used'.version \in {used.version, used.version + 1}
    /\ \A f \in Files :
          /\ disk'[f] \in {disk[f], None, used'.version}
          /\ \/ snapshot'[f] \in {snapshot[f], None, saved[f], list.found[f]}
             \/ \E s \in Slots : snapshot'[f] = op[s].seen
          /\ saved'[f] \in {saved[f], snapshot[f]}
          /\ list'.found[f] \in {list.found[f], disk[f], None}
    /\ \A s \in Slots :
          \/ op'[s].seen \in {op[s].seen, None, used'.version}
          \/ \E f \in Files : op'[s].seen = disk[f]

LEMMA TakenFresh ==
    ASSUME TypeInv, FreshInv, Taken
    PROVE  FreshInv'
<1> DEFINE n == used.version
           k == used'.version
           V == Versions \cup {None}
<1>1. n \in Nat /\ k \in {n, n + 1}
  BY DEF TypeInv, TypeOK, Taken
<1>2. /\ \A f \in Files : disk[f] \in V /\ snapshot[f] \in V /\ saved[f] \in V /\ list.found[f] \in V
      /\ \A s \in Slots : op[s].seen \in V
  BY DEF TypeInv, TypeOK, Listing
<1>3. ASSUME NEW v \in V, Old(v, n) PROVE Old(v, k)
  BY <1>1, <1>3 DEF Old, Versions
<1>4. Old(None, k) /\ Old(k, k)
  BY <1>1 DEF Old
<1>5. /\ \A f \in Files :
            Old(disk[f], k) /\ Old(snapshot[f], k) /\ Old(saved[f], k) /\ Old(list.found[f], k)
      /\ \A s \in Slots : Old(op[s].seen, k)
  BY <1>2, <1>3 DEF FreshInv
<1> HIDE DEF V
<1> QED BY <1>4, <1>5 DEF FreshInv, Taken

LEMMA NextFresh ==
    ASSUME TypeInv, FreshInv, [Next]_vars
    PROVE  FreshInv'
<1>1. SnapOK /\ OpsOK /\ ListsOK /\ IndexOK /\ UsedOK
  BY TypeParts
<1> USE DEF SnapOK, ListsOK, Listing, UsedOK
<1>2. ASSUME NEW f \in Files, RemoteWrite(f) \/ RemoteDelete(f) PROVE Taken
  BY <1>1, <1>2 DEF RemoteWrite, RemoteDelete, Snapshots, Elsewhere, Taken
<1>3. ASSUME NEW s \in Slots, NEW call \in {"read", "write", "delete"}, NEW f \in Files,
             Begin(s, call, f)
      PROVE  Taken
  BY <1>1, <1>3 DEF Begin, Snapshots, Taken, OpsOK
<1>4. ASSUME AskByInterval \/ AskDeferred PROVE Taken
  BY <1>1, <1>4 DEF AskByInterval, AskDeferred, Ask, Snapshots, Taken, NoListing, NoFiles
<1>5. ASSUME NEW s \in Slots, OpStep(s) PROVE Taken
  <2>1. ASSUME Fails(s) PROVE Taken
    BY <1>1, <2>1 DEF Fails, Ended, NoOp, Snapshots, Taken, OpsOK, Ops
  <2>2. ASSUME SavedOp(s) PROVE Taken
    BY <1>1, <2>2 DEF SavedOp, Ended, NoOp, Taken, OpsOK, Ops, Events
  <2>3. ASSUME Used(s) PROVE Taken
    BY <1>1, <2>3 DEF Used, Ended, NoOp, Goto, Snapshots, Taken, OpsOK, Ops
  <2>4. ASSUME Read(s) PROVE Taken
    <3>1. op[s].file \in Files
      BY <1>1, <2>4, BusyOp DEF Read
    <3> QED BY <1>1, <2>4, <3>1 DEF Read, Answer, Snapshots, Taken, OpsOK, Ops
  <2>5. ASSUME Write(s) PROVE Taken
    BY <1>1, <2>5 DEF Write, Answer, Snapshots, Taken, OpsOK, Ops
  <2>6. ASSUME Trigger(s) \/ Delete(s) \/ Deleted(s) \/ ClearOp(s) PROVE Taken
    <3>1. \E l : op' = [op EXCEPT ![s].at = l]
      BY <2>6 DEF Trigger, Delete, Deleted, ClearOp, Goto
    <3>2. \A t \in Slots : op'[t].seen = op[t].seen
      BY <1>1, <3>1 DEF OpsOK, Ops
    <3> QED BY <1>1, <2>6, <3>2 DEF Trigger, Delete, Deleted, ClearOp, Snapshots, Taken
  <2>7. ASSUME Cache(s) PROVE Taken
    <3>1. \A t \in Slots : op'[t].seen \in {op[t].seen, None}
      BY <1>1, <2>7 DEF Cache, OpsOK, Ops
    <3> QED BY <1>1, <2>7, <3>1 DEF Cache, updateInSnapshot, Taken
  <2>8. ASSUME SaveOp(s) PROVE Taken
    <3>1. \A t \in Slots : op'[t].seen \in {op[t].seen, None}
      BY <1>1, <2>8 DEF SaveOp, Goto, Ended, NoOp, OpsOK, Ops
    <3> QED BY <1>1, <2>8, <3>1 DEF SaveOp, Save, Taken
  <2> QED BY <1>5, <2>1, <2>2, <2>3, <2>4, <2>5, <2>6, <2>7, <2>8 DEF OpStep
<1>6. ASSUME ListStep PROVE Taken
  <2>1. ASSUME NEW f \in Files, Compare(f) \/ Forget(f) PROVE Taken
    <3>1. list'.found \in {list.found, [list.found EXCEPT ![f] = None]}
      BY <1>1, <2>1 DEF Compare, Forget
    <3>2. /\ UNCHANGED <<disk, saved, op, used>>
          /\ \E v \in {None, list.found[f]} : snapshot' = [snapshot EXCEPT ![f] = v]
      BY <2>1 DEF Compare, Forget, updateInSnapshot
    <3>3. \A g \in Files : list'.found[g] \in {list.found[g], None}
      BY <1>1, <3>1
    <3> QED BY <1>1, <3>2, <3>3 DEF Taken
  <2>2. ASSUME List \/ ListFails \/ ClearForgotten \/ Batch \/ SaveList \/ SavedList PROVE Taken
    <3>1. \A g \in Files : list'.found[g] \in {list.found[g], disk[g], None}
      <4>1. CASE List
        BY <4>1 DEF List
      <4>2. CASE ListFails
        BY <1>1, <4>2 DEF ListFails
      <4>3. CASE Batch
        BY <1>1, <4>3 DEF Batch
      <4>4. CASE SaveList
        BY <1>1, <4>4, NoListingOK DEF SaveList, NoFiles
      <4>5. CASE SavedList
        BY <1>1, <4>5, NoListingOK DEF SavedList, NoFiles
      <4>6. CASE ClearForgotten
        BY <1>1, <4>6 DEF ClearForgotten
      <4> QED BY <2>2, <4>1, <4>2, <4>3, <4>4, <4>5, <4>6
    <3>2. UNCHANGED <<disk, snapshot, op, used>> /\ (saved' = saved \/ saved' = snapshot)
      BY <2>2 DEF List, ListFails, ClearForgotten, Batch, SaveList, SavedList, Save, Snapshots
    <3> QED BY <3>1, <3>2 DEF Taken
  <2> QED BY <1>6, <2>1, <2>2 DEF ListStep
<1>7. ASSUME IndexStep PROVE Taken
  <2>1. UNCHANGED <<disk, snapshot, saved, op, list>>
    BY <1>7 DEF IndexStep, Take, IndexRead, IndexFails, IndexWrite, Snapshots
  <2>2. used'.version = used.version
    BY <1>1, <1>7 DEF IndexStep, Take, IndexRead, IndexFails, IndexWrite, Faulty
  <2> QED BY <1>1, <2>1, <2>2 DEF Taken
<1>8. ASSUME Reload PROVE Taken
  BY <1>1, <1>8, NoListingOK DEF Reload, Faulty, Taken, NoOp, NoFiles
<1>9. ASSUME UNCHANGED vars PROVE Taken
  BY <1>1, <1>9 DEF vars, Taken
<1> QED BY <1>2, <1>3, <1>4, <1>5, <1>6, <1>7, <1>8, <1>9, TakenFresh DEF Next

\* What operationCount says.
LEMMA Counts ==
    /\ ~(operationCount > 0) => Busy = {} /\ list = NoListing
    /\ \A s \in Busy : ~(operationCount > 1) => Busy = {s} /\ list = NoListing
<1>1. IsFiniteSet(Busy)
  BY EventsAssumption, FS_Subset DEF Busy
<1>2. Cardinality(Busy) \in Nat /\ (Cardinality(Busy) = 0 <=> Busy = {})
  BY <1>1, FS_CardinalityType, FS_EmptySet
<1>3. ASSUME NEW s \in Busy, ~(operationCount > 1) PROVE Busy = {s} /\ list = NoListing
  <2>1. Cardinality(Busy \ {s}) = Cardinality(Busy) - 1 /\ IsFiniteSet(Busy \ {s})
    BY <1>1, FS_RemoveElement
  <2>2. Cardinality(Busy) # 0
    BY <1>2
  <2>3. Cardinality(Busy) = 1 /\ list = NoListing
    BY <1>2, <1>3, <2>2 DEF operationCount
  <2>4. Busy \ {s} = {}
    BY <2>1, <2>3, FS_EmptySet
  <2> QED BY <2>3, <2>4
<1> QED BY <1>2, <1>3 DEF operationCount

\* Operations that another step leaves as they are.
OpsStay == \A s \in Slots : op'[s].at \in Noted => op[s].at \in Noted

LEMMA OpsStayFrom ==
    ASSUME OpsOK, NEW s \in Slots,
           \/ Ended(s)
           \/ \E l \in {"deleted", "clear", "save", "saved"} : Goto(s, l)
           \/ \E v : Answer(s, v)
           \/ op' = [op EXCEPT ![s].at = "save", ![s].seen = None]
           \/ op[s].at \in Noted /\ Goto(s, "cache")
    PROVE  OpsStay
BY DEF OpsOK, Ops, OpsStay, Ended, Goto, Answer, NoOp, Noted

LEMMA NextAlone ==
    ASSUME TypeInv, AloneInv, [Next]_vars
    PROVE  AloneInv'
<1>1. SnapOK /\ OpsOK /\ ListsOK /\ IndexOK /\ UsedOK
  BY TypeParts
<1>2. ASSUME OpsStay, list' = list \/ list' = NoListing \/ list # NoListing PROVE AloneInv'
  BY <1>2 DEF OpsStay, AloneInv
<1>3. ASSUME NEW f \in Files, RemoteWrite(f) \/ RemoteDelete(f) PROVE AloneInv'
  BY <1>2, <1>3 DEF RemoteWrite, RemoteDelete, OpsStay
<1>4. ASSUME NEW s \in Slots, NEW call \in {"read", "write", "delete"}, NEW f \in Files,
             Begin(s, call, f)
      PROVE  AloneInv'
  <2>1. OpsStay /\ list' = list
    BY <1>1, <1>4 DEF Begin, OpsStay, OpsOK, Noted
  <2> QED BY <1>2, <2>1
<1>5. CASE AskByInterval \/ AskDeferred
  <2>1. UNCHANGED op /\ (list' # list => ~(operationCount > 0))
    BY <1>5 DEF AskByInterval, AskDeferred, Ask
  <2>2. CASE list' = list
    BY <1>2, <2>1, <2>2 DEF OpsStay
  <2>3. CASE list' # list
    <3>1. \A s \in Slots : op[s] = NoOp
      BY <2>1, <2>3, Counts DEF Busy
    <3> QED BY <2>1, <3>1 DEF AloneInv, NoOp, Noted
  <2> QED BY <2>2, <2>3
<1>6. ASSUME NEW s \in Slots, OpStep(s) PROVE AloneInv'
  <2>1. CASE Used(s) /\ ~(operationCount > 1)
    <3>1. Goto(s, Noticed(s)) /\ UNCHANGED list /\ op[s].at = "back"
      BY <2>1 DEF Used
    <3>2. s \in Busy
      BY <1>1, <3>1, BusyOp DEF Busy
    <3>3. list = NoListing /\ \A t \in Slots : t # s => op[t] = NoOp
      BY <2>1, <3>2, Counts DEF Busy
    <3>4. \A t \in Slots : t # s => op'[t].at \notin Noted
      BY <1>1, <3>1, <3>3 DEF Goto, OpsOK, NoOp, Noted
    <3> QED BY <3>1, <3>3, <3>4 DEF AloneInv
  <2>2. CASE ~(Used(s) /\ ~(operationCount > 1))
    <3>1. UNCHANGED list
      BY <1>6 DEF OpStep, Read, Write, Fails, Used, Trigger, Cache, Delete, Deleted, ClearOp,
                   SaveOp, SavedOp
    <3>2. \/ Ended(s)
          \/ \E l \in {"deleted", "clear", "save", "saved"} : Goto(s, l)
          \/ \E v : Answer(s, v)
          \/ op' = [op EXCEPT ![s].at = "save", ![s].seen = None]
          \/ op[s].at \in Noted /\ Goto(s, "cache")
      BY <1>6, <2>2 DEF OpStep, Read, Write, Fails, Used, Trigger, Cache, Delete, Deleted, ClearOp,
                        SaveOp, SavedOp, Noted
    <3>3. OpsStay
      BY <1>1, <3>2, OpsStayFrom
    <3> QED BY <1>2, <3>1, <3>3
  <2> QED BY <2>1, <2>2
<1>7. CASE ListStep
  <2>1. UNCHANGED op /\ list.at # "idle"
    BY <1>7 DEF ListStep, List, ListFails, Compare, Forget, ClearForgotten, Batch, SaveList,
                   SavedList
  <2>2. list # NoListing
    BY <2>1 DEF NoListing
  <2> QED BY <1>2, <2>1, <2>2 DEF OpsStay
<1>8. CASE IndexStep
  BY <1>2, <1>8 DEF IndexStep, Take, IndexRead, IndexFails, IndexWrite, OpsStay
<1>9. CASE Reload
  BY <1>9 DEF Reload, AloneInv, NoOp, Noted
<1>10. CASE UNCHANGED vars
  BY <1>2, <1>10 DEF vars, OpsStay
<1> QED BY <1>3, <1>4, <1>5, <1>6, <1>7, <1>8, <1>9, <1>10 DEF Next

-----------------------------------------------------------------------------
(* What the snapshot vouches for.                                          *)

LEMMA NotedFile == ASSUME TypeInv, NEW s \in Slots, op[s].at \in Noted PROVE op[s].file \in Files
BY TypeParts, BusyOp DEF Noted

\* Operations on the way to the snapshot go on with what they have seen, and
\* one is ready for it when the index is told.
OpsGo ==
    \A s \in Slots : op'[s].at \in Noted =>
       /\ op[s].at \in Noted /\ op'[s].file = op[s].file /\ op'[s].seen = op[s].seen
       /\ op'[s].at = "cache" => op[s].at = "cache" \/ \A f \in Files : op[s].file = f => Told(f)'

\* A step that leaves the files and the snapshot alone.
LEMMA QuietSeen ==
    ASSUME TypeInv, SeenInv, OpsGo, UNCHANGED <<disk, snapshot>>,
           saved' = saved \/ saved' = snapshot,
           \A f \in Files : disk[f] # None /\ Told(f) => Told(f)'
    PROVE  SeenInv'
<1>1. \A f \in Files : snapshot[f] # None /\ snapshot[f] = disk[f] => Told(f)
  BY DEF SeenInv, SeenTold
<1>2. SeenTold'
  BY <1>1 DEF SeenTold
<1>3. SavedInv'
  <2>1. ASSUME NEW f \in Files, saved'[f] # None, saved'[f] = disk'[f], snapshot'[f] # None PROVE Told(f)'
    BY <1>1, <2>1 DEF SeenInv, SavedInv
  <2> QED BY <2>1 DEF SavedInv
<1>4. CacheInv'
  <2>1. ASSUME NEW s \in Slots, NEW f \in Files, op'[s].at = "cache", op'[s].file = f,
               disk'[f] # None, disk'[f] \in {op'[s].seen, saved'[f]}
        PROVE  Told(f)'
    <3>1. op[s].at \in Noted /\ op[s].file = f /\ op'[s].seen = op[s].seen
      BY <2>1 DEF OpsGo, Noted
    <3>2. CASE op[s].at = "cache"
      <4>1. disk[f] \in {op[s].seen, saved[f], snapshot[f]}
        BY <2>1, <3>1
      <4> QED BY <1>1, <2>1, <3>1, <3>2, <4>1 DEF SeenInv, CacheInv
    <3> QED BY <2>1, <3>1, <3>2 DEF OpsGo, Noted
  <2> QED BY <2>1 DEF CacheInv
<1> QED BY <1>2, <1>3, <1>4 DEF SeenInv

\* A file is written or goes.
LEMMA ChangedSeen ==
    ASSUME TypeInv, FreshInv, SeenInv, NEW g \in Files, NEW v \in {None, used.version + 1},
           disk' = [disk EXCEPT ![g] = v], used'.overlaps = used.overlaps,
           UNCHANGED <<snapshot, saved, list, queue, work, index, missed>>,
           \A s \in Slots : op'[s].at \in Noted => op'[s] = op[s]
    PROVE  SeenInv'
<1>1. \A f \in Files : snapshot[f] # None /\ snapshot[f] = disk[f] => Told(f)
  BY DEF SeenInv, SeenTold
<1>2. /\ v # None => v \notin {snapshot[g], saved[g]}
      /\ \A s \in Slots : v # None => v # op[s].seen
  <2>1. used.version \in Nat
    BY DEF TypeInv, TypeOK
  <2>2. ASSUME NEW x \in Versions \cup {None}, Old(x, used.version), v # None PROVE x # v
    BY <2>1, <2>2, EventsAssumption DEF Old, Versions
  <2>3. snapshot[g] \in Versions \cup {None} /\ saved[g] \in Versions \cup {None}
        /\ \A s \in Slots : op[s].seen \in Versions \cup {None}
    BY DEF TypeInv, TypeOK, Listing
  <2> QED BY <2>2, <2>3 DEF FreshInv
<1>3. disk'[g] = v /\ \A f \in Files : f # g => disk'[f] = disk[f]
  BY DEF TypeInv, TypeOK, Listing
<1>4. \A f \in Files : f # g => (Told(f)' <=> Told(f))
  BY <1>3 DEF Told, Queued, Indexed, Reading, Stale
<1>5. SeenTold'
  BY <1>1, <1>2, <1>3, <1>4 DEF SeenTold
<1>6. SavedInv'
  <2>1. ASSUME NEW f \in Files, saved'[f] # None, saved'[f] = disk'[f], snapshot'[f] # None PROVE Told(f)'
    BY <1>2, <1>3, <1>4, <2>1 DEF SeenInv, SavedInv
  <2> QED BY <2>1 DEF SavedInv
<1>7. CacheInv'
  <2>1. ASSUME NEW s \in Slots, NEW f \in Files, op'[s].at = "cache", op'[s].file = f,
               disk'[f] # None, disk'[f] \in {op'[s].seen, saved'[f]}
        PROVE  Told(f)'
    <3>1. op'[s] = op[s]
      BY <2>1 DEF Noted
    <3>2. f # g
      BY <1>2, <1>3, <2>1, <3>1
    <3> QED BY <1>3, <1>4, <2>1, <3>1, <3>2 DEF SeenInv, CacheInv
  <2> QED BY <2>1 DEF CacheInv
<1> QED BY <1>5, <1>6, <1>7 DEF SeenInv

\* The snapshot loses a file.
LEMMA ForgottenSeen ==
    ASSUME TypeInv, SeenInv, NEW g \in Files,
           snapshot' = [snapshot EXCEPT ![g] = None],
           UNCHANGED <<disk, saved, queue, work, index, missed, used>>, list'.changes = list.changes,
           \A s \in Slots : op'[s].at \in Noted => op'[s] = op[s]
    PROVE  SeenInv'
<1>1. snapshot'[g] = None /\ \A f \in Files : f # g => snapshot'[f] = snapshot[f]
  BY DEF TypeInv, TypeOK, Listing
<1>2. \A f \in Files : Told(f)' <=> Told(f)
  BY DEF Told, Queued, Indexed, Reading, Stale
<1>3. SeenTold'
  BY <1>1, <1>2 DEF SeenInv, SeenTold
<1>4. SavedInv'
  <2>1. ASSUME NEW f \in Files, saved'[f] # None, saved'[f] = disk'[f], snapshot'[f] # None PROVE Told(f)'
    BY <1>1, <1>2, <2>1 DEF SeenInv, SavedInv
  <2> QED BY <2>1 DEF SavedInv
<1>5. CacheInv'
  <2>1. ASSUME NEW s \in Slots, NEW f \in Files, op'[s].at = "cache", op'[s].file = f,
               disk'[f] # None, disk'[f] \in {op'[s].seen, saved'[f]}
        PROVE  Told(f)'
    BY <1>2, <2>1 DEF SeenInv, CacheInv, Noted
  <2> QED BY <2>1 DEF CacheInv
<1> QED BY <1>3, <1>4, <1>5 DEF SeenInv

\* The snapshot learns of a version of a file, and the index is told of it if
\* it was not in the snapshot.
LEMMA LearntSeen ==
    ASSUME TypeInv, SeenInv, NEW g \in Files, NEW v,
           snapshot' = [snapshot EXCEPT ![g] = v],
           UNCHANGED <<disk, saved, queue, work, index, missed, used>>,
           list.changes \subseteq list'.changes,
           snapshot[g] = v \/ disk[g] = None \/ disk[g] \notin {v, saved[g]} \/ Told(g)',
           \A s \in Slots : op'[s].at \notin Noted
    PROVE  SeenInv'
<1>1. snapshot'[g] = v /\ \A f \in Files : f # g => snapshot'[f] = snapshot[f]
  BY DEF TypeInv, TypeOK, Listing
<1>2. \A f \in Files : Told(f) => Told(f)'
  BY DEF Told, Queued, Indexed, Reading, Stale
<1>3. SeenTold'
  <2>1. ASSUME NEW f \in Files, snapshot'[f] # None, snapshot'[f] = disk'[f] PROVE Told(f)'
    <3>1. snapshot[f] = disk[f] => Told(f)
      BY <2>1 DEF SeenInv, SeenTold
    <3> QED BY <1>1, <1>2, <2>1, <3>1
  <2> QED BY <2>1 DEF SeenTold
<1>4. SavedInv'
  <2>1. ASSUME NEW f \in Files, saved'[f] # None, saved'[f] = disk'[f], snapshot'[f] # None PROVE Told(f)'
    <3>1. snapshot[f] # None => Told(f)
      BY <2>1 DEF SeenInv, SavedInv
    <3> QED BY <1>1, <1>2, <2>1, <3>1
  <2> QED BY <2>1 DEF SavedInv
<1>5. CacheInv'
  BY DEF CacheInv, Noted
<1> QED BY <1>3, <1>4, <1>5 DEF SeenInv

\* An operation that runs alone has seen what it compares with the snapshot.
LEMMA UsedSeen ==
    ASSUME TypeInv, SeenInv, NEW s \in Slots, Used(s), ~(operationCount > 1)
    PROVE  SeenInv'
<1>1. OpsOK /\ SnapOK
  BY TypeParts
<1>2. op[s].at = "back" /\ Goto(s, Noticed(s))
      /\ UNCHANGED <<disk, snapshot, changed, saved, list, queue, work, index, missed, used>>
  BY DEF Used, Events, Snapshots
<1>3. s \in Busy
  BY <1>1, <1>2, BusyOp DEF Busy
<1>4. \A t \in Slots : t # s => op[t] = NoOp
  BY <1>3, Counts DEF Busy
<1>5. /\ op'[s].at = Noticed(s) /\ op'[s].file = op[s].file /\ op'[s].seen = op[s].seen
      /\ \A t \in Slots : t # s => op'[t] = op[t]
  BY <1>1, <1>2 DEF OpsOK, Ops, Goto
<1>6. \A f \in Files : Told(f)' <=> Told(f)
  BY <1>2 DEF Told, Queued, Indexed, Reading, Stale
<1>7. SeenTold' /\ SavedInv'
  BY <1>2, <1>6 DEF SeenInv, SeenTold, SavedInv
<1>8. CacheInv'
  <2>1. ASSUME NEW t \in Slots, NEW f \in Files, op'[t].at = "cache", op'[t].file = f,
               disk'[f] # None, disk'[f] \in {op'[t].seen, saved'[f]}
        PROVE  Told(f)'
    <3>1. t = s
      BY <1>4, <1>5, <2>1 DEF NoOp
    <3>2. snapshot[f] # None /\ snapshot[f] = op[s].seen
      BY <1>5, <2>1, <3>1 DEF Noticed
    <3>3. Told(f)
      BY <1>2, <1>5, <2>1, <3>1, <3>2 DEF SeenInv, SeenTold, SavedInv
    <3> QED BY <1>6, <3>3
  <2> QED BY <2>1 DEF CacheInv
<1> QED BY <1>7, <1>8 DEF SeenInv

\* Clearing a file, even late.
LEMMA ClearLateTold ==
    ASSUME TypeInv, NEW g \in Files, ClearLate(g), UNCHANGED <<disk, used>>,
           list'.changes = list.changes
    PROVE  \A f \in Files : Told(f) => Told(f)'
<1>1. /\ index' = [index EXCEPT ![g] = NoObjects] /\ UNCHANGED <<queue, work>>
      /\ Missed(IF disk[g] \in index[g].has THEN {g} ELSE {})
  BY DEF ClearLate, Clear
<1>2. \A f \in Files : f # g => index'[f] = index[f]
  BY <1>1 DEF TypeInv, TypeOK
<1>3. \A f \in Files : (disk[f] = missed[f] => disk'[f] = missed'[f])
  BY <1>1 DEF Missed
<1>4. \A f \in Files : (Queued(f) => Queued(f)') /\ (Reading(f) => Reading(f)') /\ (Stale(f)' => Stale(f))
  BY <1>1 DEF Queued, Reading, Stale
<1>5. \A f \in Files : f # g /\ Indexed(f) => Indexed(f)'
  BY <1>2 DEF Indexed
<1>6. Indexed(g) => disk'[g] = missed'[g]
  BY <1>1 DEF Indexed, Missed
<1> QED BY <1>3, <1>4, <1>5, <1>6 DEF Told

LEMMA OpSeen ==
    ASSUME TypeInv, FreshInv, AloneInv, SeenInv, NEW s \in Slots, OpStep(s)
    PROVE  SeenInv'
<1>1. SnapOK /\ OpsOK /\ ListsOK /\ IndexOK /\ UsedOK
  BY TypeParts
<1>2. ASSUME Ended(s) \/ \E l \in {"deleted", "clear", "save", "saved"} : Goto(s, l)
      PROVE  \A t \in Slots : op'[t].at \in Noted => op'[t] = op[t]
  BY <1>1, <1>2 DEF OpsOK, Ops, Ended, Goto, NoOp, Noted
<1>3. ASSUME UNCHANGED <<disk, snapshot, list, queue, work, index, missed, used>>,
             saved' = saved \/ saved' = snapshot,
             \A t \in Slots : op'[t].at \in Noted => op'[t] = op[t]
      PROVE  SeenInv'
  <2>1. OpsGo
    BY <1>3 DEF OpsGo
  <2>2. \A f \in Files : disk[f] # None /\ Told(f) => Told(f)'
    BY <1>3 DEF Told, Queued, Indexed, Reading, Stale
  <2> QED BY <1>3, <2>1, <2>2, QuietSeen
<1>4. CASE Read(s)
  <2>1. /\ UNCHANGED <<disk, snapshot, saved, list, queue, work, index, missed, used>>
        /\ Answer(s, disk[op[s].file])
    BY <1>4 DEF Read, Events, Snapshots
  <2>2. \A t \in Slots : op'[t].at \in Noted => op'[t] = op[t]
    BY <1>1, <2>1 DEF OpsOK, Ops, Answer, Noted
  <2> QED BY <1>3, <2>1, <2>2
<1>5. CASE Write(s)
  <2>1. /\ UNCHANGED <<snapshot, saved, list, queue, work, index, missed>>
        /\ op[s].at = "write" /\ Answer(s, used.version + 1)
        /\ disk' = [disk EXCEPT ![op[s].file] = used.version + 1]
        /\ used' = [used EXCEPT !.version = @ + 1]
    BY <1>5 DEF Write, Events, Snapshots
  <2>2. \A t \in Slots : op'[t].at \in Noted => op'[t] = op[t]
    BY <1>1, <2>1 DEF OpsOK, Ops, Answer, Noted
  <2>3. op[s].file \in Files
    BY <1>1, <2>1, BusyOp
  <2>4. used'.overlaps = used.overlaps
    BY <1>1, <2>1 DEF UsedOK
  <2> QED BY <2>1, <2>2, <2>3, <2>4, ChangedSeen
<1>6. CASE Fails(s)
  BY <1>2, <1>3, <1>6 DEF Fails, Events, Snapshots
<1>7. CASE Used(s)
  <2>1. CASE operationCount > 1
    BY <1>2, <1>3, <1>7, <2>1 DEF Used, Events, Snapshots
  <2> QED BY <1>7, <2>1, UsedSeen
<1>8. CASE Trigger(s)
  <2> DEFINE c == Change(op[s].file, op[s].at = "new")
  <2>1. /\ UNCHANGED <<disk, snapshot, saved, list, work, index, missed, used>>
        /\ op[s].at \in {"new", "changed"} /\ Goto(s, "cache")
        /\ queue' = queue \cup {c}
    BY <1>8 DEF Trigger, Enqueue, Snapshots
  <2>2. c.file = op[s].file
    BY DEF Change
  <2> HIDE DEF c
  <2>3. \A f \in Files : Told(f) \/ op[s].file = f => Told(f)'
    BY <2>1, <2>2 DEF Told, Queued, Indexed, Reading, Stale
  <2>4. OpsGo
    <3>1. ASSUME NEW t \in Slots, t # s PROVE op'[t] = op[t]
      BY <1>1, <2>1, <3>1 DEF OpsOK, Goto
    <3>2. op'[s].at = "cache" /\ op'[s].file = op[s].file /\ op'[s].seen = op[s].seen
      BY <1>1, <2>1 DEF OpsOK, Ops, Goto
    <3> QED BY <2>1, <2>3, <3>1, <3>2 DEF OpsGo, Noted
  <2> QED BY <2>1, <2>3, <2>4, QuietSeen
<1>9. CASE Cache(s)
  <2>1. /\ UNCHANGED <<disk, saved, list, queue, work, index, missed, used>>
        /\ op[s].at = "cache" /\ op' = [op EXCEPT ![s].at = "save", ![s].seen = None]
        /\ snapshot' = [snapshot EXCEPT ![op[s].file] = op[s].seen]
    BY <1>9 DEF Cache, Events, updateInSnapshot
  <2>2. op[s].file \in Files
    BY <1>1, <2>1, BusyOp
  <2>3. \A t \in Slots : op'[t].at \notin Noted
    BY <1>1, <2>1 DEF OpsOK, Ops, AloneInv, Noted
  <2>4. PICK g \in Files : g = op[s].file
    BY <2>2
  <2>5. disk[g] = None \/ disk[g] \notin {op[s].seen, saved[g]} \/ Told(g)
    BY <2>1, <2>4 DEF SeenInv, CacheInv
  <2>6. Told(g) => Told(g)'
    BY <2>1 DEF Told, Queued, Indexed, Reading, Stale
  <2> QED BY <2>1, <2>3, <2>4, <2>5, <2>6, LearntSeen
<1>10. CASE Delete(s)
  <2>1. UNCHANGED <<snapshot, saved, list, queue, work, index, missed, used>> /\ op[s].at = "delete"
    BY <1>10 DEF Delete, Events, Snapshots
  <2>2. Goto(s, "deleted") \/ Goto(s, "save")
    BY <1>10 DEF Delete
  <2>3. CASE UNCHANGED disk
    BY <1>2, <1>3, <2>1, <2>2, <2>3
  <2>4. CASE disk' = [disk EXCEPT ![op[s].file] = None]
    <3>1. op[s].file \in Files
      BY <1>1, <2>1, BusyOp
    <3> QED BY <1>2, <2>1, <2>2, <2>4, <3>1, ChangedSeen
  <2> QED BY <1>10, <2>3, <2>4 DEF Delete
<1>11. CASE Deleted(s)
  <2>1. /\ UNCHANGED <<disk, saved, list, queue, work, index, missed, used>>
        /\ op[s].at = "deleted" /\ Goto(s, "clear")
        /\ snapshot' = [snapshot EXCEPT ![op[s].file] = None]
    BY <1>11 DEF Deleted, Events
  <2>2. op[s].file \in Files
    BY <1>1, <2>1, BusyOp
  <2> QED BY <1>2, <2>1, <2>2, ForgottenSeen
<1>12. CASE SaveOp(s)
  <2>1. Ended(s) \/ Goto(s, "saved")
    BY <1>12 DEF SaveOp
  <2> QED BY <1>2, <1>3, <1>12, <2>1 DEF SaveOp, Save, Events
<1>13. CASE SavedOp(s)
  BY <1>2, <1>3, <1>13 DEF SavedOp, Events
<1>14. CASE ClearOp(s)
  <2>1. UNCHANGED <<disk, snapshot, saved, list, used>> /\ ClearLate(op[s].file) /\ Goto(s, "save")
        /\ op[s].at = "clear"
    BY <1>14 DEF ClearOp, Snapshots
  <2>2. op[s].file \in Files
    BY <1>1, <2>1, BusyOp
  <2>3. \A f \in Files : Told(f) => Told(f)'
    BY <2>1, <2>2, ClearLateTold
  <2>4. OpsGo
    BY <1>2, <2>1 DEF OpsGo
  <2> QED BY <2>1, <2>3, <2>4, QuietSeen
<1> QED BY <1>4, <1>5, <1>6, <1>7, <1>8, <1>9, <1>10, <1>11, <1>12, <1>13, <1>14 DEF OpStep

LEMMA ListSeen ==
    ASSUME TypeInv, AloneInv, SeenInv, ListStep
    PROVE  SeenInv'
<1>1. UNCHANGED op /\ list.at # "idle" /\ ListsOK
  BY TypeParts DEF ListStep, List, ListFails, Compare, Forget, ClearForgotten, Batch, SaveList, SavedList
<1>2. list # NoListing /\ \A s \in Slots : op[s].at \notin Noted
  BY <1>1 DEF NoListing, AloneInv
<1>3. OpsGo
  BY <1>1, <1>2 DEF OpsGo
<1>4. ASSUME UNCHANGED <<disk, snapshot, work, index, missed, used>>, saved' = saved \/ saved' = snapshot,
             queue \cup list.changes \subseteq queue' \cup list'.changes
      PROVE  SeenInv'
  <2>1. \A f \in Files : Told(f) => Told(f)'
    BY <1>4 DEF Told, Queued, Indexed, Reading, Stale
  <2> QED BY <1>3, <1>4, <2>1, QuietSeen
<1>5. CASE List \/ ListFails \/ SaveList \/ SavedList
  <2>1. list.changes = {}
    BY <1>1, <1>5 DEF List, ListFails, SaveList, SavedList, ListsOK, ListOK
  <2>2. UNCHANGED <<disk, snapshot, queue, work, index, missed, used>> /\ (saved' = saved \/ saved' = snapshot)
    BY <1>5 DEF List, ListFails, SaveList, SavedList, Save, Events, Snapshots
  <2> QED BY <1>4, <2>1, <2>2
<1>6. CASE Batch
  BY <1>4, <1>6 DEF Batch, Enqueue, Snapshots
<1>7. ASSUME NEW f \in Files, Compare(f) PROVE SeenInv'
  <2> DEFINE v == list.found[f]
             c == Change(f, snapshot[f] = None)
  <2>1. /\ UNCHANGED <<disk, saved, queue, work, index, missed, used>>
        /\ snapshot' = [snapshot EXCEPT ![f] = v]
        /\ list' = [list EXCEPT !.found[f] = None, !.gone = @ \ {f},
                            !.changes = IF snapshot[f] = v THEN @ ELSE @ \cup {c}]
    BY <1>7 DEF Compare, Events, updateInSnapshot
  <2>2. c.file = f
    BY DEF Change
  <2> HIDE DEF v, c
  <2>3. list'.changes = IF snapshot[f] = v THEN list.changes ELSE list.changes \cup {c}
    BY <1>1, <2>1 DEF ListsOK
  <2>4. snapshot[f] # v => Told(f)'
    BY <2>2, <2>3 DEF Told, Queued
  <2>5. list.changes \subseteq list'.changes
    BY <2>3
  <2>6. \A s \in Slots : op'[s].at \notin Noted
    BY <1>1, <1>2
  <2> QED BY <2>1, <2>4, <2>5, <2>6, LearntSeen
<1>8. ASSUME NEW f \in Files, Forget(f) PROVE SeenInv'
  <2>1. /\ UNCHANGED <<disk, saved, queue, work, index, missed, used>>
        /\ snapshot' = [snapshot EXCEPT ![f] = None]
        /\ list' = [list EXCEPT !.gone = @ \ {f}, !.clearing = f]
    BY <1>8 DEF Forget, Events
  <2>2. list'.changes = list.changes
    BY <1>1, <2>1 DEF ListsOK
  <2> QED BY <1>1, <1>2, <2>1, <2>2, ForgottenSeen
<1>9. CASE ClearForgotten
  <2>1. /\ UNCHANGED <<disk, snapshot, saved, used>> /\ ClearLate(list.clearing)
        /\ list.clearing \in Files /\ list' = [list EXCEPT !.clearing = None]
    BY <1>1, <1>9 DEF ClearForgotten, Snapshots, ListsOK
  <2>2. list'.changes = list.changes
    BY <1>1, <2>1 DEF ListsOK
  <2>3. \A f \in Files : Told(f) => Told(f)'
    BY <2>1, <2>2, ClearLateTold
  <2> QED BY <1>3, <2>1, <2>3, QuietSeen
<1> QED BY <1>5, <1>6, <1>7, <1>8, <1>9 DEF ListStep

\* The steps of the index plug and of the queue.
LEMMA IndexTold ==
    ASSUME TypeInv, IndexStep, NEW g \in Files, disk[g] # None, Told(g)
    PROVE  Told(g)'
<1>1. SnapOK /\ OpsOK /\ ListsOK /\ IndexOK /\ UsedOK
  BY TypeParts
<1>2. UNCHANGED <<disk, list>>
  BY DEF IndexStep, Take, IndexRead, IndexFails, IndexWrite
<1>3. ASSUME NEW m \in queue, Take(m) PROVE Told(g)'
  <2>1. /\ UNCHANGED <<index, missed>> /\ queue' = queue \ {m} /\ work' = work \cup {Job(m, None)}
        /\ UNCHANGED used \/ used' = [used EXCEPT !.faults = @ + 1, !.overlaps = 1]
        /\ ~OneBatch => used' = [used EXCEPT !.faults = @ + 1, !.overlaps = 1]
    BY <1>3 DEF Take
  <2>2. /\ used'.overlaps = 1 \/ (used'.overlaps = used.overlaps /\ OneBatch)
        /\ used'.overlaps = 0 => used.overlaps = 0
    <3>1. CASE UNCHANGED used
      BY <2>1, <3>1, <1>1 DEF UsedOK
    <3>2. CASE used' = [used EXCEPT !.faults = @ + 1, !.overlaps = 1]
      BY <1>1, <3>2 DEF UsedOK
    <3> QED BY <2>1, <3>1, <3>2
  <2>3. Job(m, None).seen = None /\ Job(m, None).message = m
    BY DEF Job
  <2>4. OneBatch => ~Stale(g)
    BY DEF OneBatch, Stale
  <2>5. Stale(g)' => Stale(g)
    BY <1>2, <2>1, <2>3 DEF Stale
  <2>6. (Reading(g) => Reading(g)') /\ (Indexed(g) => Indexed(g)')
    BY <1>2, <2>1, <2>2 DEF Reading, Indexed
  <2>7. used'.overlaps = 0 => ~Stale(g)'
    BY <2>2, <2>4, <2>5
  <2>8. Queued(g) => Queued(g)' \/ Reading(g)'
    BY <1>2, <2>1, <2>3 DEF Queued, Reading
  <2> QED BY <1>2, <2>1, <2>6, <2>7, <2>8 DEF Told
<1>4. ASSUME NEW j \in work, IndexRead(j) PROVE Told(g)'
  <2> DEFINE m == j.message
             k == Job(m, disk[m.file])
  <2>1. m \in Changes /\ m.file \in Files
    BY <1>1 DEF IndexOK, Jobs, Changes
  <2>2. /\ UNCHANGED <<queue, missed, used>> /\ index' = Cleared(m) /\ j.seen = None
        /\ work' = (work \ {j}) \cup (IF disk[m.file] = None THEN {} ELSE {k})
    BY <1>4 DEF IndexRead
  <2>3. k.message = m /\ k.seen = disk[m.file]
    BY DEF Job
  <2>4. m.file = g => Reading(g)'
    BY <1>2, <2>2, <2>3 DEF Reading
  <2>5. m.file # g => (Reading(g) => Reading(g)') /\ (Indexed(g) => Indexed(g)')
    BY <1>1, <1>2, <2>1, <2>2, ClearedKeeps DEF Reading, Indexed
  <2>6. Stale(g)' => Stale(g)
    BY <1>2, <2>2, <2>3 DEF Stale
  <2> QED BY <1>2, <2>2, <2>4, <2>5, <2>6 DEF Told, Queued
<1>5. ASSUME NEW j \in work, IndexFails(j) PROVE Told(g)'
  <2> DEFINE m == j.message
  <2>1. m \in Changes /\ m.file \in Files
    BY <1>1 DEF IndexOK, Jobs, Changes
  <2>2. /\ work' = work \ {j} /\ index' \in {index, Cleared(m)}
        /\ Again({m}) /\ Missed(IF RunsOut(m) THEN {m.file} ELSE {}) /\ Faulty
    BY <1>5 DEF IndexFails
  <2>3. queue \subseteq queue' /\ (RunsOut(m) \/ \E n \in queue' : n.file = m.file)
    BY <1>1, <2>1, <2>2, AgainKeeps
  <2>4. used'.overlaps = used.overlaps
    BY <1>1, <2>2, FaultyKeeps
  <2>5. m.file = g => Queued(g)' \/ disk'[g] = missed'[g]
    BY <1>2, <2>2, <2>3 DEF Queued, Missed
  <2>6. m.file # g => (Reading(g) => Reading(g)') /\ (Indexed(g) => Indexed(g)')
    BY <1>1, <1>2, <2>1, <2>2, <2>4, ClearedKeeps DEF Reading, Indexed
  <2>7. Stale(g)' => Stale(g)
    BY <1>2, <2>2 DEF Stale
  <2>8. (Queued(g) => Queued(g)') /\ (disk[g] = missed[g] => disk'[g] = missed'[g])
    BY <1>2, <2>2, <2>3 DEF Queued, Missed
  <2> QED BY <2>4, <2>5, <2>6, <2>7, <2>8 DEF Told
<1>6. ASSUME NEW j \in work, IndexWrite(j) PROVE Told(g)'
  <2> DEFINE m == j.message
  <2>1. m \in Changes /\ m.file \in Files
    BY <1>1 DEF IndexOK, Jobs, Changes
  <2>2. /\ work' = work \ {j} /\ UNCHANGED missed /\ j.seen # None
        /\ index' = [index EXCEPT ![m.file] = [has |-> @.has \cup {j.seen}, last |-> j.seen]]
        /\ UNCHANGED <<queue, used>> \/ (Again({m}) /\ Faulty)
    BY <1>6 DEF IndexWrite
  <2>3. queue \subseteq queue' /\ used'.overlaps = used.overlaps
    BY <1>1, <2>1, <2>2, AgainKeeps, FaultyKeeps
  <2>4. /\ m.file = g => index'[g] = [has |-> index[g].has \cup {j.seen}, last |-> j.seen]
        /\ m.file # g => index'[g] = index[g]
    BY <1>1, <2>1, <2>2 DEF IndexOK, Indexes
  <2>5. Stale(g)' => Stale(g)
    BY <1>2, <2>2 DEF Stale
  <2>6. CASE m.file = g /\ j.seen = disk[g]
    <3>1. Indexed(g)'
      BY <1>2, <2>4, <2>6 DEF Indexed
    <3> QED BY <1>2, <2>2, <2>3, <2>5, <3>1 DEF Told, Queued
  <2>7. CASE m.file = g /\ j.seen # disk[g]
    <3>1. Stale(g)
      BY <2>2, <2>7 DEF Stale
    <3>2. used.overlaps # 0 => (Indexed(g) => Indexed(g)')
      BY <1>2, <2>3, <2>4, <2>7 DEF Indexed
    <3>3. Reading(g) => Reading(g)'
      BY <1>2, <2>2, <2>7 DEF Reading
    <3> QED BY <1>2, <2>2, <2>3, <2>5, <3>1, <3>2, <3>3 DEF Told, Queued
  <2>8. CASE m.file # g
    <3>1. (Reading(g) => Reading(g)') /\ (Indexed(g) => Indexed(g)')
      BY <1>2, <2>2, <2>3, <2>4, <2>8 DEF Reading, Indexed
    <3> QED BY <1>2, <2>2, <2>3, <2>5, <3>1 DEF Told, Queued
  <2> QED BY <2>6, <2>7, <2>8
<1> QED BY <1>3, <1>4, <1>5, <1>6 DEF IndexStep

\* A reload brings the datastore's snapshot back, and every job to the queue.
LEMMA ReloadSeen ==
    ASSUME TypeInv, SeenInv, Reload
    PROVE  SeenInv'
<1>1. SnapOK /\ OpsOK /\ ListsOK /\ IndexOK /\ UsedOK
  BY TypeParts
<1> DEFINE ms == {j.message : j \in work}
           fs == {f \in Files : Vouched(f)} \cup {m.file : m \in {n \in ms : RunsOut(n)}}
<1>2. /\ UNCHANGED <<disk, saved, index>> /\ Faulty
      /\ snapshot' = saved /\ op' = [s \in Slots |-> NoOp] /\ list' = NoListing
      /\ Again(ms) /\ work' = {} /\ Missed(fs)
  BY DEF Reload
<1>3. ms \subseteq Changes /\ \A j \in work : j.message \in ms
  BY <1>1 DEF IndexOK, Jobs
<1>4. /\ \A f \in Files : Vouched(f) => f \in fs
      /\ \A m \in ms : RunsOut(m) => m.file \in fs
  OBVIOUS
<1> HIDE DEF fs, ms
<1>5. queue \subseteq queue' /\ \A m \in ms : RunsOut(m) \/ \E n \in queue' : n.file = m.file
  BY <1>1, <1>2, <1>3, AgainKeeps
<1>6. ASSUME NEW f \in Files, saved[f] # None, saved[f] = disk[f] PROVE Told(f)'
  <2>1. (disk[f] = missed[f] \/ f \in fs) => Told(f)'
    BY <1>2 DEF Missed, Told
  <2>2. CASE Vouched(f)
    BY <1>4, <2>1, <2>2
  <2>3. CASE ~Vouched(f)
    <3>1. snapshot[f] # None /\ \A m \in list.changes : m.file # f
      BY <1>6, <2>3 DEF Vouched
    <3>2. Told(f)
      BY <1>6, <3>1 DEF SeenInv, SavedInv
    <3>3. CASE Queued(f)
      <4>1. \E m \in queue' : m.file = f
        BY <1>5, <3>1, <3>3 DEF Queued
      <4> QED BY <4>1 DEF Told, Queued
    <3>4. CASE Reading(f)
      <4>1. PICK j \in work : j.message.file = f
        BY <3>4 DEF Reading
      <4>2. f \in fs \/ \E n \in queue' : n.file = f
        BY <1>3, <1>4, <1>5, <4>1
      <4> QED BY <2>1, <4>2 DEF Told, Queued
    <3>5. CASE Indexed(f)
      <4>1. used'.overlaps = used.overlaps
        BY <1>1, <1>2, FaultyKeeps
      <4>2. Indexed(f)' /\ ~Stale(f)'
        BY <1>2, <3>5, <4>1 DEF Indexed, Stale
      <4> QED BY <4>2 DEF Told
    <3> QED BY <2>1, <3>2, <3>3, <3>4, <3>5 DEF Told
  <2> QED BY <2>2, <2>3
<1>7. SeenTold' /\ SavedInv'
  BY <1>2, <1>6 DEF SeenTold, SavedInv
<1>8. CacheInv'
  BY <1>2 DEF CacheInv, NoOp
<1> QED BY <1>7, <1>8 DEF SeenInv

LEMMA NextSeen ==
    ASSUME TypeInv, FreshInv, AloneInv, SeenInv, [Next]_vars
    PROVE  SeenInv'
<1>1. SnapOK /\ OpsOK /\ ListsOK /\ IndexOK /\ UsedOK
  BY TypeParts
<1>2. ASSUME UNCHANGED op PROVE OpsGo
  BY <1>2 DEF OpsGo
<1>3. ASSUME NEW f \in Files, RemoteWrite(f) \/ RemoteDelete(f) PROVE SeenInv'
  <2>1. /\ UNCHANGED <<snapshot, saved, op, list, queue, work, index, missed>>
        /\ \E v \in {None, used.version + 1} : disk' = [disk EXCEPT ![f] = v]
        /\ used' = [used EXCEPT !.version = @ + 1, !.calls = @ + 1]
    BY <1>3 DEF RemoteWrite, RemoteDelete, Events, Snapshots, Elsewhere
  <2>2. used'.overlaps = used.overlaps
    BY <1>1, <2>1 DEF UsedOK
  <2> QED BY <2>1, <2>2, ChangedSeen
<1>4. ASSUME NEW s \in Slots, NEW call \in {"read", "write", "delete"}, NEW f \in Files,
             Begin(s, call, f)
      PROVE  SeenInv'
  <2>1. /\ UNCHANGED <<disk, snapshot, saved, list, queue, work, index, missed>>
        /\ used' = [used EXCEPT !.calls = @ + 1]
    BY <1>4 DEF Begin, Events, Snapshots
  <2>2. OpsGo
    BY <1>1, <1>4 DEF Begin, OpsGo, OpsOK, Noted
  <2>3. used'.overlaps = used.overlaps
    BY <1>1, <2>1 DEF UsedOK
  <2>4. \A g \in Files : Told(g) => Told(g)'
    BY <2>1, <2>3 DEF Told, Queued, Indexed, Reading, Stale
  <2> QED BY <2>1, <2>2, <2>4, QuietSeen
<1>5. CASE AskByInterval \/ AskDeferred
  <2>1. /\ UNCHANGED <<disk, snapshot, saved, op, queue, work, index, missed, used>>
        /\ list' = list \/ list = NoListing
    BY <1>5 DEF AskByInterval, AskDeferred, Ask, Events, Snapshots
  <2>2. list.changes = {} \/ list' = list
    BY <2>1 DEF NoListing
  <2>3. \A g \in Files : Told(g) => Told(g)'
    BY <2>1, <2>2 DEF Told, Queued, Indexed, Reading, Stale
  <2> QED BY <1>2, <2>1, <2>3, QuietSeen
<1>6. CASE IndexStep
  <2>1. UNCHANGED <<disk, snapshot, saved, op, list>>
    BY <1>6 DEF IndexStep, Take, IndexRead, IndexFails, IndexWrite, Snapshots
  <2>2. \A g \in Files : disk[g] # None /\ Told(g) => Told(g)'
    BY <1>6, IndexTold
  <2> QED BY <1>2, <2>1, <2>2, QuietSeen
<1>7. CASE UNCHANGED vars
  <2>1. \A g \in Files : Told(g) => Told(g)'
    BY <1>7 DEF vars, Told, Queued, Indexed, Reading, Stale
  <2> QED BY <1>2, <1>7, <2>1, QuietSeen DEF vars
<1> QED BY <1>3, <1>4, <1>5, <1>6, <1>7, OpSeen, ListSeen, ReloadSeen DEF Next

LEMMA InitSeen == Init => FreshInv /\ AloneInv /\ SeenInv
BY DEF Init, FreshInv, AloneInv, SeenInv, SeenTold, SavedInv, CacheInv, Old, Noted,
       NoOp, NoFiles, NoListing

\* A version that the snapshot knows is in the index or on its way there,
\* however operations, listings, deletions, reloads, failures and the jobs of
\* the index plug interleave, unless one of the events that Missed names hit it;
\* and the index got it last, if no batch was taken while another one ran.
THEOREM SeenIsIndexed == Spec => []SeenGetsIndexed
<1>1. TypeInv /\ FreshInv /\ AloneInv /\ SeenInv /\ [Next]_vars
        => TypeInv' /\ FreshInv' /\ AloneInv' /\ SeenInv'
  BY NextType, NextFresh, NextAlone, NextSeen
<1>2. SeenInv => SeenGetsIndexed
  BY DEF SeenInv, SeenTold, SeenGetsIndexed, Told, Queued, Indexed, Reading, Underway
<1> QED BY <1>1, <1>2, InitType, InitSeen, PTL DEF Spec
=============================================================================
