----------------------------- MODULE SyncOrigin -----------------------------
(***************************************************************************)
(* Why a path is dirty, and what that tells the sync engine: the pure      *)
(* functions of client/service_worker/dirty_queue.ts that decide on one    *)
(* dirty-path entry.  The queue itself is module DirtyQueue; SpaceSync      *)
(* uses these operators for the entry of the path it follows.              *)
(*                                                                         *)
(* Every origin is one record.  `lastModified' only means something for    *)
(* "remote"; `hash' is the revision a remote change event reported         *)
(* (`hash' of a "remote" origin, `remoteHash' of an "any" one) and `None'   *)
(* when it reported none.                                                  *)
(***************************************************************************)
EXTENDS Naturals

CONSTANTS
    Hashes,    \* the revision hashes that occur
    Times,     \* the millisecond timestamps that occur
    None       \* "undefined"

ASSUME NoneAssumption == \A h \in Hashes : h # None

OriginTypes == {"local", "remote", "probe", "any"}

Origins == [type : OriginTypes, lastModified : Times \cup {0},
            hash : Hashes \cup {None}]

LocalOrigin == [type |-> "local", lastModified |-> 0, hash |-> None]

ProbeOrigin == [type |-> "probe", lastModified |-> 0, hash |-> None]

AnyOrigin(h) == [type |-> "any", lastModified |-> 0, hash |-> h]

RemoteOrigin(t, h) == [type |-> "remote", lastModified |-> t, hash |-> h]

\* The revision an entry names, if it names one.
reportedRevision(o) == IF o.type \in {"remote", "any"} THEN o.hash ELSE None

\* Mutant: the newer entry replaces the older one, and its revision.
mergeOriginsNewest(a, b) ==
    IF a.type = b.type THEN b ELSE AnyOrigin(reportedRevision(b))

\* Mutant: merged entries add up their timestamps.
mergeOriginsAdding(a, b) ==
    RemoteOrigin(a.lastModified + b.lastModified, reportedRevision(b))

\* A second mark of a pending path: the newer entry decides the type unless the
\* two differ, and an entry without a revision keeps the older one's.
mergeOrigins(a, b) ==
    LET hash == IF reportedRevision(b) # None THEN reportedRevision(b)
                                              ELSE reportedRevision(a)
    IN  CASE a.type # b.type -> AnyOrigin(hash)
          [] a.type = b.type /\ b.type = "remote" -> [b EXCEPT !.hash = hash]
          [] a.type = b.type /\ b.type = "any" -> AnyOrigin(hash)
          [] OTHER -> b

-----------------------------------------------------------------------------
\* What the engine is told about the path: nothing (a periodic scan),
\* "something happened", or "the remote now holds this revision".
Signals == [type : {"unknown", "changed", "remoteRevision"},
            hash : Hashes \cup {None}]

UnknownSignal == [type |-> "unknown", hash |-> None]

signalFor(o) ==
    IF reportedRevision(o) # None
    THEN [type |-> "remoteRevision", hash |-> reportedRevision(o)]
    ELSE [type |-> "changed", hash |-> None]

\* Whether an entry is redundant and dropped before the remote is asked.
\* `files' is the snapshot's pair of timestamps or None, `recorded' the
\* recorded remote revision or None.
shouldSkip(o, files, recorded, realtimeHealthy) ==
    \/ /\ o.type = "remote"
       /\ files # None
       /\ files[2] = o.lastModified
       /\ \/ o.hash = None
          \/ recorded = None
          \/ o.hash = recorded
    \/ o.type = "probe" /\ realtimeHealthy

\* Mutant: an unchanged timestamp is taken for an unchanged file.
localWriteIsEchoByTime(mtime, content, files, recorded) ==
    /\ mtime # None
    /\ files # None
    /\ mtime = files[1]

\* Whether a local write is one the engine itself made: its timestamp is the
\* recorded one and its content still hashes to the recorded revision.
\* `mtime' and `content' are the local copy's, or None without one.
localWriteIsEcho(mtime, content, files, recorded) ==
    /\ mtime # None
    /\ files # None
    /\ recorded # None
    /\ mtime = files[1]
    /\ content = recorded
=============================================================================
