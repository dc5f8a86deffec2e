--------------------------- MODULE SpaceSyncProofs ---------------------------
(***************************************************************************)
(* Proofs about the sync engine on one path, for any number of concurrent  *)
(* syncFile calls, edits, milliseconds, crashes and deletions, with or     *)
(* without three-way reconciliation: type correctness, the merge base, the *)
(* recorded revision, the engine's deletions, and that no edit is lost.    *)
(* Each theorem names the conditions it needs.                             *)
(***************************************************************************)
EXTENDS SpaceSync, TLAPS

-----------------------------------------------------------------------------
(* The type invariant needs to know which locals a step finds filled in.   *)

Ready(l, r) ==
    /\ l \in {"putNew", "putRecreate", "revisionForPush", "putChanged", "verifyRemote",
              "post", "reconciled", "resolveGet", "copyCheck", "copyPut",
              "resolveCheck", "resolvePut"} => r.data # None
    /\ l \in {"pullCheck", "pullWrite", "reconciled", "reconcileWrite", "copyCheck",
              "copyPut", "resolveCheck", "resolvePut"} => r.rem # None
    /\ l = "post" => r.prior # None
    /\ l \in {"noteNew", "unwanted"} => r.sm # None

WorldOK ==
    /\ local \in Files \cup {None}
    /\ remote \in Files \cup {None}
    /\ clock \in Clock
    /\ safety \subseteq Contents
    /\ copies \in [primary : SUBSET Contents, secondary : SUBSET Contents]
    /\ candidate \in BOOLEAN
    /\ used \in [crashes : 0..MaxCrashes, deletes : 0..MaxDeletes,
                 reconfigs : 0..MaxReconfigs]
    /\ made \in 0..MaxEdits
    /\ dropped \subseteq Edits
    /\ published \subseteq Edits
    /\ seen \subseteq Edits

EntryOK == snap \in Snapshots /\ dirty \in Origins \cup {None}

EngineOK ==
    /\ disk \in Snapshots
    /\ syncing \in Workers \cup {None}
    /\ pc \in [Workers -> Labels]
    /\ reg \in [Workers -> Registers]
    /\ \A w \in Workers : Ready(pc[w], reg[w])

TypeInv == WorldOK /\ EntryOK /\ EngineOK

\* The parts together are the type invariant.
LEMMA TypeInvTypes == TypeInv => TypeOK
  BY DEF TypeInv, WorldOK, EntryOK, EngineOK, TypeOK

-----------------------------------------------------------------------------
(* Data.                                                                   *)

\* What a file holds, and its metadata.
LEMMA FileFacts ==
    ASSUME NEW f \in Files
    PROVE  /\ f # None
           /\ f.c \in Contents /\ f.t \in Clock
           /\ f.c # None
           /\ Content(f) = f.c
           /\ Content(f) \ {Markers} \subseteq Edits
           /\ Meta(f) \in Metas
<1>1. f # None /\ f.c \in Contents /\ f.t \in Clock
  BY UndefinedAssumption DEF Files
<1>2. f.c # None
  BY <1>1, UndefinedAssumption
<1>3. Content(f) = f.c /\ Content(f) \ {Markers} \subseteq Edits
  BY <1>1 DEF Content, Contents
<1>4. Meta(f) \in Metas
  BY <1>1 DEF Meta, Metas, Contents
<1> QED
  BY <1>1, <1>2, <1>3, <1>4

\* The same for a copy that may be missing.
LEMMA CopyFacts ==
    ASSUME NEW f \in Files \cup {None}
    PROVE  /\ Content(f) \in Contents
           /\ Content(f) \ {Markers} \subseteq Edits
           /\ Meta(f) \in Metas \cup {None}
<1>1. CASE f = None
  BY <1>1 DEF Content, Contents, Meta
<1>2. CASE f \in Files
  BY <1>2, FileFacts
<1> QED
  BY <1>1, <1>2

\* Entries of the snapshot stay entries whatever field is replaced.
LEMMA SnapFacts ==
    ASSUME NEW s \in Snapshots
    PROVE  /\ NoEntry(s) \in Snapshots /\ Forget(s) \in Snapshots
           /\ \A h \in Contents \cup {None} : [s EXCEPT !.remoteHash = h] \in Snapshots
           /\ \A h \in Contents \cup {None} : [s EXCEPT !.baseHash = h] \in Snapshots
           /\ \A tl, tr \in Clock : [s EXCEPT !.files = <<tl, tr>>] \in Snapshots
           /\ \A c \in Contents : \A tl, tr \in Clock : Agreed(s, c, tl, tr) \in Snapshots
           /\ s.remoteHash \in Contents \cup {None}
           /\ s.baseHash \in Contents \cup {None}
<1>1. NoEntry(s) \in Snapshots /\ Forget(s) \in Snapshots
  BY DEF Snapshots, NoEntry, Forget
<1>2. \A h \in Contents \cup {None} : [s EXCEPT !.remoteHash = h] \in Snapshots
  BY DEF Snapshots
<1>3. \A h \in Contents \cup {None} : [s EXCEPT !.baseHash = h] \in Snapshots
  BY DEF Snapshots
<1>4. \A tl, tr \in Clock : [s EXCEPT !.files = <<tl, tr>>] \in Snapshots
  BY DEF Snapshots
<1>5. \A c \in Contents : \A tl, tr \in Clock : Agreed(s, c, tl, tr) \in Snapshots
  BY DEF Snapshots, Agreed
<1> QED
  BY <1>1, <1>2, <1>3, <1>4, <1>5 DEF Snapshots

\* Locals stay locals whatever register is replaced.
LEMMA RegFacts ==
    ASSUME NEW r \in Registers
    PROVE  /\ \A f \in Files \cup {None} : [r EXCEPT !.data = f] \in Registers
           /\ \A f \in Files \cup {None} : [r EXCEPT !.rem = f] \in Registers
           /\ \A h \in Contents \cup {None} : [r EXCEPT !.prior = h] \in Registers
           /\ \A q \in Preconditions : [r EXCEPT !.pre = q] \in Registers
           /\ \A b \in BOOLEAN : [r EXCEPT !.ops = b] \in Registers
           /\ r.data \in Files \cup {None} /\ r.rem \in Files \cup {None}
           /\ r.prior \in Contents \cup {None} /\ r.pre \in Preconditions
  BY DEF Registers

\* A blank set of locals is one that no waiting step needs.
LEMMA BlankFacts == \A b \in BOOLEAN : [Blank EXCEPT !.scan = b] \in Registers
  BY DEF Blank, Registers, Unconditional, Preconditions, UnknownSignal, Signals

\* Marking the path keeps its entry an origin.
LEMMA MarkFacts ==
    ASSUME dirty \in Origins \cup {None}, NEW o \in Origins, Mark(o)
    PROVE  dirty' \in Origins \cup {None}
<1>1. CASE dirty = None
  BY <1>1 DEF Mark
<1>2. CASE dirty \in Origins /\ dirty # None
  <2>1. \A x \in Origins : reportedRevision(x) \in Contents \cup {None}
    BY DEF Origins, reportedRevision
  <2>2. mergeOrigins(dirty, o) \in Origins
    BY <1>2, <2>1 DEF Origins, OriginTypes, mergeOrigins, AnyOrigin
  <2> QED
    BY <1>2, <2>2 DEF Mark
<1> QED
  BY <1>1, <1>2

\* The origins the engine and the triggers mark with.
LEMMA OriginFacts ==
    /\ LocalOrigin \in Origins
    /\ \A h \in Contents \cup {None} : AnyOrigin(h) \in Origins
    /\ \A t \in Clock, h \in Contents \cup {None} : RemoteOrigin(t, h) \in Origins
  BY DEF Origins, OriginTypes, LocalOrigin, AnyOrigin, RemoteOrigin

-----------------------------------------------------------------------------
(* The ways a step of a syncFile call ends.                                *)

\* It goes on at `label' with the locals `r'.
LEMMA StepEngine ==
    ASSUME EngineOK, NEW w \in Workers, NEW label \in Labels, NEW r \in Registers,
           Ready(label, r), Step(w, label, r)
    PROVE  EngineOK'
<1>1. pc' = [pc EXCEPT ![w] = label] /\ reg' = [reg EXCEPT ![w] = r]
  BY DEF Step, Goto
<1>2. pc' \in [Workers -> Labels] /\ reg' \in [Workers -> Registers]
  BY <1>1 DEF EngineOK
<1>3. \A v \in Workers : Ready(pc'[v], reg'[v])
  BY <1>1 DEF EngineOK
<1> QED
  BY <1>2, <1>3 DEF EngineOK, Step

\* It returns.
LEMMA ReturnEngine ==
    ASSUME EngineOK, NEW w \in Workers, NEW ops \in BOOLEAN, snap' \in Snapshots,
           Return(w, ops)
    PROVE  EngineOK'
<1> DEFINE l == IF reg[w].scan /\ syncing = w THEN "tail" ELSE "idle"
           r == [Blank EXCEPT !.scan = reg[w].scan /\ syncing = w]
<1>1. pc' = [pc EXCEPT ![w] = l] /\ reg' = [reg EXCEPT ![w] = r]
  BY DEF Return, Goto
<1>2. l \in Labels /\ r \in Registers
  BY BlankFacts DEF Labels
<1>3. Ready(l, r)
  BY DEF Ready
<1>4. pc' \in [Workers -> Labels] /\ reg' \in [Workers -> Registers]
  BY <1>1, <1>2 DEF EngineOK
<1>5. \A v \in Workers : Ready(pc'[v], reg'[v])
  BY <1>1, <1>2, <1>3 DEF EngineOK
<1>6. syncing' \in Workers \cup {None} /\ disk' \in Snapshots
  BY DEF EngineOK, Return
<1> QED
  BY <1>4, <1>5, <1>6 DEF EngineOK

\* It ends with an error.
LEMMA AbortEngine ==
    ASSUME EngineOK, NEW w \in Workers, Abort(w), snap' \in Snapshots
    PROVE  EngineOK'
<1>1. pc' = [pc EXCEPT ![w] = "idle"] /\ reg' = [reg EXCEPT ![w] = Blank]
  BY DEF Abort, Goto
<1>2. Blank \in Registers /\ "idle" \in Labels
  BY DEF Labels, Blank, Registers, Unconditional, Preconditions, UnknownSignal, Signals
<1>3. Ready("idle", Blank)
  BY DEF Ready
<1>4. pc' \in [Workers -> Labels] /\ reg' \in [Workers -> Registers]
  BY <1>1, <1>2 DEF EngineOK
<1>5. \A v \in Workers : Ready(pc'[v], reg'[v])
  BY <1>1, <1>2, <1>3 DEF EngineOK
<1>6. syncing' \in Workers \cup {None} /\ disk' \in Snapshots
  BY DEF EngineOK, Abort
<1> QED
  BY <1>4, <1>5, <1>6 DEF EngineOK

\* It throws.
LEMMA ThrowEngine ==
    ASSUME EngineOK, EntryOK, NEW w \in Workers, Throw(w)
    PROVE  EngineOK' /\ EntryOK'
<1>1. EntryOK' /\ snap' \in Snapshots
  BY DEF EntryOK, Throw
<1> QED
  BY <1>1, AbortEngine DEF Throw

\* Writing a copy keeps the world well typed.
LEMMA SetLocalWorld ==
    ASSUME WorldOK, NEW f \in Files \cup {None}, SetLocal(f),
           UNCHANGED <<remote, published, kept, candidate>>,
           clock' \in Clock, made' \in 0..MaxEdits, dropped' \subseteq Edits,
           used' \in [crashes : 0..MaxCrashes, deletes : 0..MaxDeletes,
                      reconfigs : 0..MaxReconfigs]
    PROVE  WorldOK'
  BY CopyFacts DEF WorldOK, SetLocal, kept

\* So does writing the server's.
LEMMA SetRemoteWorld ==
    ASSUME WorldOK, NEW f \in Files \cup {None}, SetRemote(f),
           UNCHANGED <<local, seen, kept, candidate>>,
           clock' \in Clock, made' \in 0..MaxEdits, dropped' \subseteq Edits,
           used' \in [crashes : 0..MaxCrashes, deletes : 0..MaxDeletes,
                      reconfigs : 0..MaxReconfigs]
    PROVE  WorldOK'
  BY CopyFacts DEF WorldOK, SetRemote, kept

\* A step that only moves the engine.
LEMMA SameWorld ==
    ASSUME WorldOK, UNCHANGED <<world, kept, history, candidate, used>>
    PROVE  WorldOK'
  BY DEF WorldOK, world, kept, history

\* A failed request leaves everything typed.
LEMMA LostType ==
    ASSUME TypeInv, NEW w \in Workers, NEW q, Lost(w, q)
    PROVE  TypeInv'
<1>1. EngineOK' /\ EntryOK'
  BY ThrowEngine DEF TypeInv, Lost
<1>2. WorldOK'
  BY DEF TypeInv, Lost, Users, WorldOK, world, kept
<1> QED
  BY <1>1, <1>2 DEF TypeInv

\* So does a rejected push.
LEMMA RejectedType ==
    ASSUME TypeInv, NEW w \in Workers, Rejected(w)
    PROVE  TypeInv'
<1>1. EntryOK' /\ snap' \in Snapshots
  BY DEF TypeInv, EntryOK, Rejected, Snapshots
<1>2. EngineOK'
  BY <1>1, AbortEngine DEF TypeInv, Rejected
<1>3. WorldOK'
  BY DEF TypeInv, Rejected, Users, WorldOK, world, kept
<1> QED
  BY <1>1, <1>2, <1>3 DEF TypeInv

\* What every action may assume about the call it belongs to.
LEMMA Here ==
    ASSUME TypeInv, NEW w \in Workers
    PROVE  /\ WorldOK /\ EntryOK /\ EngineOK
           /\ reg[w] \in Registers /\ Ready(pc[w], reg[w])
           /\ snap \in Snapshots
           /\ dirty \in Origins \cup {None}
           /\ local \in Files \cup {None} /\ remote \in Files \cup {None}
  BY DEF TypeInv, WorldOK, EntryOK, EngineOK

\* A call that moves on, with another snapshot perhaps, and nothing else.
LEMMA StepType ==
    ASSUME TypeInv, NEW w \in Workers, NEW label \in Labels, NEW r \in Registers,
           Ready(label, r), Step(w, label, r), snap' \in Snapshots,
           dirty' \in Origins \cup {None},
           UNCHANGED <<world, kept, history, candidate, used>>
    PROVE  TypeInv'
  BY StepEngine, SameWorld DEF TypeInv, EntryOK

\* A call that returns, with another snapshot perhaps, and nothing else.
LEMMA ReturnType ==
    ASSUME TypeInv, NEW w \in Workers, NEW ops \in BOOLEAN, Return(w, ops),
           snap' \in Snapshots, dirty' \in Origins \cup {None},
           UNCHANGED <<world, kept, history, candidate, used>>
    PROVE  TypeInv'
  BY ReturnEngine, SameWorld DEF TypeInv, EntryOK

\* A call that throws, and nothing else.
LEMMA ThrowType ==
    ASSUME TypeInv, NEW w \in Workers, Throw(w),
           UNCHANGED <<world, kept, history, candidate, used>>
    PROVE  TypeInv'
  BY ThrowEngine, SameWorld DEF TypeInv

-----------------------------------------------------------------------------
(* One lemma per action: it keeps the type invariant.                      *)

\* A cycle begins with blank locals and the metadata of the local copy.
LEMMA BeginEngine ==
    ASSUME TypeInv, NEW w \in Workers, NEW scan \in BOOLEAN, NEW signal \in Signals,
           Begin(w, scan, signal), UNCHANGED disk
    PROVE  EngineOK'
<1> DEFINE r == [Blank EXCEPT !.scan = scan, !.signal = signal, !.pm = Meta(local)]
<1>1. r \in Registers
  <2>1. Meta(local) \in Metas \cup {None}
    BY CopyFacts DEF TypeInv, WorldOK
  <2> QED
    BY <2>1 DEF Blank, Registers, Unconditional, Preconditions, UnknownSignal, Signals
<1>2. pc' = [pc EXCEPT ![w] = "secondary"] /\ reg' = [reg EXCEPT ![w] = r]
  BY DEF Begin, Goto
<1>3. Ready("secondary", r) /\ "secondary" \in Labels
  BY DEF Ready, Labels
<1>4. pc' \in [Workers -> Labels] /\ reg' \in [Workers -> Registers]
  BY <1>1, <1>2, <1>3 DEF TypeInv, EngineOK
<1>5. \A v \in Workers : Ready(pc'[v], reg'[v])
  BY <1>1, <1>2, <1>3 DEF TypeInv, EngineOK
<1> QED
  BY <1>4, <1>5 DEF TypeInv, EngineOK, Begin

\* syncFiles begins.
LEMMA StartScanType ==
    ASSUME TypeInv, NEW w \in Workers, StartScan(w)
    PROVE  TypeInv'
<1>1. UnknownSignal \in Signals
  BY DEF UnknownSignal, Signals
<1>2. EngineOK'
  BY <1>1, BeginEngine DEF StartScan
<1> QED
  BY <1>2, SameWorld DEF TypeInv, EntryOK, StartScan

\* The run loop takes, or drops, the path's entry.
LEMMA TakeType ==
    ASSUME TypeInv, NEW w \in Workers, Take(w)
    PROVE  TypeInv'
<1>1. signalFor(dirty) \in Signals
  <2>1. dirty \in Origins
    BY DEF TypeInv, EntryOK, Take
  <2> QED
    BY <2>1 DEF signalFor, reportedRevision, Origins, Signals
<1>2. EngineOK'
  <2>1. CASE Redundant \/ snap.nonSynced
    BY <2>1 DEF TypeInv, EngineOK, Take
  <2>2. CASE ~(Redundant \/ snap.nonSynced)
    BY <1>1, <2>2, BeginEngine DEF Take
  <2> QED
    BY <2>1, <2>2
<1> QED
  BY <1>2, SameWorld DEF TypeInv, EntryOK, Take

\* A scan ends.
LEMMA EndScanType ==
    ASSUME TypeInv, NEW w \in Workers, EndScan(w)
    PROVE  TypeInv'
<1>1. Blank \in Registers /\ "idle" \in Labels /\ Ready("idle", Blank)
  BY DEF Labels, Blank, Registers, Unconditional, Preconditions, UnknownSignal, Signals,
         Ready
<1>2. pc' = [pc EXCEPT ![w] = "idle"] /\ reg' = [reg EXCEPT ![w] = Blank]
  BY DEF EndScan, Goto
<1>3. pc' \in [Workers -> Labels] /\ reg' \in [Workers -> Registers]
  BY <1>1, <1>2 DEF TypeInv, EngineOK
<1>4. \A v \in Workers : Ready(pc'[v], reg'[v])
  BY <1>1, <1>2 DEF TypeInv, EngineOK
<1> QED
  BY <1>3, <1>4, SameWorld DEF TypeInv, EntryOK, EngineOK, EndScan

\* The server's metadata arrives.
LEMMA SecondaryType ==
    ASSUME TypeInv, NEW w \in Workers, Secondary(w)
    PROVE  TypeInv'
<1> DEFINE r == [reg[w] EXCEPT
                   !.sm = Meta(remote),
                   !.back = ~(reg[w].scan /\ remote # None /\ ~candidate)]
<1>1. CASE Lost(w, "meta")
  BY <1>1, LostType
<1>2. CASE /\ Step(w, "classify", r)
           /\ UNCHANGED <<world, kept, history, candidate, used, snap, dirty>>
  <2>1. Meta(remote) \in Metas \cup {None}
    BY Here, CopyFacts
  <2>2. r \in Registers
    BY <2>1, Here DEF Registers
  <2>3. Ready("classify", r) /\ "classify" \in Labels
    BY DEF Ready, Labels
  <2> QED
    BY <1>2, <2>2, <2>3, StepType, Here
<1> QED
  BY <1>1, <1>2 DEF Secondary

\* Every branch of the decision tree is a step that finds its locals.
LEMMA ScenarioFacts ==
    ASSUME NEW s, NEW pm, NEW sm, NEW syncBack, NEW signal
    PROVE  /\ Scenario(s, pm, sm, syncBack, signal) \in
                {"newLocal", "pull", "noteNew", "forget", "recreate", "deletedRemote",
                 "revisionForDelete", "deleteRemote", "changedLocal", "changedRemote",
                 "unwanted", "reconcile", "unsynced", "done", "verify", "note"}
           /\ Scenario(s, pm, sm, syncBack, signal) \in {"noteNew", "unwanted"} =>
                sm # None
  BY DEF Scenario

\* The preconditions the writes state.
LEMMA PreFacts ==
    /\ Unconditional \in Preconditions /\ NotExists \in Preconditions
    /\ \A h \in Contents \cup {None} :
         /\ Matches(h) \in Preconditions
         /\ deletePrecondition(h) \in Preconditions
         /\ pushPrecondition(h) \in Preconditions
    /\ CreateOnly \in Preconditions
  BY DEF Unconditional, NotExists, Matches, Preconditions, deletePrecondition,
         pushPrecondition, CreateOnly

\* syncFile picks its branch.
LEMMA ClassifyType ==
    ASSUME TypeInv, NEW w \in Workers, Classify(w)
    PROVE  TypeInv'
<1> DEFINE l == Scenario(snap, reg[w].pm, reg[w].sm, reg[w].back, reg[w].signal)
           r == [reg[w] EXCEPT !.prior = snap.remoteHash,
                               !.pre = deletePrecondition(snap.remoteHash)]
<1>1. Step(w, l, r) /\ UNCHANGED <<world, kept, history, candidate, used, snap, dirty>>
  BY DEF Classify
<1>2. snap.remoteHash \in Contents \cup {None}
  BY Here, SnapFacts
<1>3. deletePrecondition(snap.remoteHash) \in Preconditions
  BY <1>2, PreFacts
<1>4. r \in Registers /\ r.sm = reg[w].sm
  BY <1>2, <1>3, Here DEF Registers
<1>5. l \in Labels
  <2> HIDE DEF l
  <2>1. l \in {"newLocal", "pull", "noteNew", "forget", "recreate", "deletedRemote",
               "revisionForDelete", "deleteRemote", "changedLocal", "changedRemote",
               "unwanted", "reconcile", "unsynced", "done", "verify", "note"}
    BY ScenarioFacts DEF l
  <2> QED
    BY <2>1 DEF Labels
<1>6. Ready(l, r)
  <2>1. l \in {"noteNew", "unwanted"} => r.sm # None
    BY <1>4, ScenarioFacts
  <2>2. l \in {"newLocal", "pull", "noteNew", "forget", "recreate", "deletedRemote",
               "revisionForDelete", "deleteRemote", "changedLocal", "changedRemote",
               "unwanted", "reconcile", "unsynced", "done", "verify", "note"}
    BY ScenarioFacts
  <2> HIDE DEF l, r
  <2> QED
    BY <2>1, <2>2 DEF Ready
<1> QED
  BY <1>1, <1>4, <1>5, <1>6, StepType, Here

\* Pushing: the read ahead of it.
LEMMA ReadForPushType ==
    ASSUME TypeInv, NEW w \in Workers, NEW from, NEW pre \in Preconditions,
           NEW label \in {"putNew", "putRecreate", "revisionForPush", "putChanged",
                          "resolveGet"},
           ReadForPush(w, from, label, pre)
    PROVE  TypeInv'
<1>1. CASE local = None
  BY <1>1, ThrowType DEF ReadForPush
<1>2. CASE local # None
  <2> DEFINE r == [reg[w] EXCEPT !.data = local, !.pre = pre]
  <2>1. r \in Registers /\ r.data = local
    BY Here DEF Registers
  <2>2. Ready(label, r) /\ label \in Labels
    BY <1>2, <2>1 DEF Ready, Labels
  <2>3. /\ Step(w, label, r)
        /\ UNCHANGED <<snap, dirty>>
        /\ UNCHANGED <<world, kept, history, candidate, used>>
    BY <1>2 DEF ReadForPush
  <2> HIDE DEF r
  <2> QED
    BY <2>1, <2>2, <2>3, StepType, Here
<1> QED
  BY <1>1, <1>2

\* Each of the reads is one of those.
LEMMA ReadsType ==
    ASSUME TypeInv, NEW w \in Workers,
           ReadNew(w) \/ ReadRecreate(w) \/ ReadChanged(w) \/ ResolveRead(w)
    PROVE  TypeInv'
<1>1. snap.remoteHash \in Contents \cup {None}
  BY Here, SnapFacts
<1>2. pushPrecondition(snap.remoteHash) \in Preconditions
  BY <1>1, PreFacts
<1>3. CASE ReadChanged(w)
  <2>1. CASE MustAsk(snap)
    BY <1>2, <1>3, <2>1, ReadForPushType DEF ReadChanged
  <2>2. CASE ~MustAsk(snap)
    BY <1>2, <1>3, <2>2, ReadForPushType DEF ReadChanged
  <2> QED
    BY <2>1, <2>2
<1>4. CASE ReadNew(w)
  BY <1>4, PreFacts, ReadForPushType DEF ReadNew
<1>5. CASE ReadRecreate(w)
  BY <1>5, PreFacts, ReadForPushType DEF ReadRecreate
<1>6. CASE ResolveRead(w)
  BY <1>6, PreFacts, ReadForPushType DEF ResolveRead
<1> QED
  BY <1>3, <1>4, <1>5, <1>6

\* The revision of a copy is content or nothing.
LEMMA RevisionFacts ==
    ASSUME NEW f \in Files \cup {None}
    PROVE  (IF f = None THEN None ELSE f.c) \in Contents \cup {None}
  BY FileFacts

\* Asking for the revision leaves an entry, and the base in it.
LEMMA RemoteRevisionFacts ==
    ASSUME snap \in Snapshots, remote \in Files \cup {None}
    PROVE  remoteRevision \in Snapshots /\ remoteRevision.baseHash = snap.baseHash
<1>1. CASE remote = None
  BY <1>1 DEF remoteRevision
<1>2. CASE remote # None
  <2>1. remote.c \in Contents
    BY <1>2, FileFacts
  <2>2. remoteRevision = [snap EXCEPT !.remoteHash = remote.c]
    BY <1>2 DEF remoteRevision
  <2> QED
    BY <2>1, <2>2 DEF Snapshots
<1> QED
  BY <1>1, <1>2

\* The revision read ahead of a push.
LEMMA RevisionForPushType ==
    ASSUME TypeInv, NEW w \in Workers, RevisionForPush(w)
    PROVE  TypeInv'
<1> DEFINE current == IF remote = None THEN None ELSE remote.c
           r == [reg[w] EXCEPT !.pre = pushPrecondition(current)]
<1>1. CASE Lost(w, "get")
  BY <1>1, LostType
<1>2. CASE /\ snap' = remoteRevision
           /\ Step(w, "putChanged", r)
           /\ UNCHANGED <<world, kept, history, candidate, used, dirty>>
  <2>1. current \in Contents \cup {None}
    BY Here, RevisionFacts
  <2> HIDE DEF current
  <2>2. pushPrecondition(current) \in Preconditions
    BY <2>1, PreFacts
  <2>3. r \in Registers /\ r.data = reg[w].data
    BY <2>2, Here DEF Registers
  <2>4. reg[w].data # None
    BY Here DEF RevisionForPush, Ready
  <2>5. Ready("putChanged", r) /\ "putChanged" \in Labels
    BY <2>3, <2>4 DEF Ready, Labels
  <2>6. snap' \in Snapshots
    BY <1>2, Here, RemoteRevisionFacts
  <2> QED
    BY <1>2, <2>3, <2>5, <2>6, StepType, Here
<1> QED
  BY <1>1, <1>2 DEF RevisionForPush

\* A push that lands.
LEMMA PushLandsType ==
    ASSUME TypeInv, NEW w \in Workers, reg[w].data # None, PushLands(w)
    PROVE  TypeInv'
<1>1. reg[w].data \in Files
  BY Here, RegFacts
<1>2. reg[w].data.c \in Contents /\ reg[w].data.t \in Clock
  BY <1>1, FileFacts
<1>3. WorldOK'
  BY <1>1, Here, SetRemoteWorld DEF PushLands, KeepLocal, Users, WorldOK
<1>4. CASE "put" \in Faults /\ Throw(w)
  BY <1>3, <1>4, Here, ThrowEngine DEF TypeInv
<1>5. CASE /\ snap' = Agreed(snap, reg[w].data.c, reg[w].data.t, reg[w].data.t)
           /\ Return(w, TRUE)
           /\ UNCHANGED dirty
  <2>1. snap' \in Snapshots
    BY <1>2, <1>5, Here, SnapFacts
  <2>2. EngineOK'
    BY <1>5, <2>1, Here, ReturnEngine
  <2> QED
    BY <1>3, <1>5, <2>1, <2>2 DEF TypeInv, EntryOK
<1> QED
  BY <1>4, <1>5 DEF PushLands

\* A refused write moves the call to a step that needs no locals.
LEMMA PushRefusedType ==
    ASSUME TypeInv, NEW w \in Workers, NEW label \in {"resolve", "reconcile", "pull"},
           PushRefused(w, label)
    PROVE  TypeInv'
<1>1. Ready(label, reg[w]) /\ label \in Labels
  BY DEF Ready, Labels
<1> QED
  BY <1>1, StepType, Here DEF PushRefused

\* The three pushes.
LEMMA PutsType ==
    ASSUME TypeInv, NEW w \in Workers, PutNew(w) \/ PutChanged(w) \/ PutRecreate(w)
    PROVE  TypeInv'
<1>1. reg[w].data # None
  BY Here DEF PutNew, PutChanged, PutRecreate, Ready
<1>2. CASE PutNew(w)
  BY <1>1, <1>2, PushLandsType, LostType, RejectedType, PushRefusedType DEF PutNew
<1>3. CASE PutChanged(w)
  BY <1>1, <1>3, PushLandsType, LostType, RejectedType, PushRefusedType DEF PutChanged
<1>4. CASE PutRecreate(w)
  <2>1. CASE PushLands(w) \/ Lost(w, "put") \/ Rejected(w)
    BY <1>1, <2>1, PushLandsType, LostType, RejectedType
  <2>2. CASE /\ Mark(AnyOrigin(None)) /\ UNCHANGED snap /\ Return(w, TRUE)
             /\ UNCHANGED <<world, kept, history, candidate, used>>
    <3>1. dirty' \in Origins \cup {None}
      BY <2>2, Here, MarkFacts, OriginFacts
    <3> QED
      BY <2>2, <3>1, ReturnType, Here
  <2> QED
    BY <1>4, <2>1, <2>2 DEF PutRecreate
<1> QED
  BY <1>2, <1>3, <1>4

\* Deletions.
LEMMA DeletedRemoteType ==
    ASSUME TypeInv, NEW w \in Workers, DeletedRemote(w)
    PROVE  TypeInv'
<1>1. Ready("recreate", reg[w]) /\ Ready("deleteLocal", reg[w])
  BY DEF Ready
<1>2. "recreate" \in Labels /\ "deleteLocal" \in Labels
  BY DEF Labels
<1>3. NoEntry(snap) \in Snapshots
  BY Here, SnapFacts
<1>4. CASE localDivergedFromRecorded(reg[w].prior)
  BY <1>1, <1>2, <1>4, StepType, Here DEF DeletedRemote
<1>5. CASE ~localDivergedFromRecorded(reg[w].prior)
  BY <1>1, <1>2, <1>3, <1>5, StepType, Here DEF DeletedRemote
<1> QED
  BY <1>4, <1>5

\* A call that drops the local copy and returns.
LEMMA DropReturnType ==
    ASSUME TypeInv, NEW w \in Workers, NEW ops \in BOOLEAN, Return(w, ops),
           SetLocal(None), snap' \in Snapshots, UNCHANGED dirty,
           UNCHANGED <<remote, published, clock, kept, Users>>
    PROVE  TypeInv'
<1>1. EngineOK'
  BY Here, ReturnEngine
<1>2. WorldOK'
  BY Here, SetLocalWorld DEF Users, WorldOK
<1> QED
  BY <1>1, <1>2, Here DEF TypeInv, EntryOK

\* The local copy goes.
LEMMA DeleteLocalCopyType ==
    ASSUME TypeInv, NEW w \in Workers, DeleteLocalCopy(w)
    PROVE  TypeInv'
<1>1. CASE local = None
  BY <1>1, ThrowType DEF DeleteLocalCopy, KeepLocal, Users, world, history
<1>2. CASE local # None
  BY <1>2, DropReturnType, Here DEF DeleteLocalCopy
<1> QED
  BY <1>1, <1>2

\* The revision read ahead of a delete.
LEMMA RevisionForDeleteType ==
    ASSUME TypeInv, NEW w \in Workers, RevisionForDelete(w)
    PROVE  TypeInv'
<1> DEFINE r == [reg[w] EXCEPT !.pre = Matches(remote.c)]
<1>1. CASE Lost(w, "get")
  BY <1>1, LostType
<1>2. CASE /\ snap' = Forget(snap) /\ Return(w, TRUE)
           /\ UNCHANGED <<world, kept, history, candidate, used, dirty>>
  BY <1>2, ReturnType, Here, SnapFacts
<1>3. CASE /\ remote # None
           /\ snap' = remoteRevision
           /\ Step(w, "deleteRemote", r)
           /\ UNCHANGED <<world, kept, history, candidate, used, dirty>>
  <2>1. remote.c \in Contents
    BY <1>3, Here, FileFacts
  <2>2. r \in Registers
    BY <2>1, Here, RegFacts, PreFacts
  <2>3. snap' \in Snapshots
    BY <1>3, Here, RemoteRevisionFacts
  <2>4. Ready("deleteRemote", r) /\ "deleteRemote" \in Labels
    BY DEF Ready, Labels
  <2> QED
    BY <1>3, <2>2, <2>3, <2>4, StepType, Here
<1> QED
  BY <1>1, <1>2, <1>3 DEF RevisionForDelete

\* The server's copy goes, unless it moved.
LEMMA DeleteRemoteType ==
    ASSUME TypeInv, NEW w \in Workers, DeleteRemote(w)
    PROVE  TypeInv'
<1>1. CASE /\ SetRemote(None)
           /\ UNCHANGED <<local, seen, clock, kept, Users>>
           /\ \/ snap' = Forget(snap) /\ Return(w, TRUE) /\ UNCHANGED dirty
              \/ "delete" \in Faults /\ Throw(w)
  <2>1. WorldOK'
    BY <1>1, Here, SetRemoteWorld DEF Users, WorldOK
  <2>2. CASE snap' = Forget(snap) /\ Return(w, TRUE) /\ UNCHANGED dirty
    <3>1. snap' \in Snapshots
      BY <2>2, Here, SnapFacts
    <3>2. EngineOK'
      BY <2>2, <3>1, Here, ReturnEngine
    <3> QED
      BY <2>1, <2>2, <3>1, <3>2, Here DEF TypeInv, EntryOK
  <2>3. CASE Throw(w)
    BY <2>1, <2>3, Here, ThrowEngine DEF TypeInv
  <2> QED
    BY <1>1, <2>2, <2>3
<1>2. CASE Lost(w, "delete") \/ PushRefused(w, "pull")
  BY <1>2, LostType, PushRefusedType
<1>3. CASE Throw(w) /\ UNCHANGED <<world, kept, history, candidate, used>>
  BY <1>3, ThrowType
<1> QED
  BY <1>1, <1>2, <1>3 DEF DeleteRemote

\* The entry goes.
LEMMA ForgetPathType ==
    ASSUME TypeInv, NEW w \in Workers, ForgetPath(w)
    PROVE  TypeInv'
  BY ReturnType, Here, SnapFacts DEF ForgetPath

\* Paths that are not synced, and paths nothing happened to.
LEMMA NoteNewType ==
    ASSUME TypeInv, NEW w \in Workers, NoteNew(w)
    PROVE  TypeInv'
<1>1. reg[w].sm # None
  BY Here DEF NoteNew, Ready
<1>2. reg[w].sm \in Metas
  BY <1>1, Here DEF Registers
<1>3. reg[w].sm.t \in Clock
  BY <1>2 DEF Metas
<1>4. snap' \in Snapshots
  BY <1>3, Here DEF NoteNew, Snapshots
<1>5. CASE pc[w] = "noteNew"
  BY <1>4, <1>5, ReturnType, Here DEF NoteNew
<1>6. CASE pc[w] # "noteNew"
  <2>1. Ready("dropLocal", reg[w]) /\ "dropLocal" \in Labels
    BY DEF Ready, Labels
  <2> QED
    BY <1>4, <1>6, <2>1, StepType, Here DEF NoteNew
<1> QED
  BY <1>5, <1>6

\* An out-of-date copy of an excluded path goes.
LEMMA DropLocalType ==
    ASSUME TypeInv, NEW w \in Workers, DropLocal(w)
    PROVE  TypeInv'
<1>1. CASE local = None
  BY <1>1, ReturnType, Here DEF DropLocal, KeepLocal, Users, world, history
<1>2. CASE local # None
  BY <1>2, DropReturnType, Here DEF DropLocal
<1> QED
  BY <1>1, <1>2

\* The copy of a path no longer synced goes.
LEMMA DropUnsyncedType ==
    ASSUME TypeInv, NEW w \in Workers, DropUnsynced(w)
    PROVE  TypeInv'
<1>1. CASE local = None
  BY <1>1, ThrowType DEF DropUnsynced, KeepLocal, Users, world, history
<1>2. CASE local # None
  <2>1. [snap EXCEPT !.nonSynced = TRUE] \in Snapshots
    BY Here DEF Snapshots
  <2> QED
    BY <1>2, <2>1, DropReturnType DEF DropUnsynced
<1> QED
  BY <1>1, <1>2

\* Nothing happened to the path.
LEMMA NothingToDoType ==
    ASSUME TypeInv, NEW w \in Workers, NothingToDo(w)
    PROVE  TypeInv'
<1>1. snap' \in Snapshots
  BY Here DEF NothingToDo, Snapshots
<1> QED
  BY <1>1, ReturnType, Here DEF NothingToDo

\* A signalled path is compared by content.
LEMMA VerifyType ==
    ASSUME TypeInv, NEW w \in Workers, Verify(w)
    PROVE  TypeInv'
<1> DEFINE r == [reg[w] EXCEPT !.data = local, !.prior = snap.remoteHash]
<1>1. UNCHANGED <<snap, world, kept, history, candidate, used, dirty>>
  BY DEF Verify
<1>2. \/ Return(w, FALSE)
      \/ /\ local # None
         /\ \E l \in {"verifyRemote", "reconcile", "changedLocal", "changedRemote"} :
              Step(w, l, r)
  BY Zenon DEF Verify
<1>3. CASE Return(w, FALSE)
  BY <1>1, <1>3, ReturnType, Here
<1>4. ASSUME local # None,
             NEW l \in {"verifyRemote", "reconcile", "changedLocal", "changedRemote"},
             Step(w, l, r)
      PROVE  TypeInv'
  <2>1. snap.remoteHash \in Contents \cup {None}
    BY Here, SnapFacts
  <2>2. r \in Registers /\ r.data = local
    BY <2>1, Here DEF Registers
  <2>3. Ready(l, r) /\ l \in Labels
    BY <1>4, <2>2 DEF Ready, Labels
  <2> HIDE DEF r
  <2> QED
    BY <1>1, <1>4, <2>2, <2>3, StepType, Here
<1> QED
  BY <1>2, <1>3, <1>4

\* The comparison reads the server's copy.
LEMMA VerifyRemoteType ==
    ASSUME TypeInv, NEW w \in Workers, VerifyRemote(w)
    PROVE  TypeInv'
<1>1. CASE Lost(w, "get")
  BY <1>1, LostType
<1>2. CASE ~Lost(w, "get")
  <2>1. snap' = remoteRevision
    BY <1>2 DEF VerifyRemote
  <2>2. snap' \in Snapshots
    BY <2>1, Here, RemoteRevisionFacts
  <2>3. Ready("reconcile", reg[w]) /\ "reconcile" \in Labels
    BY DEF Ready, Labels
  <2>4. /\ Step(w, "reconcile", reg[w]) \/ Return(w, FALSE)
        /\ UNCHANGED <<world, kept, history, candidate, used, dirty>>
    BY <1>2 DEF VerifyRemote
  <2> QED
    BY <2>2, <2>3, <2>4, StepType, ReturnType, Here
<1> QED
  BY <1>1, <1>2

\* Pulling.
LEMMA ChangedRemoteType ==
    ASSUME TypeInv, NEW w \in Workers, ChangedRemote(w)
    PROVE  TypeInv'
<1>1. \A l \in {"reconcile", "pull"} : Ready(l, reg[w]) /\ l \in Labels
  BY DEF Ready, Labels
<1>2. PICK l \in {"reconcile", "pull"} : Step(w, l, reg[w])
  BY DEF ChangedRemote
<1> QED
  BY <1>1, <1>2, StepType, Here DEF ChangedRemote

\* The local copy ahead of a pull.
LEMMA PullBeforeType ==
    ASSUME TypeInv, NEW w \in Workers, PullBefore(w)
    PROVE  TypeInv'
<1> DEFINE r == [reg[w] EXCEPT !.data = local, !.prior = snap.remoteHash]
<1>1. snap.remoteHash \in Contents \cup {None}
  BY Here, SnapFacts
<1>2. r \in Registers
  BY <1>1, Here DEF Registers
<1>3. Ready("pullGet", r) /\ "pullGet" \in Labels
  BY DEF Ready, Labels
<1> QED
  BY <1>2, <1>3, StepType, Here DEF PullBefore

\* The remote read of a pull.
LEMMA PullGetType ==
    ASSUME TypeInv, NEW w \in Workers, PullGet(w)
    PROVE  TypeInv'
<1> DEFINE r == [reg[w] EXCEPT !.rem = remote]
<1>1. CASE Lost(w, "get")
  BY <1>1, LostType
<1>2. CASE Throw(w) /\ UNCHANGED <<world, kept, history, candidate, used>>
  BY <1>2, ThrowType
<1>3. CASE /\ remote # None
           /\ snap' = [snap EXCEPT !.remoteHash = remote.c]
           /\ captureSafety(reg[w].data, remote.c)
           /\ Step(w, "pullCheck", r)
           /\ UNCHANGED <<world, copies, history, candidate, used, dirty>>
  <2>1. remote.c \in Contents
    BY <1>3, Here, FileFacts
  <2>2. snap' \in Snapshots
    BY <1>3, <2>1, Here, SnapFacts
  <2>3. safety' \subseteq Contents
    <3>1. reg[w].data \in Files \cup {None} /\ safety \subseteq Contents
      BY Here, RegFacts DEF WorldOK
    <3>2. reg[w].data # None => reg[w].data.c \in Contents
      BY <3>1, FileFacts
    <3> QED
      BY <1>3, <3>1, <3>2 DEF captureSafety
  <2>4. r \in Registers /\ r.rem = remote
    BY Here DEF Registers
  <2>5. Ready("pullCheck", r) /\ "pullCheck" \in Labels
    BY <1>3, <2>4 DEF Ready, Labels
  <2>6. EngineOK'
    BY <1>3, <2>4, <2>5, Here, StepEngine
  <2>7. WorldOK'
    BY <1>3, <2>3, Here DEF WorldOK, world, history
  <2> QED
    BY <1>3, <2>2, <2>6, <2>7, Here DEF TypeInv, EntryOK
<1> QED
  BY <1>1, <1>2, <1>3 DEF PullGet

\* The recheck of a pull.
LEMMA PullCheckType ==
    ASSUME TypeInv, NEW w \in Workers, PullCheck(w)
    PROVE  TypeInv'
<1>1. CASE localHeld(reg[w])
  <2>1. Ready("pullWrite", reg[w]) /\ "pullWrite" \in Labels
    BY Here DEF PullCheck, Ready, Labels
  <2> QED
    BY <1>1, <2>1, StepType, Here DEF PullCheck
<1>2. CASE ~localHeld(reg[w])
  <2>1. snap' \in Snapshots
    BY <1>2, Here, RegFacts, SnapFacts DEF PullCheck, Unrecorded
  <2>2. dirty' \in Origins \cup {None}
    BY <1>2, Here, MarkFacts, OriginFacts DEF PullCheck
  <2> QED
    BY <1>2, <2>1, <2>2, ReturnType DEF PullCheck
<1> QED
  BY <1>1, <1>2

\* A call that writes what it read from the server to the local copy.
LEMMA WriteReturnType ==
    ASSUME TypeInv, NEW w \in Workers, Return(w, TRUE),
           reg[w].rem \in Files, SetLocal(reg[w].rem), snap' \in Snapshots,
           UNCHANGED <<remote, published, clock, kept, Users, dirty>>
    PROVE  TypeInv'
<1>1. EngineOK'
  BY Here, ReturnEngine
<1>2. WorldOK'
  BY Here, SetLocalWorld DEF Users, WorldOK
<1> QED
  BY <1>1, <1>2, Here DEF TypeInv, EntryOK

\* The local write of a pull.
LEMMA PullWriteType ==
    ASSUME TypeInv, NEW w \in Workers, PullWrite(w)
    PROVE  TypeInv'
<1>1. reg[w].rem \in Files
  BY Here, RegFacts DEF PullWrite, Ready
<1>2. reg[w].rem.c \in Contents /\ reg[w].rem.t \in Clock
  BY <1>1, FileFacts
<1>3. Agreed(snap, reg[w].rem.c, reg[w].rem.t, reg[w].rem.t) \in Snapshots
  BY <1>2, Here, SnapFacts
<1>4. snap' \in Snapshots
  BY <1>3, Here, SnapFacts DEF PullWrite
<1> QED
  BY <1>1, <1>4, WriteReturnType DEF PullWrite

\* Three-way reconciliation.
LEMMA ReconcileType ==
    ASSUME TypeInv, NEW w \in Workers, Reconcile(w)
    PROVE  TypeInv'
<1> DEFINE r == [reg[w] EXCEPT !.data = local, !.prior = snap.baseHash]
<1>1. CASE Reconciles /\ snap.baseHash # None /\ local # None
  <2>1. snap.baseHash \in Contents \cup {None}
    BY Here, SnapFacts
  <2>2. r \in Registers /\ r.data = local /\ r.prior = snap.baseHash
    BY <2>1, Here DEF Registers
  <2>3. Ready("post", r) /\ "post" \in Labels
    BY <1>1, <2>2 DEF Ready, Labels
  <2> QED
    BY <1>1, <2>2, <2>3, StepType, Here DEF Reconcile
<1>2. CASE ~(Reconciles /\ snap.baseHash # None /\ local # None)
  <2>1. Ready("resolve", reg[w]) /\ "resolve" \in Labels
    BY DEF Ready, Labels
  <2> QED
    BY <1>2, <2>1, StepType, Here DEF Reconcile
<1> QED
  BY <1>1, <1>2

\* What the server leaves and returns is a file.
LEMMA ServerType ==
    ASSUME WorldOK, NEW base, NEW proposed, NEW result \in Files,
           ServerReconciles(base, proposed, result),
           UNCHANGED <<local, seen, kept, Users>>
    PROVE  WorldOK'
<1>1. CASE remote # None /\ remote.c = proposed
  BY <1>1 DEF ServerReconciles, WorldOK, Users, kept
<1>2. CASE ~(remote # None /\ remote.c = proposed)
  <2>1. SetRemote(result) /\ clock' \in Clock
    BY <1>2 DEF ServerReconciles, Now
  <2> QED
    BY <2>1, SetRemoteWorld DEF Users, WorldOK
<1> QED
  BY <1>1, <1>2

\* The request, answered, refused or lost.
LEMMA PostType ==
    ASSUME TypeInv, NEW w \in Workers, Post(w)
    PROVE  TypeInv'
<1>1. UNCHANGED <<local, seen, kept, Users, snap, dirty>> /\ pc[w] = "post"
  BY DEF Post
<1>2. Ready("resolve", reg[w]) /\ "resolve" \in Labels /\ "reconciled" \in Labels
  BY DEF Ready, Labels
<1>3. CASE Step(w, "resolve", reg[w]) /\ UNCHANGED <<remote, published, clock>>
  BY <1>1, <1>2, <1>3, StepType, Here DEF world, history, Users
<1>4. ASSUME NEW result \in Files,
             ServerReconciles(reg[w].prior, reg[w].data.c, result),
             \/ Step(w, "reconciled", [reg[w] EXCEPT !.rem = result])
             \/ Step(w, "resolve", reg[w])
      PROVE  TypeInv'
  <2> DEFINE r == [reg[w] EXCEPT !.rem = result]
  <2>1. WorldOK'
    BY <1>1, <1>4, Here, ServerType
  <2>2. r \in Registers /\ r.rem = result /\ r.data = reg[w].data
    BY Here DEF Registers
  <2>3. Ready("reconciled", r)
    BY <1>1, <2>2, Here, FileFacts DEF Ready
  <2>4. EngineOK'
    BY <1>2, <1>4, <2>2, <2>3, Here, StepEngine
  <2> QED
    BY <1>1, <2>1, <2>4, Here DEF TypeInv, EntryOK
<1> QED
  BY <1>3, <1>4 DEF Post

\* The server gave up on the request.
LEMMA PostRetryType ==
    ASSUME TypeInv, NEW w \in Workers, PostRetry(w)
    PROVE  TypeInv'
<1>1. remote \in Files /\ made \in 0..MaxEdits /\ made < MaxEdits
  BY Here DEF PostRetry, WorldOK
<1>2. made' \in 0..MaxEdits /\ made + 1 \in Edits
  BY <1>1, ConstantsAssumption DEF PostRetry, Edits
<1>3. PICK t \in Now : clock' = t /\ SetRemote([c |-> remote.c \cup {made + 1}, t |-> t])
  BY DEF PostRetry
<1>4. t \in Clock /\ remote.c \cup {made + 1} \in Contents
  BY <1>1, <1>2, FileFacts DEF Now, Contents
<1>5. [c |-> remote.c \cup {made + 1}, t |-> t] \in Files
  BY <1>4 DEF Files
<1>6. WorldOK'
  BY <1>2, <1>3, <1>4, <1>5, Here, SetRemoteWorld DEF PostRetry, WorldOK
<1>7. dirty' \in Origins \cup {None}
  BY Here, MarkFacts, OriginFacts DEF PostRetry
<1>8. EngineOK'
  BY Here, ReturnEngine DEF PostRetry
<1> QED
  BY <1>6, <1>7, <1>8, Here DEF TypeInv, EntryOK, PostRetry

\* The answer is applied, or the path marked again.
LEMMA ReconciledType ==
    ASSUME TypeInv, NEW w \in Workers, Reconciled(w)
    PROVE  TypeInv'
<1>1. reg[w].data \in Files /\ reg[w].rem \in Files
  BY Here, RegFacts DEF Reconciled, Ready
<1>2. reg[w].data.c \in Contents
  BY <1>1, FileFacts
<1>3. CASE local # None /\ local.c = reg[w].data.c
  <2>1. safety' \subseteq Contents
    BY <1>2, <1>3, Here DEF Reconciled, WorldOK
  <2>2. WorldOK'
    BY <2>1, Here DEF Reconciled, WorldOK, world, history
  <2>3. Ready("reconcileWrite", reg[w]) /\ "reconcileWrite" \in Labels
    BY Here DEF Reconciled, Ready, Labels
  <2>4. EngineOK'
    BY <1>3, <2>3, Here, StepEngine DEF Reconciled
  <2> QED
    BY <1>3, <2>2, <2>4, Here DEF TypeInv, EntryOK, Reconciled
<1>4. CASE ~(local # None /\ local.c = reg[w].data.c)
  <2>1. snap' \in Snapshots
    BY <1>2, <1>4, Here, SnapFacts DEF Reconciled, localAdvanced
  <2>2. dirty' \in Origins \cup {None}
    BY <1>4, Here, MarkFacts, OriginFacts DEF Reconciled
  <2> QED
    BY <1>4, <2>1, <2>2, ReturnType DEF Reconciled, kept
<1> QED
  BY <1>3, <1>4

\* The merged text is written locally.
LEMMA ReconcileWriteType ==
    ASSUME TypeInv, NEW w \in Workers, ReconcileWrite(w)
    PROVE  TypeInv'
<1>1. reg[w].rem \in Files
  BY Here, RegFacts DEF ReconcileWrite, Ready
<1>2. reg[w].rem.c \in Contents /\ reg[w].rem.t \in Clock
  BY <1>1, FileFacts
<1>3. snap' \in Snapshots
  BY <1>2, Here DEF ReconcileWrite, Snapshots
<1> QED
  BY <1>1, <1>3, WriteReturnType DEF ReconcileWrite

\* Equal or different, what was read is recorded and kept.
LEMMA ResolveGetType ==
    ASSUME TypeInv, NEW w \in Workers, ResolveGet(w)
    PROVE  TypeInv'
<1> DEFINE r == [reg[w] EXCEPT !.rem = remote]
           s == [snap EXCEPT !.remoteHash = remote.c]
<1>1. CASE Lost(w, "get")
  BY <1>1, LostType
<1>2. CASE Throw(w) /\ UNCHANGED <<world, kept, history, candidate, used>>
  BY <1>2, ThrowType
<1>3. CASE /\ remote # None
           /\ IF remote.c = reg[w].data.c
              THEN /\ snap' = [s EXCEPT !.files = <<reg[w].data.t, remote.t>>]
                   /\ Step(w, "resolverBase", reg[w])
              ELSE snap' = s /\ Step(w, "copyCheck", r)
           /\ UNCHANGED <<world, kept, history, candidate, used, dirty>>
           /\ pc[w] = "resolveGet"
  <2>1. remote \in Files /\ reg[w].data \in Files
    BY <1>3, Here, RegFacts DEF Ready
  <2>2. remote.c \in Contents /\ remote.t \in Clock /\ reg[w].data.t \in Clock
    BY <2>1, FileFacts
  <2>3. s \in Snapshots
    BY <2>2, Here, SnapFacts
  <2>4. CASE remote.c = reg[w].data.c
    <3>1. [s EXCEPT !.files = <<reg[w].data.t, remote.t>>] \in Snapshots
      BY <2>2, <2>3, SnapFacts
    <3>2. Ready("resolverBase", reg[w]) /\ "resolverBase" \in Labels
      BY DEF Ready, Labels
    <3> QED
      BY <1>3, <2>4, <3>1, <3>2, StepType, Here
  <2>5. CASE remote.c # reg[w].data.c
    <3>1. r \in Registers /\ r.rem = remote /\ r.data = reg[w].data
      BY Here DEF Registers
    <3>2. Ready("copyCheck", r) /\ "copyCheck" \in Labels
      BY <1>3, <2>1, <3>1, FileFacts DEF Ready, Labels
    <3> QED
      BY <1>3, <2>3, <2>5, <3>1, <3>2, StepType, Here
  <2> QED
    BY <2>4, <2>5
<1> QED
  BY <1>1, <1>2, <1>3 DEF ResolveGet

\* A conflict copy holds what was read from the server.
LEMMA CopyCheckType ==
    ASSUME TypeInv, NEW w \in Workers, CopyCheck(w)
    PROVE  TypeInv'
<1> DEFINE losing == reg[w].rem.c
           l == IF losing \in copies.secondary THEN "resolveCheck" ELSE "copyPut"
           r == [reg[w] EXCEPT !.ops = losing \notin copies.primary]
<1>1. CASE Lost(w, "copyMeta")
  BY <1>1, LostType
<1>2. CASE /\ pc[w] = "copyCheck"
           /\ copies' = [copies EXCEPT !.primary = @ \cup {losing}]
           /\ Step(w, l, r)
           /\ UNCHANGED <<world, safety, history, candidate, used, snap, dirty>>
  <2>1. reg[w].rem \in Files /\ reg[w].data # None
    BY <1>2, Here, RegFacts DEF Ready
  <2>2. losing \in Contents
    BY <2>1, FileFacts
  <2>3. copies' \in [primary : SUBSET Contents, secondary : SUBSET Contents]
    BY <1>2, <2>2, Here DEF WorldOK
  <2>4. WorldOK'
    BY <1>2, <2>3, Here DEF WorldOK, world, history
  <2>5. r \in Registers /\ r.rem = reg[w].rem /\ r.data = reg[w].data
    BY Here DEF Registers
  <2>6. Ready(l, r) /\ l \in Labels
    <3>1. l \in {"resolveCheck", "copyPut"}
      OBVIOUS
    <3> HIDE DEF l, r
    <3> QED
      BY <2>1, <2>5, <3>1, FileFacts DEF Ready, Labels
  <2>7. EngineOK'
    BY <1>2, <2>5, <2>6, Here, StepEngine
  <2> QED
    BY <1>2, <2>4, <2>7, Here DEF TypeInv, EntryOK
<1> QED
  BY <1>1, <1>2 DEF CopyCheck

\* So does the one the server gets.
LEMMA CopyPutType ==
    ASSUME TypeInv, NEW w \in Workers, CopyPut(w)
    PROVE  TypeInv'
<1> DEFINE r == [reg[w] EXCEPT !.ops = TRUE]
<1>1. CASE Lost(w, "copyPut")
  BY <1>1, LostType
<1>2. CASE /\ pc[w] = "copyPut"
           /\ copies' = [copies EXCEPT !.secondary = @ \cup {reg[w].rem.c}]
           /\ \/ /\ snap' = [snap EXCEPT !.others = TRUE]
                 /\ Step(w, "resolveCheck", r)
                 /\ UNCHANGED dirty
              \/ Throw(w)
           /\ UNCHANGED <<world, safety, history, candidate, used>>
  <2>1. reg[w].rem \in Files /\ reg[w].data # None
    BY <1>2, Here, RegFacts DEF Ready
  <2>2. copies' \in [primary : SUBSET Contents, secondary : SUBSET Contents]
    BY <1>2, <2>1, FileFacts, Here DEF WorldOK
  <2>3. WorldOK'
    BY <1>2, <2>2, Here DEF WorldOK, world, history
  <2>4. CASE Throw(w)
    BY <2>3, <2>4, Here, ThrowEngine DEF TypeInv
  <2>5. CASE /\ snap' = [snap EXCEPT !.others = TRUE]
             /\ Step(w, "resolveCheck", r)
             /\ UNCHANGED dirty
    <3>1. snap' \in Snapshots
      BY <2>5, Here DEF Snapshots
    <3>2. r \in Registers /\ r.rem = reg[w].rem /\ r.data = reg[w].data
      BY Here DEF Registers
    <3>3. Ready("resolveCheck", r) /\ "resolveCheck" \in Labels
      BY <2>1, <3>2, FileFacts DEF Ready, Labels
    <3>4. EngineOK'
      BY <2>5, <3>2, <3>3, Here, StepEngine
    <3> QED
      BY <2>3, <2>5, <3>1, <3>4, Here DEF TypeInv, EntryOK
  <2> QED
    BY <1>2, <2>4, <2>5
<1> QED
  BY <1>1, <1>2 DEF CopyPut

\* The resolution goes on or is deferred.
LEMMA ResolveCheckType ==
    ASSUME TypeInv, NEW w \in Workers, ResolveCheck(w)
    PROVE  TypeInv'
<1>1. CASE local # None /\ local.c = reg[w].data.c
  <2>1. Ready("resolvePut", reg[w]) /\ "resolvePut" \in Labels
    BY Here DEF ResolveCheck, Ready, Labels
  <2> QED
    BY <1>1, <2>1, StepType, Here DEF ResolveCheck
<1>2. CASE ~(local # None /\ local.c = reg[w].data.c)
  <2>1. snap' \in Snapshots
    BY <1>2, Here DEF ResolveCheck, Snapshots
  <2>2. reg[w].ops \in BOOLEAN
    BY Here DEF Registers
  <2> QED
    BY <1>2, <2>1, <2>2, ReturnType, Here DEF ResolveCheck
<1> QED
  BY <1>1, <1>2

\* The winning copy reaches the server, or the resolution is abandoned.
LEMMA ResolvePutType ==
    ASSUME TypeInv, NEW w \in Workers, ResolvePut(w)
    PROVE  TypeInv'
<1> DEFINE data == reg[w].data
           r == [reg[w] EXCEPT !.ops = TRUE]
<1>0. data \in Files
  BY Here, RegFacts DEF ResolvePut, Ready
<1>1. CASE Lost(w, "put") \/ Rejected(w)
  BY <1>1, LostType, RejectedType
<1>2. ASSUME NEW t \in Now, clock' = t, SetRemote([c |-> data.c, t |-> t]),
             \/ /\ snap' = Resolved(data, t)
                /\ Step(w, "resolverBase", r)
                /\ UNCHANGED dirty
             \/ Throw(w),
             UNCHANGED <<local, seen, kept, Users>>
      PROVE  TypeInv'
  <2>1. t \in Clock /\ data.c \in Contents /\ data.t \in Clock
    BY <1>0, FileFacts DEF Now
  <2>2. [c |-> data.c, t |-> t] \in Files
    BY <2>1 DEF Files
  <2>3. WorldOK'
    BY <1>2, <2>1, <2>2, Here, SetRemoteWorld DEF Users, WorldOK
  <2>4. CASE Throw(w)
    BY <2>3, <2>4, Here, ThrowEngine DEF TypeInv
  <2>5. CASE /\ snap' = Resolved(data, t)
             /\ Step(w, "resolverBase", r)
             /\ UNCHANGED dirty
    <3>1. snap' \in Snapshots
      BY <2>1, <2>5, Here DEF Snapshots, Resolved
    <3>2. r \in Registers
      BY Here, RegFacts
    <3>3. Ready("resolverBase", r) /\ "resolverBase" \in Labels
      BY DEF Ready, Labels
    <3>4. EngineOK'
      BY <2>5, <3>2, <3>3, Here, StepEngine
    <3> QED
      BY <2>3, <2>5, <3>1, <3>4, Here DEF TypeInv, EntryOK
  <2> QED
    BY <1>2, <2>4, <2>5
<1>3. CASE /\ snap' = [snap EXCEPT !.files = None, !.remoteHash = None]
           /\ Return(w, reg[w].ops)
           /\ UNCHANGED <<world, kept, history, candidate, used, dirty>>
  <2>1. snap' \in Snapshots
    BY <1>3, Here DEF Snapshots
  <2>2. reg[w].ops \in BOOLEAN
    BY Here DEF Registers
  <2> QED
    BY <1>3, <2>1, <2>2, ReturnType, Here
<1> QED
  BY <1>1, <1>2, <1>3 DEF ResolvePut

\* The base captured after a resolution.
LEMMA ResolverBaseType ==
    ASSUME TypeInv, NEW w \in Workers, ResolverBase(w)
    PROVE  TypeInv'
<1>1. CASE local # None /\ snap.files # None
  <2>1. local.c \in Contents
    BY <1>1, Here, FileFacts
  <2>2. snap' \in Snapshots
    BY <1>1, <2>1, Here, SnapFacts DEF ResolverBase
  <2>3. reg[w].ops \in BOOLEAN
    BY Here DEF Registers
  <2> QED
    BY <2>2, <2>3, ReturnType, Here DEF ResolverBase
<1>2. CASE ~(local # None /\ snap.files # None)
  <2>1. reg[w].ops \in BOOLEAN /\ snap' \in Snapshots
    BY <1>2, Here DEF Registers, ResolverBase
  <2> QED
    BY <2>1, ReturnType, Here DEF ResolverBase
<1> QED
  BY <1>1, <1>2

-----------------------------------------------------------------------------
(* Everyone else.                                                          *)

\* A step that leaves the cycles alone.
LEMMA SameEngine ==
    ASSUME EngineOK, UNCHANGED <<syncing, pc, reg>>, disk' \in Snapshots
    PROVE  EngineOK'
  BY DEF EngineOK

\* A file with one more edit is a file.
LEMMA EditedFile ==
    ASSUME WorldOK, made < MaxEdits, NEW c \in Contents, NEW t \in Now
    PROVE  /\ made + 1 \in Edits /\ made + 1 \in 0..MaxEdits
           /\ t \in Clock
           /\ c \cup {made + 1} \in Contents
           /\ [c |-> c \cup {made + 1}, t |-> t] \in Files
<1>1. made + 1 \in Edits /\ made + 1 \in 0..MaxEdits
  BY ConstantsAssumption DEF WorldOK, Edits
<1>2. t \in Clock
  BY DEF Now
<1>3. c \cup {made + 1} \in Contents
  BY <1>1 DEF Contents
<1> QED
  BY <1>1, <1>2, <1>3 DEF Files

\* A save in the editor.
LEMMA SaveLocalType ==
    ASSUME TypeInv, SaveLocal
    PROVE  TypeInv'
<1>1. PICK t \in Now, old \in {Content(local), Content(local) \ {Markers}} :
        clock' = t /\ SetLocal([c |-> old \cup {made + 1}, t |-> t])
  BY DEF SaveLocal
<1>2. old \in Contents
  <2>1. Content(local) \in Contents
    BY CopyFacts DEF TypeInv, WorldOK
  <2> QED
    BY <2>1 DEF Contents
<1>3. /\ made + 1 \in 0..MaxEdits /\ t \in Clock
      /\ [c |-> old \cup {made + 1}, t |-> t] \in Files
  BY <1>2, EditedFile DEF TypeInv, SaveLocal
<1>4. WorldOK'
  BY <1>1, <1>3, SetLocalWorld DEF TypeInv, SaveLocal, WorldOK
<1>5. dirty' \in Origins \cup {None}
  BY MarkFacts, OriginFacts DEF TypeInv, EntryOK, SaveLocal
<1>6. EngineOK'
  BY SameEngine DEF TypeInv, EngineOK, SaveLocal
<1> QED
  BY <1>4, <1>5, <1>6 DEF TypeInv, EntryOK, SaveLocal

\* One deletion more, and what it dropped.
LEMMA DeletionCount ==
    ASSUME WorldOK, used.deletes < MaxDeletes, NEW f \in Files
    PROVE  /\ [used EXCEPT !.deletes = @ + 1] \in
                 [crashes : 0..MaxCrashes, deletes : 0..MaxDeletes,
                  reconfigs : 0..MaxReconfigs]
           /\ dropped \cup (f.c \ {Markers}) \subseteq Edits
<1>1. used.deletes + 1 \in 0..MaxDeletes
  BY ConstantsAssumption DEF WorldOK
<1> QED
  BY <1>1, FileFacts DEF WorldOK

\* A deletion here.
LEMMA DeleteLocalType ==
    ASSUME TypeInv, DeleteLocal
    PROVE  TypeInv'
<1>1. local \in Files
  BY DEF TypeInv, WorldOK, DeleteLocal
<1>2. WorldOK'
  BY <1>1, DeletionCount, SetLocalWorld DEF TypeInv, DeleteLocal, WorldOK
<1> QED
  BY <1>2 DEF TypeInv, EntryOK, EngineOK, DeleteLocal, engine

\* The event of a remote change, if it arrives, is an origin.
LEMMA AnnounceFacts ==
    ASSUME dirty \in Origins \cup {None}, NEW o \in Origins, Announce(o)
    PROVE  dirty' \in Origins \cup {None}
  BY MarkFacts DEF Announce

\* A save elsewhere.
LEMMA SaveRemoteType ==
    ASSUME TypeInv, SaveRemote
    PROVE  TypeInv'
<1>1. PICK t \in Now :
        /\ clock' = t
        /\ SetRemote([c |-> Content(remote) \cup {made + 1}, t |-> t])
        /\ Announce(RemoteOrigin(t, Content(remote) \cup {made + 1}))
  BY DEF SaveRemote
<1>2. Content(remote) \in Contents
  BY CopyFacts DEF TypeInv, WorldOK
<1>3. /\ made + 1 \in 0..MaxEdits /\ t \in Clock
      /\ Content(remote) \cup {made + 1} \in Contents
      /\ [c |-> Content(remote) \cup {made + 1}, t |-> t] \in Files
  BY <1>2, EditedFile DEF TypeInv, SaveRemote
<1>4. WorldOK'
  BY <1>1, <1>3, SetRemoteWorld DEF TypeInv, SaveRemote, WorldOK
<1>5. RemoteOrigin(t, Content(remote) \cup {made + 1}) \in Origins
  BY <1>3, OriginFacts
<1>6. dirty' \in Origins \cup {None}
  BY <1>1, <1>5, AnnounceFacts DEF TypeInv, EntryOK
<1>7. EngineOK'
  BY SameEngine DEF TypeInv, EngineOK, SaveRemote
<1> QED
  BY <1>4, <1>6, <1>7 DEF TypeInv, EntryOK, SaveRemote

\* A deletion elsewhere.
LEMMA DeleteRemotelyType ==
    ASSUME TypeInv, DeleteRemotely
    PROVE  TypeInv'
<1>1. remote \in Files
  BY DEF TypeInv, WorldOK, DeleteRemotely
<1>2. WorldOK'
  BY <1>1, DeletionCount, SetRemoteWorld DEF TypeInv, DeleteRemotely, WorldOK
<1>3. dirty' \in Origins \cup {None}
  BY OriginFacts, AnnounceFacts DEF TypeInv, EntryOK, DeleteRemotely
<1>4. EngineOK'
  BY SameEngine DEF TypeInv, EngineOK, DeleteRemotely
<1> QED
  BY <1>2, <1>3, <1>4 DEF TypeInv, EntryOK, DeleteRemotely

\* Another configuration.
LEMMA SetSyncConfigType ==
    ASSUME TypeInv, SetSyncConfig
    PROVE  TypeInv'
<1>1. used' \in [crashes : 0..MaxCrashes, deletes : 0..MaxDeletes,
                 reconfigs : 0..MaxReconfigs]
  <2>1. used.reconfigs + 1 \in 0..MaxReconfigs
    BY ConstantsAssumption DEF TypeInv, WorldOK, SetSyncConfig
  <2> QED
    BY <2>1 DEF TypeInv, WorldOK, SetSyncConfig
<1>2. WorldOK'
  BY <1>1 DEF TypeInv, WorldOK, SetSyncConfig, world, kept, history
<1> QED
  BY <1>2 DEF TypeInv, EntryOK, EngineOK, SetSyncConfig, engine

\* Other paths of the scan.
LEMMA OtherPathsType ==
    ASSUME TypeInv, NEW w, OtherPathSynced \/ OtherPathFails(w)
    PROVE  TypeInv'
<1>1. WorldOK'
  BY SameWorld DEF TypeInv, OtherPathSynced, OtherPathFails
<1> QED
  BY <1>1 DEF TypeInv, EntryOK, EngineOK, OtherPathSynced, OtherPathFails

\* A restart, which keeps what it does not reset.
LEMMA RestartType ==
    ASSUME TypeInv, Restart, local' \in Files \cup {None}, remote' \in Files \cup {None},
           published' \subseteq Edits, seen' \subseteq Edits
    PROVE  TypeInv'
<1>1. used' \in [crashes : 0..MaxCrashes, deletes : 0..MaxDeletes,
                 reconfigs : 0..MaxReconfigs]
  <2>1. used.crashes + 1 \in 0..MaxCrashes
    BY ConstantsAssumption DEF TypeInv, WorldOK, Restart
  <2> QED
    BY <2>1 DEF TypeInv, WorldOK, Restart
<1>2. WorldOK'
  BY <1>1 DEF TypeInv, WorldOK, Restart, kept
<1>3. Blank \in Registers /\ "idle" \in Labels /\ Ready("idle", Blank)
  BY DEF Labels, Blank, Registers, Unconditional, Preconditions, UnknownSignal, Signals,
         Ready
<1>4. EngineOK'
  BY <1>3 DEF TypeInv, EngineOK, Restart
<1> QED
  BY <1>2, <1>4 DEF TypeInv, EntryOK, EngineOK, Restart

LEMMA CrashType ==
    ASSUME TypeInv, Crash
    PROVE  TypeInv'
  BY RestartType DEF Crash, TypeInv, WorldOK

\* What the killed step wrote.
LEMMA KilledWrites ==
    ASSUME TypeInv, NEW w \in Workers, Killed(w)
    PROVE  /\ Restart /\ pc[w] \in Kills
           /\ \/ /\ pc[w] \in {"pullWrite", "reconcileWrite"}
                 /\ SetLocal(reg[w].rem) /\ reg[w].rem \in Files
                 /\ UNCHANGED <<remote, published>>
              \/ /\ pc[w] \in {"deleteLocal", "dropLocal", "unsynced"}
                 /\ SetLocal(None)
                 /\ UNCHANGED <<remote, published>>
              \/ /\ pc[w] \in {"putNew", "putChanged", "putRecreate"}
                 /\ Passes(reg[w].pre)
                 /\ SetRemote(reg[w].data) /\ reg[w].data \in Files
                 /\ UNCHANGED <<local, seen>>
              \/ /\ pc[w] = "deleteRemote"
                 /\ Passes(reg[w].pre)
                 /\ SetRemote(None)
                 /\ UNCHANGED <<local, seen>>
<1>1. pc[w] \in {"pullWrite", "reconcileWrite"} => reg[w].rem \in Files
  BY Here, RegFacts DEF Ready
<1>2. pc[w] \in {"putNew", "putChanged", "putRecreate"} => reg[w].data \in Files
  BY Here, RegFacts DEF Ready
<1> QED
  BY <1>1, <1>2 DEF Killed, KeepLocal

LEMMA KilledType ==
    ASSUME TypeInv, NEW w \in Workers, Killed(w)
    PROVE  TypeInv'
<1>1. /\ local' \in Files \cup {None} /\ remote' \in Files \cup {None}
      /\ published' \subseteq Edits /\ seen' \subseteq Edits
  <2>1. UNCHANGED <<remote, published>> \/ UNCHANGED <<local, seen>>
    BY KilledWrites
  <2>2. ASSUME NEW f \in Files \cup {None}
        PROVE  Content(f) \ {Markers} \subseteq Edits
    BY CopyFacts DEF Contents
  <2>3. CASE /\ \E f \in Files \cup {None} : SetLocal(f)
             /\ UNCHANGED <<remote, published>>
    BY <2>2, <2>3 DEF SetLocal, TypeInv, WorldOK
  <2>4. CASE /\ \E f \in Files \cup {None} : SetRemote(f)
             /\ UNCHANGED <<local, seen>>
    BY <2>2, <2>4 DEF SetRemote, TypeInv, WorldOK
  <2> QED
    BY <2>3, <2>4, KilledWrites
<1> QED
  BY <1>1, RestartType, KilledWrites

-----------------------------------------------------------------------------
(* The type invariant.                                                     *)

\* It holds at the start.
LEMMA InitType == Init => TypeInv
<1> SUFFICES ASSUME Init PROVE TypeInv
  OBVIOUS
<1>1. PICK situation \in Starts : InitStore(situation)
  BY DEF Init
<1>2. 1 \in Clock /\ {} \in Contents
  BY ConstantsAssumption DEF Clock, Contents
<1>3. Original \in Files
  BY <1>2 DEF Original, Files
<1>4. PICK others \in Others :
        snap = CASE situation = "synced" -> Agreed(Fresh(others), {}, 1, 1)
                 [] situation = "upgraded" -> [Fresh(others) EXCEPT !.files = <<1, 1>>]
                 [] OTHER -> Fresh(others)
  BY <1>1 DEF InitStore
<1>5. Fresh(others) \in Snapshots
  <2>1. others \in BOOLEAN
    BY ConstantsAssumption
  <2> QED
    BY <2>1 DEF Fresh, Snapshots
<1>6. /\ Agreed(Fresh(others), {}, 1, 1) \in Snapshots
      /\ [Fresh(others) EXCEPT !.files = <<1, 1>>] \in Snapshots
  BY <1>2, <1>5, SnapFacts
<1>7. snap \in Snapshots /\ disk \in Snapshots
  BY <1>1, <1>4, <1>5, <1>6 DEF InitStore
<1>8. used \in [crashes : 0..MaxCrashes, deletes : 0..MaxDeletes,
                reconfigs : 0..MaxReconfigs] /\ made \in 0..MaxEdits
  BY ConstantsAssumption DEF Init
<1>9. WorldOK
  BY <1>1, <1>2, <1>3, <1>8 DEF Init, InitStore, WorldOK
<1>10. Blank \in Registers /\ "idle" \in Labels /\ Ready("idle", Blank)
  BY DEF Labels, Blank, Registers, Unconditional, Preconditions, UnknownSignal, Signals,
         Ready
<1>11. EngineOK
  BY <1>7, <1>10 DEF Init, EngineOK
<1> QED
  BY <1>7, <1>9, <1>11 DEF Init, TypeInv, EntryOK

\* Every step of a cycle keeps it.
LEMMA SyncStepType ==
    ASSUME TypeInv, NEW w \in Workers, SyncStep(w)
    PROVE  TypeInv'
<1>1. CASE Pushes(w)
  BY <1>1, ReadsType, RevisionForPushType, PutsType DEF Pushes
<1>2. CASE Deletes(w)
  BY <1>2, DeletedRemoteType, DeleteLocalCopyType, RevisionForDeleteType,
     DeleteRemoteType, ForgetPathType DEF Deletes
<1>3. CASE Notes(w)
  BY <1>3, NoteNewType, DropLocalType, DropUnsyncedType, NothingToDoType, VerifyType,
     VerifyRemoteType DEF Notes
<1>4. CASE Pulls(w)
  BY <1>4, ChangedRemoteType, PullBeforeType, PullGetType, PullCheckType,
     PullWriteType DEF Pulls
<1>5. CASE Merges(w)
  BY <1>5, ReconcileType, PostType, PostRetryType, ReconciledType,
     ReconcileWriteType DEF Merges
<1>6. CASE Resolves(w)
  BY <1>6, ReadsType, ResolveGetType, CopyCheckType, CopyPutType, ResolveCheckType,
     ResolvePutType, ResolverBaseType DEF Resolves
<1> QED
  BY <1>1, <1>2, <1>3, <1>4, <1>5, <1>6, SecondaryType, ClassifyType, EndScanType
     DEF SyncStep

\* Every step of the system keeps it.
LEMMA NextType == TypeInv /\ [Next]_vars => TypeInv'
<1> SUFFICES ASSUME TypeInv, [Next]_vars PROVE TypeInv'
  OBVIOUS
<1>1. CASE UNCHANGED vars
  BY <1>1 DEF TypeInv, WorldOK, EntryOK, EngineOK, vars, world, kept, engine, history
<1>2. ASSUME NEW w \in Workers,
             \/ StartScan(w) \/ Take(w) \/ SyncStep(w) \/ OtherPathFails(w)
             \/ Killed(w)
      PROVE  TypeInv'
  BY <1>2, StartScanType, TakeType, SyncStepType, OtherPathsType, KilledType
<1>3. CASE Environment
  BY <1>3, SaveLocalType, DeleteLocalType, SaveRemoteType, DeleteRemotelyType,
     SetSyncConfigType, OtherPathsType, CrashType DEF Environment
<1> QED
  BY <1>1, <1>2, <1>3 DEF Next

\* Type correctness of the engine, with what every step finds in its locals:
\* no step of syncFile reads a local that an earlier step did not fill in.
THEOREM TypeCorrect == Spec => [](TypeOK /\ TypeInv)
<1>1. TypeInv => TypeOK
  BY TypeInvTypes
<1> QED
  BY <1>1, InitType, NextType, PTL DEF Spec

-----------------------------------------------------------------------------
(* The merge base is published.  The invariant follows what a later step   *)
(* makes the base: the revisions read from the server, the base and the    *)
(* proposal of a reconciliation, and the local copy while the resolver     *)
(* works on it, which is where no save may land (Windows).                 *)

Pub(c, p) == c \ {Markers} \subseteq p

Entry(s, p) == s.baseHash # None => Pub(s.baseHash, p)

\* f is the local copy, p the edits published.
Trace(l, r, f, p) ==
    /\ r.rem # None => Pub(r.rem.c, p)
    /\ l = "post" => Pub(r.prior, p)
    /\ l = "reconciled" => Pub(r.data.c, p)
    /\ l \in {"resolveGet", "resolvePut"} =>
         f = None \/ f.c = r.data.c \/ Pub(f.c, p)
    /\ l = "resolverBase" => f = None \/ Pub(f.c, p)

PubInv ==
    /\ Pub(Content(remote), published)
    /\ Entry(snap, published)
    /\ Entry(disk, published)
    /\ \A w \in Workers : Trace(pc[w], reg[w], local, published)

\* What a step of the engine does to what the invariant is about.
Progress ==
    /\ published \subseteq published'
    /\ local' = local \/ local' = None \/ Pub(local'.c, published')
    /\ Pub(Content(remote'), published')
    /\ Entry(snap', published')

\* Nothing published is ever unpublished.
LEMMA PubGrows ==
    ASSUME NEW c, NEW p, NEW q, p \subseteq q, Pub(c, p)
    PROVE  Pub(c, q)
  BY DEF Pub

\* A waiting call is not disturbed by published revisions and deletions.
LEMMA TraceStays ==
    ASSUME NEW l, NEW r, NEW f, NEW g, NEW p, NEW q, Trace(l, r, f, p), p \subseteq q,
           g = f \/ g = None \/ Pub(g.c, q)
    PROVE  Trace(l, r, g, q)
<1>1. \A c : Pub(c, p) => Pub(c, q)
  BY DEF Pub
<1> QED
  BY <1>1 DEF Trace

\* A step of one call: the others wait, and it goes on at l with the locals r.
LEMMA CallPub ==
    ASSUME TypeInv, PubInv, Progress, NEW w \in Workers, NEW l, NEW r,
           pc' = [pc EXCEPT ![w] = l], reg' = [reg EXCEPT ![w] = r],
           Trace(l, r, local', published'),
           disk' = disk \/ disk' = snap \/ disk' = snap'
    PROVE  PubInv'
<1>1. \A c : Pub(c, published) => Pub(c, published')
  BY DEF Pub, Progress
<1>2. Entry(disk', published')
  BY <1>1 DEF Entry, PubInv, Progress
<1>3. ASSUME NEW v \in Workers PROVE Trace(pc'[v], reg'[v], local', published')
  <2>1. CASE v = w
    BY <2>1 DEF TypeInv, EngineOK
  <2>2. CASE v # w
    <3>1. pc'[v] = pc[v] /\ reg'[v] = reg[v]
      BY <2>2 DEF TypeInv, EngineOK
    <3>2. Trace(pc[v], reg[v], local, published)
      BY DEF PubInv
    <3>3. Trace(pc[v], reg[v], local', published')
      BY <3>2, TraceStays DEF Progress
    <3> QED
      BY <3>1, <3>3
  <2> QED
    BY <2>1, <2>2
<1> QED
  BY <1>2, <1>3 DEF PubInv, Progress

\* A call that returns or throws leaves no trace.
LEMMA EndPub ==
    ASSUME TypeInv, PubInv, Progress, NEW w \in Workers, NEW ops,
           Return(w, ops) \/ Throw(w) \/ Abort(w)
    PROVE  PubInv'
<1> DEFINE b(x) == [Blank EXCEPT !.scan = x]
<1>1. \A l \in {"idle", "tail"} : \A x : Trace(l, b(x), local', published')
  BY DEF Trace, Blank
<1>2. \A l \in {"idle", "tail"} : Trace(l, Blank, local', published')
  BY DEF Trace, Blank
<1>3. CASE Return(w, ops)
  <2> DEFINE l == IF reg[w].scan /\ syncing = w THEN "tail" ELSE "idle"
             r == b(reg[w].scan /\ syncing = w)
  <2>1. pc' = [pc EXCEPT ![w] = l] /\ reg' = [reg EXCEPT ![w] = r]
    BY <1>3 DEF Return, Goto
  <2>2. Trace(l, r, local', published')
    BY <1>1
  <2>3. disk' = disk \/ disk' = snap'
    BY <1>3 DEF Return
  <2> QED
    BY <2>1, <2>2, <2>3, CallPub
<1>4. CASE Throw(w) \/ Abort(w)
  <2>1. /\ pc' = [pc EXCEPT ![w] = "idle"] /\ reg' = [reg EXCEPT ![w] = Blank]
        /\ disk' = disk \/ disk' = snap'
    BY <1>4 DEF Throw, Abort, Goto
  <2> QED
    BY <1>2, <2>1, CallPub
<1> QED
  BY <1>3, <1>4

\* A call that goes on.
LEMMA StepPub ==
    ASSUME TypeInv, PubInv, Progress, NEW w \in Workers, NEW l, NEW r, Step(w, l, r),
           Trace(l, r, local', published')
    PROVE  PubInv'
<1>1. pc' = [pc EXCEPT ![w] = l] /\ reg' = [reg EXCEPT ![w] = r] /\ disk' = disk
  BY DEF Step, Goto
<1> QED
  BY <1>1, CallPub

\* Steps that write neither copy and keep or forget the base.
LEMMA QuietProgress ==
    ASSUME PubInv, UNCHANGED <<world, history>>,
           snap'.baseHash \in {snap.baseHash, None}
    PROVE  Progress
  BY DEF PubInv, Progress, Entry, world, history

\* A call that goes on with the revision it read before at a step where only
\* that revision matters.
LEMMA PlainTrace ==
    ASSUME PubInv, published \subseteq published', NEW w \in Workers,
           NEW l, l \notin {"post", "reconciled", "resolveGet", "resolvePut",
                            "resolverBase"},
           NEW r, r.rem = reg[w].rem
    PROVE  Trace(l, r, local', published')
<1>1. reg[w].rem # None => Pub(reg[w].rem.c, published)
  BY DEF PubInv, Trace
<1> QED
  BY <1>1, PubGrows DEF Trace

-----------------------------------------------------------------------------
(* One lemma per action, or per group of actions that write neither copy.  *)

\* The base survives the edits of the entry's other fields.
LEMMA BaseFacts ==
    ASSUME NEW s \in Snapshots
    PROVE  /\ NoEntry(s).baseHash = None /\ Forget(s).baseHash = None
           /\ \A h : [s EXCEPT !.remoteHash = h].baseHash = s.baseHash
           /\ \A x : [s EXCEPT !.files = x].baseHash = s.baseHash
           /\ \A h, x : [s EXCEPT !.remoteHash = h, !.files = x].baseHash = s.baseHash
           /\ \A h : [s EXCEPT !.baseHash = h].baseHash = h
           /\ \A c, tl, tr : Agreed(s, c, tl, tr).baseHash = c
<1>1. NoEntry(s).baseHash = None /\ Forget(s).baseHash = None
  BY DEF Snapshots, NoEntry, Forget
<1>2. \A c, tl, tr : Agreed(s, c, tl, tr).baseHash = c
  BY DEF Snapshots, Agreed
<1> QED
  BY <1>1, <1>2 DEF Snapshots

\* A request that failed changed nothing.
LEMMA LostPub ==
    ASSUME TypeInv, PubInv, NEW w \in Workers, NEW q, Lost(w, q)
    PROVE  PubInv'
<1>1. Progress
  BY DEF PubInv, Progress, Entry, Lost, Throw, world, Users
<1> QED
  BY <1>1, EndPub DEF Lost

\* A push that was rejected forgets the revision and keeps the base.
LEMMA RejectedPub ==
    ASSUME TypeInv, PubInv, NEW w \in Workers, Rejected(w)
    PROVE  PubInv'
<1>1. snap'.baseHash = snap.baseHash
  BY Here, BaseFacts DEF Rejected
<1>2. Progress
  BY <1>1 DEF PubInv, Progress, Entry, Rejected, world, Users
<1> QED
  BY <1>2, EndPub DEF Rejected

\* A call that throws, and nothing else.
LEMMA ThrowPub ==
    ASSUME TypeInv, PubInv, NEW w \in Workers, Throw(w),
           UNCHANGED <<world, history>>
    PROVE  PubInv'
<1>1. Progress
  BY QuietProgress DEF Throw
<1> QED
  BY <1>1, EndPub

\* A call that returns without a write.
LEMMA QuietReturnPub ==
    ASSUME TypeInv, PubInv, NEW w \in Workers, NEW ops, Return(w, ops),
           UNCHANGED <<world, history>>,
           snap'.baseHash \in {snap.baseHash, None}
    PROVE  PubInv'
  BY QuietProgress, EndPub

\* A call that goes on without a write at a step that trusts nothing but the
\* revision it read.
LEMMA QuietStepPub ==
    ASSUME TypeInv, PubInv, NEW w \in Workers,
           NEW l, l \notin {"post", "reconciled", "resolveGet", "resolvePut",
                            "resolverBase"},
           NEW r, r.rem = reg[w].rem, Step(w, l, r),
           UNCHANGED <<world, history>>,
           snap'.baseHash \in {snap.baseHash, None}
    PROVE  PubInv'
<1>1. Progress
  BY QuietProgress
<1>2. Trace(l, r, local', published')
  BY <1>1, PlainTrace DEF Progress
<1> QED
  BY <1>1, <1>2, StepPub

\* Cycles begin with blank locals.
LEMMA BeginPub ==
    ASSUME TypeInv, PubInv, NEW w \in Workers, NEW scan, NEW signal,
           Begin(w, scan, signal), UNCHANGED <<world, history, snap, disk>>
    PROVE  PubInv'
<1> DEFINE r == [Blank EXCEPT !.scan = scan, !.signal = signal, !.pm = Meta(local)]
<1>1. Progress
  BY QuietProgress
<1>2. Trace("secondary", r, local', published')
  BY DEF Trace, Blank
<1>3. pc' = [pc EXCEPT ![w] = "secondary"] /\ reg' = [reg EXCEPT ![w] = r]
  BY DEF Begin, Goto
<1> QED
  BY <1>1, <1>2, <1>3, CallPub

\* Starting, taking an entry, ending a scan.
LEMMA CyclesPub ==
    ASSUME TypeInv, PubInv, NEW w \in Workers, StartScan(w) \/ Take(w) \/ EndScan(w)
    PROVE  PubInv'
<1>1. CASE StartScan(w)
  BY <1>1, BeginPub DEF StartScan
<1>2. CASE Take(w)
  <2>1. CASE Redundant \/ snap.nonSynced
    BY <1>2, <2>1 DEF Take, PubInv, Entry, world, history
  <2>2. CASE ~(Redundant \/ snap.nonSynced)
    BY <1>2, <2>2, BeginPub DEF Take
  <2> QED
    BY <2>1, <2>2
<1>3. CASE EndScan(w)
  <2>1. Progress
    BY <1>3, QuietProgress DEF EndScan
  <2>2. /\ pc' = [pc EXCEPT ![w] = "idle"] /\ reg' = [reg EXCEPT ![w] = Blank]
        /\ disk' = disk \/ disk' = snap
    BY <1>3 DEF EndScan, Goto
  <2>3. Trace("idle", Blank, local', published')
    BY DEF Trace, Blank
  <2> QED
    BY <2>1, <2>2, <2>3, CallPub
<1> QED
  BY <1>1, <1>2, <1>3

\* Listing and classifying.
LEMMA ClassifyPub ==
    ASSUME TypeInv, PubInv, NEW w \in Workers, Secondary(w) \/ Classify(w)
    PROVE  PubInv'
<1>1. CASE Secondary(w)
  <2> DEFINE r == [reg[w] EXCEPT
                     !.sm = Meta(remote),
                     !.back = ~(reg[w].scan /\ remote # None /\ ~candidate)]
  <2>1. CASE Lost(w, "meta")
    BY <2>1, LostPub
  <2>2. CASE /\ Step(w, "classify", r)
             /\ UNCHANGED <<world, kept, history, candidate, used, snap, dirty>>
    <3>1. r.rem = reg[w].rem
      BY Here DEF Registers
    <3> QED
      BY <2>2, <3>1, QuietStepPub
  <2> QED
    BY <1>1, <2>1, <2>2 DEF Secondary
<1>2. CASE Classify(w)
  <2> DEFINE l == Scenario(snap, reg[w].pm, reg[w].sm, reg[w].back, reg[w].signal)
             r == [reg[w] EXCEPT !.prior = snap.remoteHash,
                                 !.pre = deletePrecondition(snap.remoteHash)]
  <2>1. Step(w, l, r) /\ UNCHANGED <<world, history, snap>>
    BY <1>2 DEF Classify
  <2>2. r.rem = reg[w].rem
    BY Here DEF Registers
  <2>3. l \notin {"post", "reconciled", "resolveGet", "resolvePut", "resolverBase"}
    <3>1. l \in {"newLocal", "pull", "noteNew", "forget", "recreate", "deletedRemote",
                 "revisionForDelete", "deleteRemote", "changedLocal", "changedRemote",
                 "unwanted", "reconcile", "unsynced", "done", "verify", "note"}
      BY ScenarioFacts
    <3> HIDE DEF l
    <3> QED
      BY <3>1
  <2> HIDE DEF l, r
  <2> QED
    BY <2>1, <2>2, <2>3, QuietStepPub
<1> QED
  BY <1>1, <1>2

\* The reads ahead of a push: the one of the resolver trusts the local copy.
LEMMA ReadForPushPub ==
    ASSUME TypeInv, PubInv, NEW w \in Workers, NEW from, NEW pre,
           NEW label \in {"putNew", "putRecreate", "revisionForPush", "putChanged",
                          "resolveGet"},
           ReadForPush(w, from, label, pre)
    PROVE  PubInv'
<1>1. CASE local = None
  BY <1>1, ThrowPub DEF ReadForPush
<1>2. CASE local # None
  <2> DEFINE r == [reg[w] EXCEPT !.data = local, !.pre = pre]
  <2>1. r.data = local /\ r.rem = reg[w].rem
    BY Here DEF Registers
  <2>2. Step(w, label, r) /\ UNCHANGED <<snap, world, history>>
    BY <1>2 DEF ReadForPush
  <2>3. Progress
    BY <2>2, QuietProgress
  <2>4. r.rem # None => Pub(r.rem.c, published')
    BY <2>1, <2>2 DEF PubInv, Trace, history
  <2> HIDE DEF r
  <2>5. Trace(label, r, local', published')
    BY <2>1, <2>2, <2>4 DEF Trace, world
  <2> QED
    BY <2>2, <2>3, <2>5, StepPub
<1> QED
  BY <1>1, <1>2

\* Each of the reads is one of those.
LEMMA ReadsPub ==
    ASSUME TypeInv, PubInv, NEW w \in Workers,
           ReadNew(w) \/ ReadRecreate(w) \/ ReadChanged(w) \/ ResolveRead(w)
    PROVE  PubInv'
<1>1. CASE ReadChanged(w)
  <2>1. CASE MustAsk(snap)
    BY <1>1, <2>1, ReadForPushPub DEF ReadChanged
  <2>2. CASE ~MustAsk(snap)
    BY <1>1, <2>2, ReadForPushPub DEF ReadChanged
  <2> QED
    BY <2>1, <2>2
<1>2. CASE ReadNew(w)
  BY <1>2, ReadForPushPub DEF ReadNew
<1>3. CASE ReadRecreate(w)
  BY <1>3, ReadForPushPub DEF ReadRecreate
<1>4. CASE ResolveRead(w)
  BY <1>4, ReadForPushPub DEF ResolveRead
<1> QED
  BY <1>1, <1>2, <1>3, <1>4

\* A revision read records what the remote holds, not a base.
LEMMA RevisionsPub ==
    ASSUME TypeInv, PubInv, NEW w \in Workers, RevisionForPush(w) \/ RevisionForDelete(w)
    PROVE  PubInv'
<1>1. CASE RevisionForPush(w)
  <2> DEFINE current == IF remote = None THEN None ELSE remote.c
             r == [reg[w] EXCEPT !.pre = pushPrecondition(current)]
  <2>1. CASE Lost(w, "get")
    BY <2>1, LostPub
  <2>2. CASE /\ snap' = remoteRevision
             /\ Step(w, "putChanged", r)
             /\ UNCHANGED <<world, kept, history, candidate, used, dirty>>
    <3>1. snap'.baseHash = snap.baseHash
      BY <2>2, Here, RemoteRevisionFacts
    <3>2. r.rem = reg[w].rem
      BY Here DEF Registers
    <3> QED
      BY <2>2, <3>1, <3>2, QuietStepPub
  <2> QED
    BY <1>1, <2>1, <2>2 DEF RevisionForPush
<1>2. CASE RevisionForDelete(w)
  <2> DEFINE r == [reg[w] EXCEPT !.pre = Matches(remote.c)]
  <2>1. CASE Lost(w, "get")
    BY <2>1, LostPub
  <2>2. CASE /\ snap' = Forget(snap) /\ Return(w, TRUE)
             /\ UNCHANGED <<world, kept, history, candidate, used, dirty>>
    BY <2>2, Here, BaseFacts, QuietReturnPub
  <2>3. CASE /\ snap' = remoteRevision
             /\ Step(w, "deleteRemote", r)
             /\ UNCHANGED <<world, kept, history, candidate, used, dirty>>
    <3>1. snap'.baseHash = snap.baseHash
      BY <2>3, Here, RemoteRevisionFacts
    <3>2. r.rem = reg[w].rem
      BY Here DEF Registers
    <3> QED
      BY <2>3, <3>1, <3>2, QuietStepPub
  <2> QED
    BY <1>2, <2>1, <2>2, <2>3 DEF RevisionForDelete
<1> QED
  BY <1>1, <1>2

\* A push publishes what it makes the base.
LEMMA PushLandsPub ==
    ASSUME TypeInv, PubInv, NEW w \in Workers, reg[w].data # None, PushLands(w)
    PROVE  PubInv'
<1>1. reg[w].data \in Files
  BY Here, RegFacts
<1>2. /\ published \subseteq published'
      /\ remote' = reg[w].data /\ Pub(reg[w].data.c, published')
      /\ local' = local
  BY <1>1, FileFacts DEF PushLands, SetRemote, KeepLocal, Pub
<1>3. Content(remote') = reg[w].data.c
  BY <1>1, <1>2, FileFacts
<1>4. Entry(snap', published')
  <2>1. CASE snap' = Agreed(snap, reg[w].data.c, reg[w].data.t, reg[w].data.t)
    BY <1>2, <2>1, Here, BaseFacts DEF Entry
  <2>2. CASE snap' = snap
    BY <1>2, <2>2, PubGrows DEF Entry, PubInv
  <2> QED
    BY <2>1, <2>2 DEF PushLands, Throw
<1>5. Progress
  BY <1>2, <1>3, <1>4 DEF Progress
<1>6. Return(w, TRUE) \/ Throw(w)
  BY DEF PushLands
<1> QED
  BY <1>5, <1>6, EndPub

\* A refused write.
LEMMA PushRefusedPub ==
    ASSUME TypeInv, PubInv, NEW w \in Workers, NEW label \in {"resolve", "reconcile", "pull"},
           PushRefused(w, label)
    PROVE  PubInv'
  BY QuietStepPub DEF PushRefused

\* The three pushes.
LEMMA PutsPub ==
    ASSUME TypeInv, PubInv, NEW w \in Workers, PutNew(w) \/ PutChanged(w) \/ PutRecreate(w)
    PROVE  PubInv'
<1>1. reg[w].data # None
  BY Here DEF PutNew, PutChanged, PutRecreate, Ready
<1>2. CASE PutNew(w)
  BY <1>1, <1>2, PushLandsPub, LostPub, RejectedPub, PushRefusedPub DEF PutNew
<1>3. CASE PutChanged(w)
  BY <1>1, <1>3, PushLandsPub, LostPub, RejectedPub, PushRefusedPub DEF PutChanged
<1>4. CASE PutRecreate(w)
  <2>1. CASE PushLands(w) \/ Lost(w, "put") \/ Rejected(w)
    BY <1>1, <2>1, PushLandsPub, LostPub, RejectedPub
  <2>2. CASE /\ UNCHANGED snap /\ Return(w, TRUE)
             /\ UNCHANGED <<world, kept, history, candidate, used>>
    BY <2>2, QuietReturnPub
  <2> QED
    BY <1>4, <2>1, <2>2 DEF PutRecreate
<1> QED
  BY <1>2, <1>3, <1>4

\* A call that drops the local copy and returns.
LEMMA DropReturnPub ==
    ASSUME TypeInv, PubInv, NEW w \in Workers, NEW ops, Return(w, ops),
           SetLocal(None), UNCHANGED <<remote, published>>,
           snap'.baseHash = snap.baseHash
    PROVE  PubInv'
<1>1. Progress
  BY DEF PubInv, Progress, Entry, SetLocal
<1> QED
  BY <1>1, EndPub

\* Deletions publish nothing and leave the base alone or forget it.
LEMMA DeletesPub ==
    ASSUME TypeInv, PubInv, NEW w \in Workers,
           DeletedRemote(w) \/ DeleteLocalCopy(w) \/ DeleteRemote(w) \/ ForgetPath(w)
    PROVE  PubInv'
<1>1. CASE DeletedRemote(w)
  <2>1. snap'.baseHash \in {snap.baseHash, None}
    BY <1>1, Here, BaseFacts DEF DeletedRemote
  <2>2. PICK l \in {"recreate", "deleteLocal"} : Step(w, l, reg[w])
    BY <1>1 DEF DeletedRemote
  <2> QED
    BY <1>1, <2>1, <2>2, QuietStepPub DEF DeletedRemote
<1>2. CASE DeleteLocalCopy(w)
  <2>1. CASE local = None
    BY <1>2, <2>1, ThrowPub DEF DeleteLocalCopy, KeepLocal, Users, world, history
  <2>2. CASE local # None
    BY <1>2, <2>2, DropReturnPub DEF DeleteLocalCopy
  <2> QED
    BY <2>1, <2>2
<1>3. CASE DeleteRemote(w)
  <2>1. CASE /\ SetRemote(None)
             /\ \/ snap' = Forget(snap) /\ Return(w, TRUE)
                \/ Throw(w)
             /\ UNCHANGED <<local, seen, clock, kept, Users>>
    <3>1. published' = published /\ Content(remote') = {}
      BY <2>1 DEF SetRemote, Content
    <3>2. Entry(snap', published')
      BY <2>1, <3>1, Here, BaseFacts DEF Entry, PubInv, Throw
    <3>3. Progress
      BY <2>1, <3>1, <3>2 DEF Progress, Pub
    <3> QED
      BY <2>1, <3>3, EndPub
  <2>2. CASE Lost(w, "delete") \/ PushRefused(w, "pull")
    BY <2>2, LostPub, PushRefusedPub
  <2>3. CASE Throw(w) /\ UNCHANGED <<world, kept, history, candidate, used>>
    BY <2>3, ThrowPub
  <2> QED
    BY <1>3, <2>1, <2>2, <2>3 DEF DeleteRemote
<1>4. CASE ForgetPath(w)
  BY <1>4, Here, BaseFacts, QuietReturnPub DEF ForgetPath
<1> QED
  BY <1>1, <1>2, <1>3, <1>4

\* Neither do the paths the configuration excludes.
LEMMA NotesPub ==
    ASSUME TypeInv, PubInv, NEW w \in Workers,
           NoteNew(w) \/ DropLocal(w) \/ DropUnsynced(w) \/ NothingToDo(w)
    PROVE  PubInv'
<1>1. CASE NoteNew(w)
  <2>1. snap'.baseHash = snap.baseHash
    BY <1>1, Here DEF NoteNew, Snapshots
  <2>2. Return(w, FALSE) \/ Step(w, "dropLocal", reg[w])
    BY <1>1 DEF NoteNew
  <2> QED
    BY <1>1, <2>1, <2>2, QuietReturnPub, QuietStepPub DEF NoteNew
<1>2. CASE DropLocal(w)
  <2>1. CASE local = None
    BY <1>2, <2>1, QuietReturnPub DEF DropLocal, KeepLocal, Users, world, history
  <2>2. CASE local # None
    BY <1>2, <2>2, DropReturnPub DEF DropLocal
  <2> QED
    BY <2>1, <2>2
<1>3. CASE DropUnsynced(w)
  <2>1. CASE local = None
    BY <1>3, <2>1, ThrowPub DEF DropUnsynced, KeepLocal, Users, world, history
  <2>2. CASE local # None
    <3>1. snap'.baseHash = snap.baseHash
      BY <1>3, <2>2, Here DEF DropUnsynced, Snapshots
    <3> QED
      BY <1>3, <2>2, <3>1, DropReturnPub DEF DropUnsynced
  <2> QED
    BY <2>1, <2>2
<1>4. CASE NothingToDo(w)
  <2>1. snap'.baseHash = snap.baseHash
    BY <1>4, Here DEF NothingToDo, Snapshots
  <2> QED
    BY <1>4, <2>1, QuietReturnPub DEF NothingToDo
<1> QED
  BY <1>1, <1>2, <1>3, <1>4

\* Nor do the comparisons of a signalled path.
LEMMA VerifiesPub ==
    ASSUME TypeInv, PubInv, NEW w \in Workers, Verify(w) \/ VerifyRemote(w)
    PROVE  PubInv'
<1>1. CASE Verify(w)
  <2> DEFINE r == [reg[w] EXCEPT !.data = local, !.prior = snap.remoteHash]
  <2>1. UNCHANGED <<snap, world, kept, history, candidate, used, dirty>>
    BY <1>1 DEF Verify
  <2>2. \/ Return(w, FALSE)
        \/ \E l \in {"verifyRemote", "reconcile", "changedLocal", "changedRemote"} :
             Step(w, l, r)
    BY <1>1, Zenon DEF Verify
  <2>3. r.rem = reg[w].rem
    BY Here DEF Registers
  <2> HIDE DEF r
  <2> QED
    BY <2>1, <2>2, <2>3, QuietReturnPub, QuietStepPub
<1>2. CASE VerifyRemote(w)
  <2>1. CASE Lost(w, "get")
    BY <2>1, LostPub
  <2>2. CASE ~Lost(w, "get")
    <3>1. snap' = remoteRevision
      BY <1>2, <2>2 DEF VerifyRemote
    <3>2. snap'.baseHash = snap.baseHash
      BY <3>1, Here, RemoteRevisionFacts
    <3>3. /\ Step(w, "reconcile", reg[w]) \/ Return(w, FALSE)
          /\ UNCHANGED <<world, kept, history, candidate, used, dirty>>
      BY <1>2, <2>2 DEF VerifyRemote
    <3> QED
      BY <3>2, <3>3, QuietStepPub, QuietReturnPub
  <2> QED
    BY <2>1, <2>2
<1> QED
  BY <1>1, <1>2

\* What a pull reads was published.
LEMMA PullsPub ==
    ASSUME TypeInv, PubInv, NEW w \in Workers,
           ChangedRemote(w) \/ PullBefore(w) \/ PullGet(w) \/ PullCheck(w)
    PROVE  PubInv'
<1>1. CASE ChangedRemote(w)
  <2>1. PICK l \in {"reconcile", "pull"} : Step(w, l, reg[w])
    BY <1>1 DEF ChangedRemote
  <2> QED
    BY <1>1, <2>1, QuietStepPub DEF ChangedRemote
<1>2. CASE PullBefore(w)
  <2> DEFINE r == [reg[w] EXCEPT !.data = local, !.prior = snap.remoteHash]
  <2>1. r.rem = reg[w].rem
    BY Here DEF Registers
  <2> QED
    BY <1>2, <2>1, QuietStepPub DEF PullBefore
<1>3. CASE PullGet(w)
  <2> DEFINE r == [reg[w] EXCEPT !.rem = remote]
  <2>1. CASE Lost(w, "get")
    BY <2>1, LostPub
  <2>2. CASE Throw(w) /\ UNCHANGED <<world, kept, history, candidate, used>>
    BY <2>2, ThrowPub
  <2>3. CASE /\ remote # None
             /\ snap' = [snap EXCEPT !.remoteHash = remote.c]
             /\ Step(w, "pullCheck", r)
             /\ UNCHANGED <<world, copies, history, candidate, used, dirty>>
    <3>1. Progress
      BY <2>3, Here, BaseFacts, QuietProgress
    <3>2. r.rem = remote
      BY Here DEF Registers
    <3>3. Trace("pullCheck", r, local', published')
      BY <2>3, <3>2, Here, FileFacts DEF Trace, PubInv, history
    <3> QED
      BY <2>3, <3>1, <3>3, StepPub
  <2> QED
    BY <1>3, <2>1, <2>2, <2>3 DEF PullGet
<1>4. CASE PullCheck(w)
  <2>1. CASE localHeld(reg[w])
    BY <1>4, <2>1, QuietStepPub DEF PullCheck
  <2>2. CASE ~localHeld(reg[w])
    <3>1. snap' = [snap EXCEPT !.remoteHash = reg[w].prior]
      BY <1>4, <2>2 DEF PullCheck, Unrecorded
    <3>2. snap'.baseHash = snap.baseHash
      BY <3>1, Here, BaseFacts
    <3> QED
      BY <1>4, <2>2, <3>2, QuietReturnPub DEF PullCheck
  <2> QED
    BY <2>1, <2>2
<1> QED
  BY <1>1, <1>2, <1>3, <1>4

\* A call that writes the revision it read and makes it the base.
LEMMA WriteReturnPub ==
    ASSUME TypeInv, PubInv, NEW w \in Workers, Return(w, TRUE),
           reg[w].rem \in Files, SetLocal(reg[w].rem), snap'.baseHash = reg[w].rem.c,
           UNCHANGED <<remote, published>>
    PROVE  PubInv'
<1>1. Pub(reg[w].rem.c, published)
  BY FileFacts DEF PubInv, Trace
<1>2. Progress
  BY <1>1 DEF Progress, PubInv, Entry, SetLocal
<1> QED
  BY <1>2, EndPub

\* The local write of a pull, and that of a reconciliation.
LEMMA WritesPub ==
    ASSUME TypeInv, PubInv, NEW w \in Workers, PullWrite(w) \/ ReconcileWrite(w)
    PROVE  PubInv'
<1>1. reg[w].rem \in Files
  BY Here, RegFacts DEF PullWrite, ReconcileWrite, Ready
<1>2. reg[w].rem.c \in Contents /\ reg[w].rem.t \in Clock
  BY <1>1, FileFacts
<1>3. CASE PullWrite(w)
  <2>1. Agreed(snap, reg[w].rem.c, reg[w].rem.t, reg[w].rem.t) \in Snapshots
    BY <1>2, Here, SnapFacts
  <2>2. snap'.baseHash = reg[w].rem.c
    BY <1>3, <2>1, Here, BaseFacts DEF PullWrite
  <2> QED
    BY <1>1, <1>3, <2>2, WriteReturnPub DEF PullWrite
<1>4. CASE ReconcileWrite(w)
  <2>1. snap'.baseHash = reg[w].rem.c
    BY <1>4, Here DEF ReconcileWrite, Snapshots
  <2> QED
    BY <1>1, <1>4, <2>1, WriteReturnPub DEF ReconcileWrite
<1> QED
  BY <1>3, <1>4

\* The merge loses only what the base holds: a proposal is in the result or in
\* the base it was made from.
LEMMA MergeKeeps ==
    ASSUME NEW base, NEW proposed, NEW cur \in Files \cup {None},
           NEW result \in MergeResults(base, proposed, cur)
    PROVE  proposed \subseteq result \cup base
<1>1. CASE cur = None \/ Content(cur) \in {proposed, base}
  BY <1>1 DEF MergeResults
<1>2. CASE ~(cur = None \/ Content(cur) \in {proposed, base})
  <2>1. Merge3(base, proposed, cur.c) \subseteq result
    BY <1>2 DEF MergeResults
  <2> QED
    BY <2>1 DEF Merge3
<1> QED
  BY <1>1, <1>2

\* What the server answers with is published, and so is the proposal then.
LEMMA ServerPub ==
    ASSUME TypeInv, PubInv, NEW base, NEW proposed, NEW result \in Files,
           Pub(base, published), ServerReconciles(base, proposed, result)
    PROVE  /\ published \subseteq published'
           /\ Pub(result.c, published')
           /\ Pub(proposed, published')
           /\ Pub(Content(remote'), published')
<1>1. CASE remote # None /\ remote.c = proposed
  <2>1. result = remote /\ remote' = remote /\ published' = published
    BY <1>1 DEF ServerReconciles
  <2>2. Content(remote) = remote.c
    BY <1>1 DEF Content
  <2> QED
    BY <1>1, <2>1, <2>2 DEF PubInv
<1>2. CASE ~(remote # None /\ remote.c = proposed)
  <2>1. result.c \in MergeResults(base, proposed, remote) /\ SetRemote(result)
    BY <1>2 DEF ServerReconciles
  <2>2. proposed \subseteq result.c \cup base
    BY <2>1, MergeKeeps DEF TypeInv, WorldOK
  <2>3. /\ published' = published \cup (result.c \ {Markers})
        /\ Content(remote') = result.c
    BY <2>1, FileFacts DEF SetRemote
  <2> QED
    BY <2>2, <2>3 DEF Pub
<1> QED
  BY <1>1, <1>2

\* A reconciliation starts from a published base.
LEMMA ReconcilePub ==
    ASSUME TypeInv, PubInv, NEW w \in Workers, Reconcile(w)
    PROVE  PubInv'
<1> DEFINE r == [reg[w] EXCEPT !.data = local, !.prior = snap.baseHash]
<1>1. Progress
  BY QuietProgress DEF Reconcile
<1>2. CASE Reconciles /\ snap.baseHash # None /\ local # None
  <2>1. Step(w, "post", r)
    BY <1>2 DEF Reconcile
  <2>2. r.prior = snap.baseHash /\ r.rem = reg[w].rem
    BY Here DEF Registers
  <2>3. /\ Pub(snap.baseHash, published)
        /\ reg[w].rem # None => Pub(reg[w].rem.c, published)
    BY <1>2 DEF PubInv, Entry, Trace
  <2> HIDE DEF r
  <2>4. Trace("post", r, local', published')
    BY <1>1, <2>2, <2>3, PubGrows DEF Trace, Progress
  <2> QED
    BY <1>1, <2>1, <2>4, StepPub
<1>3. CASE ~(Reconciles /\ snap.baseHash # None /\ local # None)
  BY <1>3, QuietStepPub DEF Reconcile
<1> QED
  BY <1>2, <1>3

\* The request, answered or not.
LEMMA PostPub ==
    ASSUME TypeInv, PubInv, NEW w \in Workers, Post(w)
    PROVE  PubInv'
<1>1. UNCHANGED <<local, seen, kept, Users, snap, dirty>> /\ pc[w] = "post"
  BY DEF Post
<1>2. CASE Step(w, "resolve", reg[w]) /\ UNCHANGED <<remote, published, clock>>
  <2>1. UNCHANGED <<world, history, snap>>
    BY <1>1, <1>2 DEF world, history, Users
  <2> QED
    BY <1>2, <2>1, QuietStepPub
<1>3. ASSUME NEW result \in Files,
             ServerReconciles(reg[w].prior, reg[w].data.c, result),
             \/ Step(w, "reconciled", [reg[w] EXCEPT !.rem = result])
             \/ Step(w, "resolve", reg[w])
      PROVE  PubInv'
  <2> DEFINE r == [reg[w] EXCEPT !.rem = result]
  <2>1. Pub(reg[w].prior, published)
    BY <1>1 DEF PubInv, Trace
  <2>2. /\ published \subseteq published' /\ Pub(Content(remote'), published')
        /\ Pub(result.c, published') /\ Pub(reg[w].data.c, published')
    BY <1>3, <2>1, ServerPub
  <2>3. Entry(snap', published')
    BY <1>1, <2>2, PubGrows DEF Entry, PubInv
  <2>4. Progress
    BY <1>1, <2>2, <2>3 DEF Progress
  <2>5. CASE Step(w, "resolve", reg[w])
    BY <2>2, <2>4, <2>5, PlainTrace, StepPub
  <2>6. CASE Step(w, "reconciled", r)
    <3>1. r.rem = result /\ r.data = reg[w].data
      BY Here DEF Registers
    <3> HIDE DEF r
    <3>2. Trace("reconciled", r, local', published')
      BY <2>2, <3>1 DEF Trace
    <3> QED
      BY <2>4, <2>6, <3>2, StepPub
  <2> QED
    BY <1>3, <2>5, <2>6
<1> QED
  BY <1>2, <1>3 DEF Post

\* A retry publishes another writer's edit and records nothing.
LEMMA PostRetryPub ==
    ASSUME TypeInv, PubInv, NEW w \in Workers, PostRetry(w)
    PROVE  PubInv'
<1>1. remote \in Files /\ made < MaxEdits
  BY Here DEF PostRetry
<1>2. PICK t \in Now : SetRemote([c |-> remote.c \cup {made + 1}, t |-> t])
  BY DEF PostRetry
<1>3. [c |-> remote.c \cup {made + 1}, t |-> t] \in Files
  BY <1>1, Here, FileFacts, EditedFile
<1>4. /\ published \subseteq published'
      /\ Pub(Content(remote'), published')
  BY <1>2, <1>3, FileFacts DEF SetRemote, Pub
<1>5. Entry(snap', published')
  BY <1>4, PubGrows DEF Entry, PubInv, PostRetry
<1>6. Progress
  BY <1>4, <1>5 DEF Progress, PostRetry
<1> QED
  BY <1>6, EndPub DEF PostRetry

\* The answer, applied or not: the base it leaves was proposed to the server.
LEMMA ReconciledPub ==
    ASSUME TypeInv, PubInv, NEW w \in Workers, Reconciled(w)
    PROVE  PubInv'
<1>1. Pub(reg[w].data.c, published)
  BY DEF PubInv, Trace, Reconciled
<1>2. UNCHANGED <<world, history>>
  BY DEF Reconciled
<1>3. CASE local # None /\ local.c = reg[w].data.c
  BY <1>2, <1>3, QuietStepPub DEF Reconciled
<1>4. CASE ~(local # None /\ local.c = reg[w].data.c)
  <2>1. snap' = [snap EXCEPT !.baseHash = reg[w].data.c]
    BY <1>4 DEF Reconciled, localAdvanced
  <2>2. snap'.baseHash = reg[w].data.c
    BY <2>1, Here, BaseFacts
  <2>3. Progress
    BY <1>1, <1>2, <2>2 DEF Progress, Entry, PubInv, world, history
  <2>4. Return(w, TRUE)
    BY <1>4 DEF Reconciled
  <2> QED
    BY <2>3, <2>4, EndPub
<1> QED
  BY <1>3, <1>4

\* The resolver finds equal bytes, or a revision of the server to work on.
LEMMA ResolveGetPub ==
    ASSUME TypeInv, PubInv, NEW w \in Workers, ResolveGet(w)
    PROVE  PubInv'
<1> DEFINE r == [reg[w] EXCEPT !.rem = remote]
           s == [snap EXCEPT !.remoteHash = remote.c]
<1>1. CASE Lost(w, "get")
  BY <1>1, LostPub
<1>2. CASE Throw(w) /\ UNCHANGED <<world, kept, history, candidate, used>>
  BY <1>2, ThrowPub
<1>3. CASE /\ remote # None
           /\ IF remote.c = reg[w].data.c
              THEN /\ snap' = [s EXCEPT !.files = <<reg[w].data.t, remote.t>>]
                   /\ Step(w, "resolverBase", reg[w])
              ELSE snap' = s /\ Step(w, "copyCheck", r)
           /\ UNCHANGED <<world, kept, history, candidate, used, dirty>>
           /\ pc[w] = "resolveGet"
  <2>1. remote \in Files
    BY <1>3, Here
  <2>2. s \in Snapshots /\ s.baseHash = snap.baseHash
    BY <2>1, Here, FileFacts, SnapFacts, BaseFacts
  <2>3. Pub(remote.c, published)
    BY <2>1, FileFacts DEF PubInv
  <2>4. UNCHANGED <<local, published, world, history>>
    BY <1>3 DEF world, history
  <2>5. CASE remote.c = reg[w].data.c
    <3>0. snap' = [s EXCEPT !.files = <<reg[w].data.t, remote.t>>]
      BY <1>3, <2>5
    <3> HIDE DEF s
    <3>1. Progress
      <4>1. snap'.baseHash = s.baseHash
        BY <2>2, <3>0, BaseFacts
      <4> QED
        BY <2>2, <2>4, <4>1, QuietProgress
    <3>2. Trace("resolveGet", reg[w], local, published)
      BY <1>3 DEF PubInv
    <3>3. Trace("resolverBase", reg[w], local', published')
      BY <2>3, <2>4, <2>5, <3>2 DEF Trace
    <3> QED
      BY <1>3, <2>5, <3>1, <3>3, StepPub
  <2>6. CASE remote.c # reg[w].data.c
    <3>1. Progress
      BY <1>3, <2>2, <2>4, <2>6, QuietProgress
    <3>2. r.rem = remote
      BY Here DEF Registers
    <3>3. Trace("copyCheck", r, local', published')
      BY <2>3, <2>4, <3>2 DEF Trace
    <3> QED
      BY <1>3, <2>6, <3>1, <3>3, StepPub
  <2> QED
    BY <2>5, <2>6
<1> QED
  BY <1>1, <1>2, <1>3 DEF ResolveGet

\* The conflict copies.
LEMMA CopiesPub ==
    ASSUME TypeInv, PubInv, NEW w \in Workers, CopyCheck(w) \/ CopyPut(w)
    PROVE  PubInv'
<1>1. CASE CopyCheck(w)
  <2> DEFINE l == IF reg[w].rem.c \in copies.secondary THEN "resolveCheck" ELSE "copyPut"
             r == [reg[w] EXCEPT !.ops = reg[w].rem.c \notin copies.primary]
  <2>1. CASE Lost(w, "copyMeta")
    BY <2>1, LostPub
  <2>2. CASE Step(w, l, r) /\ UNCHANGED <<world, history, snap>>
    <3>1. r.rem = reg[w].rem
      BY Here DEF Registers
    <3>2. l \in {"resolveCheck", "copyPut"}
      OBVIOUS
    <3> HIDE DEF l, r
    <3> QED
      BY <2>2, <3>1, <3>2, QuietStepPub
  <2> QED
    BY <1>1, <2>1, <2>2 DEF CopyCheck
<1>2. CASE CopyPut(w)
  <2> DEFINE r == [reg[w] EXCEPT !.ops = TRUE]
  <2>1. CASE Lost(w, "copyPut")
    BY <2>1, LostPub
  <2>2. CASE Throw(w) /\ UNCHANGED <<world, history>>
    BY <2>2, ThrowPub
  <2>3. CASE /\ snap' = [snap EXCEPT !.others = TRUE]
             /\ Step(w, "resolveCheck", r)
             /\ UNCHANGED <<world, history>>
    <3>1. r.rem = reg[w].rem
      BY Here DEF Registers
    <3>2. snap'.baseHash = snap.baseHash
      BY <2>3, Here DEF Snapshots
    <3> QED
      BY <2>3, <3>1, <3>2, QuietStepPub
  <2> QED
    BY <1>2, <2>1, <2>2, <2>3 DEF CopyPut
<1> QED
  BY <1>1, <1>2

\* The recheck is what ties the local copy to the bytes about to be pushed.
LEMMA ResolveCheckPub ==
    ASSUME TypeInv, PubInv, NEW w \in Workers, ResolveCheck(w)
    PROVE  PubInv'
<1>1. UNCHANGED <<world, history>>
  BY DEF ResolveCheck
<1>2. CASE local # None /\ local.c = reg[w].data.c
  <2>1. Step(w, "resolvePut", reg[w]) /\ snap' = snap
    BY <1>2 DEF ResolveCheck
  <2>2. Progress
    BY <1>1, <2>1, QuietProgress
  <2>3. reg[w].rem # None => Pub(reg[w].rem.c, published)
    BY DEF PubInv, Trace
  <2>4. Trace("resolvePut", reg[w], local', published')
    BY <1>1, <1>2, <2>3 DEF Trace, world, history
  <2> QED
    BY <2>1, <2>2, <2>4, StepPub
<1>3. CASE ~(local # None /\ local.c = reg[w].data.c)
  <2>1. snap' = [snap EXCEPT !.files = None] /\ Return(w, reg[w].ops)
    BY <1>3 DEF ResolveCheck
  <2>2. snap'.baseHash = snap.baseHash
    BY <2>1, Here, BaseFacts
  <2> QED
    BY <1>1, <2>1, <2>2, QuietReturnPub
<1> QED
  BY <1>2, <1>3

\* The push of the resolver publishes the local copy.
LEMMA ResolvePutPub ==
    ASSUME TypeInv, PubInv, NEW w \in Workers, ResolvePut(w)
    PROVE  PubInv'
<1> DEFINE data == reg[w].data
           r == [reg[w] EXCEPT !.ops = TRUE]
<1>0. data \in Files /\ Trace("resolvePut", reg[w], local, published)
  BY Here, RegFacts DEF ResolvePut, Ready, PubInv
<1>1. CASE Lost(w, "put") \/ Rejected(w)
  BY <1>1, LostPub, RejectedPub
<1>2. ASSUME NEW t \in Now, SetRemote([c |-> data.c, t |-> t]),
             \/ snap' = Resolved(data, t) /\ Step(w, "resolverBase", r)
             \/ Throw(w),
             UNCHANGED <<local, seen, kept, Users>>
      PROVE  PubInv'
  <2>1. [c |-> data.c, t |-> t] \in Files
    BY <1>0, FileFacts DEF Files, Now
  <2>2. /\ published \subseteq published' /\ Pub(data.c, published')
        /\ Pub(Content(remote'), published')
    BY <1>2, <2>1, FileFacts DEF SetRemote, Pub
  <2>3. snap'.baseHash = snap.baseHash
    BY <1>2, Here DEF Resolved, Snapshots, Throw
  <2>4. Progress
    BY <1>2, <2>2, <2>3, PubGrows DEF Progress, Entry, PubInv
  <2>5. CASE Throw(w)
    BY <2>4, <2>5, EndPub
  <2>6. CASE Step(w, "resolverBase", r)
    <3>1. r.rem = reg[w].rem
      BY Here DEF Registers
    <3> HIDE DEF r
    <3>2. \A c : Pub(c, published) => Pub(c, published')
      BY <2>2, PubGrows
    <3>3. Trace("resolverBase", r, local', published')
      BY <1>0, <1>2, <2>2, <3>1, <3>2 DEF Trace
    <3> QED
      BY <2>4, <2>6, <3>3, StepPub
  <2> QED
    BY <1>2, <2>5, <2>6
<1>3. CASE /\ snap' = [snap EXCEPT !.files = None, !.remoteHash = None]
           /\ Return(w, reg[w].ops)
           /\ UNCHANGED <<world, kept, history, candidate, used, dirty>>
  <2>1. snap'.baseHash = snap.baseHash
    BY <1>3, Here DEF Snapshots
  <2> QED
    BY <1>3, <2>1, QuietReturnPub
<1> QED
  BY <1>1, <1>2, <1>3 DEF ResolvePut

\* The base captured after it is the local copy of then.
LEMMA ResolverBasePub ==
    ASSUME TypeInv, PubInv, NEW w \in Workers, ResolverBase(w)
    PROVE  PubInv'
<1>1. local = None \/ Pub(local.c, published)
  BY DEF PubInv, Trace, ResolverBase
<1>2. UNCHANGED <<world, history>> /\ Return(w, reg[w].ops)
  BY DEF ResolverBase
<1>3. CASE local # None /\ snap.files # None
  <2>1. snap'.baseHash = local.c
    BY <1>3, Here, BaseFacts DEF ResolverBase
  <2>2. Progress
    BY <1>1, <1>2, <1>3, <2>1 DEF Progress, Entry, PubInv, world, history
  <2> QED
    BY <1>2, <2>2, EndPub
<1>4. CASE ~(local # None /\ snap.files # None)
  BY <1>2, <1>4, QuietReturnPub DEF ResolverBase
<1> QED
  BY <1>3, <1>4

-----------------------------------------------------------------------------
(* Everyone else, and the theorem.                                         *)

\* Steps that leave every call where it is and do not write the local copy,
\* or only delete it.
LEMMA OutsidePub ==
    ASSUME PubInv, Progress, UNCHANGED <<pc, reg>>,
           local' = local \/ local' = None \/ Pub(local'.c, published'),
           disk' = disk \/ disk' = snap
    PROVE  PubInv'
<1>1. Entry(disk', published')
  BY PubGrows DEF Entry, PubInv, Progress
<1>2. ASSUME NEW v \in Workers PROVE Trace(pc'[v], reg'[v], local', published')
  <2>1. Trace(pc[v], reg[v], local, published)
    BY DEF PubInv
  <2>2. Trace(pc[v], reg[v], local', published')
    BY <2>1, TraceStays DEF Progress
  <2> QED
    BY <2>2
<1> QED
  BY <1>1, <1>2 DEF PubInv, Progress

\* A save lands where no call trusts the local copy.
LEMMA SaveLocalPub ==
    ASSUME TypeInv, PubInv, SaveLocal,
           Windows \cap {"resolveGet", "resolvePut", "resolverBase"} = {}
    PROVE  PubInv'
<1>1. UNCHANGED <<remote, published, snap, disk, pc, reg>>
  BY DEF SaveLocal
<1>2. ASSUME NEW v \in Workers PROVE Trace(pc'[v], reg'[v], local', published')
  <2>1. Trace(pc[v], reg[v], local, published)
    BY DEF PubInv
  <2>2. pc[v] \notin {"resolveGet", "resolvePut", "resolverBase"}
    BY DEF SaveLocal, Gaps
  <2> QED
    BY <1>1, <2>1, <2>2 DEF Trace
<1> QED
  BY <1>1, <1>2 DEF PubInv

\* What other clients save, they publish.
LEMMA OthersPub ==
    ASSUME TypeInv, PubInv, SaveRemote \/ DeleteLocal \/ DeleteRemotely
    PROVE  PubInv'
<1>1. CASE SaveRemote
  <2>1. PICK t \in Now : SetRemote([c |-> Content(remote) \cup {made + 1}, t |-> t])
    BY <1>1 DEF SaveRemote
  <2>2. Content(remote) \in Contents
    BY CopyFacts DEF TypeInv, WorldOK
  <2>3. [c |-> Content(remote) \cup {made + 1}, t |-> t] \in Files
    BY <1>1, <2>2, EditedFile DEF TypeInv, SaveRemote
  <2>4. published \subseteq published' /\ Pub(Content(remote'), published')
    BY <2>1, <2>3, FileFacts DEF SetRemote, Pub
  <2>5. Progress
    BY <1>1, <2>4, PubGrows DEF Progress, Entry, PubInv, SaveRemote
  <2> QED
    BY <1>1, <2>5, OutsidePub DEF SaveRemote
<1>2. CASE DeleteLocal
  <2>1. Progress
    BY <1>2 DEF Progress, Entry, PubInv, DeleteLocal, SetLocal, engine
  <2> QED
    BY <1>2, <2>1, OutsidePub DEF DeleteLocal, SetLocal, engine
<1>3. CASE DeleteRemotely
  <2>1. published' = published /\ Content(remote') = {}
    BY <1>3 DEF DeleteRemotely, SetRemote, Content
  <2>2. Progress
    BY <1>3, <2>1 DEF Progress, Entry, PubInv, Pub, DeleteRemotely
  <2> QED
    BY <1>3, <2>2, OutsidePub DEF DeleteRemotely
<1> QED
  BY <1>1, <1>2, <1>3

\* Configuration, other paths, restarts.
LEMMA EnginePub ==
    ASSUME TypeInv, PubInv,
           \/ SetSyncConfig \/ OtherPathSynced \/ Crash
           \/ \E w \in Workers : OtherPathFails(w)
    PROVE  PubInv'
<1>1. CASE SetSyncConfig
  BY <1>1 DEF SetSyncConfig, PubInv, Entry, world, engine, history
<1>2. CASE OtherPathSynced \/ \E w \in Workers : OtherPathFails(w)
  BY <1>2 DEF OtherPathSynced, OtherPathFails, PubInv, Entry, world, history
<1>3. CASE Crash
  <2>1. \A v \in Workers : Trace(pc'[v], reg'[v], local', published')
    BY <1>3 DEF Crash, Restart, Trace, Blank
  <2> QED
    BY <1>3, <2>1 DEF Crash, Restart, PubInv, Entry
<1> QED
  BY <1>1, <1>2, <1>3

\* A kill: what it wrote to the server is published.
LEMMA KilledPub ==
    ASSUME TypeInv, PubInv, NEW w \in Workers, Killed(w)
    PROVE  PubInv'
<1>1. \A v \in Workers : Trace(pc'[v], reg'[v], local', published')
  BY KilledWrites DEF Restart, Trace, Blank
<1>2. published \subseteq published' /\ Pub(Content(remote'), published')
  <2>1. CASE UNCHANGED <<remote, published>>
    BY <2>1 DEF PubInv
  <2>2. CASE \E f \in Files \cup {None} : SetRemote(f)
    BY <2>2 DEF SetRemote, Pub
  <2> QED
    BY <2>1, <2>2, KilledWrites
<1>3. Entry(disk, published') /\ snap' = disk /\ disk' = disk
  BY <1>2, PubGrows, KilledWrites DEF Restart, PubInv, Entry
<1> QED
  BY <1>1, <1>2, <1>3 DEF PubInv

\* Every step of a cycle.
LEMMA SyncStepPub ==
    ASSUME TypeInv, PubInv, NEW w \in Workers, SyncStep(w)
    PROVE  PubInv'
<1>1. CASE Pushes(w)
  BY <1>1, ReadsPub, RevisionsPub, PutsPub DEF Pushes
<1>2. CASE Deletes(w)
  BY <1>2, RevisionsPub, DeletesPub DEF Deletes
<1>3. CASE Notes(w)
  BY <1>3, NotesPub, VerifiesPub DEF Notes
<1>4. CASE Pulls(w)
  BY <1>4, PullsPub, WritesPub DEF Pulls
<1>5. CASE Merges(w)
  BY <1>5, ReconcilePub, PostPub, PostRetryPub, ReconciledPub, WritesPub DEF Merges
<1>6. CASE Resolves(w)
  BY <1>6, ReadsPub, ResolveGetPub, CopiesPub, ResolveCheckPub, ResolvePutPub,
     ResolverBasePub DEF Resolves
<1> QED
  BY <1>1, <1>2, <1>3, <1>4, <1>5, <1>6, ClassifyPub, CyclesPub DEF SyncStep

\* At the start the base is the common revision or nothing.
LEMMA InitPub == Init => PubInv
<1> SUFFICES ASSUME Init PROVE PubInv
  OBVIOUS
<1>1. PICK situation \in Starts : InitStore(situation)
  BY DEF Init
<1>2. Content(remote) = {}
  BY <1>1 DEF InitStore, Original, Content
<1>3. PICK others \in Others :
        snap = CASE situation = "synced" -> Agreed(Fresh(others), {}, 1, 1)
                 [] situation = "upgraded" -> [Fresh(others) EXCEPT !.files = <<1, 1>>]
                 [] OTHER -> Fresh(others)
  BY <1>1 DEF InitStore
<1>4. snap.baseHash \in {None, {}} /\ disk = snap
  BY <1>1, <1>3 DEF InitStore, Fresh, Agreed
<1>5. \A w \in Workers : Trace(pc[w], reg[w], local, published)
  BY DEF Init, Trace, Blank
<1> QED
  BY <1>2, <1>4, <1>5 DEF PubInv, Entry, Pub

\* Every step of the system.
LEMMA NextPub ==
    ASSUME TypeInv, PubInv, [Next]_vars,
           Windows \cap {"resolveGet", "resolvePut", "resolverBase"} = {}
    PROVE  PubInv'
<1>1. CASE UNCHANGED vars
  BY <1>1 DEF PubInv, Entry, vars, world, engine, history
<1>2. ASSUME NEW w \in Workers,
             \/ StartScan(w) \/ Take(w) \/ SyncStep(w) \/ OtherPathFails(w)
             \/ Killed(w)
      PROVE  PubInv'
  BY <1>2, CyclesPub, SyncStepPub, EnginePub, KilledPub
<1>3. CASE Environment
  BY <1>3, SaveLocalPub, OthersPub, EnginePub DEF Environment
<1> QED
  BY <1>1, <1>2, <1>3 DEF Next

\* The merge base names no edit the server has not held (captureBase,
\* localAdvanced), as long as no save lands between the reads of the conflict
\* resolver and the base it captures: for every number of concurrent cycles,
\* with failing requests, restarts and reconfigurations.
THEOREM BasePublished ==
    ASSUME Windows \cap {"resolveGet", "resolvePut", "resolverBase"} = {}
    PROVE  Spec => []BaseIsPublished
<1>1. Init => TypeInv /\ PubInv
  BY InitType, InitPub
<1>2. TypeInv /\ PubInv /\ [Next]_vars => TypeInv' /\ PubInv'
  BY NextType, NextPub
<1>3. TypeInv /\ PubInv => BaseIsPublished
  BY DEF PubInv, Entry, Pub, BaseIsPublished
<1> QED
  BY <1>1, <1>2, <1>3, PTL DEF Spec

-----------------------------------------------------------------------------
(* Recorded revisions.  What the engine records of the server is content   *)
(* this replica held, or has put aside; the delete or push that states it  *)
(* later relies on that.  It is recorded earlier than it is held (a pull   *)
(* records what it reads, the resolver too), so the invariant follows the  *)
(* call that is under way, of which there is one.                          *)

\* Nothing else saves the snapshot or starts a cycle while a call works on the
\* path, or the worker is never restarted and there is only one call.
OneCycle == OtherPaths => MaxCrashes = 0 /\ \A v, w \in Workers : v = w

\* No snapshot entry is without a revision, and the resolver is not stopped
\* between reading a revision and putting it aside.
Recording == "upgraded" \notin Starts /\ Faults \cap {"copyMeta", "putAnswer"} = {}

\* Conflict copies count where the resolver may fail after it put them aside.
Aside == IF Faults \cap {"put", "copyPut"} = {} THEN {} ELSE Kept

\* The conditions under which no edit is lost.
Careful ==
    /\ OneCycle /\ Recording
    /\ Windows = {}
    /\ MaxReconfigs = 0
    /\ Others \subseteq {TRUE}

\* What is out of harm's way.
Stored == dropped \cup Kept

\* Where the edits of a recorded revision are that are not in the local copy:
\* with those that users deleted, unless the worker is killed between a write of
\* the local copy and the snapshot that says so.  Then they may be in a copy put
\* aside as well, or anywhere.
Lasting ==
    IF Kills \cap LocalWrites = {} THEN dropped
    ELSE IF Careful THEN Stored ELSE seen

\* Edits the local copy held, which are still there or lasting.
Had == seen \cap (Lasting \cup Content(local))

\* What a recorded revision consists of, and what one consists of while the
\* local copy is missing.
Vouch == Aside \cup Had
Gone == Aside \cup (seen \cap Lasting)

\* The entry s may record the revision c.
Vouched(s, c, k) == s.files # None /\ ~s.nonSynced => c # None /\ Pub(c, k)

Sound(s, k) == Vouched(s, s.remoteHash, k)

Resolving == {"copyCheck", "copyPut", "resolveCheck", "resolvePut"}
Reading == {"pullCheck", "pullWrite"} \cup Resolving

Holding == {"putNew", "putRecreate", "revisionForPush", "putChanged", "verifyRemote",
            "post", "reconciled", "resolveGet"} \cup Resolving

\* A call at l with the locals r and the snapshot s; k, g, h, cs are Vouch,
\* Gone, Had and the conflict copies.
Holds(l, r, s, k, g, h, cs) ==
    /\ l \notin Reading => Sound(s, k)
    /\ l \in Reading => s.remoteHash = r.rem.c
    /\ l \in {"pullCheck", "pullWrite"} => Vouched(s, r.prior, k)
    /\ l \in Resolving \ {"copyCheck"} => r.rem.c \in cs
    /\ l \in Holding => Pub(r.data.c, h)
    /\ l \in {"secondary", "classify"} /\ r.pm = None => Sound(s, g)
    /\ l = "deleteRemote" => r.pre.type = "matchesHash" /\ Pub(r.pre.hash, g)
    /\ l \in {"changedLocal", "verify"} => s.files # None
    /\ l \in {"revisionForPush", "verifyRemote", "dropLocal"} => s.nonSynced
    /\ l = "deleteLocal" => s.files = None
    /\ l = "pullGet" => r.prior = s.remoteHash
    /\ l # "revisionForDelete"

HeldInv ==
    /\ Pub(Content(local), seen)
    /\ ~OtherPaths => Sound(disk, Vouch)
    /\ syncing = None => Sound(snap, Vouch)
    /\ \A w \in Workers :
         /\ pc[w] # "idle" <=> syncing = w
         /\ syncing = w => Holds(pc[w], reg[w], snap, Vouch, Gone, Had, copies.primary)

\* What users and requests do to it.
Grows ==
    /\ Vouch \subseteq Vouch' /\ Gone \subseteq Gone' /\ Had \subseteq Had'
    /\ copies.primary \subseteq copies.primary'
    /\ Pub(Content(local'), seen')

\* Sound entries stay sound.
LEMMA VouchedGrows ==
    ASSUME NEW s, NEW c, NEW k, NEW q, k \subseteq q, Vouched(s, c, k)
    PROVE  Vouched(s, c, q)
  BY DEF Vouched, Pub

\* A call that waits is not disturbed.
LEMMA HoldsGrows ==
    ASSUME NEW l, NEW r, NEW s, NEW k, NEW g, NEW h, NEW cs,
           NEW k2, NEW g2, NEW h2, NEW cs2,
           k \subseteq k2, g \subseteq g2, h \subseteq h2, cs \subseteq cs2,
           Holds(l, r, s, k, g, h, cs)
    PROVE  Holds(l, r, s, k2, g2, h2, cs2)
<1>1. \A c : (Pub(c, k) => Pub(c, k2)) /\ (Pub(c, g) => Pub(c, g2))
                /\ (Pub(c, h) => Pub(c, h2))
  BY DEF Pub
<1>2. \A c : (Vouched(s, c, k) => Vouched(s, c, k2)) /\ (Vouched(s, c, g) => Vouched(s, c, g2))
  BY <1>1 DEF Vouched
<1>3. r.rem.c \in cs => r.rem.c \in cs2
  OBVIOUS
<1> QED
  BY <1>1, <1>2, <1>3 DEF Holds, Sound

\* What lasts, lasts.
LEMMA LastingGrows ==
    ASSUME dropped \subseteq dropped', seen \subseteq seen', Kept \subseteq Kept'
    PROVE  Lasting \subseteq Lasting' /\ seen \cap dropped \subseteq Lasting
  BY DEF Lasting, Stored

\* Steps that leave the local copy alone and keep what was put aside.
LEMMA KeepGrows ==
    ASSUME HeldInv, UNCHANGED <<local, seen, dropped>>, safety \subseteq safety',
           copies.primary \subseteq copies.primary', copies.secondary \subseteq copies.secondary'
    PROVE  Grows
<1>1. Kept \subseteq Kept'
  BY DEF Kept
<1>2. Aside \subseteq Aside'
  BY <1>1 DEF Aside
<1>3. Had \subseteq Had' /\ seen \cap Lasting \subseteq (seen \cap Lasting)'
  BY <1>1, LastingGrows DEF Had
<1>4. Vouch \subseteq Vouch' /\ Gone \subseteq Gone'
  BY <1>2, <1>3 DEF Vouch, Gone
<1> QED
  BY <1>3, <1>4 DEF Grows, HeldInv

\* The usual case.
LEMMA SameGrows ==
    ASSUME HeldInv, UNCHANGED <<local, seen, dropped, kept>>
    PROVE  Grows
  BY KeepGrows DEF kept

\* How the sets are related.
LEMMA VouchFacts ==
    ASSUME TypeInv, HeldInv
    PROVE  /\ Had \subseteq Vouch
           /\ Pub(Content(local), Had)
           /\ local = None => Vouch \subseteq Gone
           /\ Faults \cap {"put", "copyPut"} # {} =>
                \A c \in copies.primary : Pub(c, Vouch)
<1>1. Had \subseteq Vouch /\ (Faults \cap {"put", "copyPut"} # {} => Kept \subseteq Vouch)
  BY DEF Vouch, Aside
<1>2. Pub(Content(local), Had)
  BY DEF HeldInv, Pub, Had
<1>3. local = None => Vouch \subseteq Gone
  BY DEF Vouch, Gone, Had, Content
<1>4. \A c \in copies.primary : c \subseteq Kept
  BY DEF Kept
<1>5. Faults \cap {"put", "copyPut"} # {} => \A c \in copies.primary : Pub(c, Vouch)
  BY <1>1, <1>4 DEF Pub
<1> QED
  BY <1>1, <1>2, <1>3, <1>5

\* The call that is under way.
LEMMA Mine ==
    ASSUME TypeInv, HeldInv, NEW w \in Workers, pc[w] # "idle"
    PROVE  /\ syncing = w /\ w # None
           /\ Holds(pc[w], reg[w], snap, Vouch, Gone, Had, copies.primary)
           /\ \A v \in Workers : v # w => pc[v] = "idle"
  BY UndefinedAssumption DEF HeldInv

\* It goes on at l with the locals r, or ends.
LEMMA CallHeld ==
    ASSUME TypeInv, HeldInv, NEW w \in Workers, pc[w] # "idle", NEW l, NEW r,
           pc' = [pc EXCEPT ![w] = l], reg' = [reg EXCEPT ![w] = r],
           syncing' = IF l = "idle" THEN None ELSE w,
           Pub(Content(local'), seen'),
           l = "idle" => Sound(snap', Vouch'),
           l # "idle" => Holds(l, r, snap', Vouch', Gone', Had', copies'.primary),
           ~OtherPaths => Sound(disk', Vouch')
    PROVE  HeldInv'
<1>1. w # None /\ \A v \in Workers : v # w => pc[v] = "idle"
  BY Mine
<1>2. \A v \in Workers : v # w => pc'[v] = "idle" /\ syncing' # v
  BY <1>1, UndefinedAssumption DEF TypeInv, EngineOK
<1>3. pc'[w] = l /\ reg'[w] = r
  BY DEF TypeInv, EngineOK
<1>4. ASSUME NEW v \in Workers
      PROVE  /\ pc'[v] # "idle" <=> syncing' = v
             /\ syncing' = v => Holds(pc'[v], reg'[v], snap', Vouch', Gone', Had', copies'.primary)
  <2>1. CASE v = w
    BY <1>1, <1>3, <2>1
  <2>2. CASE v # w
    BY <1>2, <2>2
  <2> QED
    BY <2>1, <2>2
<1>5. syncing' = None => Sound(snap', Vouch')
  BY <1>1
<1> QED
  BY <1>4, <1>5 DEF HeldInv

\* It goes on.
LEMMA StepHeld ==
    ASSUME TypeInv, HeldInv, NEW w \in Workers, pc[w] # "idle", NEW l, NEW r, l # "idle",
           Step(w, l, r), Grows,
           Holds(l, r, snap', Vouch', Gone', Had', copies'.primary)
    PROVE  HeldInv'
<1>1. /\ pc' = [pc EXCEPT ![w] = l] /\ reg' = [reg EXCEPT ![w] = r]
      /\ disk' = disk /\ syncing' = w
  BY Mine DEF Step, Goto
<1>2. ~OtherPaths => Sound(disk', Vouch')
  BY <1>1, VouchedGrows DEF HeldInv, Grows, Sound
<1> QED
  BY <1>1, <1>2, CallHeld DEF Grows

\* It returns or throws.
LEMMA EndHeld ==
    ASSUME TypeInv, HeldInv, NEW w \in Workers, pc[w] # "idle", NEW ops \in BOOLEAN,
           Return(w, ops) \/ Abort(w), Sound(snap', Vouch'),
           Pub(Content(local'), seen'),
           Grows \/ disk' = snap'
    PROVE  HeldInv'
<1>1. syncing = w
  BY Mine
<1>2. ~OtherPaths => Sound(disk', Vouch')
  <2>1. disk' = disk \/ disk' = snap'
    BY DEF Return, Abort
  <2>2. ~OtherPaths /\ Grows => Sound(disk, Vouch')
    BY VouchedGrows DEF HeldInv, Grows, Sound
  <2> QED
    BY <2>1, <2>2
<1>3. CASE Return(w, ops)
  <2> DEFINE l == IF reg[w].scan /\ syncing = w THEN "tail" ELSE "idle"
             r == [Blank EXCEPT !.scan = reg[w].scan /\ syncing = w]
  <2>1. pc' = [pc EXCEPT ![w] = l] /\ reg' = [reg EXCEPT ![w] = r]
    BY <1>3 DEF Return, Goto
  <2>2. l \in {"tail", "idle"} /\ syncing' = IF l = "idle" THEN None ELSE w
    BY <1>1, <1>3 DEF Return
  <2> HIDE DEF l, r
  <2>3. l # "idle" => Holds(l, r, snap', Vouch', Gone', Had', copies'.primary)
    BY <2>2 DEF Holds, Reading, Resolving, Holding
  <2> QED
    BY <1>2, <2>1, <2>2, <2>3, CallHeld
<1>4. CASE Abort(w)
  <2>1. /\ pc' = [pc EXCEPT ![w] = "idle"] /\ reg' = [reg EXCEPT ![w] = Blank]
        /\ syncing' = None
    BY <1>1, <1>4 DEF Abort, Goto
  <2> QED
    BY <1>2, <2>1, CallHeld
<1> QED
  BY <1>3, <1>4

\* Outside of a pull and the resolver the entry is sound.
LEMMA SoundHere ==
    ASSUME TypeInv, HeldInv, NEW w \in Workers, pc[w] \notin Reading \cup {"idle"}
    PROVE  Sound(snap, Vouch)
  BY Mine DEF Holds

\* It throws where the entry is sound.
LEMMA ThrowHeld ==
    ASSUME TypeInv, HeldInv, NEW w \in Workers, pc[w] # "idle", Throw(w),
           UNCHANGED <<local, seen, dropped, kept>>, Sound(snap, Vouch)
    PROVE  HeldInv'
<1>1. Grows
  BY SameGrows
<1>2. Abort(w) /\ snap' = snap
  BY DEF Throw
<1>3. Sound(snap', Vouch')
  BY <1>1, <1>2, VouchedGrows DEF Grows, Sound
<1> QED
  BY <1>1, <1>2, <1>3, EndHeld DEF Grows

\* A request fails there.
LEMMA LostHeld ==
    ASSUME TypeInv, HeldInv, NEW w \in Workers, pc[w] # "idle", NEW q, Lost(w, q),
           Sound(snap, Vouch)
    PROVE  HeldInv'
  BY ThrowHeld DEF Lost, Users, world

\* It returns without touching the local copy.
LEMMA QuietReturnHeld ==
    ASSUME TypeInv, HeldInv, NEW w \in Workers, pc[w] # "idle", NEW ops \in BOOLEAN,
           Return(w, ops), UNCHANGED <<local, seen, dropped, kept>>, Sound(snap', Vouch)
    PROVE  HeldInv'
<1>1. Grows
  BY SameGrows
<1>2. Sound(snap', Vouch')
  BY <1>1, VouchedGrows DEF Grows, Sound
<1> QED
  BY <1>1, <1>2, EndHeld DEF Grows

Plain == {"newLocal", "pull", "noteNew", "forget", "recreate", "deletedRemote",
          "changedRemote", "unwanted", "unsynced", "note", "done", "reconcile", "resolve",
          "reconcileWrite", "resolverBase"}

\* It goes on to a step that needs nothing but a sound entry.
LEMMA PlainStepHeld ==
    ASSUME TypeInv, HeldInv, NEW w \in Workers, pc[w] # "idle", NEW l \in Plain, NEW r,
           Step(w, l, r), Grows, Sound(snap', Vouch)
    PROVE  HeldInv'
<1>1. Sound(snap', Vouch')
  BY VouchedGrows DEF Grows, Sound
<1>2. Holds(l, r, snap', Vouch', Gone', Had', copies'.primary) /\ l # "idle"
  BY <1>1 DEF Holds, Plain, Reading, Resolving, Holding
<1> QED
  BY <1>2, StepHeld

-----------------------------------------------------------------------------
(* One lemma per action, or per group of actions.                          *)

\* The fields of an entry that matter, after each change of it.
LEMMA EntryFacts ==
    ASSUME NEW s \in Snapshots
    PROVE  /\ NoEntry(s).files = None /\ Forget(s).files = None
           /\ \A h : /\ [s EXCEPT !.remoteHash = h].files = s.files
                     /\ [s EXCEPT !.remoteHash = h].nonSynced = s.nonSynced
                     /\ [s EXCEPT !.remoteHash = h].remoteHash = h
           /\ \A h : /\ [s EXCEPT !.baseHash = h].files = s.files
                     /\ [s EXCEPT !.baseHash = h].nonSynced = s.nonSynced
                     /\ [s EXCEPT !.baseHash = h].remoteHash = s.remoteHash
           /\ \A x : /\ [s EXCEPT !.files = x].files = x
                     /\ [s EXCEPT !.files = x].remoteHash = s.remoteHash
           /\ \A c, tl, tr : Agreed(s, c, tl, tr).remoteHash = c
<1>1. NoEntry(s).files = None /\ Forget(s).files = None
  BY DEF Snapshots, NoEntry, Forget
<1>2. \A c, tl, tr : Agreed(s, c, tl, tr).remoteHash = c
  BY DEF Snapshots, Agreed
<1> QED
  BY <1>1, <1>2 DEF Snapshots

\* A cycle begins while no call is under way.
LEMMA BeginHeld ==
    ASSUME TypeInv, HeldInv, NEW w \in Workers, NEW scan, NEW signal, syncing = None,
           Begin(w, scan, signal), UNCHANGED <<world, kept, history, snap, disk>>
    PROVE  HeldInv'
<1> DEFINE r == [Blank EXCEPT !.scan = scan, !.signal = signal, !.pm = Meta(local)]
<1>1. \A v \in Workers : pc[v] = "idle" /\ v # None
  BY UndefinedAssumption DEF HeldInv
<1>2. /\ pc' = [pc EXCEPT ![w] = "secondary"] /\ reg' = [reg EXCEPT ![w] = r]
      /\ syncing' = w
  BY DEF Begin, Goto
<1>3. UNCHANGED <<local, seen, dropped, kept, copies, snap, disk>>
  BY DEF world, history, kept
<1>4. Grows
  BY <1>3, SameGrows
<1>5. Sound(snap, Vouch)
  BY DEF HeldInv
<1>6. r.pm = None => Sound(snap, Gone)
  <2>1. r.pm = Meta(local)
    BY DEF Blank
  <2>2. Meta(local) = None => local = None
    <3>1. \A m \in Metas : m # None
      BY UndefinedAssumption DEF Metas
    <3> QED
      BY <3>1, FileFacts DEF TypeInv, WorldOK
  <2>3. local = None => Sound(snap, Gone)
    BY <1>5, VouchFacts, VouchedGrows DEF Sound
  <2> HIDE DEF r
  <2> QED
    BY <2>1, <2>2, <2>3
<1> HIDE DEF r
<1>7. Holds("secondary", r, snap, Vouch, Gone, Had, copies.primary)
  BY <1>5, <1>6 DEF Holds, Reading, Resolving, Holding
<1>8. Holds("secondary", r, snap', Vouch', Gone', Had', copies'.primary)
  BY <1>3, <1>4, <1>7, HoldsGrows DEF Grows
<1>9. ASSUME NEW v \in Workers
      PROVE  /\ pc'[v] # "idle" <=> syncing' = v
             /\ syncing' = v => Holds(pc'[v], reg'[v], snap', Vouch', Gone', Had', copies'.primary)
  <2>1. CASE v = w
    BY <1>2, <1>8, <2>1 DEF TypeInv, EngineOK
  <2>2. CASE v # w
    BY <1>1, <1>2, <2>2 DEF TypeInv, EngineOK
  <2> QED
    BY <2>1, <2>2
<1>10. ~OtherPaths => Sound(disk', Vouch')
  BY <1>3, <1>4, VouchedGrows DEF HeldInv, Grows, Sound
<1> QED
  BY <1>1, <1>2, <1>4, <1>9, <1>10 DEF HeldInv, Grows

\* Starting, taking an entry, ending a scan.
LEMMA CyclesHeld ==
    ASSUME TypeInv, HeldInv, NEW w \in Workers, StartScan(w) \/ Take(w) \/ EndScan(w)
    PROVE  HeldInv'
<1>1. CASE StartScan(w)
  BY <1>1, BeginHeld DEF StartScan
<1>2. CASE Take(w)
  <2>1. CASE Redundant \/ snap.nonSynced
    <3>1. UNCHANGED <<local, seen, dropped, safety, copies, snap, disk, syncing, pc, reg>>
      BY <1>2, <2>1 DEF Take, world, kept, history
    <3>2. UNCHANGED <<Vouch, Gone, Had>>
      BY <3>1 DEF Vouch, Gone, Had, Aside, Lasting, Stored, Kept
    <3> QED
      BY <3>1, <3>2 DEF HeldInv
  <2>2. CASE ~(Redundant \/ snap.nonSynced)
    BY <1>2, <2>2, BeginHeld DEF Take
  <2> QED
    BY <2>1, <2>2
<1>3. CASE EndScan(w)
  <2>1. pc[w] = "tail" /\ UNCHANGED <<local, seen, dropped, kept, snap>>
    BY <1>3 DEF EndScan, world, history
  <2>2. Sound(snap, Vouch)
    BY <2>1, SoundHere DEF Reading, Resolving
  <2>3. Grows
    BY <2>1, SameGrows
  <2>4. Sound(snap', Vouch')
    BY <2>1, <2>2, <2>3, VouchedGrows DEF Grows, Sound
  <2>5. /\ pc' = [pc EXCEPT ![w] = "idle"] /\ reg' = [reg EXCEPT ![w] = Blank]
        /\ disk' = snap' /\ syncing' = None
    BY <1>3, <2>1, Mine DEF EndScan, Goto
  <2> QED
    BY <2>1, <2>3, <2>4, <2>5, CallHeld DEF Grows
<1> QED
  BY <1>1, <1>2, <1>3

\* The server's metadata arrives.
LEMMA SecondaryHeld ==
    ASSUME TypeInv, HeldInv, NEW w \in Workers, Secondary(w)
    PROVE  HeldInv'
<1> DEFINE r == [reg[w] EXCEPT
                   !.sm = Meta(remote),
                   !.back = ~(reg[w].scan /\ remote # None /\ ~candidate)]
<1>1. pc[w] = "secondary"
  BY DEF Secondary
<1>2. CASE Lost(w, "meta")
  <2>1. Sound(snap, Vouch)
    BY <1>1, SoundHere DEF Reading, Resolving
  <2> QED
    BY <1>1, <1>2, <2>1, LostHeld
<1>3. CASE /\ Step(w, "classify", r)
           /\ UNCHANGED <<world, kept, history, candidate, used, snap, dirty>>
  <2>1. UNCHANGED <<local, seen, dropped, kept, copies, snap>>
    BY <1>3 DEF world, kept, history
  <2>2. Grows
    BY <2>1, SameGrows
  <2>3. r.pm = reg[w].pm
    BY Here DEF Registers
  <2>4. Holds("secondary", reg[w], snap, Vouch, Gone, Had, copies.primary)
    BY <1>1, Mine
  <2> HIDE DEF r
  <2>5. Holds("classify", r, snap, Vouch, Gone, Had, copies.primary)
    BY <2>3, <2>4 DEF Holds, Reading, Resolving, Holding
  <2>6. Holds("classify", r, snap', Vouch', Gone', Had', copies'.primary)
    BY <2>1, <2>2, <2>5, HoldsGrows DEF Grows
  <2> QED
    BY <1>1, <1>3, <2>2, <2>6, StepHeld
<1> QED
  BY <1>2, <1>3 DEF Secondary

\* The branches that need more than a sound entry find it.
LEMMA ScenarioHeld ==
    ASSUME NEW s, NEW pm, NEW sm, NEW syncBack, NEW signal
    PROVE  LET l == Scenario(s, pm, sm, syncBack, signal)
           IN  /\ l \in Plain \cup {"deleteRemote", "revisionForDelete", "changedLocal",
                                    "verify"}
               /\ l \in {"deleteRemote", "revisionForDelete"} =>
                    pm = None /\ s.files # None /\ ~s.nonSynced
               /\ l = "revisionForDelete" => s.remoteHash = None
               /\ l \in {"changedLocal", "verify"} => s.files # None
  BY DEF Scenario, Plain, MustAsk

\* syncFile picks its branch: the revision a deletion states was in a copy that
\* a user deleted.
LEMMA ClassifyHeld ==
    ASSUME TypeInv, HeldInv, NEW w \in Workers, Classify(w)
    PROVE  HeldInv'
<1> DEFINE l == Scenario(snap, reg[w].pm, reg[w].sm, reg[w].back, reg[w].signal)
           r == [reg[w] EXCEPT !.prior = snap.remoteHash,
                               !.pre = deletePrecondition(snap.remoteHash)]
<1>1. /\ Step(w, l, r) /\ pc[w] = "classify"
      /\ UNCHANGED <<local, seen, dropped, kept, copies, snap>>
  BY DEF Classify, world, kept, history
<1>2. Grows
  BY <1>1, SameGrows
<1>3. Holds("classify", reg[w], snap, Vouch, Gone, Had, copies.primary)
  BY <1>1, Mine
<1>4. Sound(snap, Vouch) /\ (reg[w].pm = None => Sound(snap, Gone))
  BY <1>3 DEF Holds, Reading, Resolving
<1>5. r.pre = deletePrecondition(snap.remoteHash)
  BY Here DEF Registers
<1>6. /\ l \in Plain \cup {"deleteRemote", "revisionForDelete", "changedLocal", "verify"}
      /\ l \in {"deleteRemote", "revisionForDelete"} =>
           reg[w].pm = None /\ snap.files # None /\ ~snap.nonSynced
      /\ l = "revisionForDelete" => snap.remoteHash = None
      /\ l \in {"changedLocal", "verify"} => snap.files # None
  BY ScenarioHeld
<1> HIDE DEF l, r
<1>7. l = "deleteRemote" => r.pre.type = "matchesHash" /\ Pub(r.pre.hash, Gone)
  <2>1. l = "deleteRemote" => snap.remoteHash # None /\ Pub(snap.remoteHash, Gone)
    BY <1>4, <1>6 DEF Sound, Vouched
  <2> QED
    BY <1>5, <2>1 DEF deletePrecondition, Matches
<1>8. l # "revisionForDelete"
  BY <1>4, <1>6 DEF Sound, Vouched
<1>9. Holds(l, r, snap, Vouch, Gone, Had, copies.primary) /\ l # "idle"
  BY <1>4, <1>6, <1>7, <1>8 DEF Holds, Reading, Resolving, Holding, Plain
<1>10. Holds(l, r, snap', Vouch', Gone', Had', copies'.primary)
  BY <1>1, <1>2, <1>9, HoldsGrows DEF Grows
<1> QED
  BY <1>1, <1>2, <1>9, <1>10, StepHeld

\* A read ahead of a push holds the local copy.
LEMMA ReadForPushHeld ==
    ASSUME TypeInv, HeldInv, NEW w \in Workers, NEW from, NEW pre,
           from \notin Reading \cup {"idle"},
           NEW label \in {"putNew", "putRecreate", "revisionForPush", "putChanged",
                          "resolveGet"},
           label = "revisionForPush" => snap.nonSynced,
           ReadForPush(w, from, label, pre)
    PROVE  HeldInv'
<1>1. /\ pc[w] = from /\ pc[w] # "idle"
      /\ UNCHANGED <<local, seen, dropped, kept, copies>>
  BY DEF ReadForPush, world, kept, history
<1>2. Sound(snap, Vouch)
  BY <1>1, SoundHere
<1>3. CASE local = None
  BY <1>1, <1>2, <1>3, ThrowHeld DEF ReadForPush
<1>4. CASE local # None
  <2> DEFINE r == [reg[w] EXCEPT !.data = local, !.pre = pre]
  <2>1. r.data = local
    BY Here DEF Registers
  <2>2. Step(w, label, r) /\ snap' = snap
    BY <1>4 DEF ReadForPush
  <2>3. Grows
    BY <1>1, SameGrows
  <2>4. Pub(local.c, Had)
    BY <1>4, VouchFacts DEF Content
  <2> HIDE DEF r
  <2>5. Holds(label, r, snap, Vouch, Gone, Had, copies.primary) /\ label # "idle"
    BY <1>2, <2>1, <2>4 DEF Holds, Reading, Resolving, Holding
  <2>6. Holds(label, r, snap', Vouch', Gone', Had', copies'.primary)
    BY <1>1, <2>2, <2>3, <2>5, HoldsGrows DEF Grows
  <2> QED
    BY <1>1, <2>2, <2>3, <2>5, <2>6, StepHeld
<1> QED
  BY <1>3, <1>4

\* Each of the reads is one of those; without a recorded revision the path is
\* one that is not synced.
LEMMA ReadsHeld ==
    ASSUME TypeInv, HeldInv, NEW w \in Workers,
           ReadNew(w) \/ ReadRecreate(w) \/ ReadChanged(w) \/ ResolveRead(w)
    PROVE  HeldInv'
<1> USE DEF Reading, Resolving
<1>1. CASE ReadChanged(w)
  <2>1. pc[w] = "changedLocal"
    BY <1>1 DEF ReadChanged, ReadForPush
  <2>2. Holds("changedLocal", reg[w], snap, Vouch, Gone, Had, copies.primary)
    BY <2>1, Mine
  <2>3. snap.files # None /\ Sound(snap, Vouch)
    BY <2>2 DEF Holds
  <2>4. CASE MustAsk(snap)
    <3>1. snap.nonSynced
      BY <2>3, <2>4 DEF Sound, Vouched, MustAsk
    <3> QED
      BY <1>1, <2>4, <3>1, ReadForPushHeld DEF ReadChanged
  <2>5. CASE ~MustAsk(snap)
    BY <1>1, <2>5, ReadForPushHeld DEF ReadChanged
  <2> QED
    BY <2>4, <2>5
<1>2. CASE ReadNew(w)
  BY <1>2, ReadForPushHeld DEF ReadNew
<1>3. CASE ReadRecreate(w)
  BY <1>3, ReadForPushHeld DEF ReadRecreate
<1>4. CASE ResolveRead(w)
  BY <1>4, ReadForPushHeld DEF ResolveRead
<1> QED
  BY <1>1, <1>2, <1>3, <1>4

\* A revision is asked for only where the path is not synced.
LEMMA RevisionsHeld ==
    ASSUME TypeInv, HeldInv, NEW w \in Workers, RevisionForPush(w) \/ RevisionForDelete(w)
    PROVE  HeldInv'
<1>1. CASE RevisionForPush(w)
  <2> DEFINE current == IF remote = None THEN None ELSE remote.c
             r == [reg[w] EXCEPT !.pre = pushPrecondition(current)]
  <2>1. pc[w] = "revisionForPush"
    BY <1>1 DEF RevisionForPush
  <2>2. Holds("revisionForPush", reg[w], snap, Vouch, Gone, Had, copies.primary)
    BY <2>1, Mine
  <2>3. Sound(snap, Vouch) /\ snap.nonSynced /\ Pub(reg[w].data.c, Had)
    BY <2>2 DEF Holds, Reading, Resolving, Holding
  <2>4. CASE Lost(w, "get")
    BY <2>1, <2>3, <2>4, LostHeld
  <2>5. CASE /\ snap' = remoteRevision
             /\ Step(w, "putChanged", r)
             /\ UNCHANGED <<world, kept, history, candidate, used, dirty>>
    <3>1. snap'.nonSynced
      BY <2>3, <2>5, Here, EntryFacts DEF remoteRevision
    <3>2. UNCHANGED <<local, seen, dropped, kept, copies>>
      BY <2>5 DEF world, kept, history
    <3>3. Grows
      BY <3>2, SameGrows
    <3>4. r.data = reg[w].data
      BY Here DEF Registers
    <3>5. Pub(reg[w].data.c, Had')
      BY <2>3, <3>3, PubGrows DEF Grows
    <3> HIDE DEF r
    <3>6. Holds("putChanged", r, snap', Vouch', Gone', Had', copies'.primary)
      BY <3>1, <3>4, <3>5 DEF Holds, Sound, Vouched, Reading, Resolving, Holding
    <3> QED
      BY <2>1, <2>5, <3>3, <3>6, StepHeld
  <2> QED
    BY <1>1, <2>4, <2>5 DEF RevisionForPush
<1>2. CASE RevisionForDelete(w)
  <2>1. pc[w] = "revisionForDelete"
    BY <1>2 DEF RevisionForDelete
  <2>2. Holds("revisionForDelete", reg[w], snap, Vouch, Gone, Had, copies.primary)
    BY <2>1, Mine
  <2> QED
    BY <2>2 DEF Holds
<1> QED
  BY <1>1, <1>2

\* A push leaves the server with what this replica holds.
LEMMA PushLandsHeld ==
    ASSUME TypeInv, HeldInv, NEW w \in Workers,
           pc[w] \in {"putNew", "putChanged", "putRecreate"}, PushLands(w)
    PROVE  HeldInv'
<1>1. reg[w].data \in Files
  BY Here, RegFacts DEF Ready
<1>2. Holds(pc[w], reg[w], snap, Vouch, Gone, Had, copies.primary)
  BY Mine
<1>3. Sound(snap, Vouch) /\ Pub(reg[w].data.c, Had) /\ pc[w] # "idle"
  BY <1>2 DEF Holds, Reading, Resolving, Holding
<1>4. UNCHANGED <<local, seen, dropped, kept>>
  BY DEF PushLands, KeepLocal, Users
<1>5. CASE snap' = Agreed(snap, reg[w].data.c, reg[w].data.t, reg[w].data.t) /\ Return(w, TRUE)
  <2>1. snap'.remoteHash = reg[w].data.c
    BY <1>5, Here, EntryFacts
  <2>2. reg[w].data.c # None
    BY <1>1, FileFacts
  <2>3. Sound(snap', Vouch)
    BY <1>3, <2>1, <2>2, VouchFacts, PubGrows DEF Sound, Vouched
  <2> QED
    BY <1>3, <1>4, <1>5, <2>3, QuietReturnHeld
<1>6. CASE Throw(w)
  BY <1>3, <1>4, <1>6, ThrowHeld
<1> QED
  BY <1>5, <1>6 DEF PushLands

\* A refused write.
LEMMA PushRefusedHeld ==
    ASSUME TypeInv, HeldInv, NEW w \in Workers, NEW label \in {"resolve", "reconcile", "pull"},
           pc[w] \notin Reading \cup {"idle"}, PushRefused(w, label)
    PROVE  HeldInv'
<1>1. Step(w, label, reg[w]) /\ snap' = snap /\ UNCHANGED <<local, seen, dropped, kept>>
  BY DEF PushRefused, world, history
<1>2. Grows
  BY <1>1, SameGrows
<1>3. Sound(snap', Vouch)
  BY <1>1, SoundHere
<1> QED
  BY <1>1, <1>2, <1>3, PlainStepHeld DEF Plain

\* The three pushes.
LEMMA PutsHeld ==
    ASSUME TypeInv, HeldInv, Recording, NEW w \in Workers,
           PutNew(w) \/ PutChanged(w) \/ PutRecreate(w)
    PROVE  HeldInv'
<1>1. pc[w] \in {"putNew", "putChanged", "putRecreate"} /\ pc[w] # "idle"
  BY DEF PutNew, PutChanged, PutRecreate
<1>2. pc[w] \notin Reading \cup {"idle"}
  BY <1>1 DEF Reading, Resolving
<1>3. Sound(snap, Vouch)
  BY <1>2, SoundHere
<1>4. ~Rejected(w)
  BY DEF Recording, Rejected
<1>5. CASE PutNew(w)
  BY <1>1, <1>2, <1>3, <1>4, <1>5, PushLandsHeld, LostHeld, PushRefusedHeld DEF PutNew
<1>6. CASE PutChanged(w)
  BY <1>1, <1>2, <1>3, <1>4, <1>6, PushLandsHeld, LostHeld, PushRefusedHeld DEF PutChanged
<1>7. CASE PutRecreate(w)
  <2>1. CASE PushLands(w) \/ Lost(w, "put")
    BY <1>1, <1>3, <2>1, PushLandsHeld, LostHeld
  <2>2. CASE /\ UNCHANGED snap /\ Return(w, TRUE)
             /\ UNCHANGED <<world, kept, history, candidate, used>>
    <3>1. UNCHANGED <<local, seen, dropped, kept>> /\ Sound(snap', Vouch)
      BY <1>3, <2>2 DEF world, history
    <3> QED
      BY <1>1, <2>2, <3>1, QuietReturnHeld
  <2> QED
    BY <1>4, <1>7, <2>1, <2>2 DEF PutRecreate
<1> QED
  BY <1>5, <1>6, <1>7

\* The engine deletes the local copy only when no entry vouches for it.
LEMMA DropReturnHeld ==
    ASSUME TypeInv, HeldInv, NEW w \in Workers, pc[w] # "idle", Return(w, TRUE),
           SetLocal(None), snap'.files = None \/ snap'.nonSynced
    PROVE  HeldInv'
<1>1. Sound(snap', Vouch')
  BY DEF Sound, Vouched
<1>2. Pub(Content(local'), seen')
  BY DEF SetLocal, Content, Pub
<1>3. disk' = snap'
  BY DEF Return
<1> QED
  BY <1>1, <1>2, <1>3, EndHeld

\* Deletions.
LEMMA DeletesHeld ==
    ASSUME TypeInv, HeldInv, NEW w \in Workers,
           DeletedRemote(w) \/ DeleteLocalCopy(w) \/ DeleteRemote(w) \/ ForgetPath(w)
    PROVE  HeldInv'
<1>1. CASE DeletedRemote(w)
  <2>1. pc[w] = "deletedRemote" /\ UNCHANGED <<local, seen, dropped, kept, copies>>
    BY <1>1 DEF DeletedRemote, world, kept, history
  <2>2. Sound(snap, Vouch)
    BY <2>1, SoundHere DEF Reading, Resolving
  <2>3. Grows
    BY <2>1, SameGrows
  <2>4. CASE Step(w, "recreate", reg[w]) /\ UNCHANGED snap
    BY <2>1, <2>2, <2>3, <2>4, PlainStepHeld DEF Plain
  <2>5. CASE Step(w, "deleteLocal", reg[w]) /\ snap' = NoEntry(snap)
    <3>1. snap'.files = None
      BY <2>5, Here, EntryFacts
    <3>2. Holds("deleteLocal", reg[w], snap', Vouch', Gone', Had', copies'.primary)
      BY <3>1 DEF Holds, Sound, Vouched, Reading, Resolving, Holding
    <3> QED
      BY <2>1, <2>3, <2>5, <3>2, StepHeld
  <2> QED
    BY <1>1, <2>4, <2>5 DEF DeletedRemote
<1>2. CASE DeleteLocalCopy(w)
  <2>1. pc[w] = "deleteLocal" /\ UNCHANGED <<dropped, kept>>
    BY <1>2 DEF DeleteLocalCopy, Users
  <2>2. Holds("deleteLocal", reg[w], snap, Vouch, Gone, Had, copies.primary)
    BY <2>1, Mine
  <2>3. Sound(snap, Vouch) /\ snap.files = None
    BY <2>2 DEF Holds, Reading, Resolving
  <2>4. CASE local = None
    BY <1>2, <2>1, <2>3, <2>4, ThrowHeld DEF DeleteLocalCopy, KeepLocal
  <2>5. CASE local # None
    BY <1>2, <2>1, <2>3, <2>5, DropReturnHeld DEF DeleteLocalCopy
  <2> QED
    BY <2>4, <2>5
<1>3. CASE DeleteRemote(w)
  <2>1. pc[w] = "deleteRemote" /\ pc[w] \notin Reading \cup {"idle"}
    BY <1>3 DEF DeleteRemote, Reading, Resolving
  <2>2. Sound(snap, Vouch)
    BY <2>1, SoundHere
  <2>3. CASE /\ SetRemote(None)
             /\ \/ snap' = Forget(snap) /\ Return(w, TRUE)
                \/ Throw(w)
             /\ UNCHANGED <<local, seen, clock, kept, Users>>
    <3>1. UNCHANGED <<local, seen, dropped, kept>>
      BY <2>3 DEF Users
    <3>2. CASE snap' = Forget(snap) /\ Return(w, TRUE)
      <4>1. Sound(snap', Vouch)
        BY <3>2, Here, EntryFacts DEF Sound, Vouched
      <4> QED
        BY <2>1, <3>1, <3>2, <4>1, QuietReturnHeld
    <3>3. CASE Throw(w)
      BY <2>1, <2>2, <3>1, <3>3, ThrowHeld
    <3> QED
      BY <2>3, <3>2, <3>3
  <2>4. CASE Lost(w, "delete") \/ PushRefused(w, "pull")
    BY <2>1, <2>2, <2>4, LostHeld, PushRefusedHeld
  <2>5. CASE Throw(w) /\ UNCHANGED <<world, kept, history, candidate, used>>
    BY <2>1, <2>2, <2>5, ThrowHeld DEF world, history
  <2> QED
    BY <1>3, <2>3, <2>4, <2>5 DEF DeleteRemote
<1>4. CASE ForgetPath(w)
  <2>1. /\ pc[w] = "forget" /\ Return(w, TRUE) /\ snap' = Forget(snap)
        /\ UNCHANGED <<local, seen, dropped, kept>>
    BY <1>4 DEF ForgetPath, world, history
  <2>2. Sound(snap', Vouch)
    BY <2>1, Here, EntryFacts DEF Sound, Vouched
  <2> QED
    BY <2>1, <2>2, QuietReturnHeld
<1> QED
  BY <1>1, <1>2, <1>3, <1>4

\* Paths the configuration excludes say so before they lose the local copy.
LEMMA NotesHeld ==
    ASSUME TypeInv, HeldInv, NEW w \in Workers,
           NoteNew(w) \/ DropLocal(w) \/ DropUnsynced(w) \/ NothingToDo(w)
    PROVE  HeldInv'
<1>1. CASE NoteNew(w)
  <2>1. /\ pc[w] # "idle" /\ UNCHANGED <<local, seen, dropped, kept, copies>>
        /\ Return(w, FALSE) \/ Step(w, "dropLocal", reg[w])
    BY <1>1 DEF NoteNew, world, kept, history
  <2>2. snap'.nonSynced
    BY <1>1, Here DEF NoteNew, Snapshots
  <2>3. Sound(snap', Vouch)
    BY <2>2 DEF Sound, Vouched
  <2>4. CASE Return(w, FALSE)
    BY <2>1, <2>3, <2>4, QuietReturnHeld
  <2>5. CASE Step(w, "dropLocal", reg[w])
    <3>1. Holds("dropLocal", reg[w], snap', Vouch', Gone', Had', copies'.primary)
      BY <2>2 DEF Holds, Sound, Vouched, Reading, Resolving, Holding
    <3>2. Grows
      BY <2>1, SameGrows
    <3> QED
      BY <2>1, <2>5, <3>1, <3>2, StepHeld
  <2> QED
    BY <2>1, <2>4, <2>5
<1>2. CASE DropLocal(w)
  <2>1. pc[w] = "dropLocal" /\ snap' = snap /\ UNCHANGED <<dropped, kept>>
    BY <1>2 DEF DropLocal, Users
  <2>2. Holds("dropLocal", reg[w], snap, Vouch, Gone, Had, copies.primary)
    BY <2>1, Mine
  <2>3. Sound(snap, Vouch) /\ snap.nonSynced
    BY <2>2 DEF Holds, Reading, Resolving
  <2>4. CASE local = None
    <3>1. Return(w, FALSE) /\ UNCHANGED <<local, seen>>
      BY <1>2, <2>4 DEF DropLocal, KeepLocal
    <3> QED
      BY <2>1, <2>3, <3>1, QuietReturnHeld
  <2>5. CASE local # None
    <3>1. Return(w, TRUE) /\ SetLocal(None)
      BY <1>2, <2>5 DEF DropLocal
    <3> QED
      BY <2>1, <2>3, <3>1, DropReturnHeld
  <2> QED
    BY <2>4, <2>5
<1>3. CASE DropUnsynced(w)
  <2>1. pc[w] = "unsynced" /\ UNCHANGED <<dropped, kept>>
    BY <1>3 DEF DropUnsynced, Users
  <2>2. Sound(snap, Vouch)
    BY <2>1, SoundHere DEF Reading, Resolving
  <2>3. CASE local = None
    BY <1>3, <2>1, <2>2, <2>3, ThrowHeld DEF DropUnsynced, KeepLocal
  <2>4. CASE local # None
    <3>1. snap'.nonSynced
      BY <1>3, <2>4, Here DEF DropUnsynced, Snapshots
    <3> QED
      BY <1>3, <2>1, <2>4, <3>1, DropReturnHeld DEF DropUnsynced
  <2> QED
    BY <2>3, <2>4
<1>4. CASE NothingToDo(w)
  <2>1. /\ pc[w] \in {"note", "done"} /\ Return(w, FALSE)
        /\ UNCHANGED <<local, seen, dropped, kept>>
    BY <1>4 DEF NothingToDo, world, history
  <2>2. Sound(snap, Vouch)
    BY <2>1, SoundHere DEF Reading, Resolving
  <2>3. /\ snap'.files = snap.files /\ snap'.remoteHash = snap.remoteHash
        /\ snap.nonSynced => snap'.nonSynced
    BY <1>4, Here DEF NothingToDo, Snapshots
  <2>4. Sound(snap', Vouch)
    BY <2>2, <2>3 DEF Sound, Vouched
  <2> QED
    BY <2>1, <2>4, QuietReturnHeld
<1> QED
  BY <1>1, <1>2, <1>3, <1>4

\* The comparisons of a signalled path.
LEMMA VerifiesHeld ==
    ASSUME TypeInv, HeldInv, NEW w \in Workers, Verify(w) \/ VerifyRemote(w)
    PROVE  HeldInv'
<1>1. CASE Verify(w)
  <2> DEFINE r == [reg[w] EXCEPT !.data = local, !.prior = snap.remoteHash]
  <2>1. pc[w] = "verify" /\ UNCHANGED <<snap, local, seen, dropped, kept, copies>>
    BY <1>1 DEF Verify, world, kept, history
  <2>2. Holds("verify", reg[w], snap, Vouch, Gone, Had, copies.primary)
    BY <2>1, Mine
  <2>3. Sound(snap, Vouch) /\ snap.files # None
    BY <2>2 DEF Holds, Reading, Resolving
  <2>4. Grows
    BY <2>1, SameGrows
  <2>5. \/ Return(w, FALSE)
        \/ local # None /\ snap.remoteHash = None /\ Step(w, "verifyRemote", r)
        \/ \E l \in {"reconcile", "changedLocal", "changedRemote"} : Step(w, l, r)
    BY <1>1, Zenon DEF Verify
  <2>6. CASE Return(w, FALSE)
    BY <2>1, <2>3, <2>6, QuietReturnHeld
  <2>7. CASE local # None /\ snap.remoteHash = None /\ Step(w, "verifyRemote", r)
    <3>1. snap.nonSynced
      BY <2>3, <2>7 DEF Sound, Vouched
    <3>2. r.data = local
      BY Here DEF Registers
    <3>3. Pub(local.c, Had)
      BY <2>7, VouchFacts DEF Content
    <3> HIDE DEF r
    <3>4. Holds("verifyRemote", r, snap, Vouch, Gone, Had, copies.primary)
      BY <2>3, <3>1, <3>2, <3>3 DEF Holds, Reading, Resolving, Holding
    <3>5. Holds("verifyRemote", r, snap', Vouch', Gone', Had', copies'.primary)
      BY <2>1, <2>4, <3>4, HoldsGrows DEF Grows
    <3> QED
      BY <2>1, <2>4, <2>7, <3>5, StepHeld
  <2>8. CASE Step(w, "changedLocal", r)
    <3> HIDE DEF r
    <3>1. Holds("changedLocal", r, snap, Vouch, Gone, Had, copies.primary)
      BY <2>3 DEF Holds, Reading, Resolving, Holding
    <3>2. Holds("changedLocal", r, snap', Vouch', Gone', Had', copies'.primary)
      BY <2>1, <2>4, <3>1, HoldsGrows DEF Grows
    <3> QED
      BY <2>1, <2>4, <2>8, <3>2, StepHeld
  <2>9. CASE \E l \in {"reconcile", "changedRemote"} : Step(w, l, r)
    <3> HIDE DEF r
    <3> QED
      BY <2>1, <2>3, <2>4, <2>9, PlainStepHeld DEF Plain
  <2> QED
    BY <2>5, <2>6, <2>7, <2>8, <2>9
<1>2. CASE VerifyRemote(w)
  <2>1. pc[w] = "verifyRemote"
    BY <1>2 DEF VerifyRemote
  <2>2. Holds("verifyRemote", reg[w], snap, Vouch, Gone, Had, copies.primary)
    BY <2>1, Mine
  <2>3. Sound(snap, Vouch) /\ snap.nonSynced
    BY <2>2 DEF Holds, Reading, Resolving
  <2>4. CASE Lost(w, "get")
    BY <2>1, <2>3, <2>4, LostHeld
  <2>5. CASE ~Lost(w, "get")
    <3>1. snap' = remoteRevision
      BY <1>2, <2>5 DEF VerifyRemote
    <3>2. snap'.nonSynced
      BY <2>3, <3>1, Here, EntryFacts DEF remoteRevision
    <3>3. Sound(snap', Vouch)
      BY <3>2 DEF Sound, Vouched
    <3>4. /\ Step(w, "reconcile", reg[w]) \/ Return(w, FALSE)
          /\ UNCHANGED <<local, seen, dropped, kept>>
      BY <1>2, <2>5 DEF VerifyRemote, world, history
    <3>5. Grows
      BY <3>4, SameGrows
    <3> QED
      BY <2>1, <3>3, <3>4, <3>5, QuietReturnHeld, PlainStepHeld DEF Plain
  <2> QED
    BY <2>4, <2>5
<1> QED
  BY <1>1, <1>2

\* The reads of a pull: the revision is recorded before it is held, and the
\* one before it remembered.
LEMMA PullsHeld ==
    ASSUME TypeInv, HeldInv, NEW w \in Workers,
           ChangedRemote(w) \/ PullBefore(w) \/ PullGet(w) \/ PullCheck(w)
    PROVE  HeldInv'
<1>1. CASE ChangedRemote(w)
  <2>1. /\ pc[w] = "changedRemote" /\ snap' = snap
        /\ UNCHANGED <<local, seen, dropped, kept>>
    BY <1>1 DEF ChangedRemote, world, history
  <2>2. Sound(snap, Vouch)
    BY <2>1, SoundHere DEF Reading, Resolving
  <2>3. Grows
    BY <2>1, SameGrows
  <2>4. PICK l \in {"reconcile", "pull"} : Step(w, l, reg[w])
    BY <1>1 DEF ChangedRemote
  <2> QED
    BY <2>1, <2>2, <2>3, <2>4, PlainStepHeld DEF Plain
<1>2. CASE PullBefore(w)
  <2> DEFINE r == [reg[w] EXCEPT !.data = local, !.prior = snap.remoteHash]
  <2>1. /\ pc[w] = "pull" /\ snap' = snap /\ Step(w, "pullGet", r)
        /\ UNCHANGED <<local, seen, dropped, kept, copies>>
    BY <1>2 DEF PullBefore, world, kept, history
  <2>2. Sound(snap, Vouch)
    BY <2>1, SoundHere DEF Reading, Resolving
  <2>3. Grows
    BY <2>1, SameGrows
  <2>4. r.prior = snap.remoteHash
    BY Here DEF Registers
  <2> HIDE DEF r
  <2>5. Holds("pullGet", r, snap, Vouch, Gone, Had, copies.primary)
    BY <2>2, <2>4 DEF Holds, Reading, Resolving, Holding
  <2>6. Holds("pullGet", r, snap', Vouch', Gone', Had', copies'.primary)
    BY <2>1, <2>3, <2>5, HoldsGrows DEF Grows
  <2> QED
    BY <2>1, <2>3, <2>6, StepHeld
<1>3. CASE PullGet(w)
  <2> DEFINE r == [reg[w] EXCEPT !.rem = remote]
  <2>1. pc[w] = "pullGet"
    BY <1>3 DEF PullGet
  <2>2. Holds("pullGet", reg[w], snap, Vouch, Gone, Had, copies.primary)
    BY <2>1, Mine
  <2>3. Sound(snap, Vouch) /\ reg[w].prior = snap.remoteHash
    BY <2>2 DEF Holds, Reading, Resolving
  <2>4. CASE Lost(w, "get")
    BY <2>1, <2>3, <2>4, LostHeld
  <2>5. CASE Throw(w) /\ UNCHANGED <<world, kept, history, candidate, used>>
    BY <2>1, <2>3, <2>5, ThrowHeld DEF world, history
  <2>6. CASE /\ remote # None
             /\ snap' = [snap EXCEPT !.remoteHash = remote.c]
             /\ captureSafety(reg[w].data, remote.c)
             /\ Step(w, "pullCheck", r)
             /\ UNCHANGED <<world, copies, history, candidate, used, dirty>>
    <3>1. UNCHANGED <<local, seen, dropped, copies>> /\ safety \subseteq safety'
      BY <2>6 DEF world, history, captureSafety
    <3>2. Grows
      BY <3>1, KeepGrows
    <3>3. r.rem = remote /\ r.prior = reg[w].prior
      BY Here DEF Registers
    <3>4. /\ snap'.remoteHash = remote.c /\ snap'.files = snap.files
          /\ snap'.nonSynced = snap.nonSynced
      BY <2>6, Here, EntryFacts
    <3>5. Vouched(snap', reg[w].prior, Vouch')
      BY <2>3, <3>2, <3>4, PubGrows DEF Sound, Vouched, Grows
    <3> HIDE DEF r
    <3>6. Holds("pullCheck", r, snap', Vouch', Gone', Had', copies'.primary)
      BY <3>3, <3>4, <3>5 DEF Holds, Reading, Resolving, Holding
    <3> QED
      BY <2>1, <2>6, <3>2, <3>6, StepHeld
  <2> QED
    BY <1>3, <2>4, <2>5, <2>6 DEF PullGet
<1>4. CASE PullCheck(w)
  <2>1. pc[w] = "pullCheck" /\ UNCHANGED <<local, seen, dropped, kept, copies>>
    BY <1>4 DEF PullCheck, world, kept, history
  <2>2. Holds("pullCheck", reg[w], snap, Vouch, Gone, Had, copies.primary)
    BY <2>1, Mine
  <2>3. Grows
    BY <2>1, SameGrows
  <2>4. CASE localHeld(reg[w])
    <3>1. Step(w, "pullWrite", reg[w]) /\ snap' = snap
      BY <1>4, <2>4 DEF PullCheck
    <3>2. Holds("pullWrite", reg[w], snap, Vouch, Gone, Had, copies.primary)
      BY <2>2 DEF Holds, Reading, Resolving, Holding
    <3>3. Holds("pullWrite", reg[w], snap', Vouch', Gone', Had', copies'.primary)
      BY <2>1, <2>3, <3>1, <3>2, HoldsGrows DEF Grows
    <3> QED
      BY <2>1, <2>3, <3>1, <3>3, StepHeld
  <2>5. CASE ~localHeld(reg[w])
    <3>1. snap' = [snap EXCEPT !.remoteHash = reg[w].prior] /\ Return(w, FALSE)
      BY <1>4, <2>5 DEF PullCheck, Unrecorded
    <3>2. Vouched(snap, reg[w].prior, Vouch)
      BY <2>2 DEF Holds
    <3>3. Sound(snap', Vouch)
      BY <3>1, <3>2, Here, EntryFacts DEF Sound, Vouched
    <3> QED
      BY <2>1, <3>1, <3>3, QuietReturnHeld
  <2> QED
    BY <2>4, <2>5
<1> QED
  BY <1>1, <1>2, <1>3, <1>4

\* A call that writes the revision it records.
LEMMA WriteReturnHeld ==
    ASSUME TypeInv, HeldInv, NEW w \in Workers, pc[w] # "idle", Return(w, TRUE),
           reg[w].rem \in Files, SetLocal(reg[w].rem), snap'.remoteHash = reg[w].rem.c
    PROVE  HeldInv'
<1>1. /\ Content(local') = reg[w].rem.c /\ reg[w].rem.c # None
      /\ Pub(reg[w].rem.c, seen')
  BY FileFacts DEF SetLocal, Pub
<1>2. Pub(reg[w].rem.c, Vouch')
  BY <1>1 DEF Pub, Vouch, Had
<1>3. Sound(snap', Vouch')
  BY <1>1, <1>2 DEF Sound, Vouched
<1>4. disk' = snap'
  BY DEF Return
<1> QED
  BY <1>1, <1>3, <1>4, EndHeld

\* The local write of a pull, and that of a reconciliation.
LEMMA WritesHeld ==
    ASSUME TypeInv, HeldInv, NEW w \in Workers, PullWrite(w) \/ ReconcileWrite(w)
    PROVE  HeldInv'
<1>1. reg[w].rem \in Files
  BY Here, RegFacts DEF PullWrite, ReconcileWrite, Ready
<1>2. reg[w].rem.c \in Contents /\ reg[w].rem.t \in Clock
  BY <1>1, FileFacts
<1>3. CASE PullWrite(w)
  <2>1. pc[w] = "pullWrite"
    BY <1>3 DEF PullWrite
  <2>2. Holds("pullWrite", reg[w], snap, Vouch, Gone, Had, copies.primary)
    BY <2>1, Mine
  <2>3. snap.remoteHash = reg[w].rem.c
    BY <2>2 DEF Holds, Reading
  <2>4. Agreed(snap, reg[w].rem.c, reg[w].rem.t, reg[w].rem.t) \in Snapshots
    BY <1>2, Here, SnapFacts
  <2>5. snap'.remoteHash = reg[w].rem.c
    BY <1>3, <2>3, <2>4, EntryFacts DEF PullWrite
  <2> QED
    BY <1>1, <1>3, <2>1, <2>5, WriteReturnHeld DEF PullWrite
<1>4. CASE ReconcileWrite(w)
  <2>1. snap'.remoteHash = reg[w].rem.c /\ pc[w] # "idle"
    BY <1>4, Here DEF ReconcileWrite, Snapshots
  <2> QED
    BY <1>1, <1>4, <2>1, WriteReturnHeld DEF ReconcileWrite
<1> QED
  BY <1>3, <1>4

\* A reconciliation up to its answer.
LEMMA MergesHeld ==
    ASSUME TypeInv, HeldInv, NEW w \in Workers,
           Reconcile(w) \/ Post(w) \/ PostRetry(w) \/ Reconciled(w)
    PROVE  HeldInv'
<1>1. CASE Reconcile(w)
  <2> DEFINE r == [reg[w] EXCEPT !.data = local, !.prior = snap.baseHash]
  <2>1. /\ pc[w] = "reconcile" /\ snap' = snap
        /\ UNCHANGED <<local, seen, dropped, kept, copies>>
    BY <1>1 DEF Reconcile, world, kept, history
  <2>2. Sound(snap, Vouch)
    BY <2>1, SoundHere DEF Reading, Resolving
  <2>3. Grows
    BY <2>1, SameGrows
  <2>4. CASE Step(w, "resolve", reg[w])
    BY <2>1, <2>2, <2>3, <2>4, PlainStepHeld DEF Plain
  <2>5. CASE local # None /\ Step(w, "post", r)
    <3>1. r.data = local
      BY Here DEF Registers
    <3>2. Pub(local.c, Had)
      BY <2>5, VouchFacts DEF Content
    <3> HIDE DEF r
    <3>3. Holds("post", r, snap, Vouch, Gone, Had, copies.primary)
      BY <2>2, <3>1, <3>2 DEF Holds, Reading, Resolving, Holding
    <3>4. Holds("post", r, snap', Vouch', Gone', Had', copies'.primary)
      BY <2>1, <2>3, <3>3, HoldsGrows DEF Grows
    <3> QED
      BY <2>1, <2>3, <2>5, <3>4, StepHeld
  <2> QED
    BY <1>1, <2>4, <2>5 DEF Reconcile
<1>2. CASE Post(w)
  <2>1. /\ pc[w] = "post" /\ snap' = snap
        /\ UNCHANGED <<local, seen, dropped, kept, copies>>
    BY <1>2 DEF Post, kept, Users
  <2>2. Holds("post", reg[w], snap, Vouch, Gone, Had, copies.primary)
    BY <2>1, Mine
  <2>3. Sound(snap, Vouch) /\ Pub(reg[w].data.c, Had)
    BY <2>2 DEF Holds, Reading, Resolving, Holding
  <2>4. Grows
    BY <2>1, SameGrows
  <2>5. CASE Step(w, "resolve", reg[w])
    BY <2>1, <2>3, <2>4, <2>5, PlainStepHeld DEF Plain
  <2>6. ASSUME NEW result \in Files, Step(w, "reconciled", [reg[w] EXCEPT !.rem = result])
        PROVE  HeldInv'
    <3> DEFINE r == [reg[w] EXCEPT !.rem = result]
    <3>1. r.data = reg[w].data
      BY Here DEF Registers
    <3>2. Step(w, "reconciled", r)
      BY <2>6
    <3> HIDE DEF r
    <3>3. Holds("reconciled", r, snap, Vouch, Gone, Had, copies.primary)
      BY <2>3, <3>1 DEF Holds, Reading, Resolving, Holding
    <3>4. Holds("reconciled", r, snap', Vouch', Gone', Had', copies'.primary)
      BY <2>1, <2>4, <3>3, HoldsGrows DEF Grows
    <3> QED
      BY <2>1, <2>4, <3>2, <3>4, StepHeld
  <2> QED
    BY <1>2, <2>5, <2>6 DEF Post
<1>3. CASE PostRetry(w)
  <2>1. /\ pc[w] = "post" /\ snap' = snap /\ Return(w, TRUE)
        /\ UNCHANGED <<local, seen, dropped, kept>>
    BY <1>3 DEF PostRetry
  <2>2. Sound(snap, Vouch)
    BY <2>1, SoundHere DEF Reading, Resolving
  <2> QED
    BY <2>1, <2>2, QuietReturnHeld
<1>4. CASE Reconciled(w)
  <2>1. /\ pc[w] = "reconciled" /\ UNCHANGED <<local, seen, dropped, copies>>
        /\ safety \subseteq safety'
    BY <1>4 DEF Reconciled, world, history
  <2>2. Sound(snap, Vouch)
    BY <2>1, SoundHere DEF Reading, Resolving
  <2>3. Grows
    BY <2>1, KeepGrows
  <2>4. CASE Step(w, "reconcileWrite", reg[w]) /\ snap' = snap
    BY <2>1, <2>2, <2>3, <2>4, PlainStepHeld DEF Plain
  <2>5. CASE /\ snap' = [snap EXCEPT !.baseHash = reg[w].data.c] /\ Return(w, TRUE)
    <3>1. Sound(snap', Vouch)
      BY <2>2, <2>5, Here, EntryFacts DEF Sound, Vouched
    <3>2. Sound(snap', Vouch')
      BY <2>3, <3>1, VouchedGrows DEF Grows, Sound
    <3> QED
      BY <2>1, <2>3, <2>5, <3>2, EndHeld DEF Grows
  <2> QED
    BY <1>4, <2>4, <2>5 DEF Reconciled, localAdvanced
<1> QED
  BY <1>1, <1>2, <1>3, <1>4

\* The resolver reads the server's revision and records it.
LEMMA ResolveGetHeld ==
    ASSUME TypeInv, HeldInv, NEW w \in Workers, ResolveGet(w)
    PROVE  HeldInv'
<1> DEFINE r == [reg[w] EXCEPT !.rem = remote]
           s == [snap EXCEPT !.remoteHash = remote.c]
<1>1. pc[w] = "resolveGet"
  BY DEF ResolveGet
<1>2. Holds("resolveGet", reg[w], snap, Vouch, Gone, Had, copies.primary)
  BY <1>1, Mine
<1>3. Sound(snap, Vouch) /\ Pub(reg[w].data.c, Had)
  BY <1>2 DEF Holds, Reading, Resolving, Holding
<1>4. CASE Lost(w, "get")
  BY <1>1, <1>3, <1>4, LostHeld
<1>5. CASE Throw(w) /\ UNCHANGED <<world, kept, history, candidate, used>>
  BY <1>1, <1>3, <1>5, ThrowHeld DEF world, history
<1>6. CASE /\ remote # None
           /\ IF remote.c = reg[w].data.c
              THEN /\ snap' = [s EXCEPT !.files = <<reg[w].data.t, remote.t>>]
                   /\ Step(w, "resolverBase", reg[w])
              ELSE snap' = s /\ Step(w, "copyCheck", r)
           /\ UNCHANGED <<world, kept, history, candidate, used, dirty>>
  <2>1. UNCHANGED <<local, seen, dropped, kept, copies>>
    BY <1>6 DEF world, kept, history
  <2>2. Grows
    BY <2>1, SameGrows
  <2>3. remote \in Files /\ remote.c \in Contents /\ remote.c # None
    BY <1>6, Here, FileFacts
  <2>4. s \in Snapshots /\ s.remoteHash = remote.c
    BY <2>3, Here, SnapFacts, EntryFacts
  <2>5. CASE remote.c = reg[w].data.c
    <3>1. snap' = [s EXCEPT !.files = <<reg[w].data.t, remote.t>>]
          /\ Step(w, "resolverBase", reg[w])
      BY <1>6, <2>5
    <3> HIDE DEF s
    <3>2. snap'.remoteHash = remote.c
      BY <2>4, <3>1, EntryFacts
    <3>3. Sound(snap', Vouch)
      BY <1>3, <2>3, <2>5, <3>2, VouchFacts, PubGrows DEF Sound, Vouched
    <3> QED
      BY <1>1, <2>2, <3>1, <3>3, PlainStepHeld DEF Plain
  <2>6. CASE remote.c # reg[w].data.c
    <3>1. snap' = s /\ Step(w, "copyCheck", r)
      BY <1>6, <2>6
    <3>2. r.rem = remote /\ r.data = reg[w].data
      BY Here DEF Registers
    <3>3. Pub(reg[w].data.c, Had')
      BY <1>3, <2>2, PubGrows DEF Grows
    <3> HIDE DEF r, s
    <3>4. Holds("copyCheck", r, snap', Vouch', Gone', Had', copies'.primary)
      BY <2>4, <3>1, <3>2, <3>3 DEF Holds, Reading, Resolving, Holding
    <3> QED
      BY <1>1, <2>2, <3>1, <3>4, StepHeld
  <2> QED
    BY <2>5, <2>6
<1> QED
  BY <1>1, <1>4, <1>5, <1>6 DEF ResolveGet

\* Once the revision is put aside, a failure leaves a sound entry.
LEMMA ResolvingSound ==
    ASSUME TypeInv, HeldInv, NEW w \in Workers, pc[w] \in Resolving \ {"copyCheck"},
           Faults \cap {"put", "copyPut"} # {}
    PROVE  Sound(snap, Vouch)
<1>1. Holds(pc[w], reg[w], snap, Vouch, Gone, Had, copies.primary)
  BY Mine DEF Resolving
<1>2. snap.remoteHash = reg[w].rem.c /\ reg[w].rem.c \in copies.primary
  BY <1>1 DEF Holds, Reading
<1>3. reg[w].rem \in Files
  BY Here, RegFacts DEF Ready, Resolving
<1>4. reg[w].rem.c # None
  BY <1>3, FileFacts
<1> QED
  BY <1>2, <1>4, VouchFacts DEF Sound, Vouched

\* The conflict copies.
LEMMA CopiesHeld ==
    ASSUME TypeInv, HeldInv, Recording, NEW w \in Workers, CopyCheck(w) \/ CopyPut(w)
    PROVE  HeldInv'
<1>1. CASE CopyCheck(w)
  <2> DEFINE l == IF reg[w].rem.c \in copies.secondary THEN "resolveCheck" ELSE "copyPut"
             r == [reg[w] EXCEPT !.ops = reg[w].rem.c \notin copies.primary]
  <2>1. ~Lost(w, "copyMeta") /\ pc[w] = "copyCheck"
    BY <1>1 DEF Recording, Lost, CopyCheck
  <2>2. /\ copies' = [copies EXCEPT !.primary = @ \cup {reg[w].rem.c}]
        /\ Step(w, l, r) /\ UNCHANGED <<local, seen, dropped, safety, snap>>
    BY <1>1, <2>1 DEF CopyCheck, world, history
  <2>3. /\ copies'.primary = copies.primary \cup {reg[w].rem.c}
        /\ copies'.secondary = copies.secondary
    BY <2>2 DEF TypeInv, WorldOK
  <2>4. Grows
    BY <2>2, <2>3, KeepGrows
  <2>5. Holds("copyCheck", reg[w], snap, Vouch, Gone, Had, copies.primary)
    BY <2>1, Mine
  <2>6. snap.remoteHash = reg[w].rem.c /\ Pub(reg[w].data.c, Had)
    BY <2>5 DEF Holds, Reading, Resolving, Holding
  <2>7. r.rem = reg[w].rem /\ r.data = reg[w].data
    BY Here DEF Registers
  <2>8. l \in {"resolveCheck", "copyPut"} /\ Pub(reg[w].data.c, Had')
    BY <2>4, <2>6, PubGrows DEF Grows
  <2> HIDE DEF l, r
  <2>9. Holds(l, r, snap', Vouch', Gone', Had', copies'.primary) /\ l # "idle"
    BY <2>2, <2>3, <2>6, <2>7, <2>8 DEF Holds, Reading, Resolving, Holding
  <2> QED
    BY <2>1, <2>2, <2>4, <2>9, StepHeld
<1>2. CASE CopyPut(w)
  <2> DEFINE r == [reg[w] EXCEPT !.ops = TRUE]
  <2>1. pc[w] = "copyPut"
    BY <1>2 DEF CopyPut
  <2>2. Holds("copyPut", reg[w], snap, Vouch, Gone, Had, copies.primary)
    BY <2>1, Mine
  <2>3. "copyPut" \in Faults => Sound(snap, Vouch)
    BY <2>1, ResolvingSound DEF Resolving
  <2>4. CASE Lost(w, "copyPut")
    BY <2>1, <2>3, <2>4, LostHeld DEF Lost
  <2>5. CASE /\ copies' = [copies EXCEPT !.secondary = @ \cup {reg[w].rem.c}]
             /\ \/ snap' = [snap EXCEPT !.others = TRUE] /\ Step(w, "resolveCheck", r)
                \/ "copyPut" \in Faults /\ Throw(w)
             /\ UNCHANGED <<world, safety, history, candidate, used>>
    <3>1. /\ copies'.secondary = copies.secondary \cup {reg[w].rem.c}
          /\ copies'.primary = copies.primary
      BY <2>5 DEF TypeInv, WorldOK
    <3>2. UNCHANGED <<local, seen, dropped, safety>>
      BY <2>5 DEF world, history
    <3>3. Grows
      BY <3>1, <3>2, KeepGrows
    <3>4. CASE "copyPut" \in Faults /\ Throw(w)
      <4>1. Abort(w) /\ snap' = snap
        BY <3>4 DEF Throw
      <4>2. Sound(snap', Vouch')
        BY <2>3, <3>3, <3>4, <4>1, VouchedGrows DEF Grows, Sound
      <4> QED
        BY <2>1, <3>3, <4>1, <4>2, EndHeld DEF Grows
    <3>5. CASE snap' = [snap EXCEPT !.others = TRUE] /\ Step(w, "resolveCheck", r)
      <4>1. snap'.remoteHash = snap.remoteHash
        BY <3>5, Here DEF Snapshots
      <4>2. r.rem = reg[w].rem /\ r.data = reg[w].data
        BY Here DEF Registers
      <4>3. /\ snap.remoteHash = reg[w].rem.c /\ Pub(reg[w].data.c, Had)
            /\ reg[w].rem.c \in copies.primary
        BY <2>2 DEF Holds, Reading, Resolving, Holding
      <4>4. Pub(reg[w].data.c, Had')
        BY <3>3, <4>3, PubGrows DEF Grows
      <4> HIDE DEF r
      <4>5. Holds("resolveCheck", r, snap', Vouch', Gone', Had', copies'.primary)
        BY <3>1, <4>1, <4>2, <4>3, <4>4 DEF Holds, Reading, Resolving, Holding
      <4> QED
        BY <2>1, <3>3, <3>5, <4>5, StepHeld
    <3> QED
      BY <2>5, <3>4, <3>5
  <2> QED
    BY <1>2, <2>4, <2>5 DEF CopyPut
<1> QED
  BY <1>1, <1>2

\* The resolver's push: the entry it leaves is the local copy's, or none.
LEMMA ResolvesHeld ==
    ASSUME TypeInv, HeldInv, Recording, NEW w \in Workers,
           ResolveCheck(w) \/ ResolvePut(w) \/ ResolverBase(w)
    PROVE  HeldInv'
<1>1. CASE ResolveCheck(w)
  <2>1. pc[w] = "resolveCheck" /\ UNCHANGED <<local, seen, dropped, kept, copies>>
    BY <1>1 DEF ResolveCheck, world, kept, history
  <2>2. Grows
    BY <2>1, SameGrows
  <2>3. CASE Step(w, "resolvePut", reg[w]) /\ snap' = snap
    <3>1. Holds("resolveCheck", reg[w], snap, Vouch, Gone, Had, copies.primary)
      BY <2>1, Mine
    <3>2. Holds("resolvePut", reg[w], snap, Vouch, Gone, Had, copies.primary)
      BY <3>1 DEF Holds, Reading, Resolving, Holding
    <3>3. Holds("resolvePut", reg[w], snap', Vouch', Gone', Had', copies'.primary)
      BY <2>1, <2>2, <2>3, <3>2, HoldsGrows DEF Grows
    <3> QED
      BY <2>1, <2>2, <2>3, <3>3, StepHeld
  <2>4. CASE snap' = [snap EXCEPT !.files = None] /\ Return(w, reg[w].ops)
    <3>1. Sound(snap', Vouch) /\ reg[w].ops \in BOOLEAN
      BY <2>4, Here, EntryFacts DEF Sound, Vouched, Registers
    <3> QED
      BY <2>1, <2>4, <3>1, QuietReturnHeld
  <2> QED
    BY <1>1, <2>3, <2>4 DEF ResolveCheck
<1>2. CASE ResolvePut(w)
  <2> DEFINE data == reg[w].data
             r == [reg[w] EXCEPT !.ops = TRUE]
  <2>1. pc[w] = "resolvePut" /\ ~Rejected(w)
    BY <1>2 DEF ResolvePut, Recording, Rejected
  <2>2. Holds("resolvePut", reg[w], snap, Vouch, Gone, Had, copies.primary)
    BY <2>1, Mine
  <2>3. Pub(data.c, Had) /\ data \in Files /\ data.c # None
    BY <2>1, <2>2, Here, RegFacts, FileFacts DEF Holds, Holding, Resolving, Ready
  <2>4. "put" \in Faults => Sound(snap, Vouch)
    BY <2>1, ResolvingSound DEF Resolving
  <2>5. CASE Lost(w, "put")
    BY <2>1, <2>4, <2>5, LostHeld DEF Lost
  <2>6. ASSUME NEW t \in Now,
               \/ snap' = Resolved(data, t) /\ Step(w, "resolverBase", r)
               \/ "put" \in Faults /\ Throw(w),
               UNCHANGED <<local, seen, kept, Users>>
        PROVE  HeldInv'
    <3>1. UNCHANGED <<local, seen, dropped, kept>>
      BY <2>6 DEF Users
    <3>2. Grows
      BY <3>1, SameGrows
    <3>3. CASE snap' = Resolved(data, t) /\ Step(w, "resolverBase", r)
      <4>1. snap'.remoteHash = data.c
        BY <3>3, Here DEF Resolved, Snapshots
      <4>2. Sound(snap', Vouch)
        BY <2>3, <4>1, VouchFacts, PubGrows DEF Sound, Vouched
      <4> HIDE DEF r
      <4> QED
        BY <2>1, <3>2, <3>3, <4>2, PlainStepHeld DEF Plain
    <3>4. CASE "put" \in Faults /\ Throw(w)
      BY <2>1, <2>4, <3>1, <3>4, ThrowHeld
    <3> QED
      BY <2>6, <3>3, <3>4
  <2>7. CASE /\ snap' = [snap EXCEPT !.files = None, !.remoteHash = None]
             /\ Return(w, reg[w].ops)
             /\ UNCHANGED <<world, kept, history, candidate, used, dirty>>
    <3>1. snap'.files = None
      BY <2>7, Here DEF Snapshots
    <3>2. Sound(snap', Vouch) /\ reg[w].ops \in BOOLEAN
      BY <3>1, Here DEF Sound, Vouched, Registers
    <3>3. UNCHANGED <<local, seen, dropped, kept>>
      BY <2>7 DEF world, history
    <3> QED
      BY <2>1, <2>7, <3>2, <3>3, QuietReturnHeld
  <2> QED
    BY <1>2, <2>1, <2>5, <2>6, <2>7 DEF ResolvePut
<1>3. CASE ResolverBase(w)
  <2>1. /\ pc[w] = "resolverBase" /\ Return(w, reg[w].ops) /\ reg[w].ops \in BOOLEAN
        /\ UNCHANGED <<local, seen, dropped, kept>>
    BY <1>3, Here DEF ResolverBase, world, history, Registers
  <2>2. Sound(snap, Vouch)
    BY <2>1, SoundHere DEF Reading, Resolving
  <2>3. Sound(snap', Vouch)
    BY <1>3, <2>2, Here, EntryFacts DEF ResolverBase, Sound, Vouched
  <2> QED
    BY <2>1, <2>3, QuietReturnHeld
<1> QED
  BY <1>1, <1>2, <1>3

\* Every step of a cycle.
LEMMA SyncStepHeld ==
    ASSUME TypeInv, HeldInv, Recording, NEW w \in Workers, SyncStep(w)
    PROVE  HeldInv'
<1>1. CASE Pushes(w)
  BY <1>1, ReadsHeld, RevisionsHeld, PutsHeld DEF Pushes
<1>2. CASE Deletes(w)
  BY <1>2, RevisionsHeld, DeletesHeld DEF Deletes
<1>3. CASE Notes(w)
  BY <1>3, NotesHeld, VerifiesHeld DEF Notes
<1>4. CASE Pulls(w)
  BY <1>4, PullsHeld, WritesHeld DEF Pulls
<1>5. CASE Merges(w)
  BY <1>5, MergesHeld, WritesHeld DEF Merges
<1>6. CASE Resolves(w)
  BY <1>6, ReadsHeld, ResolveGetHeld, CopiesHeld, ResolvesHeld DEF Resolves
<1> QED
  BY <1>1, <1>2, <1>3, <1>4, <1>5, <1>6, SecondaryHeld, ClassifyHeld, CyclesHeld
  DEF SyncStep

-----------------------------------------------------------------------------
(* Everyone else, and the theorems.                                        *)

\* Steps of others only add to what vouches for the entry.
LEMMA OutsideHeld ==
    ASSUME TypeInv, HeldInv, Grows, UNCHANGED <<snap, disk, syncing, pc, reg>>
    PROVE  HeldInv'
<1>1. ASSUME NEW v \in Workers, syncing' = v
      PROVE  Holds(pc'[v], reg'[v], snap', Vouch', Gone', Had', copies'.primary)
  <2>1. Holds(pc[v], reg[v], snap, Vouch, Gone, Had, copies.primary)
    BY <1>1 DEF HeldInv
  <2> QED
    BY <2>1, HoldsGrows DEF Grows
<1>2. /\ ~OtherPaths => Sound(disk', Vouch')
      /\ syncing' = None => Sound(snap', Vouch')
  BY VouchedGrows DEF HeldInv, Grows, Sound
<1> QED
  BY <1>1, <1>2 DEF HeldInv, Grows

\* A save keeps what the local copy held; a deletion by the user drops it.
LEMMA UsersHeld ==
    ASSUME TypeInv, HeldInv, SaveLocal \/ DeleteLocal \/ SaveRemote \/ DeleteRemotely
    PROVE  HeldInv'
<1>1. \A x \in seen : x # Markers
  BY ConstantsAssumption DEF TypeInv, WorldOK, Edits, Markers
<1>2. CASE SaveLocal
  <2>1. PICK t \in Now, old \in {Content(local), Content(local) \ {Markers}} :
          SetLocal([c |-> old \cup {made + 1}, t |-> t])
    BY <1>2 DEF SaveLocal
  <2>2. local \in Files \cup {None}
    BY DEF TypeInv, WorldOK
  <2>3. Content(local) \in Contents /\ old \in Contents
    BY <2>1, <2>2, CopyFacts DEF Contents
  <2>4. [c |-> old \cup {made + 1}, t |-> t] \in Files
    BY <1>2, <2>3, EditedFile DEF TypeInv, SaveLocal
  <2>5. /\ Content(local') = old \cup {made + 1}
        /\ seen' = seen \cup (Content(local') \ {Markers})
    BY <2>1, <2>4, FileFacts DEF SetLocal
  <2>6. UNCHANGED <<dropped, kept, copies, safety>>
    BY <1>2 DEF SaveLocal, kept
  <2>7. Kept' = Kept /\ Lasting \subseteq Lasting' /\ seen \subseteq seen'
    BY <2>5, <2>6, LastingGrows DEF Kept
  <2>8. /\ Had \subseteq Had' /\ Aside' = Aside
        /\ seen \cap Lasting \subseteq (seen \cap Lasting)'
    BY <1>1, <2>1, <2>5, <2>7 DEF Had, Aside
  <2>9. Grows
    BY <2>5, <2>6, <2>8 DEF Grows, Vouch, Gone, Pub
  <2> QED
    BY <1>2, <2>9, OutsideHeld DEF SaveLocal
<1>3. CASE DeleteLocal
  <2>1. /\ local # None /\ dropped' = dropped \cup (local.c \ {Markers}) /\ local' = None
        /\ seen' = seen
    BY <1>3 DEF DeleteLocal, SetLocal, Content
  <2>2. UNCHANGED <<kept, copies, safety>> /\ Content(local) = local.c /\ Content(local') = {}
    BY <1>3, <2>1 DEF DeleteLocal, kept, Content
  <2>3. Kept' = Kept /\ Lasting \subseteq Lasting' /\ (seen \cap dropped)' \subseteq Lasting'
    <3>1. Kept' = Kept
      BY <2>2 DEF Kept
    <3> QED
      BY <2>1, <3>1, LastingGrows DEF Lasting, Stored
  <2>4. /\ Had \subseteq Had' /\ Aside' = Aside
        /\ seen \cap Lasting \subseteq (seen \cap Lasting)'
    BY <1>1, <2>1, <2>2, <2>3 DEF Had, Aside
  <2>5. Grows
    BY <2>2, <2>3, <2>4 DEF Grows, Vouch, Gone, Pub
  <2> QED
    BY <1>3, <2>5, OutsideHeld DEF DeleteLocal, engine
<1>4. CASE SaveRemote
  <2>1. UNCHANGED <<local, seen, dropped, kept>>
    BY <1>4 DEF SaveRemote
  <2> QED
    BY <1>4, <2>1, SameGrows, OutsideHeld DEF SaveRemote
<1>5. CASE DeleteRemotely
  <2>1. UNCHANGED <<local, seen, kept, copies, safety>> /\ dropped \subseteq dropped'
    BY <1>5 DEF DeleteRemotely, kept
  <2>2. Kept' = Kept /\ Lasting \subseteq Lasting'
    <3>1. Kept' = Kept
      BY <2>1 DEF Kept
    <3> QED
      BY <2>1, <3>1, LastingGrows
  <2>3. /\ Had \subseteq Had' /\ Aside' = Aside
        /\ seen \cap Lasting \subseteq (seen \cap Lasting)'
    BY <2>1, <2>2 DEF Had, Aside
  <2>4. Grows
    BY <2>1, <2>3 DEF Grows, Vouch, Gone, HeldInv
  <2> QED
    BY <1>5, <2>4, OutsideHeld DEF DeleteRemotely
<1> QED
  BY <1>2, <1>3, <1>4, <1>5

\* A restart is left with the saved entry.
LEMMA RestartHeld ==
    ASSUME TypeInv, Restart, Pub(Content(local'), seen'), Sound(disk, Vouch')
    PROVE  HeldInv'
<1>1. \A v \in Workers : pc'[v] = "idle" /\ syncing' # v
  BY UndefinedAssumption DEF Restart
<1>2. snap' = disk /\ disk' = disk
  BY DEF Restart
<1> QED
  BY <1>1, <1>2 DEF HeldInv

LEMMA GrownRestartHeld ==
    ASSUME TypeInv, HeldInv, OneCycle, Restart, Grows
    PROVE  HeldInv'
<1>1. ~OtherPaths
  BY ConstantsAssumption DEF Restart, OneCycle, TypeInv, WorldOK
<1>2. Sound(disk, Vouch')
  BY <1>1, VouchedGrows DEF HeldInv, Grows, Sound
<1> QED
  BY <1>2, RestartHeld DEF Grows

\* Configuration, other paths, restarts.
LEMMA EngineHeld ==
    ASSUME TypeInv, HeldInv, OneCycle,
           \/ SetSyncConfig \/ OtherPathSynced \/ Crash
           \/ \E w \in Workers : OtherPathFails(w)
    PROVE  HeldInv'
<1>1. CASE SetSyncConfig
  BY <1>1, SameGrows, OutsideHeld DEF SetSyncConfig, world, engine, history
<1>2. CASE OtherPathSynced
  <2>1. OtherPaths /\ UNCHANGED <<local, seen, dropped, kept, snap, syncing, pc, reg>>
    BY <1>2 DEF OtherPathSynced, world, history
  <2>2. Grows
    BY <2>1, SameGrows
  <2>3. ASSUME NEW v \in Workers, syncing' = v
        PROVE  Holds(pc'[v], reg'[v], snap', Vouch', Gone', Had', copies'.primary)
    <3>1. Holds(pc[v], reg[v], snap, Vouch, Gone, Had, copies.primary)
      BY <2>1, <2>3 DEF HeldInv
    <3> QED
      BY <2>1, <2>2, <3>1, HoldsGrows DEF Grows
  <2>4. syncing' = None => Sound(snap', Vouch')
    BY <2>1, <2>2, VouchedGrows DEF HeldInv, Grows, Sound
  <2> QED
    BY <2>1, <2>2, <2>3, <2>4 DEF HeldInv, Grows
<1>3. ASSUME NEW w \in Workers, OtherPathFails(w) PROVE HeldInv'
  <2>1. PICK v \in Workers : pc[v] = "idle"
    BY <1>3 DEF OtherPathFails
  <2>2. v = w /\ syncing = w
    BY <1>3 DEF OtherPathFails, OneCycle
  <2> QED
    BY <2>1, <2>2 DEF HeldInv
<1>4. CASE Crash
  <2>1. UNCHANGED <<local, seen, dropped, kept>>
    BY <1>4 DEF Crash, Restart
  <2>2. Grows
    BY <2>1, SameGrows
  <2> QED
    BY <1>4, <2>2, GrownRestartHeld DEF Crash
<1> QED
  BY <1>1, <1>2, <1>3, <1>4

\* A kill: the saved entry stays sound because what it records lasts.  Where
\* that takes more than this invariant (Careful), it is a hypothesis.
LEMMA KilledHeld ==
    ASSUME TypeInv, HeldInv, OneCycle, NEW w \in Workers, Killed(w),
           Careful /\ pc[w] \in LocalWrites => Sound(disk, Vouch')
    PROVE  HeldInv'
<1>1. Restart /\ UNCHANGED <<dropped, kept>>
  BY KilledWrites DEF Restart
<1>2. Kept' = Kept /\ Aside' = Aside
  BY <1>1 DEF Kept, Aside, kept
<1>3. CASE UNCHANGED <<local, seen>>
  <2>1. Grows
    BY <1>1, <1>3, SameGrows
  <2> QED
    BY <1>1, <2>1, GrownRestartHeld
<1>4. CASE /\ \E f \in Files \cup {None} : SetLocal(f)
           /\ pc[w] \in LocalWrites
  <2>1. seen \subseteq seen' /\ Pub(Content(local'), seen')
    BY <1>4 DEF SetLocal, Pub
  <2>2. Kills \cap LocalWrites # {}
    BY <1>4, KilledWrites
  <2>3. CASE Careful
    BY <1>1, <1>4, <2>1, <2>3, RestartHeld
  <2>4. CASE ~Careful
    <3>1. Lasting = seen /\ Lasting' = seen'
      BY <2>2, <2>4 DEF Lasting
    <3>2. Had \subseteq Had' /\ seen \cap Lasting \subseteq (seen \cap Lasting)'
      BY <2>1, <3>1 DEF Had
    <3>3. Grows
      BY <1>1, <1>2, <2>1, <3>2 DEF Grows, Vouch, Gone, kept
    <3> QED
      BY <1>1, <3>3, GrownRestartHeld
  <2> QED
    BY <2>3, <2>4
<1> QED
  BY <1>3, <1>4, KilledWrites DEF LocalWrites

\* Every step of the system.
LEMMA NextHeld ==
    ASSUME TypeInv, HeldInv, [Next]_vars, OneCycle, Recording,
           \A w \in Workers :
               Killed(w) /\ Careful /\ pc[w] \in LocalWrites => Sound(disk, Vouch')
    PROVE  HeldInv'
<1>1. CASE UNCHANGED vars
  BY <1>1, SameGrows, OutsideHeld DEF vars, world, engine, history
<1>2. ASSUME NEW w \in Workers,
             \/ StartScan(w) \/ Take(w) \/ SyncStep(w) \/ OtherPathFails(w)
             \/ Killed(w)
      PROVE  HeldInv'
  BY <1>2, CyclesHeld, SyncStepHeld, EngineHeld, KilledHeld
<1>3. CASE Environment
  BY <1>3, UsersHeld, EngineHeld DEF Environment
<1> QED
  BY <1>1, <1>2, <1>3 DEF Next

\* At the start the entry is the common revision or nothing.
LEMMA InitHeld == Init /\ Recording => HeldInv
<1> SUFFICES ASSUME Init, Recording PROVE HeldInv
  OBVIOUS
<1>1. PICK situation \in Starts : InitStore(situation)
  BY DEF Init
<1>2. situation # "upgraded"
  BY DEF Recording
<1>3. PICK others \in Others :
        snap = CASE situation = "synced" -> Agreed(Fresh(others), {}, 1, 1)
                 [] situation = "upgraded" -> [Fresh(others) EXCEPT !.files = <<1, 1>>]
                 [] OTHER -> Fresh(others)
  BY <1>1 DEF InitStore
<1>4. snap.files = None \/ snap.remoteHash = {}
  BY <1>2, <1>3 DEF Fresh, Agreed
<1>5. {} # None
  BY UndefinedAssumption DEF Contents
<1>6. Sound(snap, Vouch) /\ disk = snap
  BY <1>1, <1>4, <1>5 DEF InitStore, Sound, Vouched, Pub
<1>7. Content(local) = {}
  BY <1>1 DEF InitStore, Original, Content
<1>8. \A v \in Workers : pc[v] = "idle" /\ syncing # v
  BY UndefinedAssumption DEF Init
<1> QED
  BY <1>6, <1>7, <1>8 DEF HeldInv, Pub

\* A deletion never wins over an edit made elsewhere: the revision that
\* deleteFromSecondary states consists of edits a user deleted.  This holds in
\* every window and under every configuration, for any number of restarts,
\* provided that OneCycle and Recording hold, no write of the resolver fails, and
\* no restart comes between a write of the local copy and the saving of the
\* snapshot (Kills): one after the deletion at sync.ts:770 does make the engine
\* delete a file that no user deleted, once the configuration is changed back.
THEOREM DeletesAreTheUsers ==
    ASSUME OneCycle, Recording, Faults \cap {"put", "copyPut"} = {},
           Kills \cap LocalWrites = {}
    PROVE  Spec => DeletionsAreTheUsers
<1>1. Init => TypeInv /\ HeldInv
  BY InitType, InitHeld
<1>2. TypeInv /\ HeldInv /\ [Next]_vars => TypeInv' /\ HeldInv'
  <2> SUFFICES ASSUME TypeInv, HeldInv, [Next]_vars PROVE TypeInv' /\ HeldInv'
    OBVIOUS
  <2>1. \A w \in Workers : Killed(w) => pc[w] \notin LocalWrites
    BY KilledWrites
  <2> QED
    BY <2>1, NextType, NextHeld
<1>3. ASSUME TypeInv, HeldInv, NEW w \in Workers, DeleteRemote(w) \/ Killed(w),
             remote # None, remote' = None
      PROVE  remote.c \ {Markers} \subseteq dropped
  <2>1. pc[w] = "deleteRemote" /\ Passes(reg[w].pre)
    <3>1. CASE DeleteRemote(w)
      BY <1>3, <3>1 DEF DeleteRemote, Lost, PushRefused, world
    <3>2. CASE Killed(w)
      <4>1. \A f \in Files : ~SetRemote(f)
        BY <1>3, FileFacts DEF SetRemote
      <4> QED
        BY <1>3, <3>2, <4>1, KilledWrites
    <3> QED
      BY <1>3, <3>1, <3>2
  <2>2. Holds("deleteRemote", reg[w], snap, Vouch, Gone, Had, copies.primary)
    BY <1>3, <2>1, Mine
  <2>3. reg[w].pre.type = "matchesHash" /\ Pub(reg[w].pre.hash, Gone)
    BY <2>2 DEF Holds
  <2>4. remote.c = reg[w].pre.hash
    BY <2>1, <2>3 DEF Passes
  <2>5. Gone \subseteq dropped
    BY DEF Gone, Aside, Lasting
  <2> QED
    BY <2>3, <2>4, <2>5 DEF Pub
<1>4. TypeInv /\ HeldInv =>
        [\A w \in Workers :
             (DeleteRemote(w) \/ Killed(w)) /\ remote # None /\ remote' = None =>
                 remote.c \ {Markers} \subseteq dropped]_vars
  BY <1>3
<1> QED
  BY <1>1, <1>2, <1>4, PTL DEF Spec, DeletionsAreTheUsers

-----------------------------------------------------------------------------
(* As long as the configuration does not change, the path is synced.       *)

Unsynced == {"noteNew", "unwanted", "dropLocal", "unsynced", "note"}

\* The entry is that of a synced path, on a server known to report revisions.
Calm(s) == ~s.nonSynced /\ (Others \subseteq {TRUE} => s.others)

CalmInv ==
    /\ candidate /\ Calm(snap) /\ Calm(disk)
    /\ \A w \in Workers : reg[w].back /\ pc[w] \notin Unsynced

\* What is written to an entry leaves that alone.
LEMMA CalmFacts ==
    ASSUME NEW s \in Snapshots, Calm(s)
    PROVE  /\ Calm(NoEntry(s)) /\ Calm(Forget(s))
           /\ \A c, tl, tr : Calm(Agreed(s, c, tl, tr))
           /\ \A c, tl, tr, h : Calm([Agreed(s, c, tl, tr) EXCEPT !.remoteHash = h])
           /\ \A h : Calm([s EXCEPT !.remoteHash = h]) /\ Calm([s EXCEPT !.baseHash = h])
           /\ \A h, x : Calm([s EXCEPT !.files = x, !.remoteHash = h])
           /\ \A h, x : Calm([[s EXCEPT !.remoteHash = h] EXCEPT !.files = x])
           /\ \A h, x, b : Calm([s EXCEPT !.files = x, !.remoteHash = h, !.baseHash = b])
           /\ \A x : Calm([s EXCEPT !.files = x])
           /\ Calm([s EXCEPT !.others = TRUE])
<1>1. Calm(NoEntry(s)) /\ Calm(Forget(s))
  BY DEF Snapshots, NoEntry, Forget, Calm
<1>2. \A c, tl, tr : Calm(Agreed(s, c, tl, tr))
  BY DEF Snapshots, Agreed, Calm
<1>3. \A c, tl, tr, h : Calm([Agreed(s, c, tl, tr) EXCEPT !.remoteHash = h])
  BY DEF Snapshots, Agreed, Calm
<1>4. \A h : Calm([s EXCEPT !.remoteHash = h]) /\ Calm([s EXCEPT !.baseHash = h])
  BY DEF Snapshots, Calm
<1>5. \A h, x : /\ Calm([s EXCEPT !.files = x, !.remoteHash = h])
                /\ Calm([[s EXCEPT !.remoteHash = h] EXCEPT !.files = x])
  BY DEF Snapshots, Calm
<1>6. \A h, x, b : Calm([s EXCEPT !.files = x, !.remoteHash = h, !.baseHash = b])
  BY DEF Snapshots, Calm
<1>7. (\A x : Calm([s EXCEPT !.files = x])) /\ Calm([s EXCEPT !.others = TRUE])
  BY DEF Snapshots, Calm
<1> QED
  BY <1>1, <1>2, <1>3, <1>4, <1>5, <1>6, <1>7

\* A call goes on.
LEMMA StepCalm ==
    ASSUME TypeInv, CalmInv, NEW w \in Workers, NEW l, NEW r, Step(w, l, r),
           l \notin Unsynced, r.back, Calm(snap'), UNCHANGED candidate
    PROVE  CalmInv'
<1>1. \A v \in Workers : \/ pc'[v] = l /\ reg'[v] = r
                         \/ pc'[v] = pc[v] /\ reg'[v] = reg[v]
  BY DEF Step, Goto, TypeInv, EngineOK
<1> QED
  BY <1>1 DEF CalmInv, Step

\* A call ends.
LEMMA EndCalm ==
    ASSUME TypeInv, CalmInv, NEW w \in Workers, NEW ops \in BOOLEAN,
           Return(w, ops) \/ Abort(w), Calm(snap'), UNCHANGED candidate
    PROVE  CalmInv'
<1>1. \A b : [Blank EXCEPT !.scan = b].back /\ Blank.back
  BY DEF Blank
<1>2. \A v \in Workers : \/ pc'[v] \in {"idle", "tail"} /\ reg'[v].back
                         \/ pc'[v] = pc[v] /\ reg'[v] = reg[v]
  <2>1. CASE Return(w, ops)
    BY <1>1, <2>1 DEF Return, Goto, TypeInv, EngineOK
  <2>2. CASE Abort(w)
    BY <1>1, <2>2 DEF Abort, Goto, TypeInv, EngineOK
  <2> QED
    BY <2>1, <2>2
<1>3. disk' = snap' \/ disk' = disk
  BY DEF Return, Abort
<1> QED
  BY <1>2, <1>3 DEF CalmInv, Unsynced

\* A request fails, or a read does.
LEMMA ThrowCalm ==
    ASSUME TypeInv, CalmInv, NEW w \in Workers, Throw(w), UNCHANGED candidate
    PROVE  CalmInv'
  BY EndCalm DEF Throw, CalmInv

LEMMA FailsCalm ==
    ASSUME TypeInv, CalmInv, NEW w \in Workers, NEW q, Lost(w, q) \/ Rejected(w)
    PROVE  CalmInv'
<1>1. CASE Lost(w, q)
  BY <1>1, ThrowCalm DEF Lost, Users
<1>2. CASE Rejected(w)
  BY <1>2, EndCalm, CalmFacts, Here DEF Rejected, Users, CalmInv
<1> QED
  BY <1>1, <1>2

\* The locals keep syncBack.
LEMMA BackFacts ==
    ASSUME TypeInv, CalmInv, NEW w \in Workers
    PROVE  /\ reg[w].back
           /\ \A x, y : /\ [reg[w] EXCEPT !.data = x, !.pre = y].back
                        /\ [reg[w] EXCEPT !.data = x, !.prior = y].back
                        /\ [reg[w] EXCEPT !.prior = x, !.pre = y].back
                        /\ [reg[w] EXCEPT !.pre = x].back
                        /\ [reg[w] EXCEPT !.rem = x].back
                        /\ [reg[w] EXCEPT !.ops = x].back
                        /\ [reg[w] EXCEPT !.sm = x, !.back = TRUE].back
<1>1. reg[w] \in Registers /\ reg[w].back
  BY Here DEF CalmInv
<1> QED
  BY <1>1 DEF Registers

\* A cycle begins or ends.
LEMMA CyclesCalm ==
    ASSUME TypeInv, CalmInv, NEW w \in Workers, StartScan(w) \/ Take(w) \/ EndScan(w)
    PROVE  CalmInv'
<1>1. ASSUME NEW scan, NEW signal, Begin(w, scan, signal), UNCHANGED <<candidate, snap, disk>>
      PROVE  CalmInv'
  <2> DEFINE r == [Blank EXCEPT !.scan = scan, !.signal = signal, !.pm = Meta(local)]
  <2>1. r.back
    BY DEF Blank
  <2>2. pc' = [pc EXCEPT ![w] = "secondary"] /\ reg' = [reg EXCEPT ![w] = r]
    BY <1>1 DEF Begin, Goto
  <2> HIDE DEF r
  <2>3. \A v \in Workers : \/ pc'[v] = "secondary" /\ reg'[v] = r
                           \/ pc'[v] = pc[v] /\ reg'[v] = reg[v]
    BY <2>2 DEF TypeInv, EngineOK
  <2> QED
    BY <1>1, <2>1, <2>3 DEF CalmInv, Unsynced
<1>2. CASE StartScan(w)
  BY <1>1, <1>2 DEF StartScan
<1>3. CASE Take(w)
  <2>1. CASE UNCHANGED <<syncing, pc, reg>>
    BY <1>3, <2>1 DEF Take, CalmInv
  <2> QED
    BY <1>1, <1>3, <2>1 DEF Take
<1>4. CASE EndScan(w)
  <2>1. \A v \in Workers : \/ pc'[v] = "idle" /\ reg'[v] = Blank
                           \/ pc'[v] = pc[v] /\ reg'[v] = reg[v]
    BY <1>4 DEF EndScan, Goto, TypeInv, EngineOK
  <2>2. Blank.back
    BY DEF Blank
  <2>3. snap' = snap /\ disk' \in {disk, snap} /\ candidate' = candidate
    BY <1>4 DEF EndScan
  <2> QED
    BY <2>1, <2>2, <2>3 DEF CalmInv, Unsynced
<1> QED
  BY <1>2, <1>3, <1>4

\* A synced path takes none of the branches for paths that are not.
LEMMA ScenarioCalm ==
    ASSUME NEW s, NEW pm, NEW sm, NEW signal
    PROVE  Scenario(s, pm, sm, TRUE, signal) \notin Unsynced
  BY DEF Scenario, Unsynced, MustAsk

LEMMA StartsCalm ==
    ASSUME TypeInv, CalmInv, NEW w \in Workers, Secondary(w) \/ Classify(w)
    PROVE  CalmInv'
<1>1. CASE Secondary(w)
  <2> DEFINE b == ~(reg[w].scan /\ remote # None /\ ~candidate)
  <2>1. CASE Lost(w, "meta")
    BY <2>1, FailsCalm
  <2>2. CASE /\ Step(w, "classify", [reg[w] EXCEPT !.sm = Meta(remote), !.back = b])
             /\ UNCHANGED <<candidate, snap>>
    <3>1. b = TRUE
      BY DEF CalmInv
    <3> DEFINE r == [reg[w] EXCEPT !.sm = Meta(remote), !.back = b]
    <3>2. r.back /\ Step(w, "classify", r)
      BY <2>2, <3>1, BackFacts
    <3> HIDE DEF r
    <3> QED
      BY <2>2, <3>2, StepCalm DEF CalmInv, Unsynced
  <2> QED
    BY <1>1, <2>1, <2>2 DEF Secondary
<1>2. CASE Classify(w)
  <2>1. reg[w].back = TRUE
    BY Here DEF CalmInv, Registers
  <2>2. Scenario(snap, reg[w].pm, reg[w].sm, reg[w].back, reg[w].signal) \notin Unsynced
    BY <2>1, ScenarioCalm
  <2> DEFINE r == [reg[w] EXCEPT !.prior = snap.remoteHash,
                                 !.pre = deletePrecondition(snap.remoteHash)]
  <2>3. r.back
    BY BackFacts
  <2>4. /\ Step(w, Scenario(snap, reg[w].pm, reg[w].sm, reg[w].back, reg[w].signal), r)
        /\ snap' = snap /\ candidate' = candidate
    BY <1>2 DEF Classify
  <2> HIDE DEF r
  <2> QED
    BY <2>2, <2>3, <2>4, StepCalm DEF CalmInv
<1> QED
  BY <1>1, <1>2

LEMMA PushesCalm ==
    ASSUME TypeInv, CalmInv, NEW w \in Workers, Pushes(w)
    PROVE  CalmInv'
<1>1. ASSUME NEW from, NEW label, NEW pre, ReadForPush(w, from, label, pre),
             label \notin Unsynced
      PROVE  CalmInv'
  <2>1. CASE Throw(w)
    BY <1>1, <2>1, ThrowCalm DEF ReadForPush
  <2>2. CASE Step(w, label, [reg[w] EXCEPT !.data = local, !.pre = pre]) /\ snap' = snap
    <3> DEFINE r == [reg[w] EXCEPT !.data = local, !.pre = pre]
    <3>1. r.back /\ Step(w, label, r) /\ candidate' = candidate
      BY <1>1, <2>2, BackFacts DEF ReadForPush
    <3> HIDE DEF r
    <3> QED
      BY <1>1, <2>2, <3>1, StepCalm DEF CalmInv
  <2> QED
    BY <1>1, <2>1, <2>2 DEF ReadForPush
<1>2. CASE ReadNew(w) \/ ReadRecreate(w) \/ ReadChanged(w)
  BY <1>1, <1>2 DEF ReadNew, ReadRecreate, ReadChanged, Unsynced
<1>3. CASE RevisionForPush(w)
  <2>1. CASE Lost(w, "get")
    BY <2>1, FailsCalm
  <2>2. Calm(remoteRevision)
    BY CalmFacts, Here DEF remoteRevision, CalmInv
  <2> DEFINE current == IF remote = None THEN None ELSE remote.c
             r == [reg[w] EXCEPT !.pre = pushPrecondition(current)]
  <2>3. r.back
    BY BackFacts
  <2>4. CASE snap' = remoteRevision /\ candidate' = candidate /\ Step(w, "putChanged", r)
    <3> HIDE DEF r
    <3> QED
      BY <2>2, <2>3, <2>4, StepCalm DEF Unsynced
  <2> QED
    BY <1>3, <2>1, <2>4 DEF RevisionForPush
<1>4. ASSUME PushLands(w) PROVE CalmInv'
  <2>1. candidate' = candidate
    BY <1>4 DEF PushLands, Users
  <2>2. CASE Throw(w)
    BY <2>1, <2>2, ThrowCalm
  <2>3. Calm(Agreed(snap, reg[w].data.c, reg[w].data.t, reg[w].data.t))
    BY CalmFacts, Here DEF CalmInv
  <2> QED
    BY <1>4, <2>1, <2>2, <2>3, EndCalm DEF PushLands
<1>5. ASSUME NEW label \in {"resolve", "reconcile"}, PushRefused(w, label) PROVE CalmInv'
  BY <1>5, StepCalm, BackFacts DEF PushRefused, CalmInv, Unsynced
<1>6. CASE PutNew(w) \/ PutChanged(w)
  BY <1>4, <1>5, <1>6, FailsCalm DEF PutNew, PutChanged
<1>7. CASE PutRecreate(w)
  <2>1. CASE UNCHANGED <<snap, candidate>> /\ Return(w, TRUE)
    BY <2>1, EndCalm DEF CalmInv
  <2> QED
    BY <1>4, <1>7, <2>1, FailsCalm DEF PutRecreate
<1> QED
  BY <1>2, <1>3, <1>6, <1>7 DEF Pushes

LEMMA DeletesCalm ==
    ASSUME TypeInv, CalmInv, NEW w \in Workers, Deletes(w)
    PROVE  CalmInv'
<1> USE DEF Unsynced
<1>0. Calm(snap) /\ Calm(Forget(snap)) /\ Calm(NoEntry(snap)) /\ Calm(remoteRevision)
  BY CalmFacts, Here DEF CalmInv, remoteRevision
<1>1. CASE DeletedRemote(w)
  <2>1. candidate' = candidate /\ Calm(snap')
    BY <1>0, <1>1 DEF DeletedRemote
  <2> QED
    BY <1>1, <2>1, StepCalm, BackFacts DEF DeletedRemote
<1>2. CASE DeleteLocalCopy(w)
  <2>1. candidate' = candidate
    BY <1>2 DEF DeleteLocalCopy, Users
  <2>2. CASE Throw(w)
    BY <2>1, <2>2, ThrowCalm
  <2> QED
    BY <1>0, <1>2, <2>1, <2>2, EndCalm DEF DeleteLocalCopy
<1>3. CASE RevisionForDelete(w)
  <2>1. CASE Lost(w, "get")
    BY <2>1, FailsCalm
  <2>2. CASE snap' = Forget(snap) /\ Return(w, TRUE) /\ candidate' = candidate
    BY <1>0, <2>2, EndCalm
  <2>3. CASE /\ snap' = remoteRevision /\ candidate' = candidate
             /\ Step(w, "deleteRemote", [reg[w] EXCEPT !.pre = Matches(remote.c)])
    <3> DEFINE r == [reg[w] EXCEPT !.pre = Matches(remote.c)]
    <3>1. r.back /\ Step(w, "deleteRemote", r)
      BY <2>3, BackFacts
    <3> HIDE DEF r
    <3> QED
      BY <1>0, <2>3, <3>1, StepCalm
  <2> QED
    BY <1>3, <2>1, <2>2, <2>3 DEF RevisionForDelete
<1>4. CASE DeleteRemote(w)
  <2>1. CASE Lost(w, "delete")
    BY <2>1, FailsCalm
  <2>2. CASE PushRefused(w, "pull")
    BY <1>0, <2>2, StepCalm, BackFacts DEF PushRefused
  <2>3. CASE Throw(w) /\ candidate' = candidate
    BY <2>3, ThrowCalm
  <2>4. CASE snap' = Forget(snap) /\ Return(w, TRUE) /\ candidate' = candidate
    BY <1>0, <2>4, EndCalm
  <2> QED
    BY <1>4, <2>1, <2>2, <2>3, <2>4 DEF DeleteRemote, Users
<1>5. CASE ForgetPath(w)
  BY <1>0, <1>5, EndCalm DEF ForgetPath
<1> QED
  BY <1>1, <1>2, <1>3, <1>4, <1>5 DEF Deletes

LEMMA NotesCalm ==
    ASSUME TypeInv, CalmInv, NEW w \in Workers, Notes(w)
    PROVE  CalmInv'
<1>0. Calm(snap) /\ Calm(remoteRevision) /\ pc[w] \notin Unsynced
  BY CalmFacts, Here DEF CalmInv, remoteRevision
<1>1. ~NoteNew(w) /\ ~DropLocal(w) /\ ~DropUnsynced(w)
  BY <1>0 DEF NoteNew, DropLocal, DropUnsynced, Unsynced
<1>2. CASE NothingToDo(w)
  <2>1. pc[w] = "done"
    BY <1>0, <1>2 DEF NothingToDo, Unsynced
  <2>2. Calm(snap')
    BY <1>0, <1>2, <2>1, Here DEF NothingToDo, Calm, Snapshots
  <2> QED
    BY <1>2, <2>2, EndCalm DEF NothingToDo
<1>3. CASE Verify(w)
  <2>1. snap' = snap /\ candidate' = candidate
    BY <1>3 DEF Verify
  <2>2. CASE Return(w, FALSE)
    BY <1>0, <2>1, <2>2, EndCalm
  <2>3. ASSUME NEW l \in {"verifyRemote", "reconcile", "changedLocal", "changedRemote"},
               Step(w, l, [reg[w] EXCEPT !.data = local, !.prior = snap.remoteHash])
        PROVE  CalmInv'
    <3> DEFINE r == [reg[w] EXCEPT !.data = local, !.prior = snap.remoteHash]
    <3>1. r.back /\ Step(w, l, r)
      BY <2>3, BackFacts
    <3> HIDE DEF r
    <3> QED
      BY <1>0, <2>1, <2>3, <3>1, StepCalm DEF Unsynced
  <2> QED
    BY <1>3, <2>2, <2>3 DEF Verify
<1>4. CASE VerifyRemote(w)
  <2>1. CASE Lost(w, "get")
    BY <2>1, FailsCalm
  <2>2. CASE snap' = remoteRevision /\ candidate' = candidate /\ Step(w, "reconcile", reg[w])
    BY <1>0, <2>2, StepCalm, BackFacts DEF Unsynced
  <2>3. CASE snap' = remoteRevision /\ candidate' = candidate /\ Return(w, FALSE)
    BY <1>0, <2>3, EndCalm
  <2> QED
    BY <1>4, <2>1, <2>2, <2>3 DEF VerifyRemote
<1> QED
  BY <1>1, <1>2, <1>3, <1>4 DEF Notes

LEMMA PullsCalm ==
    ASSUME TypeInv, CalmInv, NEW w \in Workers, Pulls(w)
    PROVE  CalmInv'
<1> USE DEF Unsynced
<1>0. /\ Calm(snap)
      /\ \A h : Calm([snap EXCEPT !.remoteHash = h])
      /\ \A c, tl, tr, h : Calm([Agreed(snap, c, tl, tr) EXCEPT !.remoteHash = h])
  BY CalmFacts, Here DEF CalmInv
<1>1. CASE ChangedRemote(w)
  BY <1>0, <1>1, StepCalm, BackFacts DEF ChangedRemote
<1>2. CASE PullBefore(w)
  <2> DEFINE r == [reg[w] EXCEPT !.data = local, !.prior = snap.remoteHash]
  <2>1. r.back /\ Step(w, "pullGet", r) /\ snap' = snap /\ candidate' = candidate
    BY <1>2, BackFacts DEF PullBefore
  <2> HIDE DEF r
  <2> QED
    BY <1>0, <2>1, StepCalm
<1>3. CASE PullGet(w)
  <2>1. CASE Lost(w, "get")
    BY <2>1, FailsCalm
  <2>2. CASE Throw(w) /\ candidate' = candidate
    BY <2>2, ThrowCalm
  <2>3. CASE /\ snap' = [snap EXCEPT !.remoteHash = remote.c] /\ candidate' = candidate
             /\ Step(w, "pullCheck", [reg[w] EXCEPT !.rem = remote])
    BY <1>0, <2>3, StepCalm, BackFacts
  <2> QED
    BY <1>3, <2>1, <2>2, <2>3 DEF PullGet
<1>4. CASE PullCheck(w)
  <2>1. CASE Step(w, "pullWrite", reg[w]) /\ snap' = snap
    BY <1>0, <1>4, <2>1, StepCalm, BackFacts DEF PullCheck
  <2>2. CASE snap' = Unrecorded(reg[w].prior) /\ Return(w, FALSE)
    BY <1>0, <1>4, <2>2, EndCalm DEF PullCheck, Unrecorded
  <2> QED
    BY <1>4, <2>1, <2>2 DEF PullCheck
<1>5. CASE PullWrite(w)
  <2>1. Calm(snap') /\ candidate' = candidate /\ Return(w, TRUE)
    BY <1>0, <1>5 DEF PullWrite, Users
  <2> QED
    BY <2>1, EndCalm
<1> QED
  BY <1>1, <1>2, <1>3, <1>4, <1>5 DEF Pulls

LEMMA MergesCalm ==
    ASSUME TypeInv, CalmInv, NEW w \in Workers, Merges(w)
    PROVE  CalmInv'
<1> USE DEF Unsynced
<1>0. /\ Calm(snap)
      /\ \A h : Calm([snap EXCEPT !.baseHash = h])
      /\ \A h, x, b : Calm([snap EXCEPT !.files = x, !.remoteHash = h, !.baseHash = b])
  BY CalmFacts, Here DEF CalmInv
<1>1. CASE Reconcile(w)
  <2>1. snap' = snap /\ candidate' = candidate
    BY <1>1 DEF Reconcile
  <2> DEFINE r == [reg[w] EXCEPT !.data = local, !.prior = snap.baseHash]
  <2>2. r.back /\ reg[w].back /\ (Step(w, "post", r) \/ Step(w, "resolve", reg[w]))
    BY <1>1, BackFacts DEF Reconcile
  <2> HIDE DEF r
  <2> QED
    BY <1>0, <2>1, <2>2, StepCalm
<1>2. CASE Post(w)
  <2>1. snap' = snap /\ candidate' = candidate
    BY <1>2 DEF Post, Users
  <2>2. \/ Step(w, "resolve", reg[w])
        \/ \E result \in Files : Step(w, "reconciled", [reg[w] EXCEPT !.rem = result])
    BY <1>2 DEF Post
  <2> QED
    BY <1>0, <2>1, <2>2, StepCalm, BackFacts
<1>3. CASE PostRetry(w)
  BY <1>0, <1>3, EndCalm DEF PostRetry
<1>4. CASE Reconciled(w)
  <2>1. CASE Step(w, "reconcileWrite", reg[w]) /\ snap' = snap
    BY <1>0, <1>4, <2>1, StepCalm, BackFacts DEF Reconciled
  <2>2. CASE snap' = localAdvanced(reg[w].data.c) /\ Return(w, TRUE)
    BY <1>0, <1>4, <2>2, EndCalm DEF Reconciled, localAdvanced
  <2> QED
    BY <1>4, <2>1, <2>2 DEF Reconciled
<1>5. CASE ReconcileWrite(w)
  <2>1. Calm(snap') /\ candidate' = candidate /\ Return(w, TRUE)
    BY <1>0, <1>5 DEF ReconcileWrite, Users
  <2> QED
    BY <2>1, EndCalm
<1> QED
  BY <1>1, <1>2, <1>3, <1>4, <1>5 DEF Merges

LEMMA ResolvesCalm ==
    ASSUME TypeInv, CalmInv, NEW w \in Workers, Resolves(w)
    PROVE  CalmInv'
<1> USE DEF Unsynced
<1>0. /\ Calm(snap)
      /\ \A h : Calm([snap EXCEPT !.remoteHash = h]) /\ Calm([snap EXCEPT !.baseHash = h])
      /\ \A h, x : Calm([snap EXCEPT !.files = x, !.remoteHash = h])
      /\ \A h, x : Calm([[snap EXCEPT !.remoteHash = h] EXCEPT !.files = x])
      /\ \A x : Calm([snap EXCEPT !.files = x])
      /\ Calm([snap EXCEPT !.others = TRUE])
  BY CalmFacts, Here DEF CalmInv
<1>1. CASE ResolveRead(w)
  <2>1. CASE Throw(w)
    BY <1>1, <2>1, ThrowCalm DEF ResolveRead, ReadForPush
  <2> DEFINE r == [reg[w] EXCEPT !.data = local, !.pre = Unconditional]
  <2>2. r.back
    BY BackFacts
  <2>3. CASE Step(w, "resolveGet", r) /\ snap' = snap /\ candidate' = candidate
    <3> HIDE DEF r
    <3> QED
      BY <1>0, <2>2, <2>3, StepCalm
  <2> QED
    BY <1>1, <2>1, <2>3 DEF ResolveRead, ReadForPush
<1>2. CASE ResolveGet(w)
  <2>1. CASE Lost(w, "get")
    BY <2>1, FailsCalm
  <2>2. CASE Throw(w) /\ candidate' = candidate
    BY <2>2, ThrowCalm
  <2>3. CASE /\ Calm(snap') /\ candidate' = candidate
             /\ \/ Step(w, "resolverBase", reg[w])
                \/ Step(w, "copyCheck", [reg[w] EXCEPT !.rem = remote])
    BY <2>3, StepCalm, BackFacts
  <2>4. CASE /\ remote # None /\ candidate' = candidate
             /\ LET s == [snap EXCEPT !.remoteHash = remote.c]
                IN  IF remote.c = reg[w].data.c
                    THEN /\ snap' = [s EXCEPT !.files = <<reg[w].data.t, remote.t>>]
                         /\ Step(w, "resolverBase", reg[w])
                    ELSE /\ snap' = s
                         /\ Step(w, "copyCheck", [reg[w] EXCEPT !.rem = remote])
    <3> DEFINE s == [snap EXCEPT !.remoteHash = remote.c]
               x == <<reg[w].data.t, remote.t>>
    <3>0. Calm(s) /\ Calm([s EXCEPT !.files = x])
      BY <1>0
    <3>1. Calm(snap')
      <4>1. snap' = s \/ snap' = [s EXCEPT !.files = x]
        BY <2>4
      <4> HIDE DEF s, x
      <4> QED
        BY <3>0, <4>1
    <3> QED
      BY <2>3, <2>4, <3>1
  <2> QED
    BY <1>2, <2>1, <2>2, <2>4 DEF ResolveGet
<1>3. CASE CopyCheck(w)
  <2>1. CASE Lost(w, "copyMeta")
    BY <2>1, FailsCalm
  <2> QED
    BY <1>0, <1>3, <2>1, StepCalm, BackFacts DEF CopyCheck
<1>4. CASE CopyPut(w)
  <2>1. CASE Lost(w, "copyPut")
    BY <2>1, FailsCalm
  <2>2. CASE Throw(w) /\ candidate' = candidate
    BY <2>2, ThrowCalm
  <2>3. CASE /\ Calm(snap') /\ candidate' = candidate
             /\ Step(w, "resolveCheck", [reg[w] EXCEPT !.ops = TRUE])
    BY <2>3, StepCalm, BackFacts
  <2> QED
    BY <1>0, <1>4, <2>1, <2>2, <2>3 DEF CopyPut
<1>5. reg[w].ops \in BOOLEAN
  BY Here DEF Registers
<1>6. CASE ResolveCheck(w)
  <2>1. CASE Step(w, "resolvePut", reg[w]) /\ snap' = snap
    BY <1>0, <1>6, <2>1, StepCalm, BackFacts DEF ResolveCheck
  <2>2. CASE snap' = [snap EXCEPT !.files = None] /\ Return(w, reg[w].ops)
    BY <1>0, <1>5, <1>6, <2>2, EndCalm DEF ResolveCheck
  <2> QED
    BY <1>6, <2>1, <2>2 DEF ResolveCheck
<1>7. CASE ResolvePut(w)
  <2>1. CASE Lost(w, "put") \/ Rejected(w)
    BY <2>1, FailsCalm
  <2>2. CASE Throw(w) /\ candidate' = candidate
    BY <2>2, ThrowCalm
  <2>3. CASE /\ Calm(snap') /\ candidate' = candidate
             /\ Step(w, "resolverBase", [reg[w] EXCEPT !.ops = TRUE])
    BY <2>3, StepCalm, BackFacts
  <2>4. CASE Calm(snap') /\ candidate' = candidate /\ Return(w, reg[w].ops)
    BY <1>5, <2>4, EndCalm
  <2>5. ASSUME NEW t, snap' = Resolved(reg[w].data, t) PROVE Calm(snap')
    BY <1>0, <2>5 DEF Resolved
  <2>6. CASE \E t \in Now :
               \/ snap' = Resolved(reg[w].data, t)
                  /\ Step(w, "resolverBase", [reg[w] EXCEPT !.ops = TRUE])
                  /\ candidate' = candidate
               \/ Throw(w) /\ candidate' = candidate
    BY <2>2, <2>3, <2>5, <2>6
  <2>7. CASE /\ snap' = [snap EXCEPT !.files = None, !.remoteHash = None]
             /\ Return(w, reg[w].ops) /\ candidate' = candidate
    BY <1>0, <2>4, <2>7
  <2> QED
    BY <1>7, <2>1, <2>6, <2>7 DEF ResolvePut, Users
<1>8. CASE ResolverBase(w)
  <2>1. Calm(snap') /\ candidate' = candidate /\ Return(w, reg[w].ops)
    BY <1>0, <1>8 DEF ResolverBase
  <2> QED
    BY <1>5, <2>1, EndCalm
<1> QED
  BY <1>1, <1>2, <1>3, <1>4, <1>6, <1>7, <1>8 DEF Resolves

\* Everyone else: the configuration stays as it is.
LEMMA OutsideCalm ==
    ASSUME TypeInv, CalmInv, MaxReconfigs = 0,
           Environment \/ \E w \in Workers : OtherPathFails(w) \/ Killed(w)
    PROVE  CalmInv'
<1>1. CASE SaveLocal \/ DeleteLocal \/ SaveRemote \/ DeleteRemotely
  <2>1. UNCHANGED <<candidate, snap, disk, pc, reg>>
    BY <1>1 DEF SaveLocal, DeleteLocal, SaveRemote, DeleteRemotely, engine
  <2> QED
    BY <2>1 DEF CalmInv
<1>2. ~SetSyncConfig
  BY ConstantsAssumption DEF SetSyncConfig, TypeInv, WorldOK
<1>3. CASE OtherPathSynced
  BY <1>3 DEF OtherPathSynced, CalmInv
<1>4. ASSUME NEW w \in Workers, OtherPathFails(w) PROVE CalmInv'
  BY <1>4 DEF OtherPathFails, CalmInv
<1>5. CASE Crash
  <2>1. Blank.back
    BY DEF Blank
  <2> QED
    BY <1>5, <2>1 DEF Crash, Restart, CalmInv, Unsynced
<1>6. ASSUME NEW w \in Workers, Killed(w) PROVE CalmInv'
  <2>1. Blank.back /\ Restart
    BY <1>6 DEF Blank, Killed
  <2> QED
    BY <2>1 DEF Restart, CalmInv, Unsynced
<1> QED
  BY <1>1, <1>2, <1>3, <1>4, <1>5, <1>6 DEF Environment

LEMMA NextCalm ==
    ASSUME TypeInv, CalmInv, MaxReconfigs = 0, [Next]_vars
    PROVE  CalmInv'
<1>1. CASE UNCHANGED vars
  BY <1>1 DEF vars, engine, CalmInv
<1>2. ASSUME NEW w \in Workers, SyncStep(w) PROVE CalmInv'
  BY <1>2, StartsCalm, PushesCalm, DeletesCalm, NotesCalm, PullsCalm, MergesCalm, ResolvesCalm,
     CyclesCalm DEF SyncStep
<1>3. CASE Environment \/ \E w \in Workers : OtherPathFails(w) \/ Killed(w)
  BY <1>3, OutsideCalm
<1> QED
  BY <1>1, <1>2, <1>3, CyclesCalm DEF Next

LEMMA InitCalm == Init => CalmInv
<1> SUFFICES ASSUME Init PROVE CalmInv
  OBVIOUS
<1>1. PICK situation \in Starts : InitStore(situation)
  BY DEF Init
<1>2. PICK others \in Others :
        snap = CASE situation = "synced" -> Agreed(Fresh(others), {}, 1, 1)
                 [] situation = "upgraded" -> [Fresh(others) EXCEPT !.files = <<1, 1>>]
                 [] OTHER -> Fresh(others)
  BY <1>1 DEF InitStore
<1>3. ~snap.nonSynced /\ snap.others = others
  BY <1>2 DEF Fresh, Agreed
<1>4. Calm(snap) /\ disk = snap
  BY <1>1, <1>3 DEF Calm, InitStore
<1>5. \A v \in Workers : pc[v] = "idle" /\ reg[v].back
  BY DEF Init, Blank
<1> QED
  BY <1>4, <1>5 DEF Init, CalmInv, Unsynced

-----------------------------------------------------------------------------
(* No edit is lost.  An overwritten or deleted copy loses nothing because  *)
(* of what the call found out before: that the local copy is on the server *)
(* or put aside, that the server's revision is what the local copy was     *)
(* made from, or that its user deleted it.                                 *)

\* What this replica can produce.
Present == Stored \cup Content(local)

\* No edit is lost: on the server, and here.
Intact ==
    /\ published \subseteq Stored \cup Content(remote)
    /\ 1..made \subseteq Present \cup published

\* The recorded revision was on the server.
Served(c, p) == c # None => Pub(c, p)

Guarded == {"deletedRemote", "deleteLocal", "pullCheck", "pullWrite", "reconcileWrite",
            "putNew", "putRecreate", "putChanged", "post", "classify", "reconciled"}

\* The saved entry k refers to nothing outside of d.
Survives(k, d) == OtherPaths \/ (Served(k.remoteHash, d) /\ Entry(k, d))

\* What a call at l relies on when it overwrites or deletes a copy: f is the
\* local copy, d is Stored and p the edits published.  The saved entry k must make
\* sense without the copy as well, should the worker be killed after the write.
Safe(l, r, s, k, f, d, p) ==
    /\ l = "classify" => r.sm # None \/ Survives(k, d)
    /\ l = "deletedRemote" => r.prior # None /\ Pub(r.prior, p) /\ Survives(k, d)
    /\ l = "deleteLocal" => s.baseHash = None /\ Pub(Content(f), p) /\ Survives(k, d)
    /\ l = "pullCheck" => Served(r.prior, p) /\ (r.data = None \/ Pub(r.data.c, d \cup p))
    /\ l \in {"pullWrite", "reconcileWrite"} => Pub(Content(f), d \cup p)
    /\ l \in {"pullCheck", "pullWrite", "reconciled", "reconcileWrite"} =>
         Survives(k, d \cup r.rem.c)
    /\ l \in {"putNew", "putRecreate"} => r.pre = NotExists
    /\ l = "putChanged" => r.pre.type = "matchesHash" /\ Pub(r.pre.hash, d \cup r.data.c)
    /\ l = "post" => Pub(r.prior, d \cup r.data.c)

LossInv ==
    /\ Intact
    /\ Served(snap.remoteHash, published) /\ Served(disk.remoteHash, published)
    /\ Entry(snap, Present) /\ (~OtherPaths => Entry(disk, Present))
    /\ \A w \in Workers : Safe(pc[w], reg[w], snap, disk, local, Stored, published)

\* What a step adds to, and what it leaves of, the places where edits are.
Keeps ==
    /\ Stored \subseteq Stored' /\ published \subseteq published'
    /\ Pub(Present, Present')

\* An entry whose base is still present stays so.
LEMMA EntryKeeps ==
    ASSUME NEW s, NEW p, NEW q, Pub(p, q), Entry(s, p)
    PROVE  Entry(s, q)
  BY DEF Entry, Pub

LEMMA SurvivesKeeps ==
    ASSUME NEW k, NEW j, j = k \/ OtherPaths, NEW d, NEW e, d \subseteq e, Survives(k, d)
    PROVE  Survives(j, e)
  BY DEF Survives, Served, Entry, Pub

\* A waiting call's local copy is as it was, or gone.
LEMMA SafeKeeps ==
    ASSUME NEW l, NEW r, NEW s, NEW k, NEW j, NEW f, NEW g, NEW d, NEW e, NEW p, NEW q,
           Safe(l, r, s, k, f, d, p), d \subseteq e, p \subseteq q, j = k \/ OtherPaths,
           l \in {"deleteLocal", "pullWrite", "reconcileWrite"} => g = f \/ g = None
    PROVE  Safe(l, r, s, j, g, e, q)
<1>1. \A c : Pub(c, p) => Pub(c, q)
  BY DEF Pub
<1>2. \A c, x : (Pub(c, d \cup p) => Pub(c, e \cup q)) /\ (Pub(c, d \cup x) => Pub(c, e \cup x))
  BY DEF Pub
<1>3. Pub(Content(None), q) /\ Pub(Content(None), e \cup q)
  BY DEF Pub, Content
<1>4. \A x : d \cup x \subseteq e \cup x
  OBVIOUS
<1>5. Survives(k, d) => Survives(j, e)
  BY SurvivesKeeps
<1>6. Survives(k, d \cup r.rem.c) => Survives(j, e \cup r.rem.c)
  BY <1>4, SurvivesKeeps
<1> QED
  BY <1>1, <1>2, <1>3, <1>5, <1>6 DEF Safe, Served

\* At the other steps nothing is about to be lost.
LEMMA PlainSafe ==
    ASSUME NEW l, l \notin Guarded, NEW r, NEW s, NEW k, NEW f, NEW d, NEW p
    PROVE  Safe(l, r, s, k, f, d, p)
  BY DEF Safe, Guarded

\* Steps that write neither copy.
LEMMA StillLoss ==
    ASSUME LossInv, UNCHANGED <<local, remote, published, made, dropped>>,
           safety \subseteq safety', copies.primary \subseteq copies.primary',
           copies.secondary \subseteq copies.secondary'
    PROVE  Intact' /\ Keeps
<1>1. Kept \subseteq Kept'
  BY DEF Kept
<1>2. Stored \subseteq Stored' /\ Content(local') = Content(local)
  BY <1>1 DEF Stored
<1> QED
  BY <1>2 DEF LossInv, Intact, Keeps, Present, Pub

LEMMA SameLoss ==
    ASSUME LossInv, UNCHANGED <<local, remote, published, made, dropped, kept>>
    PROVE  Intact' /\ Keeps
  BY StillLoss DEF kept

\* The one call under way goes on at l with the locals r, or ends.
LEMMA CallLoss ==
    ASSUME TypeInv, LossInv, NEW w \in Workers, \A v \in Workers : v # w => pc[v] = "idle",
           NEW l, NEW r, pc' = [pc EXCEPT ![w] = l], reg' = [reg EXCEPT ![w] = r],
           Intact', Served(snap'.remoteHash, published'), Entry(snap', Present'),
           Safe(l, r, snap', disk', local', Stored', published'),
           (Keeps /\ disk' = disk) \/ disk' = snap'
    PROVE  LossInv'
<1>1. ASSUME NEW v \in Workers
      PROVE  Safe(pc'[v], reg'[v], snap', disk', local', Stored', published')
  <2>1. CASE v = w
    BY <2>1 DEF TypeInv, EngineOK
  <2>2. CASE v # w
    <3>1. pc'[v] = "idle"
      BY <2>2 DEF TypeInv, EngineOK
    <3> QED
      BY <3>1, PlainSafe DEF Guarded
  <2> QED
    BY <2>1, <2>2
<1>2. Served(disk'.remoteHash, published') /\ (~OtherPaths => Entry(disk', Present'))
  <2>1. CASE Keeps /\ disk' = disk
    BY <2>1, PubGrows, EntryKeeps DEF LossInv, Keeps, Served
  <2>2. CASE disk' = snap'
    BY <2>2
  <2> QED
    BY <2>1, <2>2
<1> QED
  BY <1>1, <1>2 DEF LossInv

\* It goes on.
LEMMA StepLoss ==
    ASSUME TypeInv, HeldInv, LossInv, NEW w \in Workers, pc[w] # "idle", NEW l, NEW r,
           Step(w, l, r), Intact', Keeps,
           Served(snap'.remoteHash, published'), Entry(snap', Present'),
           Safe(l, r, snap', disk', local', Stored', published')
    PROVE  LossInv'
<1>1. pc' = [pc EXCEPT ![w] = l] /\ reg' = [reg EXCEPT ![w] = r] /\ disk' = disk
  BY DEF Step, Goto
<1> QED
  BY <1>1, Mine, CallLoss

\* It returns or throws.
LEMMA EndLoss ==
    ASSUME TypeInv, HeldInv, LossInv, NEW w \in Workers, pc[w] # "idle", NEW ops \in BOOLEAN,
           Return(w, ops) \/ Abort(w), Intact',
           Served(snap'.remoteHash, published'), Entry(snap', Present'),
           Keeps \/ disk' = snap'
    PROVE  LossInv'
<1>1. disk' = disk \/ disk' = snap'
  BY DEF Return, Abort
<1>2. CASE Return(w, ops)
  <2> DEFINE l == IF reg[w].scan /\ syncing = w THEN "tail" ELSE "idle"
             r == [Blank EXCEPT !.scan = reg[w].scan /\ syncing = w]
  <2>1. /\ pc' = [pc EXCEPT ![w] = l] /\ reg' = [reg EXCEPT ![w] = r]
        /\ l \in {"tail", "idle"}
    BY <1>2 DEF Return, Goto
  <2> HIDE DEF l, r
  <2>2. Safe(l, r, snap', disk', local', Stored', published')
    BY <2>1, PlainSafe DEF Guarded
  <2> QED
    BY <1>1, <2>1, <2>2, Mine, CallLoss
<1>3. CASE Abort(w)
  <2>1. pc' = [pc EXCEPT ![w] = "idle"] /\ reg' = [reg EXCEPT ![w] = Blank]
    BY <1>3 DEF Abort, Goto
  <2>2. Safe("idle", Blank, snap', disk', local', Stored', published')
    BY PlainSafe DEF Guarded
  <2> QED
    BY <1>1, <2>1, <2>2, Mine, CallLoss
<1> QED
  BY <1>2, <1>3

\* It throws without having written anything.
LEMMA ThrowLoss ==
    ASSUME TypeInv, HeldInv, LossInv, NEW w \in Workers, pc[w] # "idle", Throw(w),
           Intact', Keeps
    PROVE  LossInv'
<1>1. Served(snap'.remoteHash, published') /\ Entry(snap', Present')
  BY PubGrows, EntryKeeps DEF Throw, LossInv, Keeps, Served
<1> QED
  BY <1>1, EndLoss DEF Throw

LEMMA QuietThrowLoss ==
    ASSUME TypeInv, HeldInv, LossInv, NEW w \in Workers, pc[w] # "idle", Throw(w),
           UNCHANGED <<local, remote, published, made, dropped, kept>>
    PROVE  LossInv'
  BY SameLoss, ThrowLoss

LEMMA LostLoss ==
    ASSUME TypeInv, HeldInv, LossInv, NEW w \in Workers, pc[w] # "idle", NEW q, Lost(w, q)
    PROVE  LossInv'
  BY QuietThrowLoss DEF Lost, Users, world

\* It returns without having written anything but the entry.
LEMMA QuietReturnLoss ==
    ASSUME TypeInv, HeldInv, LossInv, NEW w \in Workers, pc[w] # "idle", NEW ops \in BOOLEAN,
           Return(w, ops), UNCHANGED <<local, remote, published, made, dropped, kept>>,
           Served(snap'.remoteHash, published), Entry(snap', Present)
    PROVE  LossInv'
<1>1. Intact' /\ Keeps
  BY SameLoss
<1>2. Served(snap'.remoteHash, published') /\ Entry(snap', Present')
  BY <1>1, PubGrows, EntryKeeps DEF Keeps, Served
<1> QED
  BY <1>1, <1>2, EndLoss

\* It goes on to a step that loses nothing.
LEMMA PlainStepLoss ==
    ASSUME TypeInv, HeldInv, LossInv, NEW w \in Workers, pc[w] # "idle",
           NEW l, l \notin Guarded, NEW r, Step(w, l, r), Intact', Keeps,
           Served(snap'.remoteHash, published'), Entry(snap', Present')
    PROVE  LossInv'
  BY PlainSafe, StepLoss

\* The same, with another entry perhaps.
LEMMA QuietStepLoss ==
    ASSUME TypeInv, HeldInv, LossInv, NEW w \in Workers, pc[w] # "idle",
           NEW l, NEW r, Step(w, l, r),
           UNCHANGED <<local, remote, published, made, dropped, kept>>,
           Served(snap'.remoteHash, published), Entry(snap', Present),
           Safe(l, r, snap', disk, local, Stored, published)
    PROVE  LossInv'
<1>1. Intact' /\ Keeps
  BY SameLoss
<1>2. Served(snap'.remoteHash, published') /\ Entry(snap', Present')
  BY <1>1, PubGrows, EntryKeeps DEF Keeps, Served
<1>3. Safe(l, r, snap', disk', local', Stored', published')
  BY <1>1, SafeKeeps DEF Keeps, Step
<1> QED
  BY <1>1, <1>2, <1>3, StepLoss

\* What a call finds.
LEMMA LossHere ==
    ASSUME LossInv, NEW w \in Workers
    PROVE  /\ Served(snap.remoteHash, published) /\ Entry(snap, Present)
           /\ Safe(pc[w], reg[w], snap, disk, local, Stored, published)
  BY DEF LossInv

\* What an entry made of these pieces refers to.
LEMMA HashFacts ==
    ASSUME NEW s \in Snapshots
    PROVE  /\ NoEntry(s).remoteHash = None /\ Forget(s).remoteHash = None
           /\ \A h, b : [s EXCEPT !.baseHash = b].remoteHash = s.remoteHash
           /\ \A h, x : /\ [s EXCEPT !.files = x, !.remoteHash = h].remoteHash = h
                        /\ [s EXCEPT !.files = x, !.remoteHash = h].baseHash = s.baseHash
           /\ \A h, x, b : /\ [s EXCEPT !.files = x, !.remoteHash = h, !.baseHash = b].remoteHash = h
                           /\ [s EXCEPT !.files = x, !.remoteHash = h, !.baseHash = b].baseHash = b
           /\ \A c, tl, tr, h : /\ [Agreed(s, c, tl, tr) EXCEPT !.remoteHash = h].remoteHash = h
                                /\ [Agreed(s, c, tl, tr) EXCEPT !.remoteHash = h].baseHash = c
           /\ [s EXCEPT !.others = TRUE].remoteHash = s.remoteHash
           /\ [s EXCEPT !.others = TRUE].baseHash = s.baseHash
<1>1. NoEntry(s).remoteHash = None /\ Forget(s).remoteHash = None
  BY DEF Snapshots, NoEntry, Forget
<1>2. \A c, tl, tr, h : /\ [Agreed(s, c, tl, tr) EXCEPT !.remoteHash = h].remoteHash = h
                        /\ [Agreed(s, c, tl, tr) EXCEPT !.remoteHash = h].baseHash = c
  BY DEF Snapshots, Agreed
<1>3. /\ \A h, b : [s EXCEPT !.baseHash = b].remoteHash = s.remoteHash
      /\ [s EXCEPT !.others = TRUE].remoteHash = s.remoteHash
      /\ [s EXCEPT !.others = TRUE].baseHash = s.baseHash
  BY DEF Snapshots
<1>4. \A h, x : /\ [s EXCEPT !.files = x, !.remoteHash = h].remoteHash = h
                /\ [s EXCEPT !.files = x, !.remoteHash = h].baseHash = s.baseHash
  BY DEF Snapshots
<1>5. \A h, x, b : /\ [s EXCEPT !.files = x, !.remoteHash = h, !.baseHash = b].remoteHash = h
                   /\ [s EXCEPT !.files = x, !.remoteHash = h, !.baseHash = b].baseHash = b
  BY DEF Snapshots
<1> QED
  BY <1>1, <1>2, <1>3, <1>4, <1>5

\* What vouches for a recorded revision is present here, or put aside.
LEMMA VouchPresent ==
    ASSUME Careful
    PROVE  Vouch \subseteq Present /\ Had \subseteq Present /\ Gone \subseteq Stored
  BY DEF Vouch, Gone, Had, Aside, Lasting, Present, Stored

-----------------------------------------------------------------------------
(* One lemma per action, or per group of actions.                          *)

\* Starting, taking an entry, ending a scan.
LEMMA CyclesLoss ==
    ASSUME TypeInv, HeldInv, LossInv, NEW w \in Workers, StartScan(w) \/ Take(w) \/ EndScan(w)
    PROVE  LossInv'
<1>1. UNCHANGED <<local, remote, published, made, dropped, kept, snap>>
  BY DEF StartScan, Take, EndScan, world, history
<1>2. Intact' /\ Keeps
  BY <1>1, SameLoss
<1>3. Served(snap'.remoteHash, published') /\ Entry(snap', Present')
  BY <1>1, <1>2, PubGrows, EntryKeeps, LossHere DEF Keeps, Served
<1>4. ASSUME NEW scan, NEW signal, Begin(w, scan, signal), syncing = None, disk' = disk
      PROVE  LossInv'
  <2> DEFINE r == [Blank EXCEPT !.scan = scan, !.signal = signal, !.pm = Meta(local)]
  <2>1. pc' = [pc EXCEPT ![w] = "secondary"] /\ reg' = [reg EXCEPT ![w] = r]
    BY <1>4 DEF Begin, Goto
  <2>2. \A v \in Workers : pc[v] = "idle"
    BY <1>4, UndefinedAssumption DEF HeldInv
  <2> HIDE DEF r
  <2>3. Safe("secondary", r, snap', disk', local', Stored', published')
    BY PlainSafe DEF Guarded
  <2> QED
    BY <1>2, <1>3, <1>4, <2>1, <2>2, <2>3, CallLoss
<1>5. CASE StartScan(w)
  BY <1>4, <1>5 DEF StartScan
<1>6. CASE Take(w)
  <2>1. CASE UNCHANGED <<syncing, pc, reg>>
    <3>1. disk' = disk
      BY <1>6 DEF Take
    <3>2. \A v \in Workers : Safe(pc'[v], reg'[v], snap', disk', local', Stored', published')
      BY <1>1, <1>2, <2>1, <3>1, SafeKeeps, LossHere DEF Keeps
    <3>3. Served(disk'.remoteHash, published') /\ (~OtherPaths => Entry(disk', Present'))
      BY <1>2, <3>1, PubGrows, EntryKeeps DEF LossInv, Keeps, Served
    <3> QED
      BY <1>2, <1>3, <3>2, <3>3 DEF LossInv
  <2> QED
    BY <1>4, <1>6, <2>1 DEF Take
<1>7. CASE EndScan(w)
  <2>1. /\ pc[w] = "tail" /\ disk' \in {disk, snap'}
        /\ pc' = [pc EXCEPT ![w] = "idle"] /\ reg' = [reg EXCEPT ![w] = Blank]
    BY <1>7 DEF EndScan, Goto
  <2>2. Safe("idle", Blank, snap', disk', local', Stored', published')
    BY PlainSafe DEF Guarded
  <2> QED
    BY <1>2, <1>3, <2>1, <2>2, Mine, CallLoss
<1> QED
  BY <1>5, <1>6, <1>7

\* What the saved entry refers to was on the server, and is kept if it is not
\* there any more.
LEMMA SurvivesHere ==
    ASSUME PubInv, LossInv
    PROVE  Survives(disk, Stored \cup Content(remote))
  BY DEF PubInv, LossInv, Intact, Survives, Served, Entry, Pub

\* The server's metadata arrives.
LEMMA SecondaryLoss ==
    ASSUME TypeInv, PubInv, HeldInv, LossInv, NEW w \in Workers, Secondary(w)
    PROVE  LossInv'
<1> DEFINE r == [reg[w] EXCEPT
                   !.sm = Meta(remote),
                   !.back = ~(reg[w].scan /\ remote # None /\ ~candidate)]
<1>1. pc[w] = "secondary"
  BY DEF Secondary
<1>2. CASE Lost(w, "meta")
  BY <1>1, <1>2, LostLoss
<1>3. CASE /\ Step(w, "classify", r)
           /\ UNCHANGED <<world, kept, history, candidate, used, snap, dirty>>
  <2>1. UNCHANGED <<local, remote, published, made, dropped, kept, snap>>
    BY <1>3 DEF world, history
  <2>2. r.sm = Meta(remote)
    BY Here DEF Registers
  <2>3. r.sm # None \/ Survives(disk, Stored)
    <3>1. remote # None => Meta(remote) # None
      BY FileFacts, UndefinedAssumption DEF TypeInv, WorldOK, Metas
    <3>2. remote = None => Content(remote) = {}
      BY DEF Content
    <3> QED
      BY <2>2, <3>1, <3>2, SurvivesHere
  <2> HIDE DEF r
  <2>4. Safe("classify", r, snap', disk, local, Stored, published)
    BY <2>3 DEF Safe
  <2> QED
    BY <1>1, <1>3, <2>1, <2>4, QuietStepLoss, LossHere
<1> QED
  BY <1>2, <1>3 DEF Secondary

\* The only branch that trusts the entry right away is the one for a file that
\* is gone from the server.
LEMMA ScenarioLoss ==
    ASSUME NEW s, NEW pm, NEW sm, NEW syncBack, NEW signal
    PROVE  LET l == Scenario(s, pm, sm, syncBack, signal)
           IN  /\ l \in Guarded => l = "deletedRemote"
               /\ l = "deletedRemote" => sm = None /\ s.files # None /\ ~s.nonSynced
  BY DEF Scenario, Guarded, MustAsk

\* syncFile picks its branch.
LEMMA ClassifyLoss ==
    ASSUME TypeInv, HeldInv, LossInv, NEW w \in Workers, Classify(w)
    PROVE  LossInv'
<1> DEFINE l == Scenario(snap, reg[w].pm, reg[w].sm, reg[w].back, reg[w].signal)
           r == [reg[w] EXCEPT !.prior = snap.remoteHash,
                               !.pre = deletePrecondition(snap.remoteHash)]
<1>1. /\ Step(w, l, r) /\ pc[w] = "classify"
      /\ UNCHANGED <<local, remote, published, made, dropped, kept, snap>>
  BY DEF Classify, world, history
<1>2. r.prior = snap.remoteHash
  BY Here DEF Registers
<1>3. /\ l \in Guarded => l = "deletedRemote"
      /\ l = "deletedRemote" => reg[w].sm = None /\ snap.files # None /\ ~snap.nonSynced
  BY ScenarioLoss
<1>4. Sound(snap, Vouch)
  BY <1>1, SoundHere DEF Reading, Resolving
<1>5. l = "deletedRemote" => r.prior # None /\ Pub(r.prior, published)
  <2>1. l = "deletedRemote" => snap.remoteHash # None
    BY <1>3, <1>4 DEF Sound, Vouched
  <2> QED
    BY <1>2, <2>1, LossHere DEF Served
<1>6. l = "deletedRemote" => Survives(disk, Stored)
  <2>1. Safe("classify", reg[w], snap, disk, local, Stored, published)
    BY <1>1, LossHere
  <2> QED
    BY <1>3, <2>1 DEF Safe
<1> HIDE DEF l, r
<1>7. Safe(l, r, snap', disk, local, Stored, published)
  BY <1>3, <1>5, <1>6, PlainSafe DEF Safe
<1> QED
  BY <1>1, <1>7, QuietStepLoss, LossHere

\* Without a copy to read the call throws.
LEMMA ReadForPushLoss ==
    ASSUME TypeInv, HeldInv, LossInv, NEW w \in Workers, NEW from, NEW label, NEW pre,
           from # "idle", ReadForPush(w, from, label, pre),
           \A r : local # None /\ r.data = local /\ r.pre = pre =>
                    Safe(label, r, snap, disk, local, Stored, published)
    PROVE  LossInv'
<1>1. pc[w] # "idle" /\ UNCHANGED <<local, remote, published, made, dropped, kept, snap>>
  BY DEF ReadForPush, world, history, Throw
<1>2. CASE local = None
  BY <1>1, <1>2, QuietThrowLoss DEF ReadForPush
<1>3. CASE local # None
  <2> DEFINE r == [reg[w] EXCEPT !.data = local, !.pre = pre]
  <2>1. r.data = local /\ r.pre = pre
    BY Here DEF Registers
  <2>2. Step(w, label, r)
    BY <1>3 DEF ReadForPush
  <2> HIDE DEF r
  <2>3. Safe(label, r, snap, disk, local, Stored, published)
    BY <1>3, <2>1
  <2>4. Safe(label, r, snap', disk, local, Stored, published)
    BY <1>1, <2>3
  <2> QED
    BY <1>1, <2>2, <2>4, QuietStepLoss, LossHere
<1> QED
  BY <1>2, <1>3

\* A new file is created, not overwritten; a changed one replaces the revision
\* the local copy was made from.
LEMMA ReadsLoss ==
    ASSUME Careful, TypeInv, HeldInv, CalmInv, LossInv, Others \subseteq {TRUE}, NEW w \in Workers,
           ReadNew(w) \/ ReadRecreate(w) \/ ReadChanged(w) \/ ResolveRead(w)
    PROVE  LossInv'
<1>1. CreateOnly = NotExists
  BY DEF CreateOnly, KnowsRevisions, CalmInv, Calm
<1>2. CASE ReadNew(w)
  <2>1. \A r : r.pre = CreateOnly => Safe("putNew", r, snap, disk, local, Stored, published)
    BY <1>1 DEF Safe
  <2> QED
    BY <1>2, <2>1, ReadForPushLoss DEF ReadNew
<1>3. CASE ReadRecreate(w)
  <2>1. \A r : r.pre = CreateOnly => Safe("putRecreate", r, snap, disk, local, Stored, published)
    BY <1>1 DEF Safe
  <2> QED
    BY <1>3, <2>1, ReadForPushLoss DEF ReadRecreate
<1>4. CASE ReadChanged(w)
  <2>1. pc[w] = "changedLocal"
    BY <1>4 DEF ReadChanged, ReadForPush
  <2>2. Holds("changedLocal", reg[w], snap, Vouch, Gone, Had, copies.primary)
    BY <2>1, Mine
  <2>3. snap.files # None /\ Sound(snap, Vouch)
    BY <2>2 DEF Holds, Reading, Resolving
  <2>4. snap.remoteHash # None /\ Pub(snap.remoteHash, Vouch)
    BY <2>3 DEF Sound, Vouched, CalmInv, Calm
  <2>5. Pub(snap.remoteHash, Present)
    BY <2>4, PubGrows, VouchPresent
  <2>6. ~MustAsk(snap) /\ pushPrecondition(snap.remoteHash) = Matches(snap.remoteHash)
    BY <2>4 DEF MustAsk, pushPrecondition
  <2>7. ASSUME NEW r, local # None, r.data = local, r.pre = Matches(snap.remoteHash)
        PROVE  Safe("putChanged", r, snap, disk, local, Stored, published)
    <3>1. Present = Stored \cup r.data.c
      BY <2>7 DEF Present, Content
    <3>2. r.pre.type = "matchesHash" /\ r.pre.hash = snap.remoteHash
      BY <2>7 DEF Matches
    <3> QED
      BY <2>5, <3>1, <3>2 DEF Safe
  <2>8. ReadForPush(w, "changedLocal", "putChanged", Matches(snap.remoteHash))
    BY <1>4, <2>6 DEF ReadChanged
  <2> QED
    BY <2>7, <2>8, ReadForPushLoss
<1>5. CASE ResolveRead(w)
  <2>1. \A r : Safe("resolveGet", r, snap, disk, local, Stored, published)
    BY PlainSafe DEF Guarded
  <2> QED
    BY <1>5, <2>1, ReadForPushLoss DEF ResolveRead
<1> QED
  BY <1>2, <1>3, <1>4, <1>5

\* A write of the server's copy that keeps what it held.
LEMMA RemoteLoss ==
    ASSUME TypeInv, LossInv, UNCHANGED <<local, made, dropped, kept>>,
           NEW f \in Files \cup {None}, SetRemote(f), Pub(Content(remote), Stored \cup Content(f))
    PROVE  /\ Intact' /\ Keeps
           /\ Content(remote') = Content(f) /\ Pub(Content(f), published')
<1>1. UNCHANGED <<Stored, Present>>
  BY DEF Stored, Present, Kept, kept
<1>2. /\ Content(remote') = Content(f)
      /\ published' = published \cup (Content(f) \ {Markers})
  BY DEF SetRemote
<1>3. Markers \notin published
  BY ConstantsAssumption DEF TypeInv, WorldOK, Edits, Markers
<1>4. published' \subseteq Stored' \cup Content(remote')
  BY <1>1, <1>2, <1>3 DEF LossInv, Intact, Pub
<1>5. 1..made' \subseteq Present' \cup published'
  BY <1>1, <1>2 DEF LossInv, Intact
<1> QED
  BY <1>1, <1>2, <1>4, <1>5 DEF Intact, Keeps, Pub

\* A push creates the file or replaces the revision its data was made from.
LEMMA PushOver ==
    ASSUME TypeInv, LossInv, NEW w \in Workers,
           pc[w] \in {"putNew", "putChanged", "putRecreate"}, Passes(reg[w].pre)
    PROVE  Pub(Content(remote), Stored \cup reg[w].data.c)
<1>1. Safe(pc[w], reg[w], snap, disk, local, Stored, published)
  BY LossHere
<1>2. CASE pc[w] \in {"putNew", "putRecreate"}
  <2>1. reg[w].pre = NotExists
    BY <1>1, <1>2 DEF Safe
  <2>2. remote = None
    BY <2>1 DEF Passes, NotExists
  <2> QED
    BY <2>2 DEF Content, Pub
<1>3. CASE pc[w] = "putChanged"
  <2>1. reg[w].pre.type = "matchesHash" /\ Pub(reg[w].pre.hash, Stored \cup reg[w].data.c)
    BY <1>1, <1>3 DEF Safe
  <2>2. remote # None /\ remote.c = reg[w].pre.hash
    BY <2>1 DEF Passes
  <2> QED
    BY <2>1, <2>2 DEF Content
<1> QED
  BY <1>2, <1>3

\* A deletion on the server takes what its user deleted or what was put aside.
LEMMA DeleteOver ==
    ASSUME TypeInv, HeldInv, Careful, NEW w \in Workers, pc[w] = "deleteRemote",
           Passes(reg[w].pre)
    PROVE  Pub(Content(remote), Stored \cup Content(None))
<1>1. Holds("deleteRemote", reg[w], snap, Vouch, Gone, Had, copies.primary)
  BY Mine
<1>2. reg[w].pre.type = "matchesHash" /\ Pub(reg[w].pre.hash, Gone)
  BY <1>1 DEF Holds
<1>3. Content(remote) = reg[w].pre.hash
  BY <1>2 DEF Passes, Content
<1> QED
  BY <1>2, <1>3, VouchPresent DEF Pub

\* A push that lands.
LEMMA PushLandsLoss ==
    ASSUME Careful, TypeInv, HeldInv, LossInv, NEW w \in Workers,
           pc[w] \in {"putNew", "putChanged", "putRecreate"}, PushLands(w)
    PROVE  LossInv'
<1>1. reg[w].data \in Files /\ Content(reg[w].data) = reg[w].data.c
  BY Here, RegFacts, FileFacts DEF Ready
<1>3. Passes(reg[w].pre) /\ SetRemote(reg[w].data) /\ UNCHANGED <<local, made, dropped, kept>>
  BY DEF PushLands, KeepLocal, Users
<1>4. Pub(Content(remote), Stored \cup reg[w].data.c)
  BY <1>3, PushOver
<1>5. Intact' /\ Keeps /\ Pub(reg[w].data.c, published')
  BY <1>1, <1>3, <1>4, RemoteLoss
<1>6. Holds(pc[w], reg[w], snap, Vouch, Gone, Had, copies.primary) /\ pc[w] # "idle"
  BY Mine
<1>7. Pub(reg[w].data.c, Present)
  BY <1>6, PubGrows, VouchPresent DEF Holds, Holding
<1>8. Pub(reg[w].data.c, Present')
  BY <1>5, <1>7 DEF Keeps, Pub
<1>9. CASE Throw(w)
  BY <1>5, <1>6, <1>9, ThrowLoss
<1>10. CASE snap' = Agreed(snap, reg[w].data.c, reg[w].data.t, reg[w].data.t) /\ Return(w, TRUE)
  <2>1. snap'.remoteHash = reg[w].data.c /\ snap'.baseHash = reg[w].data.c
    BY <1>10, Here, EntryFacts, BaseFacts
  <2> QED
    BY <1>5, <1>6, <1>8, <1>10, <2>1, EndLoss DEF Served, Entry
<1> QED
  BY <1>9, <1>10 DEF PushLands

\* A refused write.
LEMMA PushRefusedLoss ==
    ASSUME TypeInv, HeldInv, LossInv, NEW w \in Workers, pc[w] # "idle",
           NEW label \in {"resolve", "reconcile", "pull"}, PushRefused(w, label)
    PROVE  LossInv'
<1>1. /\ Step(w, label, reg[w])
      /\ UNCHANGED <<local, remote, published, made, dropped, kept, snap>>
  BY DEF PushRefused, world, history
<1> QED
  BY <1>1, QuietStepLoss, LossHere, PlainSafe DEF Guarded

\* The three pushes; a revision is never asked for.
LEMMA PutsLoss ==
    ASSUME Careful, TypeInv, HeldInv, CalmInv, LossInv, Recording, NEW w \in Workers,
           PutNew(w) \/ PutChanged(w) \/ PutRecreate(w) \/ RevisionForPush(w)
    PROVE  LossInv'
<1>1. ~Rejected(w)
  BY DEF Recording, Rejected
<1>2. CASE PutNew(w)
  BY <1>1, <1>2, PushLandsLoss, LostLoss, PushRefusedLoss DEF PutNew
<1>3. CASE PutChanged(w)
  BY <1>1, <1>3, PushLandsLoss, LostLoss, PushRefusedLoss DEF PutChanged
<1>4. CASE PutRecreate(w)
  <2>1. pc[w] = "putRecreate"
    BY <1>4 DEF PutRecreate
  <2>2. CASE PushLands(w) \/ Lost(w, "put")
    BY <2>1, <2>2, PushLandsLoss, LostLoss
  <2>3. CASE UNCHANGED snap /\ Return(w, TRUE) /\ UNCHANGED <<world, kept, history>>
    <3>1. UNCHANGED <<local, remote, published, made, dropped, kept, snap>>
      BY <2>3 DEF world, history
    <3> QED
      BY <2>1, <2>3, <3>1, QuietReturnLoss, LossHere
  <2> QED
    BY <1>1, <1>4, <2>2, <2>3 DEF PutRecreate
<1>5. CASE RevisionForPush(w)
  <2>1. pc[w] = "revisionForPush"
    BY <1>5 DEF RevisionForPush
  <2>2. Holds("revisionForPush", reg[w], snap, Vouch, Gone, Had, copies.primary)
    BY <2>1, Mine
  <2> QED
    BY <2>2 DEF Holds, CalmInv, Calm
<1> QED
  BY <1>2, <1>3, <1>4, <1>5

\* A write of the local copy over edits that are kept elsewhere.
LEMMA LocalLoss ==
    ASSUME TypeInv, LossInv, UNCHANGED <<remote, published, made, dropped, kept>>,
           Pub(Content(local), Stored \cup published)
    PROVE  Intact' /\ Stored' = Stored
<1>1. Stored' = Stored
  BY DEF Stored, Kept, kept
<1>2. \A e \in 1..made : e # Markers
  BY DEF Markers, TypeInv, WorldOK
<1>3. 1..made \subseteq Stored \cup published
  BY <1>2 DEF LossInv, Intact, Present, Pub
<1> QED
  BY <1>1, <1>3 DEF LossInv, Intact, Present

\* Deletions.
LEMMA DeletesLoss ==
    ASSUME Careful, TypeInv, HeldInv, LossInv, NEW w \in Workers, Deletes(w)
    PROVE  LossInv'
<1>1. CASE DeletedRemote(w)
  <2>1. pc[w] = "deletedRemote" /\ UNCHANGED <<local, remote, published, made, dropped, kept>>
    BY <1>1 DEF DeletedRemote, world, history
  <2>2. CASE Step(w, "recreate", reg[w]) /\ UNCHANGED snap
    BY <2>1, <2>2, QuietStepLoss, LossHere, PlainSafe DEF Guarded
  <2>3. CASE /\ ~localDivergedFromRecorded(reg[w].prior)
             /\ Step(w, "deleteLocal", reg[w]) /\ snap' = NoEntry(snap)
    <3>1. Safe("deletedRemote", reg[w], snap, disk, local, Stored, published)
      BY <2>1, LossHere
    <3>2. reg[w].prior # None /\ Pub(reg[w].prior, published) /\ Survives(disk, Stored)
      BY <3>1 DEF Safe
    <3>3. Pub(Content(local), published)
      BY <2>3, <3>2 DEF localDivergedFromRecorded, Content, Pub
    <3>4. snap'.baseHash = None /\ snap'.remoteHash = None
      BY <2>3, Here, BaseFacts, HashFacts
    <3>5. Safe("deleteLocal", reg[w], snap', disk, local, Stored, published)
      BY <3>2, <3>3, <3>4 DEF Safe
    <3> QED
      BY <2>1, <2>3, <3>4, <3>5, QuietStepLoss DEF Served, Entry
  <2> QED
    BY <1>1, <2>2, <2>3 DEF DeletedRemote
<1>2. CASE DeleteLocalCopy(w)
  <2>1. pc[w] = "deleteLocal" /\ UNCHANGED <<remote, published, made, dropped, kept, snap>>
    BY <1>2 DEF DeleteLocalCopy, Users, Throw
  <2>2. CASE local = None
    BY <1>2, <2>1, <2>2, QuietThrowLoss DEF DeleteLocalCopy, KeepLocal
  <2>3. CASE local # None
    <3>1. Safe("deleteLocal", reg[w], snap, disk, local, Stored, published)
      BY <2>1, LossHere
    <3>2. snap.baseHash = None /\ Pub(Content(local), Stored \cup published)
      BY <3>1 DEF Safe, Pub
    <3>3. Intact'
      BY <2>1, <3>2, LocalLoss
    <3>4. Return(w, TRUE) /\ disk' = snap'
      BY <1>2, <2>3 DEF DeleteLocalCopy, Return
    <3>5. Served(snap'.remoteHash, published') /\ Entry(snap', Present')
      BY <2>1, <3>2, LossHere DEF Entry, Served
    <3> QED
      BY <2>1, <3>3, <3>4, <3>5, EndLoss
  <2> QED
    BY <2>2, <2>3
<1>3. CASE RevisionForDelete(w)
  <2>1. pc[w] = "revisionForDelete"
    BY <1>3 DEF RevisionForDelete
  <2>2. Holds("revisionForDelete", reg[w], snap, Vouch, Gone, Had, copies.primary)
    BY <2>1, Mine
  <2> QED
    BY <2>2 DEF Holds
<1>4. CASE DeleteRemote(w)
  <2>1. pc[w] = "deleteRemote"
    BY <1>4 DEF DeleteRemote
  <2>2. CASE /\ Passes(reg[w].pre) /\ remote # None /\ SetRemote(None)
             /\ \/ snap' = Forget(snap) /\ Return(w, TRUE)
                \/ Throw(w)
             /\ UNCHANGED <<local, seen, clock, kept, Users>>
    <3>4. Pub(Content(remote), Stored \cup Content(None))
      BY <2>1, <2>2, DeleteOver
    <3>5. Intact' /\ Keeps
      BY <2>2, <3>4, RemoteLoss DEF Users
    <3>6. CASE Throw(w)
      BY <2>1, <3>5, <3>6, ThrowLoss
    <3>7. CASE snap' = Forget(snap) /\ Return(w, TRUE)
      <4>1. snap'.baseHash = None /\ snap'.remoteHash = None
        BY <3>7, Here, BaseFacts, HashFacts
      <4> QED
        BY <2>1, <3>5, <3>7, <4>1, EndLoss DEF Served, Entry
    <3> QED
      BY <2>2, <3>6, <3>7
  <2>3. CASE Lost(w, "delete") \/ PushRefused(w, "pull")
    BY <2>1, <2>3, LostLoss, PushRefusedLoss
  <2>4. CASE Throw(w) /\ UNCHANGED <<world, kept, history, candidate, used>>
    BY <2>1, <2>4, QuietThrowLoss DEF world, history
  <2> QED
    BY <1>4, <2>2, <2>3, <2>4 DEF DeleteRemote
<1>5. CASE ForgetPath(w)
  <2>1. /\ pc[w] = "forget" /\ Return(w, TRUE) /\ snap' = Forget(snap)
        /\ UNCHANGED <<local, remote, published, made, dropped, kept>>
    BY <1>5 DEF ForgetPath, world, history
  <2>2. snap'.baseHash = None /\ snap'.remoteHash = None
    BY <2>1, Here, BaseFacts, HashFacts
  <2> QED
    BY <2>1, <2>2, QuietReturnLoss DEF Served, Entry
<1> QED
  BY <1>1, <1>2, <1>3, <1>4, <1>5 DEF Deletes

\* Of the branches that write nothing, those for paths that are not synced are
\* not taken.
LEMMA NotesLoss ==
    ASSUME TypeInv, HeldInv, CalmInv, LossInv, NEW w \in Workers, Notes(w)
    PROVE  LossInv'
<1>1. pc[w] \notin Unsynced /\ ~snap.nonSynced
  BY DEF CalmInv, Calm
<1>2. ~NoteNew(w) /\ ~DropLocal(w) /\ ~DropUnsynced(w)
  BY <1>1 DEF NoteNew, DropLocal, DropUnsynced, Unsynced
<1>3. CASE NothingToDo(w)
  <2>1. /\ pc[w] # "idle" /\ Return(w, FALSE)
        /\ UNCHANGED <<local, remote, published, made, dropped, kept>>
    BY <1>3 DEF NothingToDo, world, history
  <2>2. snap'.remoteHash = snap.remoteHash /\ snap'.baseHash = snap.baseHash
    BY <1>3, Here DEF NothingToDo, Snapshots
  <2>3. Served(snap'.remoteHash, published) /\ Entry(snap', Present)
    BY <2>2, LossHere DEF Entry
  <2> QED
    BY <2>1, <2>3, QuietReturnLoss
<1>4. CASE Verify(w)
  <2>1. pc[w] # "idle" /\ UNCHANGED <<local, remote, published, made, dropped, kept, snap>>
    BY <1>4 DEF Verify, world, history
  <2>2. CASE Return(w, FALSE)
    BY <2>1, <2>2, QuietReturnLoss, LossHere
  <2>3. ASSUME NEW l \in {"verifyRemote", "reconcile", "changedLocal", "changedRemote"},
               Step(w, l, [reg[w] EXCEPT !.data = local, !.prior = snap.remoteHash])
        PROVE  LossInv'
    <3> DEFINE r == [reg[w] EXCEPT !.data = local, !.prior = snap.remoteHash]
    <3>1. Step(w, l, r)
      BY <2>3
    <3> HIDE DEF r
    <3> QED
      BY <2>1, <3>1, QuietStepLoss, LossHere, PlainSafe DEF Guarded
  <2> QED
    BY <1>4, <2>2, <2>3 DEF Verify
<1>5. CASE VerifyRemote(w)
  <2>1. pc[w] = "verifyRemote"
    BY <1>5 DEF VerifyRemote
  <2>2. Holds("verifyRemote", reg[w], snap, Vouch, Gone, Had, copies.primary)
    BY <2>1, Mine
  <2> QED
    BY <1>1, <2>2 DEF Holds
<1> QED
  BY <1>2, <1>3, <1>4, <1>5 DEF Notes

\* A pull up to its recheck: what it is about to replace is on the server
\* already, or in the safety store.
LEMMA PullGetLoss ==
    ASSUME TypeInv, PubInv, HeldInv, LossInv, NEW w \in Workers, PullGet(w)
    PROVE  LossInv'
<1> DEFINE r == [reg[w] EXCEPT !.rem = remote]
<1>1. pc[w] = "pullGet"
  BY DEF PullGet
<1>2. CASE Lost(w, "get")
  BY <1>1, <1>2, LostLoss
<1>3. CASE Throw(w) /\ UNCHANGED <<world, kept, history, candidate, used>>
  BY <1>1, <1>3, QuietThrowLoss DEF world, history
<1>4. CASE /\ remote # None
           /\ snap' = [snap EXCEPT !.remoteHash = remote.c]
           /\ captureSafety(reg[w].data, remote.c)
           /\ Step(w, "pullCheck", r)
           /\ UNCHANGED <<world, copies, history, candidate, used, dirty>>
  <2>1. /\ UNCHANGED <<local, remote, published, made, dropped, copies>>
        /\ safety \subseteq safety'
    BY <1>4 DEF world, history, captureSafety
  <2>2. Intact' /\ Keeps
    BY <2>1, StillLoss
  <2>3. Pub(remote.c, published)
    BY <1>4 DEF PubInv, Content
  <2>4. snap'.remoteHash = remote.c /\ snap'.baseHash = snap.baseHash
    BY <1>4, Here, EntryFacts, BaseFacts
  <2>5. Served(snap'.remoteHash, published') /\ Entry(snap', Present')
    <3>1. Entry(snap, Present')
      BY <2>2, LossHere, EntryKeeps DEF Keeps
    <3> QED
      BY <2>1, <2>3, <2>4, <3>1 DEF Served, Entry
  <2>6. r.data = reg[w].data /\ r.prior = reg[w].prior
    BY Here DEF Registers
  <2>7. reg[w].prior = snap.remoteHash
    <3>1. Holds("pullGet", reg[w], snap, Vouch, Gone, Had, copies.primary)
      BY <1>1, Mine
    <3> QED
      BY <3>1 DEF Holds
  <2>8. reg[w].data = None \/ Pub(reg[w].data.c, Stored' \cup published)
    <3>1. CASE reg[w].data.c = remote.c
      BY <2>3, <3>1 DEF Pub
    <3>2. CASE reg[w].data # None /\ reg[w].data.c = snap.baseHash
      <4>1. reg[w].data.c # None
        BY <3>2, Here, RegFacts, FileFacts
      <4>2. Pub(snap.baseHash, published)
        BY <3>2, <4>1 DEF PubInv, Entry
      <4> QED
        BY <3>2, <4>2 DEF Pub
    <3>3. CASE reg[w].data.c \in safety'
      <4>1. reg[w].data.c \subseteq Stored'
        BY <3>3 DEF Stored, Kept
      <4> QED
        BY <4>1 DEF Pub
    <3> QED
      BY <1>4, <3>1, <3>2, <3>3 DEF captureSafety
  <2>9. Survives(disk', Stored' \cup r.rem.c)
    <3>1. r.rem = remote /\ disk' = disk
      BY <1>4, Here DEF Registers, Step
    <3>2. Content(remote) = r.rem.c
      BY <1>4, <3>1 DEF Content
    <3>3. Stored \cup Content(remote) \subseteq Stored' \cup r.rem.c
      BY <2>2, <3>2 DEF Keeps
    <3> QED
      BY <3>1, <3>3, SurvivesHere, SurvivesKeeps
  <2> HIDE DEF r
  <2>10. Safe("pullCheck", r, snap', disk', local', Stored', published')
    BY <2>1, <2>6, <2>7, <2>8, <2>9, LossHere DEF Safe, Served
  <2> QED
    BY <1>1, <1>4, <2>2, <2>5, <2>10, StepLoss
<1> QED
  BY <1>2, <1>3, <1>4 DEF PullGet

\* A write of what was read from the server.
LEMMA WriteLoss ==
    ASSUME TypeInv, HeldInv, LossInv, NEW w \in Workers, pc[w] # "idle",
           pc[w] \in {"pullWrite", "reconcileWrite"}, SetLocal(reg[w].rem), Return(w, TRUE),
           UNCHANGED <<remote, published, made, dropped, kept>>,
           snap'.baseHash = reg[w].rem.c, Served(snap'.remoteHash, published)
    PROVE  LossInv'
<1>1. Safe(pc[w], reg[w], snap, disk, local, Stored, published)
  BY LossHere
<1>2. Pub(Content(local), Stored \cup published)
  BY <1>1 DEF Safe
<1>3. Intact'
  BY <1>2, LocalLoss
<1>4. reg[w].rem \in Files
  BY Here, RegFacts DEF Ready
<1>5. Content(local') = reg[w].rem.c
  BY <1>4, FileFacts DEF SetLocal
<1>6. Entry(snap', Present')
  BY <1>5 DEF Entry, Pub, Present
<1>7. disk' = snap'
  BY DEF Return
<1> QED
  BY <1>3, <1>6, <1>7, EndLoss

\* Pulls.
LEMMA PullsLoss ==
    ASSUME TypeInv, PubInv, HeldInv, LossInv, NEW w \in Workers, Pulls(w)
    PROVE  LossInv'
<1>1. CASE ChangedRemote(w)
  <2>1. /\ pc[w] # "idle" /\ UNCHANGED <<local, remote, published, made, dropped, kept, snap>>
        /\ Step(w, "reconcile", reg[w]) \/ Step(w, "pull", reg[w])
    BY <1>1 DEF ChangedRemote, world, history
  <2> QED
    BY <2>1, QuietStepLoss, LossHere, PlainSafe DEF Guarded
<1>2. CASE PullBefore(w)
  <2> DEFINE r == [reg[w] EXCEPT !.data = local, !.prior = snap.remoteHash]
  <2>1. /\ pc[w] # "idle" /\ UNCHANGED <<local, remote, published, made, dropped, kept, snap>>
        /\ Step(w, "pullGet", r)
    BY <1>2 DEF PullBefore, world, history
  <2> HIDE DEF r
  <2> QED
    BY <2>1, QuietStepLoss, LossHere, PlainSafe DEF Guarded
<1>3. CASE PullGet(w)
  BY <1>3, PullGetLoss
<1>4. CASE PullCheck(w)
  <2>1. /\ pc[w] = "pullCheck" /\ UNCHANGED <<local, remote, published, made, dropped, kept>>
    BY <1>4 DEF PullCheck, world, history
  <2>2. Safe("pullCheck", reg[w], snap, disk, local, Stored, published)
    BY <2>1, LossHere
  <2>3. CASE localHeld(reg[w]) /\ Step(w, "pullWrite", reg[w]) /\ UNCHANGED snap
    <3>1. Pub(Content(local), Stored \cup published)
      BY <2>2, <2>3 DEF Safe, localHeld, Content, Pub
    <3>2. Safe("pullWrite", reg[w], snap', disk, local, Stored, published)
      BY <2>2, <3>1 DEF Safe
    <3> QED
      BY <2>1, <2>3, <3>2, QuietStepLoss, LossHere
  <2>4. CASE snap' = Unrecorded(reg[w].prior) /\ Return(w, FALSE)
    <3>1. snap'.remoteHash = reg[w].prior /\ snap'.baseHash = snap.baseHash
      BY <2>4, Here, EntryFacts, BaseFacts DEF Unrecorded
    <3>2. Served(snap'.remoteHash, published) /\ Entry(snap', Present)
      BY <2>2, <3>1, LossHere DEF Safe, Entry
    <3> QED
      BY <2>1, <2>4, <3>2, QuietReturnLoss
  <2> QED
    BY <1>4, <2>3, <2>4 DEF PullCheck
<1>5. CASE PullWrite(w)
  <2>1. /\ pc[w] = "pullWrite" /\ SetLocal(reg[w].rem) /\ Return(w, TRUE)
        /\ UNCHANGED <<remote, published, made, dropped, kept>>
    BY <1>5 DEF PullWrite, Users
  <2>2. snap'.remoteHash = snap.remoteHash /\ snap'.baseHash = reg[w].rem.c
    BY <1>5, Here, HashFacts DEF PullWrite
  <2>3. Served(snap'.remoteHash, published)
    BY <2>2, LossHere
  <2> QED
    BY <2>1, <2>2, <2>3, WriteLoss
<1> QED
  BY <1>1, <1>2, <1>3, <1>4, <1>5 DEF Pulls

\* The merge takes from the server's file only what the base holds and the
\* proposal does not.
LEMMA MergeLoses ==
    ASSUME NEW base, NEW proposed, NEW cur \in Files \cup {None},
           NEW result \in MergeResults(base, proposed, cur)
    PROVE  Content(cur) \ result \subseteq base \ proposed
<1>1. CASE cur = None
  BY <1>1 DEF Content
<1>2. CASE cur # None /\ Content(cur) \in {proposed, base}
  BY <1>2 DEF MergeResults
<1>3. CASE cur # None /\ Content(cur) \notin {proposed, base}
  <2>1. Merge3(base, proposed, cur.c) \subseteq result /\ Content(cur) = cur.c
    BY <1>3 DEF MergeResults, Content
  <2> QED
    BY <2>1 DEF Merge3
<1> QED
  BY <1>1, <1>2, <1>3

\* The request of a reconciliation.
LEMMA PostLoss ==
    ASSUME TypeInv, PubInv, HeldInv, LossInv, NEW w \in Workers, Post(w)
    PROVE  LossInv'
<1> DEFINE base == reg[w].prior
           proposed == reg[w].data.c
<1>1. pc[w] = "post" /\ UNCHANGED <<local, made, dropped, kept, snap>>
  BY DEF Post, Users
<1>2. Safe("post", reg[w], snap, disk, local, Stored, published)
  BY <1>1, LossHere
<1>3. Pub(base, Stored \cup proposed)
  BY <1>2 DEF Safe
<1>4. ASSUME Intact', Keeps, NEW l \in {"resolve", "reconciled"}, NEW r, Step(w, l, r),
             l = "reconciled" => Survives(disk', Stored' \cup r.rem.c)
      PROVE  LossInv'
  <2>1. Served(snap'.remoteHash, published') /\ Entry(snap', Present')
    BY <1>1, <1>4, LossHere, PubGrows, EntryKeeps DEF Keeps, Served
  <2>2. Safe(l, r, snap', disk', local', Stored', published')
    BY <1>4 DEF Safe
  <2> QED
    BY <1>1, <1>4, <2>1, <2>2, StepLoss
<1>5. CASE Step(w, "resolve", reg[w]) /\ UNCHANGED <<remote, published, clock>>
  BY <1>1, <1>4, <1>5, SameLoss
<1>6. ASSUME NEW result \in Files, ServerReconciles(base, proposed, result),
             \/ Step(w, "reconciled", [reg[w] EXCEPT !.rem = result])
             \/ Step(w, "resolve", reg[w])
      PROVE  LossInv'
  <2>1. Intact' /\ Keeps /\ Content(remote') = result.c
    <3>1. CASE result = remote /\ UNCHANGED <<remote, published>>
      BY <1>1, <3>1, SameLoss, FileFacts
    <3>2. CASE result.c \in MergeResults(base, proposed, remote) /\ SetRemote(result)
      <4>1. Content(remote) \ result.c \subseteq base \ proposed
        BY <3>2, MergeLoses DEF TypeInv, WorldOK
      <4>2. Content(result) = result.c
        BY FileFacts
      <4>3. Pub(Content(remote), Stored \cup Content(result))
        BY <1>3, <4>1, <4>2 DEF Pub
      <4> QED
        BY <1>1, <3>2, <4>2, <4>3, RemoteLoss
    <3> QED
      BY <1>6, <3>1, <3>2 DEF ServerReconciles
  <2>2. Survives(disk', Stored' \cup result.c)
    <3>1. published \subseteq Stored' \cup result.c /\ disk' = disk
      BY <1>6, <2>1 DEF Intact, Keeps, Step
    <3> QED
      BY <3>1 DEF PubInv, LossInv, Survives, Served, Entry, Pub
  <2>3. [reg[w] EXCEPT !.rem = result].rem = result
    BY Here DEF Registers
  <2> QED
    BY <1>4, <1>6, <2>1, <2>2, <2>3
<1> QED
  BY <1>5, <1>6 DEF Post

\* A writer outside the server's locks adds to the file.
LEMMA PostRetryLoss ==
    ASSUME TypeInv, HeldInv, LossInv, NEW w \in Workers, PostRetry(w)
    PROVE  LossInv'
<1>1. /\ pc[w] = "post" /\ remote # None /\ made < MaxEdits /\ made' = made + 1
      /\ snap' = snap /\ Return(w, TRUE) /\ UNCHANGED <<local, dropped, kept>>
  BY DEF PostRetry
<1>2. PICK t \in Now : SetRemote([c |-> remote.c \cup {made + 1}, t |-> t])
  BY DEF PostRetry
<1> DEFINE f == [c |-> remote.c \cup {made + 1}, t |-> t]
<1>3. UNCHANGED <<Stored, Present>>
  BY <1>1 DEF Stored, Present, Kept, kept
<1>4. /\ Content(remote) = remote.c /\ remote.c \in Contents
  BY <1>1, Here, FileFacts
<1>5. f \in Files
  BY <1>1, <1>4, EditedFile DEF TypeInv
<1>6. Content(remote') = remote.c \cup {made + 1}
      /\ published' = published \cup ((remote.c \cup {made + 1}) \ {Markers})
  BY <1>2, <1>5, FileFacts DEF SetRemote
<1>7. made \in Nat /\ made + 1 # Markers /\ Markers \notin published
  BY ConstantsAssumption DEF TypeInv, WorldOK, Edits, Markers
<1>8. 1..(made + 1) = 1..made \cup {made + 1}
  BY <1>7
<1>9. published' \subseteq Stored' \cup Content(remote')
  BY <1>3, <1>4, <1>6 DEF LossInv, Intact
<1>10. 1..made' \subseteq Present' \cup published'
  BY <1>1, <1>3, <1>6, <1>7, <1>8 DEF LossInv, Intact
<1>11. Intact' /\ Keeps
  BY <1>3, <1>6, <1>9, <1>10 DEF Intact, Keeps, Pub
<1>12. Served(snap'.remoteHash, published') /\ Entry(snap', Present')
  BY <1>1, <1>11, LossHere, PubGrows, EntryKeeps DEF Keeps, Served
<1> QED
  BY <1>1, <1>11, <1>12, EndLoss

\* Reconciliation: the local copy is replaced only while it is the proposal,
\* which the server has.
LEMMA MergesLoss ==
    ASSUME Careful, TypeInv, PubInv, HeldInv, LossInv, NEW w \in Workers, Merges(w)
    PROVE  LossInv'
<1>1. CASE Reconcile(w)
  <2> DEFINE r == [reg[w] EXCEPT !.data = local, !.prior = snap.baseHash]
  <2>1. pc[w] # "idle" /\ UNCHANGED <<local, remote, published, made, dropped, kept, snap>>
    BY <1>1 DEF Reconcile, world, history
  <2>2. CASE Step(w, "resolve", reg[w])
    BY <2>1, <2>2, QuietStepLoss, LossHere, PlainSafe DEF Guarded
  <2>3. CASE snap.baseHash # None /\ local # None /\ Step(w, "post", r)
    <3>1. r.data = local /\ r.prior = snap.baseHash
      BY Here DEF Registers
    <3>2. Pub(snap.baseHash, Present) /\ Present = Stored \cup local.c
      BY <2>3, LossHere DEF Entry, Present, Content
    <3> HIDE DEF r
    <3>3. Safe("post", r, snap', disk, local, Stored, published)
      BY <3>1, <3>2 DEF Safe
    <3> QED
      BY <2>1, <2>3, <3>3, QuietStepLoss, LossHere
  <2> QED
    BY <1>1, <2>2, <2>3 DEF Reconcile
<1>2. CASE Post(w) \/ PostRetry(w)
  BY <1>2, PostLoss, PostRetryLoss
<1>3. CASE Reconciled(w)
  <2>1. /\ pc[w] = "reconciled" /\ safety \subseteq safety'
        /\ UNCHANGED <<local, remote, published, made, dropped, copies>>
    BY <1>3 DEF Reconciled, world, history
  <2>2. Intact' /\ Keeps
    BY <2>1, StillLoss
  <2>3. CASE local # None /\ local.c = reg[w].data.c /\ Step(w, "reconcileWrite", reg[w])
             /\ snap' = snap
    <3>1. Trace("reconciled", reg[w], local, published)
      BY <2>1 DEF PubInv
    <3>2. Pub(Content(local), published)
      BY <2>3, <3>1 DEF Trace, Content
    <3>3. Safe("reconcileWrite", reg[w], snap', disk', local', Stored', published')
      <4>1. Survives(disk, Stored \cup reg[w].rem.c)
        BY <2>1, LossHere DEF Safe
      <4>2. Survives(disk', Stored' \cup reg[w].rem.c)
        BY <2>2, <2>3, <4>1, SurvivesKeeps DEF Keeps, Step
      <4> QED
        BY <2>1, <3>2, <4>2 DEF Safe, Pub
    <3>4. Served(snap'.remoteHash, published') /\ Entry(snap', Present')
      BY <2>2, <2>3, LossHere, PubGrows, EntryKeeps DEF Keeps, Served
    <3> QED
      BY <2>1, <2>2, <2>3, <3>3, <3>4, StepLoss
  <2>4. CASE snap' = localAdvanced(reg[w].data.c) /\ Return(w, TRUE)
    <3>1. snap'.remoteHash = snap.remoteHash /\ snap'.baseHash = reg[w].data.c
      BY <2>4, Here, EntryFacts, BaseFacts DEF localAdvanced
    <3>2. Holds("reconciled", reg[w], snap, Vouch, Gone, Had, copies.primary)
      BY <2>1, Mine
    <3>3. Pub(reg[w].data.c, Present)
      BY <3>2, VouchPresent, PubGrows DEF Holds, Holding
    <3>4. Pub(reg[w].data.c, Present')
      BY <2>2, <3>3 DEF Keeps, Pub
    <3>5. Served(snap'.remoteHash, published') /\ Entry(snap', Present')
      BY <2>1, <3>1, <3>4, LossHere DEF Entry
    <3> QED
      BY <2>1, <2>2, <2>4, <3>5, EndLoss
  <2> QED
    BY <1>3, <2>3, <2>4 DEF Reconciled
<1>4. CASE ReconcileWrite(w)
  <2>1. /\ pc[w] = "reconcileWrite" /\ SetLocal(reg[w].rem) /\ Return(w, TRUE)
        /\ UNCHANGED <<remote, published, made, dropped, kept>>
    BY <1>4 DEF ReconcileWrite, Users
  <2>2. snap'.remoteHash = reg[w].rem.c /\ snap'.baseHash = reg[w].rem.c
    BY <1>4, Here, HashFacts DEF ReconcileWrite
  <2>3. reg[w].rem # None
    BY <2>1, Here DEF Ready
  <2>4. Served(snap'.remoteHash, published)
    BY <2>2, <2>3 DEF PubInv, Trace, Served
  <2> QED
    BY <2>1, <2>2, <2>4, WriteLoss
<1> QED
  BY <1>1, <1>2, <1>3, <1>4 DEF Merges

\* The resolver up to its write: it puts the server's revision aside.
LEMMA ResolvesLoss ==
    ASSUME TypeInv, PubInv, HeldInv, LossInv, NEW w \in Workers,
           ResolveGet(w) \/ CopyCheck(w) \/ CopyPut(w) \/ ResolveCheck(w)
    PROVE  LossInv'
<1>1. CASE ResolveGet(w)
  <2> DEFINE r == [reg[w] EXCEPT !.rem = remote]
             s == [snap EXCEPT !.remoteHash = remote.c]
  <2>1. pc[w] = "resolveGet"
    BY <1>1 DEF ResolveGet
  <2>2. CASE Lost(w, "get")
    BY <2>1, <2>2, LostLoss
  <2>3. CASE Throw(w) /\ UNCHANGED <<world, kept, history, candidate, used>>
    BY <2>1, <2>3, QuietThrowLoss DEF world, history
  <2>4. CASE /\ remote # None
             /\ IF remote.c = reg[w].data.c
                THEN /\ snap' = [s EXCEPT !.files = <<reg[w].data.t, remote.t>>]
                     /\ Step(w, "resolverBase", reg[w])
                ELSE snap' = s /\ Step(w, "copyCheck", r)
             /\ UNCHANGED <<world, kept, history, candidate, used, dirty>>
    <3>1. UNCHANGED <<local, remote, published, made, dropped, kept>>
      BY <2>4 DEF world, history
    <3>2. s \in Snapshots /\ s.remoteHash = remote.c /\ s.baseHash = snap.baseHash
      <4>1. remote.c \in Contents /\ snap \in Snapshots
        BY <2>4, Here, FileFacts
      <4> QED
        BY <4>1, SnapFacts, EntryFacts, BaseFacts
    <3>3. Pub(remote.c, published)
      BY <2>4 DEF PubInv, Content
    <3>4. \/ snap' = s /\ Step(w, "copyCheck", r)
          \/ snap' = [s EXCEPT !.files = <<reg[w].data.t, remote.t>>]
             /\ Step(w, "resolverBase", reg[w])
      BY <2>4
    <3> HIDE DEF s, r
    <3>5. snap'.remoteHash = remote.c /\ snap'.baseHash = snap.baseHash
      <4>1. \A x : /\ [s EXCEPT !.files = x].remoteHash = s.remoteHash
                   /\ [s EXCEPT !.files = x].baseHash = s.baseHash
        BY <3>2 DEF Snapshots
      <4> QED
        BY <3>2, <3>4, <4>1
    <3>6. Served(snap'.remoteHash, published) /\ Entry(snap', Present)
      BY <3>3, <3>5, LossHere DEF Served, Entry
    <3> QED
      BY <2>1, <3>1, <3>4, <3>6, QuietStepLoss, PlainSafe DEF Guarded
  <2> QED
    BY <1>1, <2>2, <2>3, <2>4 DEF ResolveGet
<1>2. CASE CopyCheck(w)
  <2> DEFINE l == IF reg[w].rem.c \in copies.secondary THEN "resolveCheck" ELSE "copyPut"
             r == [reg[w] EXCEPT !.ops = reg[w].rem.c \notin copies.primary]
  <2>1. pc[w] = "copyCheck"
    BY <1>2 DEF CopyCheck
  <2>2. CASE Lost(w, "copyMeta")
    BY <2>1, <2>2, LostLoss
  <2>3. CASE /\ copies' = [copies EXCEPT !.primary = @ \cup {reg[w].rem.c}]
             /\ Step(w, l, r)
             /\ UNCHANGED <<world, safety, history, candidate, used, snap, dirty>>
    <3>1. copies.primary \subseteq copies'.primary /\ copies'.secondary = copies.secondary
      BY <2>3 DEF TypeInv, WorldOK
    <3>2. UNCHANGED <<local, remote, published, made, dropped, safety, snap>>
      BY <2>3 DEF world, history
    <3>3. Intact' /\ Keeps
      BY <3>1, <3>2, StillLoss
    <3>4. Served(snap'.remoteHash, published') /\ Entry(snap', Present')
      BY <3>2, <3>3, LossHere, PubGrows, EntryKeeps DEF Keeps, Served
    <3>5. l \notin Guarded
      BY DEF Guarded
    <3> HIDE DEF l, r
    <3> QED
      BY <2>1, <2>3, <3>3, <3>4, <3>5, PlainStepLoss
  <2> QED
    BY <1>2, <2>2, <2>3 DEF CopyCheck
<1>3. CASE CopyPut(w)
  <2> DEFINE r == [reg[w] EXCEPT !.ops = TRUE]
  <2>1. pc[w] = "copyPut"
    BY <1>3 DEF CopyPut
  <2>2. CASE Lost(w, "copyPut")
    BY <2>1, <2>2, LostLoss
  <2>3. CASE /\ copies' = [copies EXCEPT !.secondary = @ \cup {reg[w].rem.c}]
             /\ \/ snap' = [snap EXCEPT !.others = TRUE] /\ Step(w, "resolveCheck", r)
                \/ Throw(w)
             /\ UNCHANGED <<world, safety, history, candidate, used>>
    <3>1. copies.secondary \subseteq copies'.secondary /\ copies'.primary = copies.primary
      BY <2>3 DEF TypeInv, WorldOK
    <3>2. UNCHANGED <<local, remote, published, made, dropped, safety>>
      BY <2>3 DEF world, history
    <3>3. Intact' /\ Keeps
      BY <3>1, <3>2, StillLoss
    <3>4. CASE Throw(w)
      BY <2>1, <3>3, <3>4, ThrowLoss
    <3>5. CASE snap' = [snap EXCEPT !.others = TRUE] /\ Step(w, "resolveCheck", r)
      <4>1. snap'.remoteHash = snap.remoteHash /\ snap'.baseHash = snap.baseHash
        BY <3>5, Here, HashFacts
      <4>2. Entry(snap, Present')
        BY <3>3, LossHere, EntryKeeps DEF Keeps
      <4>3. Served(snap'.remoteHash, published') /\ Entry(snap', Present')
        BY <3>2, <4>1, <4>2, LossHere DEF Entry
      <4> HIDE DEF r
      <4> QED
        BY <2>1, <3>3, <3>5, <4>3, PlainStepLoss DEF Guarded
    <3> QED
      BY <2>3, <3>4, <3>5
  <2> QED
    BY <1>3, <2>2, <2>3 DEF CopyPut
<1>4. CASE ResolveCheck(w)
  <2>1. pc[w] = "resolveCheck" /\ UNCHANGED <<local, remote, published, made, dropped, kept>>
    BY <1>4 DEF ResolveCheck, world, history
  <2>2. CASE Step(w, "resolvePut", reg[w]) /\ snap' = snap
    BY <2>1, <2>2, QuietStepLoss, LossHere, PlainSafe DEF Guarded
  <2>3. CASE snap' = [snap EXCEPT !.files = None] /\ Return(w, reg[w].ops)
    <3>1. /\ snap'.remoteHash = snap.remoteHash /\ snap'.baseHash = snap.baseHash
          /\ reg[w].ops \in BOOLEAN
      BY <2>3, Here, EntryFacts, BaseFacts DEF Registers
    <3>2. Served(snap'.remoteHash, published) /\ Entry(snap', Present)
      BY <3>1, LossHere DEF Entry
    <3> QED
      BY <2>1, <2>3, <3>1, <3>2, QuietReturnLoss
  <2> QED
    BY <1>4, <2>2, <2>3 DEF ResolveCheck
<1> QED
  BY <1>1, <1>2, <1>3, <1>4

\* The resolver's write replaces the revision it put aside.
LEMMA ResolvePutLoss ==
    ASSUME TypeInv, HeldInv, LossInv, Recording, NEW w \in Workers, ResolvePut(w)
    PROVE  LossInv'
<1> DEFINE data == reg[w].data
           r == [reg[w] EXCEPT !.ops = TRUE]
<1>1. pc[w] = "resolvePut" /\ ~Rejected(w)
  BY DEF ResolvePut, Recording, Rejected
<1>2. data \in Files /\ data.c \in Contents
  BY <1>1, Here, RegFacts, FileFacts DEF Ready
<1>3. Holds("resolvePut", reg[w], snap, Vouch, Gone, Had, copies.primary)
  BY <1>1, Mine
<1>4. reg[w].rem.c \in copies.primary
  BY <1>3 DEF Holds, Resolving
<1>5. reg[w].rem.c \subseteq Stored
  BY <1>4 DEF Stored, Kept
<1>6. CASE Lost(w, "put")
  BY <1>1, <1>6, LostLoss
<1>7. ASSUME NEW t \in Now, Passes(Matches(reg[w].rem.c)),
             SetRemote([c |-> data.c, t |-> t]),
             \/ snap' = Resolved(data, t) /\ Step(w, "resolverBase", r)
             \/ Throw(w),
             UNCHANGED <<local, seen, kept, Users>>
      PROVE  LossInv'
  <2> DEFINE f == [c |-> data.c, t |-> t]
  <2>1. f \in Files
    BY <1>2 DEF Files, Now
  <2>2. Content(f) = data.c
    BY <2>1, FileFacts
  <2>3. Content(remote) = reg[w].rem.c
    BY <1>7 DEF Passes, Matches, Content
  <2>4. Pub(Content(remote), Stored \cup Content(f))
    BY <1>5, <2>3 DEF Pub
  <2>5. SetRemote(f) /\ UNCHANGED <<local, made, dropped, kept>>
    BY <1>7 DEF Users
  <2> HIDE DEF f
  <2>6. Intact' /\ Keeps /\ Pub(data.c, published')
    BY <2>1, <2>2, <2>4, <2>5, RemoteLoss
  <2>7. CASE Throw(w)
    BY <1>1, <2>6, <2>7, ThrowLoss
  <2>8. CASE snap' = Resolved(data, t) /\ Step(w, "resolverBase", r)
    <3>1. snap'.remoteHash = data.c /\ snap'.baseHash = snap.baseHash
      BY <2>8, Here, HashFacts DEF Resolved
    <3>2. Entry(snap, Present')
      BY <2>6, LossHere, EntryKeeps DEF Keeps
    <3>3. Served(snap'.remoteHash, published') /\ Entry(snap', Present')
      BY <2>6, <3>1, <3>2 DEF Served, Entry
    <3> HIDE DEF r
    <3> QED
      BY <1>1, <2>6, <2>8, <3>3, PlainStepLoss DEF Guarded
  <2> QED
    BY <1>7, <2>7, <2>8
<1>8. CASE /\ snap' = [snap EXCEPT !.files = None, !.remoteHash = None]
           /\ Return(w, reg[w].ops)
           /\ UNCHANGED <<world, kept, history, candidate, used, dirty>>
  <2>1. /\ snap'.remoteHash = None /\ snap'.baseHash = snap.baseHash
        /\ reg[w].ops \in BOOLEAN
    BY <1>8, Here, HashFacts DEF Registers
  <2>2. Served(snap'.remoteHash, published) /\ Entry(snap', Present)
    BY <2>1, LossHere DEF Served, Entry
  <2>3. UNCHANGED <<local, remote, published, made, dropped, kept>>
    BY <1>8 DEF world, history
  <2> QED
    BY <1>1, <1>8, <2>1, <2>2, <2>3, QuietReturnLoss
<1> QED
  BY <1>1, <1>6, <1>7, <1>8 DEF ResolvePut

\* The base captured after it is the local copy.
LEMMA ResolverBaseLoss ==
    ASSUME TypeInv, HeldInv, LossInv, NEW w \in Workers, ResolverBase(w)
    PROVE  LossInv'
<1>1. /\ pc[w] = "resolverBase" /\ Return(w, reg[w].ops) /\ reg[w].ops \in BOOLEAN
      /\ UNCHANGED <<local, remote, published, made, dropped, kept>>
  BY Here DEF ResolverBase, world, history, Registers
<1>2. /\ snap'.remoteHash = snap.remoteHash
      /\ snap'.baseHash = snap.baseHash \/ (local # None /\ snap'.baseHash = local.c)
  BY Here, EntryFacts, BaseFacts DEF ResolverBase
<1>3. local # None => Pub(local.c, Present)
  BY DEF Present, Content, Pub
<1>4. Served(snap'.remoteHash, published) /\ Entry(snap', Present)
  BY <1>2, <1>3, LossHere DEF Entry
<1> QED
  BY <1>1, <1>4, QuietReturnLoss

\* Every step of a cycle.
LEMMA SyncStepLoss ==
    ASSUME Careful, TypeInv, PubInv, HeldInv, CalmInv, LossInv, Recording, Others \subseteq {TRUE},
           NEW w \in Workers, SyncStep(w)
    PROVE  LossInv'
<1>1. CASE Pushes(w)
  BY <1>1, ReadsLoss, PutsLoss DEF Pushes
<1>2. CASE Resolves(w)
  BY <1>2, ReadsLoss, ResolvesLoss, ResolvePutLoss, ResolverBaseLoss DEF Resolves
<1> QED
  BY <1>1, <1>2, SecondaryLoss, ClassifyLoss, DeletesLoss, NotesLoss, PullsLoss, MergesLoss,
     CyclesLoss DEF SyncStep

-----------------------------------------------------------------------------
(* Everyone else, and the theorem.                                         *)

\* Others leave the engine alone, and the local copy where it is about to be
\* replaced.
LEMMA OutsideLoss ==
    ASSUME TypeInv, LossInv, Intact', Keeps, UNCHANGED <<snap, disk, pc, reg>>,
           \A w \in Workers : pc[w] \in {"deleteLocal", "pullWrite", "reconcileWrite"} =>
               local' = local \/ local' = None
    PROVE  LossInv'
<1>1. ASSUME NEW v \in Workers
      PROVE  Safe(pc'[v], reg'[v], snap', disk', local', Stored', published')
  <2>1. Safe(pc[v], reg[v], snap, disk, local, Stored, published)
    BY LossHere
  <2>2. Safe(pc[v], reg[v], snap, disk, local', Stored', published')
    BY <2>1, SafeKeeps DEF Keeps
  <2> QED
    BY <2>2
<1>2. /\ Served(snap'.remoteHash, published') /\ Served(disk'.remoteHash, published')
      /\ Entry(snap', Present') /\ (~OtherPaths => Entry(disk', Present'))
  BY PubGrows, EntryKeeps DEF LossInv, Keeps, Served
<1> QED
  BY <1>1, <1>2 DEF LossInv

\* Edits are numbered from 1.
LEMMA EditFacts ==
    ASSUME TypeInv
    PROVE  /\ made \in Nat /\ made + 1 # Markers
           /\ 1..(made + 1) = 1..made \cup {made + 1}
           /\ Markers \notin published /\ \A e \in 1..made : e # Markers
<1>1. made \in Nat
  BY ConstantsAssumption DEF TypeInv, WorldOK
<1>2. Markers \notin published
  BY ConstantsAssumption DEF TypeInv, WorldOK, Edits, Markers
<1> QED
  BY <1>1, <1>2 DEF Markers

\* Saves and deletions by users.
LEMMA UsersLoss ==
    ASSUME TypeInv, LossInv, Windows = {},
           SaveLocal \/ DeleteLocal \/ SaveRemote \/ DeleteRemotely
    PROVE  LossInv'
<1>1. CASE SaveLocal
  <2>1. PICK t \in Now, old \in {Content(local), Content(local) \ {Markers}} :
          SetLocal([c |-> old \cup {made + 1}, t |-> t])
    BY <1>1 DEF SaveLocal
  <2>2. local \in Files \cup {None}
    BY DEF TypeInv, WorldOK
  <2>3. Content(local) \in Contents /\ old \in Contents
    BY <2>1, <2>2, CopyFacts DEF Contents
  <2>4. [c |-> old \cup {made + 1}, t |-> t] \in Files
    BY <1>1, <2>3, EditedFile DEF TypeInv, SaveLocal
  <2>5. Content(local') = old \cup {made + 1}
    BY <2>1, <2>4, FileFacts DEF SetLocal
  <2>6. made' = made + 1 /\ UNCHANGED <<remote, published, dropped, kept, Stored>>
    BY <1>1 DEF SaveLocal, Stored, Kept, kept
  <2>7. Pub(Present, Present')
    BY <2>1, <2>5, <2>6 DEF Present, Pub
  <2>8. 1..made' \subseteq Present' \cup published'
    <3>1. 1..made \subseteq Present' \cup published
      BY <2>7, EditFacts DEF LossInv, Intact, Pub
    <3>2. made + 1 \in Present'
      BY <2>5 DEF Present
    <3> QED
      BY <2>6, <3>1, <3>2, EditFacts
  <2>9. Intact' /\ Keeps
    BY <2>6, <2>7, <2>8 DEF LossInv, Intact, Keeps
  <2>10. \A w \in Workers : pc[w] \notin Gaps
    BY <1>1 DEF SaveLocal
  <2>11. \A w \in Workers : pc[w] \notin {"deleteLocal", "pullWrite", "reconcileWrite"}
    BY <2>10 DEF Gaps
  <2> QED
    BY <1>1, <2>9, <2>11, OutsideLoss DEF SaveLocal
<1>2. CASE DeleteLocal
  <2>1. /\ local # None /\ local' = None /\ dropped' = dropped \cup (local.c \ {Markers})
        /\ UNCHANGED <<remote, published, made, kept>>
    BY <1>2 DEF DeleteLocal, SetLocal
  <2>2. Content(local) = local.c /\ Content(local') = {}
    BY <2>1 DEF Content
  <2>3. Stored' = Stored \cup (local.c \ {Markers})
    BY <2>1 DEF Stored, Kept, kept
  <2>4. Pub(Present, Present')
    BY <2>2, <2>3 DEF Present, Pub
  <2>5. 1..made' \subseteq Present' \cup published'
    BY <2>1, <2>4, EditFacts DEF LossInv, Intact, Pub
  <2>6. Intact' /\ Keeps
    BY <2>1, <2>3, <2>4, <2>5 DEF LossInv, Intact, Keeps
  <2> QED
    BY <1>2, <2>1, <2>6, OutsideLoss DEF DeleteLocal, engine
<1>3. CASE SaveRemote
  <2>1. PICK t \in Now : SetRemote([c |-> Content(remote) \cup {made + 1}, t |-> t])
    BY <1>3 DEF SaveRemote
  <2>2. remote \in Files \cup {None}
    BY DEF TypeInv, WorldOK
  <2>3. Content(remote) \in Contents
    BY <2>2, CopyFacts
  <2>4. [c |-> Content(remote) \cup {made + 1}, t |-> t] \in Files
    BY <1>3, <2>3, EditedFile DEF TypeInv, SaveRemote
  <2>5. /\ Content(remote') = Content(remote) \cup {made + 1}
        /\ published' = published \cup (Content(remote') \ {Markers})
    BY <2>1, <2>4, FileFacts DEF SetRemote
  <2>6. made' = made + 1 /\ UNCHANGED <<local, dropped, kept, Stored, Present>>
    BY <1>3 DEF SaveRemote, Stored, Present, Kept, kept
  <2>7. published' \subseteq Stored' \cup Content(remote')
    BY <2>5, <2>6 DEF LossInv, Intact
  <2>8. 1..made' \subseteq Present' \cup published'
    BY <2>5, <2>6, EditFacts DEF LossInv, Intact
  <2>9. Intact' /\ Keeps
    BY <2>5, <2>6, <2>7, <2>8 DEF Intact, Keeps, Pub
  <2> QED
    BY <1>3, <2>6, <2>9, OutsideLoss DEF SaveRemote
<1>4. CASE DeleteRemotely
  <2>1. /\ remote # None /\ remote' = None /\ dropped' = dropped \cup (remote.c \ {Markers})
        /\ published' = published /\ UNCHANGED <<local, made, kept>>
    BY <1>4 DEF DeleteRemotely, SetRemote, Content
  <2>2. Content(remote) = remote.c /\ Content(local') = Content(local)
    BY <2>1 DEF Content
  <2>3. Stored' = Stored \cup (remote.c \ {Markers})
    BY <2>1 DEF Stored, Kept, kept
  <2>4. Present \subseteq Present'
    BY <2>2, <2>3 DEF Present
  <2>5. published' \subseteq Stored' \cup Content(remote')
    BY <2>1, <2>2, <2>3, EditFacts DEF LossInv, Intact
  <2>6. Intact' /\ Keeps
    BY <2>1, <2>3, <2>4, <2>5 DEF LossInv, Intact, Keeps, Pub
  <2> QED
    BY <1>4, <2>1, <2>6, OutsideLoss DEF DeleteRemotely
<1> QED
  BY <1>1, <1>2, <1>3, <1>4

\* A restart is left with the saved entry.
LEMMA RestartLoss ==
    ASSUME TypeInv, LossInv, OneCycle, Restart, Intact', published \subseteq published',
           Survives(disk, Present')
    PROVE  LossInv'
<1>1. ~OtherPaths
  BY ConstantsAssumption DEF Restart, OneCycle, TypeInv, WorldOK
<1>2. snap' = disk /\ disk' = disk
  BY DEF Restart
<1>3. Served(disk.remoteHash, published') /\ Entry(disk, Present')
  BY <1>1, PubGrows DEF LossInv, Served, Survives
<1>4. \A v \in Workers : Safe(pc'[v], reg'[v], snap', disk', local', Stored', published')
  <2>1. \A v \in Workers : pc'[v] = "idle"
    BY DEF Restart
  <2> QED
    BY <2>1, PlainSafe DEF Guarded
<1> QED
  BY <1>2, <1>3, <1>4 DEF LossInv

LEMMA KeptRestartLoss ==
    ASSUME TypeInv, LossInv, OneCycle, Restart, Intact', Keeps
    PROVE  LossInv'
<1>1. ~OtherPaths
  BY ConstantsAssumption DEF Restart, OneCycle, TypeInv, WorldOK
<1>2. Served(disk.remoteHash, published') /\ Entry(disk, Present')
  BY <1>1, PubGrows, EntryKeeps DEF LossInv, Keeps, Served
<1>3. snap' = disk /\ disk' = disk
  BY DEF Restart
<1>4. \A v \in Workers : Safe(pc'[v], reg'[v], snap', disk', local', Stored', published')
  <2>1. \A v \in Workers : pc'[v] = "idle"
    BY DEF Restart
  <2> QED
    BY <2>1, PlainSafe DEF Guarded
<1> QED
  BY <1>2, <1>3, <1>4 DEF LossInv

\* What a kill leaves: the local copy it wrote over is kept elsewhere, and so is
\* what the saved entry refers to.
LEMMA KilledLocal ==
    ASSUME TypeInv, CalmInv, LossInv, OneCycle, NEW w \in Workers, Killed(w),
           pc[w] \in LocalWrites
    PROVE  Intact' /\ Survives(disk, Present') /\ published' = published /\ seen \subseteq seen'
<1>1. Safe(pc[w], reg[w], snap, disk, local, Stored, published) /\ pc[w] \notin Unsynced
  BY LossHere DEF CalmInv
<1>2. Restart /\ UNCHANGED <<remote, published, made, dropped, kept>>
  BY KilledWrites DEF Restart, LocalWrites
<1>3. Pub(Content(local), Stored \cup published) => Intact' /\ Stored' = Stored
  BY <1>2, LocalLoss
<1>4. CASE pc[w] \in {"pullWrite", "reconcileWrite"}
  <2>1. Pub(Content(local), Stored \cup published) /\ Survives(disk, Stored \cup reg[w].rem.c)
    BY <1>1, <1>4 DEF Safe
  <2>2. SetLocal(reg[w].rem) /\ reg[w].rem \in Files
    BY <1>4, KilledWrites
  <2>3. Content(local') = reg[w].rem.c /\ seen \subseteq seen'
    BY <2>2, FileFacts DEF SetLocal
  <2>4. Present' = Stored \cup reg[w].rem.c
    BY <1>3, <2>1, <2>3 DEF Present
  <2> QED
    BY <1>2, <1>3, <2>1, <2>3, <2>4
<1>5. CASE pc[w] = "deleteLocal"
  <2>1. Pub(Content(local), Stored \cup published) /\ Survives(disk, Stored)
    BY <1>1, <1>5 DEF Safe, Pub
  <2>2. seen \subseteq seen'
    BY <1>5, KilledWrites DEF SetLocal
  <2>3. Stored \subseteq Present'
    BY <1>3, <2>1 DEF Present
  <2> QED
    BY <1>2, <1>3, <2>1, <2>2, <2>3, SurvivesKeeps
<1> QED
  BY <1>1, <1>4, <1>5 DEF LocalWrites, Unsynced

\* The saved entry stays sound, which KilledHeld takes for granted.
LEMMA KilledSound ==
    ASSUME TypeInv, HeldInv, CalmInv, LossInv, Careful, NEW w \in Workers, Killed(w),
           pc[w] \in LocalWrites
    PROVE  Sound(disk, Vouch')
<1>1. Restart /\ UNCHANGED <<dropped, kept>>
  BY KilledWrites DEF Restart
<1>2. ~OtherPaths
  BY <1>1, ConstantsAssumption DEF Restart, Careful, OneCycle, TypeInv, WorldOK
<1>3. Served(disk.remoteHash, Present') /\ seen \subseteq seen'
  BY <1>2, KilledLocal DEF Careful, Survives
<1>4. Lasting = Stored /\ Lasting' = Stored'
  <2>1. Kills \cap LocalWrites # {}
    BY KilledWrites
  <2> QED
    BY <2>1 DEF Lasting
<1>5. Aside' = Aside
  BY <1>1 DEF Aside, Kept, kept
<1>6. Vouch \subseteq Aside \cup seen /\ Aside \cup (seen \cap Present') \subseteq Vouch'
  BY <1>3, <1>4, <1>5 DEF Vouch, Had, Present
<1>7. Sound(disk, Vouch)
  BY <1>2 DEF HeldInv
<1>8. disk.remoteHash # None /\ Pub(disk.remoteHash, Vouch) => Pub(disk.remoteHash, Vouch')
  BY <1>3, <1>6 DEF Served, Pub
<1> QED
  BY <1>7, <1>8 DEF Sound, Vouched

LEMMA KilledLoss ==
    ASSUME TypeInv, HeldInv, CalmInv, LossInv, Careful, NEW w \in Workers, Killed(w)
    PROVE  LossInv'
<1>1. Restart /\ OneCycle /\ UNCHANGED <<made, dropped, kept>>
  BY KilledWrites DEF Restart, Careful
<1>2. CASE pc[w] \in LocalWrites
  BY <1>1, <1>2, KilledLocal, RestartLoss
<1>3. CASE pc[w] \in {"putNew", "putChanged", "putRecreate"}
  <2>1. /\ Passes(reg[w].pre) /\ SetRemote(reg[w].data) /\ reg[w].data \in Files
        /\ UNCHANGED <<local, made, dropped, kept>>
    BY <1>1, <1>3, KilledWrites
  <2>2. Content(reg[w].data) = reg[w].data.c
    BY <2>1, FileFacts
  <2>3. Pub(Content(remote), Stored \cup Content(reg[w].data))
    BY <1>3, <2>1, <2>2, PushOver
  <2>4. Intact' /\ Keeps
    BY <2>1, <2>3, RemoteLoss
  <2> QED
    BY <1>1, <2>4, KeptRestartLoss
<1>4. CASE pc[w] = "deleteRemote"
  <2>1. /\ Passes(reg[w].pre) /\ SetRemote(None)
        /\ UNCHANGED <<local, made, dropped, kept>>
    BY <1>1, <1>4, KilledWrites
  <2>2. Intact' /\ Keeps
    BY <1>4, <2>1, DeleteOver, RemoteLoss
  <2> QED
    BY <1>1, <2>2, KeptRestartLoss
<1> QED
  BY <1>2, <1>3, <1>4, KilledWrites DEF LocalWrites

\* Other paths and restarts.
LEMMA EngineLoss ==
    ASSUME TypeInv, HeldInv, LossInv, OneCycle,
           \/ OtherPathSynced \/ Crash
           \/ \E w \in Workers : OtherPathFails(w)
    PROVE  LossInv'
<1>1. CASE OtherPathSynced
  <2>1. /\ OtherPaths /\ disk' = snap
        /\ UNCHANGED <<local, remote, published, made, dropped, kept, snap, pc, reg>>
    BY <1>1 DEF OtherPathSynced, world, history
  <2>2. Intact' /\ Keeps
    BY <2>1, SameLoss
  <2>3. Served(snap'.remoteHash, published') /\ Entry(snap', Present')
    BY <2>1, <2>2, LossHere, PubGrows, EntryKeeps DEF Keeps, Served, LossInv
  <2>4. \A v \in Workers : Safe(pc'[v], reg'[v], snap', disk', local', Stored', published')
    BY <2>1, <2>2, SafeKeeps, LossHere DEF Keeps
  <2> QED
    BY <2>1, <2>2, <2>3, <2>4 DEF LossInv
<1>2. ASSUME NEW w \in Workers, OtherPathFails(w) PROVE LossInv'
  <2>1. PICK v \in Workers : pc[v] = "idle"
    BY <1>2 DEF OtherPathFails
  <2>2. v = w /\ syncing = w
    BY <1>2 DEF OtherPathFails, OneCycle
  <2> QED
    BY <2>1, <2>2 DEF HeldInv
<1>3. CASE Crash
  <2>1. UNCHANGED <<local, remote, published, made, dropped, kept>>
    BY <1>3 DEF Crash, Restart
  <2>2. Intact' /\ Keeps
    BY <2>1, SameLoss
  <2> QED
    BY <1>3, <2>2, KeptRestartLoss DEF Crash
<1> QED
  BY <1>1, <1>2, <1>3

\* Every step of the system.
LEMMA NextLoss ==
    ASSUME TypeInv, PubInv, HeldInv, CalmInv, LossInv, [Next]_vars, Careful
    PROVE  LossInv'
<1> USE DEF Careful
<1>1. CASE UNCHANGED vars
  <2>1. UNCHANGED <<local, remote, published, made, dropped, kept, snap, disk, pc, reg>>
    BY <1>1 DEF vars, world, engine, history
  <2> QED
    BY <2>1, SameLoss, OutsideLoss
<1>2. ASSUME NEW w \in Workers,
             \/ StartScan(w) \/ Take(w) \/ SyncStep(w) \/ OtherPathFails(w)
             \/ Killed(w)
      PROVE  LossInv'
  BY <1>2, CyclesLoss, SyncStepLoss, EngineLoss, KilledLoss
<1>3. ~SetSyncConfig
  BY ConstantsAssumption DEF SetSyncConfig, TypeInv, WorldOK
<1>4. CASE Environment
  BY <1>3, <1>4, UsersLoss, EngineLoss DEF Environment
<1> QED
  BY <1>1, <1>2, <1>4 DEF Next

LEMMA InitLoss == Init => LossInv
<1> SUFFICES ASSUME Init PROVE LossInv
  OBVIOUS
<1>1. PICK situation \in Starts : InitStore(situation)
  BY DEF Init
<1>2. PICK others \in Others :
        snap = CASE situation = "synced" -> Agreed(Fresh(others), {}, 1, 1)
                 [] situation = "upgraded" -> [Fresh(others) EXCEPT !.files = <<1, 1>>]
                 [] OTHER -> Fresh(others)
  BY <1>1 DEF InitStore
<1>3. snap.remoteHash \in {None, {}} /\ snap.baseHash \in {None, {}} /\ disk = snap
  BY <1>1, <1>2 DEF InitStore, Fresh, Agreed
<1>4. \A p : Served(snap.remoteHash, p) /\ Entry(snap, p)
  BY <1>3 DEF Served, Entry, Pub
<1>5. Intact
  BY DEF Init, Intact
<1>6. \A v \in Workers : Safe(pc[v], reg[v], snap, disk, local, Stored, published)
  <2>1. \A v \in Workers : pc[v] = "idle"
    BY DEF Init
  <2> QED
    BY <2>1, PlainSafe DEF Guarded
<1> QED
  BY <1>3, <1>4, <1>5, <1>6 DEF LossInv

\* The invariants together.
LEMMA CarefulInv ==
    ASSUME Careful
    PROVE  Spec => [](TypeInv /\ HeldInv /\ CalmInv /\ LossInv)
<1>1. Init => TypeInv /\ PubInv /\ HeldInv /\ CalmInv /\ LossInv
  BY InitType, InitPub, InitHeld, InitCalm, InitLoss DEF Careful
<1>2. TypeInv /\ PubInv /\ HeldInv /\ CalmInv /\ LossInv /\ [Next]_vars =>
        TypeInv' /\ PubInv' /\ HeldInv' /\ CalmInv' /\ LossInv'
  <2> SUFFICES ASSUME TypeInv, PubInv, HeldInv, CalmInv, LossInv, [Next]_vars
               PROVE  TypeInv' /\ PubInv' /\ HeldInv' /\ CalmInv' /\ LossInv'
    OBVIOUS
  <2>1. Windows \cap {"resolveGet", "resolvePut", "resolverBase"} = {}
    BY DEF Careful
  <2>2. PubInv'
    BY <2>1, NextPub
  <2>3. HeldInv'
    BY KilledSound, NextHeld DEF Careful
  <2> QED
    BY <2>2, <2>3, NextType, NextCalm, NextLoss DEF Careful
<1> QED
  BY <1>1, <1>2, PTL DEF Spec

\* Every edit a user made is in either copy, in a conflict copy or in the safety
\* store, unless it was in a file when a user deleted that file (pullRemoteCopy,
\* tryReconcile, primaryConflictResolver, syncFile's deletions and pushes), for
\* any number of edits, deletions, milliseconds, restarts and failing requests,
\* also for restarts between a write and the saving of the snapshot, with and
\* without three-way reconciliation, provided that saves land outside of the
\* engine's check-to-act gaps (Windows), the configuration does not change, the
\* server is known to report revisions, and OneCycle and Recording hold.
THEOREM NothingIsLost ==
    ASSUME Careful
    PROVE  Spec => []NoLostEdit
<1>1. LossInv => NoLostEdit
  BY DEF LossInv, Intact, Present, Stored, NoLostEdit
<1> QED
  BY <1>1, CarefulInv, PTL

\* What it says of the recorded revision.
LEMMA RecordedByInv == TypeInv /\ HeldInv /\ CalmInv => RecordedRevisionWasHeld
<1> SUFFICES ASSUME TypeInv, HeldInv, CalmInv,
                    \A w \in Workers : pc[w] \in {"idle", "tail"},
                    snap.files # None
             PROVE  snap.remoteHash \ {Markers} \subseteq seen \cup Kept
  BY DEF RecordedRevisionWasHeld
<1>1. Sound(snap, Vouch)
  <2>1. CASE syncing = None
    BY <2>1 DEF HeldInv
  <2>2. CASE syncing # None
    <3>1. PICK w \in Workers : syncing = w
      BY <2>2 DEF TypeInv, EngineOK
    <3>2. pc[w] = "tail"
      BY <3>1 DEF HeldInv
    <3> QED
      BY <3>2, SoundHere DEF Reading, Resolving
  <2> QED
    BY <2>1, <2>2
<1>2. Vouch \subseteq seen \cup Kept
  BY DEF Vouch, Aside, Had
<1> QED
  BY <1>1, <1>2 DEF Sound, Vouched, Pub, CalmInv, Calm

\* Between cycles, the recorded revision is one this replica has held or put
\* aside (the remoteHashes entry a later push or delete states), for any number
\* of edits, deletions, restarts and failing requests, also for restarts between a
\* write and the saving of the snapshot, provided that no other path saves the
\* snapshot in the middle (OneCycle), every entry was made with a revision and the
\* resolver is not stopped before it put one aside (Recording), and the
\* configuration does not change.
THEOREM RecordedWasHeld ==
    ASSUME OneCycle, Recording, MaxReconfigs = 0
    PROVE  Spec => []RecordedRevisionWasHeld
<1>1. CASE Careful
  BY <1>1, CarefulInv, RecordedByInv, PTL
<1>2. CASE ~Careful
  <2>1. Init => TypeInv /\ HeldInv /\ CalmInv
    BY InitType, InitHeld, InitCalm
  <2>2. TypeInv /\ HeldInv /\ CalmInv /\ [Next]_vars => TypeInv' /\ HeldInv' /\ CalmInv'
    BY <1>2, NextType, NextHeld, NextCalm
  <2> QED
    BY <2>1, <2>2, RecordedByInv, PTL DEF Spec
<1> QED
  BY <1>1, <1>2

=============================================================================
