-------------------------- MODULE SyncEngineProofs --------------------------
(***************************************************************************)
(* Proofs about the dirty queue and the run loop, for any sets of paths,   *)
(* revisions and timestamps, any numbers of marks and scans, with and      *)
(* without a logout.                                                       *)
(***************************************************************************)
EXTENDS SyncEngine, TLAPS

-----------------------------------------------------------------------------
(* Origins.                                                                *)

\* What an entry reports is a revision or nothing.
LEMMA ReportedType ==
    ASSUME NEW o \in Origins
    PROVE  reportedRevision(o) \in Hashes \cup {None}
  BY DEF Origins, reportedRevision

\* Merging two entries gives an entry.
LEMMA MergeType ==
    ASSUME NEW a \in Origins, NEW b \in Origins
    PROVE  mergeOrigins(a, b) \in Origins
<1>1. reportedRevision(a) \in Hashes \cup {None}
  BY ReportedType
<1>2. reportedRevision(b) \in Hashes \cup {None}
  BY ReportedType
<1> QED
  BY <1>1, <1>2 DEF Origins, OriginTypes, mergeOrigins, AnyOrigin

\* A merged entry reports what the newer one reports, and what the older one
\* did where the newer is silent.
LEMMA MergeReports ==
    ASSUME NEW a \in Origins, NEW b \in Origins
    PROVE  reportedRevision(mergeOrigins(a, b)) =
             IF reportedRevision(b) # None THEN reportedRevision(b)
                                           ELSE reportedRevision(a)
  BY DEF Origins, OriginTypes, mergeOrigins, AnyOrigin, reportedRevision

\* Every origin a trigger marks with is an entry.
LEMMA OriginType ==
    ASSUME NEW type \in OriginTypes, NEW o \in Origin(type)
    PROVE  o \in Origins
  BY DEF Origin, Origins, OriginTypes, LocalOrigin, ProbeOrigin, AnyOrigin,
         RemoteOrigin

-----------------------------------------------------------------------------
(* The type invariant.                                                     *)

\* Marking keeps the queue well typed.
LEMMA MarkType ==
    ASSUME QueueTypeOK, NEW p \in Paths, NEW o \in Origins, mark(p, o)
    PROVE  QueueTypeOK'
<1>1. order' \in Seq(Paths)
  BY DEF QueueTypeOK, mark
<1>2. pending' \in [Paths -> Origins \cup {None}]
  <2>1. CASE pending[p] = None
    BY <2>1 DEF QueueTypeOK, mark
  <2>2. CASE pending[p] # None
    <3>1. pending[p] \in Origins
      BY <2>2 DEF QueueTypeOK
    <3>2. mergeOrigins(pending[p], o) \in Origins
      BY <3>1, MergeType
    <3> QED
      BY <2>2, <3>2 DEF QueueTypeOK, mark
  <2> QED
    BY <2>1, <2>2
<1>3. fullScan' \in BOOLEAN /\ waiter' \in {"unset", "set", "woken", "late"}
  BY DEF QueueTypeOK, mark, wake
<1> QED
  BY <1>1, <1>2, <1>3 DEF QueueTypeOK

\* The run loop has an entry in hand wherever it acts on one.
HoldsEntry == loop \in {"dispatch", "localMeta", "single"} => taken # None

\* No step leaves the types.
LEMMA TypeStep == TypeOK /\ HoldsEntry /\ [Next]_vars => TypeOK'
<1> SUFFICES ASSUME TypeOK, HoldsEntry, [Next]_vars
             PROVE  TypeOK'
  OBVIOUS
<1> USE EngineAssumption
<1>1. CASE RunSpace
  BY <1>1 DEF TypeOK, QueueTypeOK, queueVars, logoutVars, Loops, RunSpace, Goto
<1>2. CASE SpaceEnds \/ Pruned
  BY <1>2 DEF TypeOK, QueueTypeOK, queueVars, logoutVars, Loops, SpaceEnds, Pruned,
              IntoDrain, Goto
<1>3. CASE Drain
  BY <1>3 DEF TypeOK, QueueTypeOK, queueVars, logoutVars, Loops, Drain, Goto
<1>4. CASE Take
  <2> USE DEF TypeOK, QueueTypeOK, queueVars, logoutVars, Loops, Goto
  <2>1. CASE TakeFullScan /\ Goto("space") /\ UNCHANGED <<taken, reported>>
    BY <1>4, <2>1 DEF Take, TakeFullScan
  <2>2. ASSUME NEW p \in Paths, TakePath(p),
               IF pending[p] = None
               THEN UNCHANGED <<loop, taken>>
               ELSE /\ Goto("dispatch")
                    /\ taken' = [path |-> p, origin |-> pending[p]],
               reported' = [reported EXCEPT ![p] = None]
        PROVE  TypeOK'
    <3>1. order' \in Seq(Paths) /\ pending' \in [Paths -> Origins \cup {None}]
      BY <2>2 DEF TakePath
    <3>2. taken' \in Entries \cup {None} /\ loop' \in Loops
      BY <2>2 DEF Entries
    <3> QED
      BY <1>4, <2>2, <3>1, <3>2 DEF Take, TakePath
  <2>3. CASE NothingToTake /\ Goto("drain") /\ UNCHANGED <<queueVars, taken, reported>>
    BY <1>4, <2>3 DEF Take
  <2>4. CASE Wait /\ Goto("waiting") /\ UNCHANGED <<taken, reported>>
    BY <1>4, <2>4 DEF Take, Wait
  <2> QED
    BY <1>4, <2>1, <2>2, <2>3, <2>4 DEF Take
<1>5. CASE TakeTimeout
  BY <1>5 DEF TypeOK, QueueTypeOK, engineVars, logoutVars, TakeTimeout, WaitTimesOut
<1>6. CASE TakeResumes
  BY <1>6 DEF TypeOK, QueueTypeOK, logoutVars, Loops, TakeResumes, Resume, Goto
<1>7. CASE Dispatch
  BY <1>7 DEF TypeOK, QueueTypeOK, queueVars, logoutVars, Loops, Dispatch, Goto
<1>8. CASE LocalMeta \/ LocalReadFails
  BY <1>8 DEF TypeOK, QueueTypeOK, queueVars, logoutVars, Loops, LocalMeta, LocalReadFails, Goto
<1>9. CASE Single
  <2>1. taken.path \in Paths /\ taken.origin \in Origins
    BY <1>9 DEF TypeOK, HoldsEntry, Single, Entries
  <2>2. CASE cycle # None
    <3>1. QueueTypeOK'
      BY <1>9, <2>1, <2>2, MarkType DEF Single, TypeOK
    <3>2. reported' \in [Paths -> Hashes \cup {None}]
      BY <1>9, <2>1, <2>2, ReportedType DEF Single, TypeOK
    <3> QED
      BY <1>9, <2>2, <3>1, <3>2 DEF Single, TypeOK, logoutVars, Loops, Goto
  <2>3. CASE cycle = None
    BY <1>9, <2>3 DEF Single, TypeOK, QueueTypeOK, queueVars, logoutVars, Loops, Goto
  <2> QED
    BY <2>2, <2>3
<1>10. CASE SingleEnds
  BY <1>10 DEF TypeOK, QueueTypeOK, queueVars, logoutVars, Loops, SingleEnds, Goto
<1>11. CASE requestFileSync
  <2>1. PICK p \in Paths, type \in MarkTypes : \E o \in Origin(type) :
          /\ mark(p, o)
          /\ reported' = [reported EXCEPT ![p] =
                            IF reportedRevision(o) = None THEN @
                                                          ELSE reportedRevision(o)]
    BY <1>11 DEF requestFileSync
  <2>2. PICK o \in Origin(type) :
          /\ mark(p, o)
          /\ reported' = [reported EXCEPT ![p] =
                            IF reportedRevision(o) = None THEN @
                                                          ELSE reportedRevision(o)]
    BY <2>1
  <2>3. o \in Origins
    BY OriginType, EngineAssumption
  <2>4. QueueTypeOK'
    BY <2>2, <2>3, MarkType DEF TypeOK
  <2>5. reported' \in [Paths -> Hashes \cup {None}]
    BY <2>2, <2>3, ReportedType DEF TypeOK
  <2>6. used' \in [marks : 0..MaxMarks, scans : 0..MaxScans, failures : 0..MaxFailures]
    BY <1>11 DEF TypeOK, requestFileSync
  <2> QED
    BY <1>11, <2>4, <2>5, <2>6 DEF TypeOK, requestFileSync, engineVars, logoutVars
<1>12. CASE requestSpaceSync
  BY <1>12 DEF TypeOK, QueueTypeOK, requestSpaceSync, markFullScan, wake, engineVars,
               logoutVars
<1>13. CASE stop
  BY <1>13 DEF TypeOK, QueueTypeOK, stop, queueVars, logoutVars
<1>14. CASE LogoutBegins
  BY <1>14 DEF TypeOK, QueueTypeOK, LogoutBegins, queueVars, engineVars, LogoutStates
<1>15. CASE LogoutSyncs
  BY <1>15 DEF TypeOK, QueueTypeOK, LogoutSyncs, Retry, queueVars, LogoutStates
<1>16. CASE LogoutSyncEnds \/ LogoutPruned
  BY <1>16 DEF TypeOK, QueueTypeOK, LogoutSyncEnds, LogoutPruned, Retry, queueVars,
               engineVars, LogoutStates
<1>17. CASE LogoutWakes
  BY <1>17 DEF TypeOK, QueueTypeOK, LogoutWakes, queueVars, engineVars, LogoutStates
<1>18. CASE LogoutExpires
  BY <1>18 DEF TypeOK, QueueTypeOK, LogoutExpires, queueVars, engineVars
<1>19. CASE UNCHANGED vars
  BY <1>19 DEF TypeOK, QueueTypeOK, vars, queueVars, engineVars, logoutVars
<1> QED
  BY <1>1, <1>2, <1>3, <1>4, <1>5, <1>6, <1>7, <1>8, <1>9, <1>10, <1>11, <1>12,
     <1>13, <1>14, <1>15, <1>16, <1>17, <1>18, <1>19 DEF Next, RunLoop, LogoutSteps

\* A path is taken only off the queue, so what the loop holds is an entry.
LEMMA HoldsStep == TypeOK /\ HoldsEntry /\ [Next]_vars => HoldsEntry'
<1> SUFFICES ASSUME TypeOK, HoldsEntry, [Next]_vars
             PROVE  HoldsEntry'
  OBVIOUS
<1> USE DEF HoldsEntry, Goto
<1>1. CASE Take
  <2>1. CASE UNCHANGED <<loop, taken>> \/ loop' \in {"space", "drain", "waiting"}
    BY <1>1, <2>1 DEF Take
  <2>2. ASSUME NEW p \in Paths, pending[p] # None,
               taken' = [path |-> p, origin |-> pending[p]]
        PROVE  HoldsEntry'
    <3>1. pending[p] \in Origins
      BY <2>2 DEF TypeOK, QueueTypeOK
    <3>2. taken' \in Entries
      BY <2>2, <3>1 DEF Entries
    <3> QED
      BY <3>2, DefinedAssumption
  <2> QED
    BY <1>1, <2>1, <2>2 DEF Take
<1>2. CASE RunSpace \/ SpaceEnds \/ Pruned \/ Drain \/ TakeTimeout \/ TakeResumes \/ SingleEnds
  BY <1>2 DEF RunSpace, SpaceEnds, Pruned, IntoDrain, Drain, TakeTimeout, TakeResumes,
              SingleEnds,
              engineVars
<1>3. CASE Dispatch \/ LocalMeta \/ LocalReadFails \/ Single
  BY <1>3 DEF Dispatch, LocalMeta, LocalReadFails, Single
<1>4. CASE requestFileSync \/ requestSpaceSync \/ stop \/ LogoutBegins \/ LogoutSteps
  BY <1>4 DEF requestFileSync, requestSpaceSync, stop, LogoutBegins, LogoutSteps,
              LogoutSyncs, LogoutSyncEnds, LogoutPruned, LogoutWakes, LogoutExpires,
              engineVars
<1>5. CASE UNCHANGED vars
  BY <1>5 DEF vars, engineVars
<1> QED
  BY <1>1, <1>2, <1>3, <1>4, <1>5 DEF Next, RunLoop

TypeInv == TypeOK /\ HoldsEntry

\* The run loop holds an entry exactly where it works on one, in every reachable
\* state: with the types this is the inductive invariant.
LEMMA TypeInvariance == Spec => []TypeInv
<1>1. Init => TypeInv
  <2> SUFFICES ASSUME Init
               PROVE  TypeInv
    OBVIOUS
  <2>1. QueueTypeOK
    <3>1. order \in Seq(Paths)
      BY DEF Init, InitQueue
    <3>2. pending \in [Paths -> Origins \cup {None}]
      BY DEF Init, InitQueue
    <3>3. fullScan \in BOOLEAN /\ waiter \in {"unset", "set", "woken", "late"}
      BY DEF Init, InitQueue
    <3> QED
      BY <3>1, <3>2, <3>3 DEF QueueTypeOK
  <2>2. used \in [marks : 0..MaxMarks, scans : 0..MaxScans, failures : 0..MaxFailures]
    BY EngineAssumption DEF Init
  <2>3. loop \in Loops /\ logout \in LogoutStates
    BY DEF Init, Loops, LogoutStates
  <2>4. cycle \in {"run", "logout", None} /\ taken \in Entries \cup {None}
    BY DEF Init
  <2>5. reported \in [Paths -> Hashes \cup {None}]
    BY DEF Init
  <2>6. HoldsEntry
    BY DEF Init, HoldsEntry
  <2> QED
    BY <2>1, <2>2, <2>3, <2>4, <2>5, <2>6 DEF Init, TypeInv, TypeOK
<1>2. TypeInv /\ [Next]_vars => TypeInv'
  BY TypeStep, HoldsStep DEF TypeInv
<1> QED
  BY <1>1, <1>2, PTL DEF Spec

\* Every reachable state of the queue, the run loop and the logout is well
\* typed, whatever is marked and however scans, requests and messages interleave.
THEOREM TypeCorrect == Spec => []TypeOK
  BY TypeInvariance, PTL DEF TypeInv

-----------------------------------------------------------------------------
(* The queue.                                                              *)

\* Marking keeps map and list in step: a new path goes to the end of the list,
\* a pending one stays where it is.
LEMMA MarkConsistent ==
    ASSUME QueueTypeOK, QueueConsistent, NEW p \in Paths, NEW o \in Origins,
           mark(p, o)
    PROVE  QueueConsistent'
<1>1. \A q \in Paths : pending'[q] # None <=> q = p \/ pending[q] # None
  <2>1. mergeOrigins(pending[p], o) # None \/ pending[p] = None
    BY MergeType, DefinedAssumption DEF QueueTypeOK
  <2> QED
    BY <2>1, DefinedAssumption DEF QueueTypeOK, mark
<1>2. CASE pending[p] = None
  <2>1. order' = Append(order, p)
    BY <1>2 DEF mark
  <2>2. Len(order') = Len(order) + 1 /\ order'[Len(order) + 1] = p
    BY <2>1 DEF QueueTypeOK
  <2>3. \A i \in 1..Len(order) : order'[i] = order[i]
    BY <2>1 DEF QueueTypeOK
  <2>4. \A i \in 1..Len(order) : order[i] # p
    BY <1>2 DEF QueueConsistent
  <2>5. Len(order) \in Nat
    BY DEF QueueTypeOK
  <2>6. \A i, j \in 1..Len(order') : order'[i] = order'[j] => i = j
    BY <2>2, <2>3, <2>4, <2>5 DEF QueueConsistent
  <2>7. \A q \in Paths :
          pending'[q] # None <=> \E i \in 1..Len(order') : order'[i] = q
    BY <1>1, <2>2, <2>3, <2>5 DEF QueueConsistent
  <2> QED
    BY <2>6, <2>7 DEF QueueConsistent
<1>3. CASE pending[p] # None
  BY <1>1, <1>3 DEF QueueConsistent, mark
<1> QED
  BY <1>2, <1>3

\* Taking the oldest path removes it from both.
LEMMA TakeConsistent ==
    ASSUME QueueTypeOK, QueueConsistent, NEW p \in Paths, TakePath(p)
    PROVE  QueueConsistent'
<1>1. Len(order) \in Nat \ {0} /\ order[1] = p
  BY DEF QueueTypeOK, TakePath
<1>2. Len(order') = Len(order) - 1
  BY DEF QueueTypeOK, TakePath
<1>3. \A i \in 1..Len(order') : order'[i] = order[i + 1]
  BY DEF QueueTypeOK, TakePath
<1>4. \A i \in 2..Len(order) : order[i] = order'[i - 1] /\ order[i] # p
  BY <1>1, <1>2, <1>3 DEF QueueConsistent
<1>5. \A q \in Paths : pending'[q] # None <=> q # p /\ pending[q] # None
  BY DEF QueueTypeOK, TakePath
<1>6. \A i, j \in 1..Len(order') : order'[i] = order'[j] => i = j
  BY <1>1, <1>2, <1>3 DEF QueueConsistent
<1>7. ASSUME NEW q \in Paths
      PROVE  pending'[q] # None <=> \E i \in 1..Len(order') : order'[i] = q
  <2>1. ASSUME pending'[q] # None
        PROVE  \E i \in 1..Len(order') : order'[i] = q
    <3>1. PICK i \in 1..Len(order) : order[i] = q
      BY <1>5, <2>1 DEF QueueConsistent
    <3>2. i # 1
      BY <1>1, <1>5, <2>1, <3>1
    <3>3. i - 1 \in 1..Len(order') /\ order'[i - 1] = q
      BY <1>1, <1>2, <1>4, <3>1, <3>2
    <3> QED
      BY <3>3
  <2>2. ASSUME NEW i \in 1..Len(order'), order'[i] = q
        PROVE  pending'[q] # None
    <3>1. i + 1 \in 2..Len(order) /\ order[i + 1] = q
      BY <1>1, <1>2, <1>3, <2>2
    <3>2. q # p /\ pending[q] # None
      BY <1>1, <1>4, <3>1 DEF QueueConsistent
    <3> QED
      BY <1>5, <3>2
  <2> QED
    BY <2>1, <2>2
<1> QED
  BY <1>6, <1>7 DEF QueueConsistent

\* The queue's map and list always name the same paths, each once: an entry of
\* the map is never out of the consumer's reach, and `take' never finds a path
\* in the list whose entry is gone.
THEOREM QueueIsConsistent == Spec => []QueueConsistent
<1>1. Init => QueueConsistent
  BY DEF Init, InitQueue, QueueConsistent
<1>2. TypeInv /\ QueueConsistent /\ [Next]_vars => QueueConsistent'
  <2> SUFFICES ASSUME TypeInv, QueueConsistent, [Next]_vars
               PROVE  QueueConsistent'
    OBVIOUS
  <2>1. CASE UNCHANGED <<order, pending>>
    BY <2>1 DEF QueueConsistent
  <2>2. CASE Take
    <3>1. ASSUME NEW p \in Paths, TakePath(p)
          PROVE  QueueConsistent'
      BY <3>1, TakeConsistent DEF TypeInv, TypeOK
    <3> QED
      BY <2>1, <2>2, <3>1 DEF Take, TakeFullScan, Wait, queueVars
  <2>3. CASE Single
    <3>1. taken.path \in Paths /\ taken.origin \in Origins
      BY <2>3 DEF TypeInv, TypeOK, HoldsEntry, Single, Entries
    <3> QED
      BY <2>1, <2>3, <3>1, MarkConsistent DEF Single, TypeInv, TypeOK, queueVars
  <2>4. CASE requestFileSync
    <3>1. PICK p \in Paths, type \in MarkTypes : \E o \in Origin(type) : mark(p, o)
      BY <2>4 DEF requestFileSync
    <3>2. PICK o \in Origin(type) : mark(p, o)
      BY <3>1
    <3>3. o \in Origins
      BY OriginType, EngineAssumption
    <3> QED
      BY <3>2, <3>3, MarkConsistent DEF TypeInv, TypeOK
  <2>5. CASE \/ RunSpace \/ SpaceEnds \/ Pruned \/ Drain \/ TakeTimeout \/ TakeResumes
             \/ Dispatch \/ LocalMeta \/ LocalReadFails \/ SingleEnds
    BY <2>1, <2>5 DEF RunSpace, SpaceEnds, Pruned, IntoDrain, Drain, TakeTimeout,
                      WaitTimesOut,
                      TakeResumes, Resume, Dispatch, LocalMeta, LocalReadFails, SingleEnds,
                      queueVars
  <2>6. CASE requestSpaceSync \/ stop \/ LogoutBegins \/ LogoutSteps
    BY <2>1, <2>6 DEF requestSpaceSync, markFullScan, stop, LogoutBegins, LogoutSteps,
                      LogoutSyncs, LogoutSyncEnds, LogoutPruned, LogoutWakes,
                      LogoutExpires, queueVars
  <2>7. CASE UNCHANGED vars
    BY <2>1, <2>7 DEF vars, queueVars
  <2> QED
    BY <2>2, <2>3, <2>4, <2>5, <2>6, <2>7 DEF Next, RunLoop
<1> QED
  BY <1>1, <1>2, TypeInvariance, PTL DEF Spec

-----------------------------------------------------------------------------
(* The run loop.                                                           *)

\* isSyncing keeps the cycles of the run loop and of a logout apart.
THEOREM CyclesMutexed == Spec => []CyclesAreMutexed
<1>1. Init => CyclesAreMutexed
  BY CycleAssumption DEF Init, CyclesAreMutexed
<1>2. CyclesAreMutexed /\ [Next]_vars => CyclesAreMutexed'
  <2> SUFFICES ASSUME CyclesAreMutexed, [Next]_vars
               PROVE  CyclesAreMutexed'
    OBVIOUS
  <2> USE CycleAssumption DEF CyclesAreMutexed, Goto
  <2>1. CASE RunSpace \/ SpaceEnds \/ Pruned \/ Drain
    BY <2>1 DEF RunSpace, SpaceEnds, Pruned, IntoDrain, Drain, logoutVars
  <2>2. CASE Take
    BY <2>2 DEF Take, logoutVars
  <2>3. CASE TakeTimeout \/ TakeResumes
    BY <2>3 DEF TakeTimeout, TakeResumes, engineVars, logoutVars
  <2>4. CASE Dispatch \/ LocalMeta \/ LocalReadFails
    BY <2>4 DEF Dispatch, LocalMeta, LocalReadFails, logoutVars
  <2>5. CASE Single \/ SingleEnds
    BY <2>5 DEF Single, SingleEnds, logoutVars
  <2>6. CASE requestFileSync \/ requestSpaceSync \/ stop
    BY <2>6 DEF requestFileSync, requestSpaceSync, stop, engineVars, logoutVars
  <2>7. CASE LogoutBegins \/ LogoutSteps
    BY <2>7 DEF LogoutBegins, LogoutSteps, LogoutSyncs, LogoutSyncEnds, LogoutPruned,
                LogoutWakes,
                LogoutExpires, Retry, engineVars, logoutVars
  <2>8. CASE UNCHANGED vars
    BY <2>8 DEF vars, engineVars, logoutVars
  <2> QED
    BY <2>1, <2>2, <2>3, <2>4, <2>5, <2>6, <2>7, <2>8 DEF Next, RunLoop
<1> QED
  BY <1>1, <1>2, PTL DEF Spec

\* While the loop waits there is a waiter to wake, which is what makes every
\* mark wake it.
WaitInv == NoLostWakeup /\ (loop = "waiting" => waiter # "unset")

\* The consumer never sleeps over work in the queue.
THEOREM NoWakeupLost == Spec => []NoLostWakeup
<1>1. Init => WaitInv
  BY DEF Init, WaitInv, NoLostWakeup
<1>2. TypeInv /\ WaitInv /\ [Next]_vars => WaitInv'
  <2> SUFFICES ASSUME TypeInv, WaitInv, [Next]_vars
               PROVE  WaitInv'
    OBVIOUS
  <2> USE DEF WaitInv, NoLostWakeup, Goto
  <2>1. CASE RunSpace \/ SpaceEnds \/ Pruned \/ Drain \/ Dispatch \/ LocalMeta \/ LocalReadFails
             \/ SingleEnds
    BY <2>1 DEF RunSpace, SpaceEnds, Pruned, IntoDrain, Drain, Dispatch, LocalMeta, LocalReadFails,
                SingleEnds
  <2>2. CASE Take
    BY <2>2 DEF Take, Wait, NothingToTake
  <2>3. CASE TakeTimeout \/ TakeResumes
    BY <2>3 DEF TakeTimeout, WaitTimesOut, TakeResumes, engineVars
  <2>4. CASE Single
    BY <2>4 DEF Single
  <2>5. CASE requestFileSync \/ requestSpaceSync
    BY <2>5 DEF requestFileSync, mark, requestSpaceSync, markFullScan, wake, engineVars,
                TypeInv, TypeOK, QueueTypeOK
  <2>6. CASE stop \/ LogoutBegins \/ LogoutSteps
    BY <2>6 DEF stop, LogoutBegins, LogoutSteps, LogoutSyncs, LogoutSyncEnds,
                LogoutPruned,
                LogoutWakes, LogoutExpires, queueVars, engineVars
  <2>7. CASE UNCHANGED vars
    BY <2>7 DEF vars, queueVars, engineVars
  <2> QED
    BY <2>1, <2>2, <2>3, <2>4, <2>5, <2>6, <2>7 DEF Next, RunLoop
<1>3. WaitInv => NoLostWakeup
  BY DEF WaitInv
<1> QED
  BY <1>1, <1>2, <1>3, TypeInvariance, PTL DEF Spec

-----------------------------------------------------------------------------
(* Reported revisions.                                                     *)

\* Nothing is reported for a path without an entry, and an entry that names a
\* revision is handled without giving up the thread: no newer report can come
\* in between, which would lose against the older one if that is put back.
ReportInv ==
    /\ NewestReportKept
    /\ \A p \in Paths : pending[p] = None => reported[p] = None
    /\ loop = "localMeta" => taken.origin.type = "local"
    /\ loop \in {"dispatch", "single"} /\ reportedRevision(taken.origin) # None =>
         pending[taken.path] = None

\* A mark leaves the entry with the newest report, if the report it carries is
\* the newest or it carries none.
LEMMA MarkReports ==
    ASSUME QueueTypeOK, reported \in [Paths -> Hashes \cup {None}],
           NewestReportKept, \A p \in Paths : pending[p] = None => reported[p] = None,
           NEW q \in Paths, NEW o \in Origins, mark(q, o),
           reported' = [reported EXCEPT ![q] =
                          IF reportedRevision(o) = None THEN @
                                                        ELSE reportedRevision(o)]
    PROVE  NewestReportKept' /\ \A p \in Paths : pending'[p] = None => reported'[p] = None
<1>1. CASE pending[q] = None
  BY <1>1, DefinedAssumption DEF QueueTypeOK, NewestReportKept, mark
<1>2. CASE pending[q] # None
  <2>1. pending[q] \in Origins
    BY <1>2 DEF QueueTypeOK
  <2>2. pending'[q] = mergeOrigins(pending[q], o) /\ pending'[q] # None
    BY <1>2, <2>1, MergeType, DefinedAssumption DEF QueueTypeOK, mark
  <2>3. reportedRevision(pending'[q]) =
          IF reportedRevision(o) # None THEN reportedRevision(o)
                                        ELSE reportedRevision(pending[q])
    BY <2>1, <2>2, MergeReports
  <2>4. \A p \in Paths \ {q} : pending'[p] = pending[p] /\ reported'[p] = reported[p]
    BY DEF QueueTypeOK, mark
  <2> QED
    BY <1>2, <2>2, <2>3, <2>4 DEF NewestReportKept
<1> QED
  BY <1>1, <1>2

\* However marks are merged and entries put back, an entry names the revision
\* that was reported last.
THEOREM NewestReportIsKept == Spec => []NewestReportKept
<1>1. Init => ReportInv
  BY DEF Init, InitQueue, ReportInv, NewestReportKept
<1>2. TypeInv /\ ReportInv /\ [Next]_vars => ReportInv'
  <2> SUFFICES ASSUME TypeInv, ReportInv, [Next]_vars
               PROVE  ReportInv'
    OBVIOUS
  <2> USE DEF ReportInv, Goto
  <2>1. CASE RunSpace \/ SpaceEnds \/ Pruned \/ Drain \/ TakeTimeout
             \/ TakeResumes \/ SingleEnds
    BY <2>1 DEF RunSpace, SpaceEnds, Pruned, IntoDrain, Drain, TakeTimeout,
                WaitTimesOut, TakeResumes,
                Resume, SingleEnds, queueVars, engineVars, NewestReportKept
  <2>2. CASE Take
    <3>1. CASE UNCHANGED <<pending, reported>> /\ loop' \in {"space", "drain", "waiting"}
      BY <3>1 DEF NewestReportKept
    <3>2. ASSUME NEW p \in Paths, TakePath(p),
                 IF pending[p] = None
                 THEN UNCHANGED <<loop, taken>>
                 ELSE /\ Goto("dispatch")
                      /\ taken' = [path |-> p, origin |-> pending[p]],
                 reported' = [reported EXCEPT ![p] = None]
          PROVE  ReportInv'
      <4>1. /\ pending'[p] = None /\ reported'[p] = None
            /\ \A q \in Paths \ {p} : pending'[q] = pending[q] /\ reported'[q] = reported[q]
        BY <3>2 DEF TakePath, TypeInv, TypeOK, QueueTypeOK
      <4>2. NewestReportKept' /\ \A q \in Paths : pending'[q] = None => reported'[q] = None
        BY <4>1 DEF NewestReportKept
      <4> QED
        BY <2>2, <3>2, <4>1, <4>2 DEF Take
    <3> QED
      BY <2>2, <3>1, <3>2 DEF Take, TakeFullScan, Wait, queueVars
  <2>3. CASE Dispatch
    BY <2>3 DEF Dispatch, queueVars, NewestReportKept
  <2>4. CASE LocalMeta \/ LocalReadFails
    BY <2>4 DEF LocalMeta, LocalReadFails, queueVars, NewestReportKept, reportedRevision
  <2>5. CASE Single
    <3>1. taken.path \in Paths /\ taken.origin \in Origins
      BY <2>5 DEF TypeInv, TypeOK, HoldsEntry, Single, Entries
    <3>2. CASE cycle # None
      <4>1. reported' = [reported EXCEPT ![taken.path] =
                           IF reportedRevision(taken.origin) = None THEN @
                           ELSE reportedRevision(taken.origin)]
        BY <2>5, <3>1, <3>2 DEF Single, TypeInv, TypeOK
      <4>2. /\ NewestReportKept'
            /\ \A p \in Paths : pending'[p] = None => reported'[p] = None
        BY <2>5, <3>1, <3>2, <4>1, MarkReports DEF Single, TypeInv, TypeOK
      <4> QED
        BY <2>5, <3>2, <4>2 DEF Single
    <3>3. CASE cycle = None
      BY <2>5, <3>3 DEF Single, queueVars, NewestReportKept
    <3> QED
      BY <3>2, <3>3
  <2>6. CASE requestFileSync
    <3>1. PICK p \in Paths, type \in MarkTypes : \E o \in Origin(type) :
            /\ mark(p, o)
            /\ reported' = [reported EXCEPT ![p] =
                              IF reportedRevision(o) = None THEN @
                                                            ELSE reportedRevision(o)]
      BY <2>6 DEF requestFileSync
    <3>2. PICK o \in Origin(type) :
            /\ mark(p, o)
            /\ reported' = [reported EXCEPT ![p] =
                              IF reportedRevision(o) = None THEN @
                                                            ELSE reportedRevision(o)]
      BY <3>1
    <3>3. o \in Origins
      BY OriginType, EngineAssumption
    <3>4. /\ NewestReportKept'
          /\ \A q \in Paths : pending'[q] = None => reported'[q] = None
      BY <3>2, <3>3, MarkReports DEF TypeInv, TypeOK
    <3>5. loop \notin {"dispatch", "single"} /\ UNCHANGED <<loop, taken>>
      BY <2>6 DEF requestFileSync, Turn, engineVars
    <3> QED
      BY <3>4, <3>5
  <2>7. CASE requestSpaceSync \/ stop \/ LogoutBegins \/ LogoutSteps
    BY <2>7 DEF requestSpaceSync, markFullScan, stop, LogoutBegins, LogoutSteps,
                LogoutSyncs, LogoutSyncEnds, LogoutPruned, LogoutWakes, LogoutExpires,
                queueVars,
                engineVars, NewestReportKept
  <2>8. CASE UNCHANGED vars
    BY <2>8 DEF vars, queueVars, engineVars, NewestReportKept
  <2> QED
    BY <2>1, <2>2, <2>3, <2>4, <2>5, <2>6, <2>7, <2>8 DEF Next, RunLoop
<1>3. ReportInv => NewestReportKept
  BY DEF ReportInv
<1> QED
  BY <1>1, <1>2, <1>3, TypeInvariance, PTL DEF Spec
=============================================================================
