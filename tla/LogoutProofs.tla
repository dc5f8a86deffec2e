---------------------------- MODULE LogoutProofs ----------------------------
(***************************************************************************)
(* What is proved of Logout: its type invariant, and that only a forced    *)
(* logout sends an editor away with edits it has not saved, provided       *)
(* nobody types after the session is revoked.  And, for a single attempt   *)
(* to sign out, that only a forced one deletes files with edits the server *)
(* does not have.                                                          *)
(*                                                                         *)
(* The argument is about who may believe what.  A message on its way       *)
(* (MsgOK), a worker (WorkerInv) and an editor (Editor) speak of a revoked *)
(* session only when the server revoked it, and of a cancelled attempt     *)
(* only when no tab runs that attempt any more.  So an editor that takes   *)
(* part stays frozen as long as the session lasts: what it has saved stays *)
(* saved, and so does the editor of the tab that runs the attempt          *)
(* (Runner).  Each step changes the record of one tab at most, and Follows *)
(* says when the new record may take the place of the old one.             *)
(*                                                                         *)
(* The second part follows one attempt from its start to the empty disk:   *)
(* see the comment on it.                                                  *)
(***************************************************************************)
EXTENDS Logout, TLAPS

-----------------------------------------------------------------------------
(* The functions on a tab's record yield such records.                     *)

LEMMA IdFacts ==
    /\ Ids \subseteq Nat /\ NoId \in Nat /\ NoId \notin Ids
    /\ \A i \in Ids : i >= 1 /\ i <= MaxAttempts
BY LogoutAssumption DEF Ids, NoId

LEMMA FreezeType ==
    ASSUME NEW r \in TabRecords, NEW v \in BOOLEAN
    PROVE  Freeze(r, v) \in TabRecords
BY DEF Freeze, TabRecords

LEMMA RevokeType ==
    ASSUME NEW r \in TabRecords
    PROVE  Revoke(r) \in TabRecords
BY DEF Revoke, TabRecords

LEMMA PreserveType ==
    ASSUME NEW r \in TabRecords
    PROVE  Preserve(r) \in TabRecords
<1>1. [r EXCEPT !.revoked = TRUE, !.preserved = TRUE] \in TabRecords
  BY DEF TabRecords
<1> QED BY <1>1, FreezeType DEF Preserve

LEMMA LeaveType ==
    ASSUME NEW r \in TabRecords, NEW t, state.revoked \in BOOLEAN
    PROVE  Leave(r, t) \in TabRecords
BY DEF Leave, TabRecords

LEMMA FinishType ==
    ASSUME NEW r \in TabRecords, NEW t, NEW id, state.revoked \in BOOLEAN
    PROVE  Finish(r, t, id) \in TabRecords
<1>1. Freeze(r, FALSE) \in TabRecords
  BY FreezeType
<1>2. Leave(r, t) \in TabRecords
  BY LeaveType
<1> QED BY <1>1, <1>2 DEF Finish

LEMMA PendType ==
    ASSUME NEW r \in TabRecords, NEW id \in Ids, NEW who \in Workers \cup {Self, Done}
    PROVE  [r EXCEPT !.pend[id] = @ \cup {who}] \in TabRecords
<1>1. [r.pend EXCEPT ![id] = @ \cup {who}] \in [Ids -> SUBSET (Workers \cup {Self, Done})]
  BY DEF TabRecords
<1> QED BY <1>1 DEF TabRecords

LEMMA CompleteType ==
    ASSUME NEW r \in TabRecords, NEW t, NEW id \in Ids, state.revoked \in BOOLEAN
    PROVE  Complete(r, t, id) \in TabRecords
BY RevokeType, FinishType, PendType DEF Complete

LEMMA CancelType ==
    ASSUME NEW r \in TabRecords
    PROVE  Cancel(r) \in TabRecords
<1>1. [r EXCEPT !.preserved = TRUE] \in TabRecords /\ [r EXCEPT !.att = NoId] \in TabRecords
  BY DEF TabRecords
<1> QED BY <1>1, FreezeType DEF Cancel

LEMMA HandledCases ==
    ASSUME NEW r, NEW t, NEW m
    PROVE  \/ m.type = "force" /\ Handled(r, t, m) = Leave(Freeze(Revoke(r), TRUE), t)
           \/ m.type = "revoked" /\ Handled(r, t, m) = Revoke(r)
           \/ m.type = "preserve" /\ Handled(r, t, m) = Preserve(r)
           \/ m.type = "complete" /\ r.att = m.id /\ Handled(r, t, m) = Complete(r, t, m.id)
           \/ m.type = "cancel" /\ r.att = m.id /\ Handled(r, t, m) = Cancel(r)
           \/ Handled(r, t, m) = r
BY Zenon DEF Handled

LEMMA AskedType ==
    ASSUME NEW r \in TabRecords, NEW id \in Ids, NEW who \in Workers \cup {Self, Done}
    PROVE  Asked(r, id, who) \in TabRecords
<1>1. [Freeze(r, TRUE) EXCEPT !.att = id, !.save[id] = "saving", !.pend[id] = @ \cup {who}] \in TabRecords
  <2> DEFINE q == Freeze(r, TRUE)
  <2>1. q \in TabRecords
    BY FreezeType
  <2> HIDE DEF q
  <2>2. [q EXCEPT !.att = id, !.save[id] = "saving"] \in TabRecords
    BY <2>1 DEF TabRecords
  <2>3. [q.pend EXCEPT ![id] = @ \cup {who}] \in [Ids -> SUBSET (Workers \cup {Self, Done})]
    BY <2>1 DEF TabRecords
  <2>4. [q EXCEPT !.att = id, !.save[id] = "saving", !.pend[id] = @ \cup {who}] \in TabRecords
    BY <2>1, <2>2, <2>3 DEF TabRecords
  <2> QED BY <2>4 DEF q
<1> QED BY <1>1, FreezeType, PendType DEF Asked

-----------------------------------------------------------------------------
(* The inductive invariant.                                                *)

\* What a message on its way says of the session and of its attempt.
MsgOK(m) ==
    /\ m.id <= used.ids
    /\ m.type \in {"revoked", "preserve", "complete", "clear", "force"} => ~session
    /\ m.type = "force" => forced
    /\ m.type = "cancel" => \A t \in Tabs : ~Runs(t, m.id)

Good(types) == {m \in Messages(types) : MsgOK(m)}

MailInv ==
    /\ toW \in [Workers -> [Tabs -> Seq(Good(ForWorkers))]]
    /\ toT \in [Tabs -> [Workers -> Seq(Good(ForTabs))]]
    /\ air \in [Tabs -> SUBSET Good(ForAll)]

\* Whoever heard of the revocation heard the truth.
WorkerInv ==
    /\ state.revoked => ~session
    /\ \A w \in Workers :
          /\ att[w].id <= used.ids /\ timer[w] <= used.ids
          /\ (att[w].revoked \/ att[w].preserved \/ cleared[w]) => ~session

\* An editor that takes part is frozen while the session s lasts, and what it
\* saved stays saved.
Editor(r, s) ==
    /\ (r.revoked \/ r.preserved \/ r.known) => ~s
    /\ \A i \in Ids : Done \in r.pend[i] => r.revoked
    /\ r.page \in {"new", "loading"} => r.att = NoId
    /\ (r.page = "open" /\ r.att # NoId) =>
          /\ s => r.frozen
          /\ r.save[r.att] # "none"
          /\ r.save[r.att] = "ok" => (LateEdits \/ ~r.dirty)

\* The tab r that runs attempt a has saved its own editor before it goes on.
Runner(a, r, s, f, n) ==
    a.pc # "idle" =>
       /\ a.id \in Ids /\ a.id <= n /\ r.page = "open"
       /\ a.force => f /\ a.pc # "save"
       /\ (~a.force /\ s) => r.att = a.id
       /\ a.pc = "clear" => ~s
       /\ LateEdits \/ a.force \/ ~r.dirty \/ (a.pc = "save" /\ (Self \in a.wait \/ a.bad))

PairInv ==
    \A t \in Tabs : Editor(tab[t], session) /\ Runner(ini[t], tab[t], session, forced, used.ids)

\* An attempt has one initiator, and an initiator waits for its own editor only.
OwnInv ==
    /\ \A t, u \in Tabs : (ini[t].pc # "idle" /\ ini[u].pc # "idle" /\ ini[t].id = ini[u].id) => t = u
    /\ \A t \in Tabs, i \in Ids : Self \in tab[t].pend[i] =>
          i <= used.ids /\ \A u \in Tabs : Runs(u, i) => u = t

StateOK ==
    /\ tab \in [Tabs -> TabRecords]
    /\ ini \in [Tabs -> Initiators]
    /\ att \in [Workers -> Attempts] /\ hnd \in [Workers -> [Ids -> SyncHandlers]]
    /\ cleared \in [Workers -> BOOLEAN] /\ timer \in [Workers -> Ids \cup {NoId}]
    /\ unsynced \in [Workers -> BOOLEAN] /\ session \in BOOLEAN /\ forced \in BOOLEAN
    /\ state \in [id : Ids \cup {NoId}, revoked : BOOLEAN]
    /\ used \in [ids : Nat, closed : Nat, restarts : Nat]

LogoutInv == StateOK /\ MailInv /\ WorkerInv /\ PairInv /\ OwnInv

-----------------------------------------------------------------------------
(* What becomes of a tab's record in a step.                               *)

\* Record q may take the place of the record r of tab t, whose initiator is a
\* from now on, as far as the invariant and the promise to the user go.
Follows(r, q, a, s, f, n) ==
    /\ q \in TabRecords /\ Editor(q, s) /\ Runner(a, q, s, f, n)
    /\ \A i \in Ids : Self \in q.pend[i] => Self \in r.pend[i]
    /\ LateEdits \/ f \/ ~(r.page = "open" /\ q.page = "out" /\ q.dirty)

\* What the handlers of a message rely on.
Hears(r, t, s, f, n) ==
    /\ r \in TabRecords /\ r.page = "open"
    /\ state.revoked \in BOOLEAN /\ (state.revoked => ~s)
    /\ Editor(r, s) /\ Runner(ini[t], r, s, f, n)

LEMMA FreezeFollows ==
    ASSUME NEW r, NEW t, NEW s, NEW f, NEW n, Hears(r, t, s, f, n), ~s, NEW v \in BOOLEAN
    PROVE  Follows(r, Freeze(r, v), ini[t], s, f, n)
<1> DEFINE q == Freeze(r, v)
<1>1. q \in TabRecords
  BY FreezeType DEF Hears
<1>2. /\ q.page = r.page /\ q.dirty = r.dirty /\ q.att = r.att /\ q.revoked = r.revoked
      /\ q.preserved = r.preserved /\ q.save = r.save /\ q.pend = r.pend /\ q.known = r.known
  BY DEF Hears, Freeze, TabRecords
<1> HIDE DEF q
<1>3. Follows(r, q, ini[t], s, f, n)
  BY <1>1, <1>2 DEF Hears, Follows, Editor, Runner
<1> QED BY <1>3 DEF q

LEMMA RevokeFollows ==
    ASSUME NEW r, NEW t, NEW s, NEW f, NEW n, Hears(r, t, s, f, n), ~s
    PROVE  Follows(r, Revoke(r), ini[t], s, f, n) /\ Hears(Revoke(r), t, s, f, n)
<1> DEFINE q == Revoke(r)
<1>1. q \in TabRecords
  BY RevokeType DEF Hears
<1>2. /\ q.page = r.page /\ q.dirty = r.dirty /\ q.att = r.att /\ q.revoked = TRUE
      /\ q.preserved = r.preserved /\ q.save = r.save /\ q.pend = r.pend /\ q.known = r.known
  BY DEF Hears, Revoke, TabRecords
<1> HIDE DEF q
<1>3. Follows(r, q, ini[t], s, f, n) /\ Hears(q, t, s, f, n)
  BY <1>1, <1>2 DEF Hears, Follows, Editor, Runner
<1> QED BY <1>3 DEF q

LEMMA PreserveFollows ==
    ASSUME NEW r, NEW t, NEW s, NEW f, NEW n, Hears(r, t, s, f, n), ~s
    PROVE  Follows(r, Preserve(r), ini[t], s, f, n)
<1> DEFINE q == Preserve(r)
<1>1. q \in TabRecords
  BY PreserveType DEF Hears
<1>2. /\ q.page = r.page /\ q.dirty = r.dirty /\ q.att = r.att /\ q.revoked = TRUE
      /\ q.preserved = TRUE /\ q.save = r.save /\ q.pend = r.pend /\ q.known = r.known
  BY DEF Hears, Preserve, Freeze, TabRecords
<1> HIDE DEF q
<1>3. Follows(r, q, ini[t], s, f, n)
  BY <1>1, <1>2 DEF Hears, Follows, Editor, Runner
<1> QED BY <1>3 DEF q

\* An editor leaves when its tab runs no attempt, with its edits saved or forced.
LEMMA LeaveFollows ==
    ASSUME NEW r, NEW t, NEW s, NEW f, NEW n, Hears(r, t, s, f, n), ~s,
           LateEdits \/ f \/ ~r.dirty
    PROVE  Follows(r, Leave(r, t), ini[t], s, f, n)
<1> DEFINE q == Leave(r, t)
<1>1. q \in TabRecords
  BY LeaveType DEF Hears
<1>2. /\ q.page = r.page \/ (q.page = "out" /\ ini[t].pc = "idle")
      /\ q.dirty = r.dirty /\ q.att = r.att /\ q.revoked = r.revoked
      /\ q.preserved = r.preserved /\ q.save = r.save /\ q.pend = r.pend
  BY DEF Hears, Leave, TabRecords
<1> HIDE DEF q
<1>3. Follows(r, q, ini[t], s, f, n)
  BY <1>1, <1>2 DEF Hears, Follows, Editor, Runner
<1> QED BY <1>3 DEF q

LEMMA StaysFollows ==
    ASSUME NEW r, NEW t, NEW s, NEW f, NEW n, Hears(r, t, s, f, n)
    PROVE  Follows(r, r, ini[t], s, f, n)
BY DEF Hears, Follows

\* Follows composes when the record in the middle is still an editor's.
LEMMA FollowsOn ==
    ASSUME NEW r, NEW q, NEW p, NEW a, NEW s, NEW f, NEW n,
           Follows(r, q, a, s, f, n), Follows(q, p, a, s, f, n), q.page = "open"
    PROVE  Follows(r, p, a, s, f, n)
BY DEF Follows

LEMMA FinishFollows ==
    ASSUME NEW r, NEW t, NEW s, NEW f, NEW n, Hears(r, t, s, f, n), ~s, NEW id \in Ids,
           r.save[id] # "failed" /\ r.att = id => (LateEdits \/ ~r.dirty)
    PROVE  Follows(r, Finish(r, t, id), ini[t], s, f, n)
<1>1. CASE r.save[id] = "failed"
  BY <1>1, FreezeFollows DEF Finish
<1>2. CASE r.save[id] # "failed" /\ r.att = id /\ ~r.preserved
  <2>1. LateEdits \/ f \/ ~r.dirty
    BY <1>2
  <2> QED BY <1>2, <2>1, LeaveFollows DEF Finish
<1>3. CASE r.save[id] # "failed" /\ ~(r.att = id /\ ~r.preserved)
  BY <1>3, StaysFollows DEF Finish
<1> QED BY <1>1, <1>2, <1>3

LEMMA CompleteFollows ==
    ASSUME NEW r, NEW t, NEW s, NEW f, NEW n, Hears(r, t, s, f, n), ~s, NEW id \in Ids, r.att = id
    PROVE  Follows(r, Complete(r, t, id), ini[t], s, f, n)
<1> DEFINE q == Revoke(r)
<1>1. Follows(r, q, ini[t], s, f, n) /\ Hears(q, t, s, f, n)
  BY RevokeFollows
<1>2. q.save = r.save /\ q.page = "open" /\ q.att = r.att /\ q.revoked /\ q.dirty = r.dirty
  BY DEF Hears, Revoke, TabRecords
<1> HIDE DEF q
<1>3. CASE r.save[id] = "saving"
  <2> DEFINE p == [q EXCEPT !.pend[id] = @ \cup {Done}]
  <2>1. p \in TabRecords
    BY <1>1, PendType DEF Hears
  <2>2. /\ p.page = q.page /\ p.dirty = q.dirty /\ p.frozen = q.frozen /\ p.att = q.att
        /\ p.revoked = q.revoked /\ p.preserved = q.preserved /\ p.save = q.save /\ p.known = q.known
    BY <1>1 DEF Hears, TabRecords
  <2>3. \A i \in Ids : Self \in p.pend[i] => Self \in q.pend[i]
    BY <1>1, LogoutAssumption DEF Hears, TabRecords
  <2> HIDE DEF p
  <2>4. Follows(q, p, ini[t], s, f, n)
    BY <1>1, <1>2, <2>1, <2>2, <2>3 DEF Hears, Follows, Editor, Runner
  <2>5. Complete(r, t, id) = p
    BY <1>3 DEF Complete, p, q
  <2> QED BY <1>1, <1>2, <2>4, <2>5, FollowsOn
<1>4. CASE r.save[id] # "saving"
  <2>1. r.save[id] \in {"ok", "failed"}
    BY <1>4, IdFacts DEF Hears, Editor, TabRecords
  <2>2. r.save[id] # "failed" => (LateEdits \/ ~r.dirty)
    BY <2>1, IdFacts DEF Hears, Editor
  <2>3. Follows(q, Finish(q, t, id), ini[t], s, f, n)
    BY <1>1, <1>2, <2>2, FinishFollows
  <2>4. Complete(r, t, id) = Finish(q, t, id)
    BY <1>4 DEF Complete, q
  <2> QED BY <1>1, <1>2, <2>3, <2>4, FollowsOn
<1> QED BY <1>3, <1>4

\* A cancellation frees the editor when no initiator holds it to the attempt.
LEMMA CancelFollows ==
    ASSUME NEW r, NEW t, NEW s, NEW f, NEW n, Hears(r, t, s, f, n), NEW a,
           Runner(a, r, s, f, n), (a.pc # "idle" /\ ~a.force) => ~s
    PROVE  Follows(r, Cancel(r), a, s, f, n)
<1> DEFINE q == Cancel(r)
<1>1. q \in TabRecords
  BY CancelType DEF Hears
<1>2. /\ q.page = r.page /\ q.dirty = r.dirty /\ q.revoked = r.revoked
      /\ q.save = r.save /\ q.pend = r.pend /\ q.known = r.known
      /\ \/ r.revoked /\ q.att = r.att
         \/ q.att = NoId /\ q.preserved = r.preserved
  BY DEF Hears, Cancel, Freeze, TabRecords
<1> HIDE DEF q
<1>3. Follows(r, q, a, s, f, n)
  BY <1>1, <1>2 DEF Hears, Follows, Editor, Runner
<1> QED BY <1>3 DEF q

LEMMA HandledFollows ==
    ASSUME NEW r, NEW t \in Tabs, NEW s, NEW f, NEW n, Hears(r, t, s, f, n), NEW m, m.id \in Ids,
           m.type \in {"revoked", "preserve", "complete", "force"} => ~s,
           m.type = "force" => f,
           m.type = "cancel" => ~Runs(t, m.id)
    PROVE  Follows(r, Handled(r, t, m), ini[t], s, f, n)
<1>1. CASE m.type = "force" /\ Handled(r, t, m) = Leave(Freeze(Revoke(r), TRUE), t)
  <2> DEFINE q == Revoke(r)
             p == Freeze(q, TRUE)
  <2>1. Follows(r, q, ini[t], s, f, n) /\ Hears(q, t, s, f, n)
    BY <1>1, RevokeFollows
  <2>2. Follows(q, p, ini[t], s, f, n)
    BY <1>1, <2>1, FreezeFollows
  <2>3. q.page = "open"
    BY <2>1 DEF Hears
  <2>4. p.page = "open"
    BY <2>1 DEF Hears, Freeze, TabRecords
  <2> HIDE DEF p, q
  <2>5. Hears(p, t, s, f, n)
    BY <2>1, <2>2, <2>4 DEF Hears, Follows
  <2>6. LateEdits \/ f \/ ~p.dirty
    BY <1>1
  <2>7. Follows(p, Leave(p, t), ini[t], s, f, n)
    BY <1>1, <2>5, <2>6, LeaveFollows
  <2>8. Follows(r, Leave(p, t), ini[t], s, f, n)
    BY <2>1, <2>2, <2>3, <2>4, <2>7, FollowsOn
  <2> QED BY <1>1, <2>8 DEF p, q
<1>2. CASE m.type = "revoked" /\ Handled(r, t, m) = Revoke(r)
  BY <1>2, RevokeFollows
<1>3. CASE m.type = "preserve" /\ Handled(r, t, m) = Preserve(r)
  BY <1>3, PreserveFollows
<1>4. CASE m.type = "complete" /\ r.att = m.id /\ Handled(r, t, m) = Complete(r, t, m.id)
  BY <1>4, CompleteFollows
<1>5. CASE m.type = "cancel" /\ r.att = m.id /\ Handled(r, t, m) = Cancel(r)
  <2>1. Runner(ini[t], r, s, f, n)
    BY DEF Hears
  <2>2. (ini[t].pc # "idle" /\ ~ini[t].force) => ~s
    BY <1>5, <2>1 DEF Runner, Runs
  <2> QED BY <1>5, <2>1, <2>2, CancelFollows
<1>6. CASE Handled(r, t, m) = r
  BY <1>6, StaysFollows
<1> QED BY <1>1, <1>2, <1>3, <1>4, <1>5, <1>6, HandledCases

\* A worker's logout-save.
LEMMA AskedFollows ==
    ASSUME NEW r, NEW t, NEW s, NEW f, NEW n, Hears(r, t, s, f, n), NEW id \in Ids,
           NEW w \in Workers
    PROVE  Follows(r, Asked(r, id, w), ini[t], s, f, n)
<1>1. CASE ~Refuses(r, id) /\ r.att = NoId
  <2> DEFINE q == [Freeze(r, TRUE) EXCEPT !.att = id, !.save[id] = "saving", !.pend[id] = @ \cup {w}]
  <2>1. Asked(r, id, w) = q
    BY <1>1 DEF Asked
  <2>2. q \in TabRecords
    BY <2>1, AskedType DEF Hears
  <2>3. /\ q.page = r.page /\ q.dirty = r.dirty /\ q.frozen = TRUE /\ q.att = id
        /\ q.revoked = r.revoked /\ q.preserved = r.preserved /\ q.known = r.known
    BY DEF Hears, Freeze, TabRecords
  <2>4. q.save[id] = "saving"
    BY DEF Hears, Freeze, TabRecords
  <2>5. \A i \in Ids : (Self \in q.pend[i] => Self \in r.pend[i]) /\ (Done \in q.pend[i] => Done \in r.pend[i])
    <3>1. Freeze(r, TRUE).pend = r.pend /\ r.pend \in [Ids -> SUBSET (Workers \cup {Self, Done})]
      BY DEF Hears, Freeze, TabRecords
    <3>2. q.pend = [r.pend EXCEPT ![id] = @ \cup {w}]
      BY <3>1 DEF Hears, Freeze, TabRecords
    <3> HIDE DEF q
    <3>3. w # Self /\ w # Done
      BY LogoutAssumption
    <3>4. \A i \in Ids : q.pend[i] \subseteq r.pend[i] \cup {w}
      BY <3>1, <3>2
    <3> QED BY <3>3, <3>4
  <2> HIDE DEF q
  <2>6. Editor(q, s)
    BY <2>3, <2>4, <2>5 DEF Hears, Editor
  <2>7. Runner(ini[t], q, s, f, n)
    BY <1>1, <2>3, IdFacts DEF Hears, Runner
  <2> QED BY <2>1, <2>2, <2>3, <2>5, <2>6, <2>7 DEF Follows, Hears
<1>2. CASE ~Refuses(r, id) /\ r.att # NoId /\ r.save[id] = "saving"
  <2> DEFINE q == [r EXCEPT !.pend[id] = @ \cup {w}]
  <2>1. Asked(r, id, w) = q
    BY <1>2 DEF Asked
  <2>2. q \in TabRecords
    BY PendType DEF Hears
  <2>3. /\ q.page = r.page /\ q.dirty = r.dirty /\ q.frozen = r.frozen /\ q.att = r.att /\ q.save = r.save
        /\ q.revoked = r.revoked /\ q.preserved = r.preserved /\ q.known = r.known
    BY DEF Hears, TabRecords
  <2>4. \A i \in Ids : (Self \in q.pend[i] => Self \in r.pend[i]) /\ (Done \in q.pend[i] => Done \in r.pend[i])
    BY LogoutAssumption DEF Hears, TabRecords
  <2> HIDE DEF q
  <2> QED BY <2>1, <2>2, <2>3, <2>4 DEF Hears, Follows, Editor, Runner
<1>3. CASE Asked(r, id, w) = r
  BY <1>3, StaysFollows
<1>4. CASE r.revoked /\ Asked(r, id, w) = Freeze(r, FALSE)
  <2>1. ~s
    BY <1>4 DEF Hears, Editor
  <2> QED BY <1>4, <2>1, FreezeFollows
<1> QED BY <1>1, <1>2, <1>3, <1>4 DEF Asked

\* The record of a tab whose save of attempt id ended.
SavedRecord(r, id, ok) ==
    [r EXCEPT !.dirty = @ /\ ~ok, !.save[id] = IF ok THEN "ok" ELSE "failed", !.pend[id] = {}]

LEMMA SavedFollows ==
    ASSUME NEW r, NEW t, NEW s, NEW f, NEW n, Hears(r, t, s, f, n), NEW id \in Ids,
           NEW ok \in BOOLEAN
    PROVE  LET q == SavedRecord(r, id, ok) IN
           /\ Follows(r, q, ini[t], s, f, n) /\ Hears(q, t, s, f, n)
           /\ q.save[id] = (IF ok THEN "ok" ELSE "failed") /\ (ok => ~q.dirty)
           /\ q.revoked = r.revoked /\ q.att = r.att /\ q.page = "open"
<1> DEFINE b == r.dirty /\ ~ok
           v == IF ok THEN "ok" ELSE "failed"
           q == [r EXCEPT !.dirty = b, !.save[id] = v, !.pend[id] = {}]
<1>1. q = SavedRecord(r, id, ok)
  BY DEF SavedRecord
<1>2. b \in BOOLEAN
  BY Zenon
<1>3. v \in {"ok", "failed"}
  OBVIOUS
<1>4. (b => r.dirty) /\ (ok => ~b)
  BY Zenon
<1>5. ok <=> v = "ok"
  OBVIOUS
<1> HIDE DEF b, v
<1>6. [r EXCEPT !.dirty = b] \in TabRecords
  BY <1>2 DEF Hears, TabRecords
<1>7. /\ [r.save EXCEPT ![id] = v] \in [Ids -> {"none", "saving", "ok", "failed"}]
      /\ [r.pend EXCEPT ![id] = {}] \in [Ids -> SUBSET (Workers \cup {Self, Done})]
  BY <1>3 DEF Hears, TabRecords
<1>8. q \in TabRecords
  BY <1>2, <1>7 DEF Hears, TabRecords
<1>9. /\ q.page = r.page /\ q.dirty = b /\ q.frozen = r.frozen /\ q.att = r.att
      /\ q.revoked = r.revoked /\ q.preserved = r.preserved /\ q.known = r.known
  BY DEF Hears, TabRecords
<1>10. q.save = [r.save EXCEPT ![id] = v] /\ q.pend = [r.pend EXCEPT ![id] = {}]
  BY DEF Hears, TabRecords
<1> HIDE DEF q
<1>11. \A i \in Ids : q.pend[i] \subseteq r.pend[i] /\ q.save[i] = IF i = id THEN v ELSE r.save[i]
  BY <1>10 DEF Hears, TabRecords
<1>12. r.att \in Ids \cup {NoId}
  BY DEF Hears, TabRecords
<1>13. Editor(q, s)
  BY <1>3, <1>4, <1>5, <1>9, <1>11, <1>12 DEF Hears, Editor
<1>14. Runner(ini[t], q, s, f, n)
  BY <1>4, <1>9 DEF Hears, Runner
<1>15. Follows(r, q, ini[t], s, f, n) /\ Hears(q, t, s, f, n)
  BY <1>8, <1>9, <1>11, <1>13, <1>14 DEF Follows, Hears
<1>16. q.save[id] = v /\ (ok => ~q.dirty) /\ q.revoked = r.revoked /\ q.att = r.att /\ q.page = "open"
  BY <1>4, <1>9, <1>11 DEF Hears
<1> QED BY <1>1, <1>15, <1>16 DEF v

EndRecord(r, t, id, ok) ==
    LET q == SavedRecord(r, id, ok)
        told == IF ~(ok /\ r.att = id) /\ r.revoked /\ r.pend[id] \ {Done} # {}
                THEN Freeze(q, FALSE) ELSE q
    IN  IF Done \in r.pend[id] THEN Finish(told, t, id) ELSE told

LEMMA KeepDirty ==
    ASSUME NEW r \in TabRecords, NEW t, NEW id
    PROVE  /\ Freeze(r, FALSE).dirty = r.dirty /\ Freeze(r, FALSE).page = r.page
           /\ Freeze(r, FALSE).save = r.save /\ Freeze(r, FALSE).att = r.att
           /\ Finish(r, t, id).dirty = r.dirty
BY DEF Finish, Leave, Freeze, TabRecords

LEMMA EndFollows ==
    ASSUME NEW r, NEW t, NEW s, NEW f, NEW n, Hears(r, t, s, f, n), NEW id \in Ids,
           NEW ok \in BOOLEAN
    PROVE  LET q == EndRecord(r, t, id, ok) IN
           Follows(r, q, ini[t], s, f, n) /\ (ok => ~q.dirty)
<1> DEFINE q == SavedRecord(r, id, ok)
           c == ~(ok /\ r.att = id) /\ r.revoked /\ r.pend[id] \ {Done} # {}
           p == IF c THEN Freeze(q, FALSE) ELSE q
<1>1. /\ Follows(r, q, ini[t], s, f, n) /\ Hears(q, t, s, f, n)
      /\ q.save[id] = (IF ok THEN "ok" ELSE "failed") /\ (ok => ~q.dirty)
      /\ q.revoked = r.revoked /\ q.att = r.att /\ q.page = "open"
  BY SavedFollows
<1>2. c => ~s
  BY DEF Hears, Editor
<1>3. EndRecord(r, t, id, ok) = IF Done \in r.pend[id] THEN Finish(p, t, id) ELSE p
  BY DEF EndRecord
<1> HIDE DEF q, c
<1>4. q \in TabRecords
  BY <1>1 DEF Hears
<1>5. p.dirty = q.dirty /\ p.page = q.page /\ p.save = q.save /\ p.att = q.att
  BY <1>4, KeepDirty
<1>6. Follows(q, p, ini[t], s, f, n)
  <2>1. CASE c
    BY <1>1, <1>2, <2>1, FreezeFollows
  <2>2. CASE ~c
    BY <1>1, <2>2, StaysFollows
  <2> QED BY <2>1, <2>2
<1> HIDE DEF p
<1>7. Follows(r, p, ini[t], s, f, n)
  BY <1>1, <1>6, FollowsOn
<1>8. Hears(p, t, s, f, n)
  BY <1>1, <1>5, <1>6 DEF Hears, Follows
<1>9. p \in TabRecords
  BY <1>8 DEF Hears
<1>10. CASE Done \in r.pend[id]
  <2>1. ~s
    BY <1>10 DEF Hears, Editor
  <2>2. p.save[id] # "failed" /\ p.att = id => (LateEdits \/ ~p.dirty)
    BY <1>1, <1>5
  <2>3. Follows(p, Finish(p, t, id), ini[t], s, f, n)
    BY <1>8, <2>1, <2>2, FinishFollows
  <2>4. Follows(r, Finish(p, t, id), ini[t], s, f, n)
    BY <1>1, <1>5, <1>7, <2>3, FollowsOn
  <2>5. Finish(p, t, id).dirty = q.dirty
    BY <1>5, <1>9, KeepDirty
  <2>6. EndRecord(r, t, id, ok) = Finish(p, t, id)
    BY <1>3, <1>10
  <2> QED BY <1>1, <2>4, <2>5, <2>6
<1>11. CASE Done \notin r.pend[id]
  BY <1>1, <1>3, <1>5, <1>7, <1>11
<1> QED BY <1>10, <1>11

-----------------------------------------------------------------------------
(* Messages on their way, whatever they are required to be.                *)

LEMMA SentIn ==
    ASSUME NEW S, toW \in [Workers -> [Tabs -> Seq(S)]], NEW t \in Tabs, NEW ws, NEW ms \in Seq(S)
    PROVE  Sent(t, ws, ms) \in [Workers -> [Tabs -> Seq(S)]]
<1>1. \A w \in Workers : [toW[w] EXCEPT ![t] = @ \o ms] \in [Tabs -> Seq(S)]
  BY DEF Sent
<1> QED BY <1>1 DEF Sent

LEMMA PostedAllIn ==
    ASSUME NEW S, toT \in [Tabs -> [Workers -> Seq(S)]], NEW w \in Workers, NEW c, NEW ms \in Seq(S)
    PROVE  PostedAll(w, c, ms) \in [Tabs -> [Workers -> Seq(S)]]
<1>1. \A t \in Tabs : [toT[t] EXCEPT ![w] = @ \o ms] \in [Workers -> Seq(S)]
  OBVIOUS
<1> QED BY <1>1 DEF PostedAll

LEMMA PostedIn ==
    ASSUME NEW S, toT \in [Tabs -> [Workers -> Seq(S)]], NEW w \in Workers, NEW c, NEW m \in S
    PROVE  Posted(w, c, m) \in [Tabs -> [Workers -> Seq(S)]]
<1>1. <<m>> \in Seq(S)
  OBVIOUS
<1> QED BY <1>1, PostedAllIn DEF Posted

\* The first message of a mailbox is taken out.
LEMMA TakenIn ==
    ASSUME NEW S, NEW A, NEW B, NEW box \in [A -> [B -> Seq(S)]], NEW x \in A, NEW y \in B,
           box[x][y] # <<>>
    PROVE  Head(box[x][y]) \in S /\ [box EXCEPT ![x][y] = Tail(@)] \in [A -> [B -> Seq(S)]]
<1>1. box[x][y] \in Seq(S)
  OBVIOUS
<1>2. Head(box[x][y]) \in S /\ Tail(box[x][y]) \in Seq(S)
  BY <1>1
<1>3. [box[x] EXCEPT ![y] = Tail(@)] \in [B -> Seq(S)]
  BY <1>2
<1> QED BY <1>2, <1>3

LEMMA SeqGrows ==
    ASSUME NEW S, NEW T, S \subseteq T
    PROVE  Seq(S) \subseteq Seq(T)
OBVIOUS

-----------------------------------------------------------------------------
(* A step as the invariant sees it.                                        *)

\* Nothing that a message on its way says stops being true.
Onward ==
    /\ used.ids <= used'.ids /\ (session' => session) /\ (forced => forced')
    /\ \A t \in Tabs : (ini'[t].pc # "idle" /\ ini'[t].id <= used.ids) => Runs(t, ini'[t].id)

LEMMA GoodGrows ==
    ASSUME StateOK, StateOK', Onward, NEW types
    PROVE  Good(types) \subseteq Good(types)'
<1> SUFFICES ASSUME NEW m \in Messages(types), MsgOK(m)
             PROVE  MsgOK(m)'
  BY DEF Good
<1>1. m.id \in Nat /\ used.ids \in Nat /\ used'.ids \in Nat
  BY IdFacts DEF Messages, StateOK
<1>2. m.id <= used'.ids
  BY <1>1 DEF MsgOK, Onward
<1>3. ASSUME m.type = "cancel", NEW t \in Tabs PROVE ~(ini'[t].pc # "idle" /\ ini'[t].id = m.id)
  BY <1>1, <1>3 DEF MsgOK, Onward, Runs
<1> QED BY <1>2, <1>3 DEF MsgOK, Onward, Runs

LEMMA MailGrows ==
    ASSUME StateOK, StateOK', Onward, MailInv
    PROVE  /\ toW \in [Workers -> [Tabs -> Seq(Good(ForWorkers)')]]
           /\ toT \in [Tabs -> [Workers -> Seq(Good(ForTabs)')]]
           /\ air \in [Tabs -> SUBSET (Good(ForAll)')]
<1> DEFINE A == Good(ForWorkers)
           B == Good(ForTabs)
           C == Good(ForAll)
<1>1. A \subseteq A' /\ B \subseteq B' /\ C \subseteq C'
  BY GoodGrows
<1>2. Seq(A) \subseteq Seq(A') /\ Seq(B) \subseteq Seq(B')
  BY <1>1, SeqGrows
<1>3. toW \in [Workers -> [Tabs -> Seq(A)]] /\ toT \in [Tabs -> [Workers -> Seq(B)]]
      /\ air \in [Tabs -> SUBSET C]
  BY DEF MailInv
<1> HIDE DEF A, B, C
<1>4. /\ toW \in [Workers -> [Tabs -> Seq(A')]] /\ toT \in [Tabs -> [Workers -> Seq(B')]]
      /\ air \in [Tabs -> SUBSET (C')]
  BY <1>1, <1>2, <1>3
<1> QED BY <1>4 DEF A, B, C

\* Only a forced logout sends an editor away with edits.
Leaving ==
    \A t \in Tabs : (tab[t].page = "open" /\ tab'[t].page = "out" /\ tab'[t].dirty) => (LateEdits \/ forced)

\* A step in which no attempt starts.
Steady == (session' => session) /\ forced' = forced /\ used'.ids = used.ids

Fits(u) ==
    /\ Follows(tab[u], tab'[u], ini'[u], session', forced, used.ids)
    /\ ini'[u].pc # "idle" => (ini[u].pc # "idle" /\ ini'[u].id = ini[u].id)

LEMMA FitsStep ==
    ASSUME StateOK, PairInv, OwnInv, Steady, \A u \in Tabs : Fits(u)
    PROVE  PairInv' /\ OwnInv' /\ Onward /\ Leaving
<1>1. PairInv'
  BY DEF Fits, Follows, PairInv, Steady
<1>2. Onward
  BY DEF Fits, Onward, Runs, Steady, StateOK
<1>3. Leaving
  BY DEF Fits, Follows, Leaving
<1>4. OwnInv'
  BY DEF Fits, Follows, OwnInv, Runs, Steady
<1> QED BY <1>1, <1>2, <1>3, <1>4

\* What an answer to an initiator leaves alone.
Same(a, b) ==
    /\ b.pc = a.pc /\ b.id = a.id /\ b.force = a.force
    /\ (Self \in a.wait \/ a.bad) => (Self \in b.wait \/ b.bad)

LEMMA SameFits ==
    ASSUME StateOK, PairInv, Steady, NEW u \in Tabs, tab'[u] = tab[u], Same(ini[u], ini'[u])
    PROVE  Fits(u)
<1>1. tab[u] \in TabRecords
  BY DEF StateOK
<1>2. Editor(tab[u], session) /\ Runner(ini[u], tab[u], session, forced, used.ids)
  BY DEF PairInv
<1>3. Editor(tab[u], session')
  BY <1>2 DEF Editor, Steady
<1>4. Runner(ini'[u], tab[u], session', forced, used.ids)
  BY <1>2 DEF Runner, Same, Steady
<1> QED BY <1>1, <1>3, <1>4 DEF Fits, Follows, Same

LEMMA OneTabFits ==
    ASSUME StateOK, PairInv, Steady, NEW t \in Tabs, NEW q, tab' = [tab EXCEPT ![t] = q],
           Follows(tab[t], q, ini'[t], session', forced, used.ids),
           ini'[t].pc # "idle" => (ini[t].pc # "idle" /\ ini'[t].id = ini[t].id),
           \A u \in Tabs \ {t} : Same(ini[u], ini'[u])
    PROVE  tab' \in [Tabs -> TabRecords] /\ \A u \in Tabs : Fits(u)
<1>1. tab'[t] = q /\ \A u \in Tabs \ {t} : tab'[u] = tab[u]
  BY DEF StateOK
<1>2. Fits(t)
  BY <1>1 DEF Fits
<1>3. tab' \in [Tabs -> TabRecords]
  BY DEF StateOK, Follows
<1> QED BY <1>1, <1>2, <1>3, SameFits

LEMMA IsHeard ==
    ASSUME LogoutInv, NEW t \in Tabs, tab[t].page = "open"
    PROVE  Hears(tab[t], t, session, forced, used.ids)
BY DEF LogoutInv, StateOK, WorkerInv, PairInv, Hears

LEMMA WorkersStay ==
    ASSUME LogoutInv, Steady, UNCHANGED <<att, timer, cleared>>, state'.revoked => (state.revoked \/ ~session')
    PROVE  WorkerInv'
BY DEF LogoutInv, WorkerInv, Steady

LEMMA MailStays ==
    ASSUME LogoutInv, StateOK', Onward, UNCHANGED <<toW, toT, air>>
    PROVE  MailInv'
BY MailGrows DEF LogoutInv, MailInv

\* A step without messages.
LEMMA Closes ==
    ASSUME LogoutInv, StateOK', Steady, \A u \in Tabs : Fits(u), WorkerInv', UNCHANGED <<toW, toT, air>>
    PROVE  LogoutInv' /\ Leaving
<1>1. PairInv' /\ OwnInv' /\ Onward /\ Leaving
  BY FitsStep DEF LogoutInv
<1>2. MailInv'
  BY <1>1, MailStays
<1> QED BY <1>1, <1>2 DEF LogoutInv

\* The tabs' records and the initiators stay.
LEMMA AllStay ==
    ASSUME LogoutInv, Steady, UNCHANGED <<tab, ini>>
    PROVE  \A u \in Tabs : Fits(u)
BY SameFits DEF LogoutInv, Same

LEMMA EditStep ==
    ASSUME LogoutInv, NEW t \in Tabs, Edit(t)
    PROVE  LogoutInv' /\ Leaving
<1> DEFINE r == tab[t]
           q == [r EXCEPT !.dirty = TRUE]
<1>1. Hears(r, t, session, forced, used.ids)
  BY IsHeard DEF Edit
<1>2. Steady
  BY DEF Steady, Edit
<1>3. q \in TabRecords
  BY <1>1 DEF Hears, TabRecords
<1>4. /\ q.page = r.page /\ q.frozen = r.frozen /\ q.att = r.att /\ q.save = r.save /\ q.pend = r.pend
      /\ q.revoked = r.revoked /\ q.preserved = r.preserved /\ q.known = r.known
  BY <1>1 DEF Hears, TabRecords
<1>5. ~r.frozen /\ (session \/ LateEdits) /\ tab' = [tab EXCEPT ![t] = q]
      /\ UNCHANGED <<ini, att, hnd, cleared, timer, toW, toT, air, unsynced, session, state, forced, used>>
  BY DEF Edit, Coordination
<1> HIDE DEF q
<1>6. Follows(r, q, ini[t], session, forced, used.ids)
  BY <1>1, <1>3, <1>4, <1>5, IdFacts DEF Hears, Follows, Editor, Runner
<1>7. tab' \in [Tabs -> TabRecords] /\ \A u \in Tabs : Fits(u)
  BY <1>2, <1>5, <1>6, OneTabFits DEF LogoutInv, Same
<1>8. StateOK'
  BY <1>5, <1>7 DEF LogoutInv, StateOK
<1>9. WorkerInv'
  BY <1>2, <1>5, WorkersStay
<1> QED BY <1>2, <1>5, <1>7, <1>8, <1>9, Closes

\* Every other step that changes the record of one tab, without messages.
LEMMA OneTabStep ==
    ASSUME LogoutInv, NEW t \in Tabs, NEW q, Steady, tab' = [tab EXCEPT ![t] = q],
           Follows(tab[t], q, ini'[t], session', forced, used.ids),
           ini'[t].pc # "idle" => (ini[t].pc # "idle" /\ ini'[t].id = ini[t].id),
           \A u \in Tabs \ {t} : Same(ini[u], ini'[u]), ini' \in [Tabs -> Initiators],
           hnd' \in [Workers -> [Ids -> SyncHandlers]], unsynced' \in [Workers -> BOOLEAN],
           state' \in [id : Ids \cup {NoId}, revoked : BOOLEAN],
           used' \in [ids : Nat, closed : Nat, restarts : Nat],
           state'.revoked => state.revoked,
           UNCHANGED <<att, cleared, timer, toW, toT, air, session, forced>>
    PROVE  LogoutInv' /\ Leaving
<1>1. tab' \in [Tabs -> TabRecords] /\ \A u \in Tabs : Fits(u)
  BY OneTabFits DEF LogoutInv
<1>2. StateOK'
  BY <1>1 DEF LogoutInv, StateOK
<1>3. WorkerInv'
  BY WorkersStay
<1> QED BY <1>1, <1>2, <1>3, Closes

LEMMA AutoSaveStep ==
    ASSUME LogoutInv, NEW t \in Tabs, AutoSave(t)
    PROVE  LogoutInv' /\ Leaving
<1> DEFINE r == tab[t]
           q == [r EXCEPT !.dirty = FALSE]
<1>1. Hears(r, t, session, forced, used.ids)
  BY IsHeard DEF AutoSave
<1>2. Steady
  BY DEF Steady, AutoSave
<1>3. q \in TabRecords
  BY <1>1 DEF Hears, TabRecords
<1>4. /\ q.page = r.page /\ q.frozen = r.frozen /\ q.att = r.att /\ q.save = r.save /\ q.pend = r.pend
      /\ q.revoked = r.revoked /\ q.preserved = r.preserved /\ q.known = r.known /\ q.dirty = FALSE
  BY <1>1 DEF Hears, TabRecords
<1>5. /\ tab' = [tab EXCEPT ![t] = q] /\ unsynced' = [unsynced EXCEPT ![Space[t]] = TRUE]
      /\ UNCHANGED <<ini, att, hnd, cleared, timer, toW, toT, air, session, state, forced, used>>
  BY DEF AutoSave, Coordination
<1> HIDE DEF q
<1>6. Follows(r, q, ini[t], session, forced, used.ids)
  BY <1>1, <1>3, <1>4 DEF Hears, Follows, Editor, Runner
<1>7. unsynced' \in [Workers -> BOOLEAN]
  BY <1>5, LogoutAssumption DEF LogoutInv, StateOK
<1> QED BY <1>2, <1>5, <1>6, <1>7, OneTabStep DEF LogoutInv, StateOK, Same

\* An idle tab's record, with no attempt under way in it.
LEMMA IdleFollows ==
    ASSUME NEW r, NEW q \in TabRecords, NEW a, NEW s, NEW f, NEW n, a.pc = "idle",
           (q.revoked \/ q.preserved \/ q.known) => ~s,
           \A i \in Ids : Done \in q.pend[i] => q.revoked,
           \A i \in Ids : Self \in q.pend[i] => Self \in r.pend[i],
           q.page \in {"new", "loading", "open"} => q.att = NoId,
           r.page = "open" => q.page # "out"
    PROVE  Follows(r, q, a, s, f, n)
BY DEF Follows, Editor, Runner

LEMMA LoadStep ==
    ASSUME LogoutInv, NEW t \in Tabs, Load(t) \/ Boot(t)
    PROVE  LogoutInv' /\ Leaving
<1> DEFINE r == tab[t]
<1>1. PICK p, k : /\ \/ p \in {"loading", "open"} /\ k = r.known
                     \/ p = "out" /\ k = TRUE /\ state.revoked
                  /\ tab' = [tab EXCEPT ![t] = [r EXCEPT !.page = p, !.known = k]]
  <2>1. r \in TabRecords
    BY DEF LogoutInv, StateOK
  <2>2. CASE Load(t)
    <3>1. [r EXCEPT !.page = "loading"] = [r EXCEPT !.page = "loading", !.known = r.known]
      BY <2>1 DEF TabRecords
    <3>2. tab' = [tab EXCEPT ![t] = [r EXCEPT !.page = "loading"]]
      BY <2>2 DEF Load
    <3> QED BY <3>1, <3>2
  <2>3. CASE Boot(t)
    <3>1. [r EXCEPT !.page = "open"] = [r EXCEPT !.page = "open", !.known = r.known]
      BY <2>1 DEF TabRecords
    <3>2. \/ tab' = [tab EXCEPT ![t] = [r EXCEPT !.page = "open"]]
          \/ state.revoked /\ tab' = [tab EXCEPT ![t] = [r EXCEPT !.page = "out", !.known = TRUE]]
      BY <2>3 DEF Boot
    <3>3. CASE tab' = [tab EXCEPT ![t] = [r EXCEPT !.page = "open"]]
      BY <3>1, <3>3
    <3>4. CASE state.revoked /\ tab' = [tab EXCEPT ![t] = [r EXCEPT !.page = "out", !.known = TRUE]]
      <4> WITNESS "out", TRUE
      <4> QED BY <3>4
    <3> QED BY <3>2, <3>3, <3>4
  <2> QED BY <2>2, <2>3
<1> DEFINE q == [r EXCEPT !.page = p, !.known = k]
<1>2. UNCHANGED <<ini, att, hnd, cleared, timer, toW, toT, air, unsynced, session, state, forced, used>>
  BY DEF Load, Boot, Coordination
<1>3. r \in TabRecords /\ Editor(r, session) /\ Runner(ini[t], r, session, forced, used.ids)
  BY DEF LogoutInv, StateOK, PairInv
<1>4. r.page \in {"new", "loading"}
  BY DEF Load, Boot
<1>5. ini[t].pc = "idle" /\ r.att = NoId
  BY <1>3, <1>4 DEF Runner, Editor
<1>6. q \in TabRecords
  BY <1>1, <1>3 DEF TabRecords
<1>7. /\ q.page = p /\ q.known = k /\ q.revoked = r.revoked /\ q.preserved = r.preserved
      /\ q.att = r.att /\ q.pend = r.pend
  BY <1>3 DEF TabRecords
<1> HIDE DEF q
<1>8. k => ~session
  BY <1>1, <1>3 DEF Editor, LogoutInv, WorkerInv
<1>9. (q.revoked \/ q.preserved \/ q.known) => ~session
  BY <1>3, <1>7, <1>8 DEF Editor
<1>10. Follows(r, q, ini[t], session, forced, used.ids)
  BY <1>3, <1>4, <1>5, <1>6, <1>7, <1>9, IdleFollows DEF Editor
<1>11. Steady
  BY <1>2 DEF Steady
<1> QED BY <1>1, <1>2, <1>10, <1>11, OneTabStep DEF LogoutInv, StateOK, Same, q

LEMMA NewTabOK ==
    /\ NewTab("closed") \in TabRecords /\ NewTab("closed").page = "closed"
    /\ \A i \in Ids : NewTab("closed").pend[i] = {}
    /\ NewTab("closed").revoked = FALSE /\ NewTab("closed").preserved = FALSE
    /\ NewTab("closed").known = FALSE
BY DEF NewTab, TabRecords

LEMMA IdleOK == Idle \in Initiators /\ Idle.pc = "idle"
BY DEF Idle, Initiators

LEMMA CloseStep ==
    ASSUME LogoutInv, NEW t \in Tabs, Close(t)
    PROVE  LogoutInv' /\ Leaving
<1> DEFINE q == NewTab("closed")
<1>1. /\ tab' = [tab EXCEPT ![t] = q] /\ ini' = [ini EXCEPT ![t] = Idle]
      /\ UNCHANGED <<att, hnd, cleared, timer, toW, toT, air, unsynced, session, state, forced>>
  BY DEF Close
<1>2. used' \in [ids : Nat, closed : Nat, restarts : Nat] /\ used'.ids = used.ids
  BY DEF Close, LogoutInv, StateOK
<1>3. ini'[t] = Idle /\ (\A u \in Tabs \ {t} : ini'[u] = ini[u]) /\ ini' \in [Tabs -> Initiators]
  BY <1>1, IdleOK DEF LogoutInv, StateOK
<1>4. Steady
  BY <1>1, <1>2 DEF Steady
<1> HIDE DEF q
<1>5. Follows(tab[t], q, ini'[t], session', forced, used.ids)
  BY <1>1, <1>3, IdleOK, NewTabOK, IdleFollows DEF q
<1> QED BY <1>1, <1>2, <1>3, <1>4, <1>5, IdleOK, OneTabStep DEF LogoutInv, StateOK, Same

\* Steps of a worker that leave the tabs, the initiators and the messages alone.
LEMMA PushStep ==
    ASSUME LogoutInv, NEW w \in Workers, Push(w)
    PROVE  LogoutInv' /\ Leaving
<1>1. /\ UNCHANGED <<tab, ini, att, hnd, cleared, timer, toW, toT, air, session, state, forced, used>>
      /\ unsynced' = [unsynced EXCEPT ![w] = FALSE]
  BY DEF Push, Coordination
<1>2. Steady
  BY <1>1 DEF Steady
<1>3. StateOK'
  BY <1>1 DEF LogoutInv, StateOK
<1>4. WorkerInv'
  BY <1>1, <1>2, WorkersStay
<1> QED BY <1>1, <1>2, <1>3, <1>4, AllStay, Closes

LEMMA RestartStep ==
    ASSUME LogoutInv, NEW w \in Workers, Restart(w)
    PROVE  LogoutInv' /\ Leaving
<1>1. /\ UNCHANGED <<tab, ini, cleared, toW, toT, air, unsynced, session, state, forced>>
      /\ att' = [att EXCEPT ![w] = NoAttempt] /\ timer' = [timer EXCEPT ![w] = NoId]
      /\ hnd' = [hnd EXCEPT ![w] = [i \in Ids |-> NoHandler]]
  BY DEF Restart, Editors
<1>2. used' \in [ids : Nat, closed : Nat, restarts : Nat] /\ used'.ids = used.ids
  BY DEF Restart, LogoutInv, StateOK
<1>3. Steady
  BY <1>1, <1>2 DEF Steady
<1>4. NoAttempt \in Attempts /\ NoHandler \in SyncHandlers
      /\ NoAttempt.id = NoId /\ NoAttempt.revoked = FALSE /\ NoAttempt.preserved = FALSE
  BY DEF NoAttempt, NoHandler, Attempts, SyncHandlers
<1>5. [i \in Ids |-> NoHandler] \in [Ids -> SyncHandlers]
  BY <1>4
<1>6. StateOK'
  BY <1>1, <1>2, <1>4, <1>5 DEF LogoutInv, StateOK
<1>7. WorkerInv'
  BY <1>1, <1>2, <1>3, <1>4 DEF LogoutInv, StateOK, WorkerInv, NoId
<1> QED BY <1>1, <1>3, <1>6, <1>7, AllStay, Closes

LEMMA NoStateOK == NoState \in [id : Ids \cup {NoId}, revoked : BOOLEAN] /\ NoState.revoked = FALSE
BY DEF NoState

LEMMA LapseStep ==
    ASSUME LogoutInv, Lapse
    PROVE  LogoutInv' /\ Leaving
<1>1. /\ UNCHANGED <<tab, ini, att, hnd, cleared, timer, toW, toT, air, unsynced, session, forced, used>>
      /\ state' = NoState
  BY DEF Lapse, Coordination
<1>2. Steady
  BY <1>1 DEF Steady
<1>3. StateOK'
  BY <1>1, NoStateOK DEF LogoutInv, StateOK
<1>4. WorkerInv'
  BY <1>1, <1>2, NoStateOK, WorkersStay
<1> QED BY <1>1, <1>2, <1>3, <1>4, AllStay, Closes

LEMMA CleanUpStep ==
    ASSUME LogoutInv, NEW t \in Tabs, CleanUp(t)
    PROVE  LogoutInv' /\ Leaving
<1> DEFINE r == tab[t]
           q == [r EXCEPT !.page = "closed"]
<1>1. /\ tab' = [tab EXCEPT ![t] = q] /\ cleared' = [w \in Workers |-> TRUE]
      /\ unsynced' = [w \in Workers |-> FALSE] /\ state' = NoState
      /\ r.page = "out" /\ r.known
      /\ UNCHANGED <<ini, att, hnd, timer, toW, toT, air, session, forced, used>>
  BY DEF CleanUp, deleteLocalSpaceData
<1>2. r \in TabRecords /\ Editor(r, session) /\ Runner(ini[t], r, session, forced, used.ids)
  BY DEF LogoutInv, StateOK, PairInv
<1>3. ini[t].pc = "idle" /\ ~session
  BY <1>1, <1>2 DEF Runner, Editor
<1>4. q \in TabRecords /\ q.page = "closed" /\ q.pend = r.pend /\ q.revoked = r.revoked
  BY <1>2 DEF TabRecords
<1>5. Steady
  BY <1>1 DEF Steady
<1> HIDE DEF q
<1>6. Follows(r, q, ini[t], session, forced, used.ids)
  BY <1>1, <1>2, <1>3, <1>4, IdleFollows DEF Editor
<1>7. tab' \in [Tabs -> TabRecords] /\ \A u \in Tabs : Fits(u)
  BY <1>1, <1>5, <1>6, OneTabFits DEF LogoutInv, Same
<1>8. StateOK'
  BY <1>1, <1>7, NoStateOK DEF LogoutInv, StateOK
<1>9. WorkerInv'
  BY <1>1, <1>3, NoStateOK DEF LogoutInv, WorkerInv
<1> QED BY <1>1, <1>5, <1>7, <1>8, <1>9, Closes

-----------------------------------------------------------------------------
(* The steps of an editor.                                                 *)

LEMMA AnswersType ==
    ASSUME hnd \in [Workers -> [Ids -> SyncHandlers]], NEW id, NEW who, NEW t, NEW ok
    PROVE  Answers(hnd, id, who, t, ok) \in [Workers -> [Ids -> SyncHandlers]]
<1>1. \A h \in SyncHandlers : [h EXCEPT !.wait = @ \ {t}] \in SyncHandlers
  BY DEF SyncHandlers
<1>2. [pc |-> "failed", wait |-> {}] \in SyncHandlers
  BY DEF SyncHandlers
<1> QED BY <1>1, <1>2 DEF Answers

\* An answer changes nothing of an initiator but what it waits for.
LEMMA ReplyKeeps ==
    ASSUME ini \in [Tabs -> Initiators], NEW pc, NEW id, NEW w, NEW ok \in BOOLEAN
    PROVE  LET f == Reply(ini, pc, id, w, ok) IN
           /\ f \in [Tabs -> Initiators]
           /\ \A u \in Tabs :
                 /\ f[u].pc = ini[u].pc /\ f[u].id = ini[u].id /\ f[u].force = ini[u].force
                 /\ \/ f[u] = ini[u]
                    \/ /\ ini[u].pc = pc /\ ini[u].id = id /\ w \in ini[u].wait
                       /\ f[u].wait = ini[u].wait \ {w} /\ (ini[u].bad => f[u].bad) /\ (f[u].bad \/ ok)
<1> DEFINE f == Reply(ini, pc, id, w, ok)
           b(a) == a.bad \/ ~ok
           g(a) == [a EXCEPT !.wait = @ \ {w}, !.bad = b(a)]
           c(a) == a.pc = pc /\ a.id = id /\ w \in a.wait
<1>1. f = [u \in Tabs |-> IF c(ini[u]) THEN g(ini[u]) ELSE ini[u]]
  BY Zenon DEF Reply
<1>2. \A a : b(a) \in BOOLEAN /\ (a.bad => b(a)) /\ (b(a) \/ ok)
  BY Zenon
<1> HIDE DEF b
<1>3. ASSUME NEW a \in Initiators
      PROVE  /\ g(a) \in Initiators /\ g(a).pc = a.pc /\ g(a).id = a.id /\ g(a).force = a.force
             /\ g(a).wait = a.wait \ {w} /\ g(a).bad = b(a)
  BY <1>2, <1>3 DEF Initiators
<1> HIDE DEF f, g, c
<1>4. \A u \in Tabs : f[u] = IF c(ini[u]) THEN g(ini[u]) ELSE ini[u]
  BY <1>1
<1>5. f \in [Tabs -> Initiators]
  BY <1>1, <1>3
<1>6. ASSUME NEW u \in Tabs
      PROVE  /\ f[u].pc = ini[u].pc /\ f[u].id = ini[u].id /\ f[u].force = ini[u].force
             /\ \/ f[u] = ini[u]
                \/ c(ini[u]) /\ f[u].wait = ini[u].wait \ {w} /\ (ini[u].bad => f[u].bad) /\ (f[u].bad \/ ok)
  <2>1. ini[u] \in Initiators
    OBVIOUS
  <2>2. CASE c(ini[u])
    <3>1. f[u] = g(ini[u])
      BY <1>4, <2>2
    <3> QED BY <1>2, <1>3, <2>1, <2>2, <3>1
  <2>3. CASE ~c(ini[u])
    BY <1>4, <2>3
  <2> QED BY <2>2, <2>3
<1> QED BY <1>5, <1>6 DEF f, c

\* A worker is not the editor an initiator waits for first.
LEMMA ReplySame ==
    ASSUME ini \in [Tabs -> Initiators], NEW pc, NEW id, NEW w \in Workers, NEW ok \in BOOLEAN
    PROVE  LET f == Reply(ini, pc, id, w, ok) IN
           f \in [Tabs -> Initiators] /\ \A u \in Tabs : Same(ini[u], f[u])
<1> DEFINE f == Reply(ini, pc, id, w, ok)
<1>1. /\ f \in [Tabs -> Initiators]
      /\ \A u \in Tabs :
            /\ f[u].pc = ini[u].pc /\ f[u].id = ini[u].id /\ f[u].force = ini[u].force
            /\ \/ f[u] = ini[u]
               \/ f[u].wait = ini[u].wait \ {w} /\ (ini[u].bad => f[u].bad)
  BY ReplyKeeps
<1> HIDE DEF f
<1>2. w # Self
  BY LogoutAssumption
<1>3. \A u \in Tabs : Same(ini[u], f[u])
  BY <1>1, <1>2 DEF Same
<1> QED BY <1>1, <1>3 DEF f

LEMMA SaveEndsStep ==
    ASSUME LogoutInv, NEW t \in Tabs, NEW id \in Ids, NEW ok \in BOOLEAN, SaveEnds(t, id, ok)
    PROVE  LogoutInv' /\ Leaving
<1> DEFINE r == tab[t]
           fine == ok /\ r.att = id
           q == EndRecord(r, t, id, ok)
           f == Reply(ini, "save", id, Self, fine)
           b == unsynced[Space[t]] \/ (ok /\ r.dirty)
<1>1. /\ r.page = "open" /\ tab' = [tab EXCEPT ![t] = q]
      /\ hnd' = Answers(hnd, id, r.pend[id], t, fine)
      /\ ini' = IF Self \in r.pend[id] THEN f ELSE ini
      /\ unsynced' = [unsynced EXCEPT ![Space[t]] = b]
      /\ UNCHANGED <<att, cleared, timer, toW, toT, air, session, state, forced, used>>
  BY Zenon DEF SaveEnds, EndRecord, SavedRecord
<1>2. fine \in BOOLEAN /\ b \in BOOLEAN /\ (fine => ok)
  BY Zenon
<1> HIDE DEF fine, b
<1>3. Hears(r, t, session, forced, used.ids)
  BY <1>1, IsHeard
<1>4. Follows(r, q, ini[t], session, forced, used.ids) /\ (ok => ~q.dirty)
  BY <1>3, EndFollows
<1> HIDE DEF q
<1>5. StateOK /\ OwnInv
  BY DEF LogoutInv
<1>6. ini \in [Tabs -> Initiators]
  BY <1>5 DEF StateOK
<1>7. /\ f \in [Tabs -> Initiators]
      /\ \A u \in Tabs :
            /\ f[u].pc = ini[u].pc /\ f[u].id = ini[u].id /\ f[u].force = ini[u].force
            /\ \/ f[u] = ini[u]
               \/ /\ ini[u].pc = "save" /\ ini[u].id = id /\ Self \in ini[u].wait
                  /\ f[u].wait = ini[u].wait \ {Self} /\ (ini[u].bad => f[u].bad) /\ (f[u].bad \/ fine)
  BY <1>2, <1>6, ReplyKeeps
<1> HIDE DEF f
<1>8. ini' \in [Tabs -> Initiators]
  BY <1>1, <1>6, <1>7
<1>9. \A u \in Tabs \ {t} : ini'[u] = ini[u]
  <2> SUFFICES ASSUME NEW u \in Tabs \ {t}, Self \in r.pend[id] PROVE f[u] = ini[u]
    BY <1>1
  <2>1. Runs(u, id) => u = t
    BY <1>5 DEF OwnInv
  <2> QED BY <1>7, <2>1 DEF Runs
<1>10. /\ ini'[t].pc = ini[t].pc /\ ini'[t].id = ini[t].id /\ ini'[t].force = ini[t].force
       /\ ini'[t] = ini[t] \/ ini'[t].bad \/ ok
  BY <1>1, <1>2, <1>7
<1>11. Runner(ini'[t], q, session, forced, used.ids)
  <2>1. Runner(ini[t], q, session, forced, used.ids)
    BY <1>4 DEF Follows
  <2>2. CASE ini'[t] = ini[t]
    BY <2>1, <2>2
  <2>3. CASE ini'[t] # ini[t]
    <3>1. ini[t].pc = "save" /\ (ini'[t].bad \/ ok)
      BY <1>1, <1>2, <1>7, <2>3
    <3> QED BY <1>4, <1>10, <2>1, <3>1 DEF Runner
  <2> QED BY <2>2, <2>3
<1>12. Follows(r, q, ini'[t], session', forced, used.ids)
  BY <1>1, <1>4, <1>11 DEF Follows
<1>13. hnd' \in [Workers -> [Ids -> SyncHandlers]]
  BY <1>1, <1>5, AnswersType DEF StateOK
<1>14. unsynced' \in [Workers -> BOOLEAN]
  BY <1>1, <1>2, <1>5, LogoutAssumption DEF StateOK
<1>15. Steady
  BY <1>1 DEF Steady
<1>16. \A u \in Tabs \ {t} : Same(ini[u], ini'[u])
  BY <1>9 DEF Same
<1> QED BY <1>1, <1>5, <1>8, <1>10, <1>12, <1>13, <1>14, <1>15, <1>16, OneTabStep DEF StateOK

LEMMA GoodHandled ==
    ASSUME LogoutInv, NEW t \in Tabs, tab[t].page = "open", NEW types, NEW m \in Good(types)
    PROVE  Follows(tab[t], Handled(tab[t], t, m), ini[t], session, forced, used.ids)
<1>1. Hears(tab[t], t, session, forced, used.ids)
  BY IsHeard
<1>2. m.id \in Ids /\ MsgOK(m)
  BY DEF Good, Messages
<1>3. /\ m.type \in {"revoked", "preserve", "complete", "force"} => ~session
      /\ m.type = "force" => forced
      /\ m.type = "cancel" => ~Runs(t, m.id)
  BY <1>2 DEF MsgOK
<1> QED BY <1>1, <1>2, <1>3, HandledFollows

\* An editor handles a message.
LEMMA HearingFits ==
    ASSUME LogoutInv, NEW t \in Tabs, NEW q,
           UNCHANGED <<ini, att, cleared, timer, unsynced, session, state, forced, used>>,
           hnd' \in [Workers -> [Ids -> SyncHandlers]],
           \/ UNCHANGED tab
           \/ tab' = [tab EXCEPT ![t] = q] /\ Follows(tab[t], q, ini[t], session, forced, used.ids)
    PROVE  StateOK' /\ WorkerInv' /\ PairInv' /\ OwnInv' /\ Onward /\ Leaving
<1>1. Steady
  BY DEF Steady
<1>2. WorkerInv'
  BY <1>1, WorkersStay
<1>3. tab' \in [Tabs -> TabRecords] /\ \A u \in Tabs : Fits(u)
  <2>1. CASE UNCHANGED tab
    BY <1>1, <2>1, AllStay DEF LogoutInv, StateOK
  <2>2. CASE tab' = [tab EXCEPT ![t] = q] /\ Follows(tab[t], q, ini[t], session, forced, used.ids)
    BY <1>1, <2>2, OneTabFits DEF LogoutInv, Same
  <2> QED BY <2>1, <2>2
<1>4. StateOK'
  BY <1>3 DEF LogoutInv, StateOK
<1> QED BY <1>1, <1>2, <1>3, <1>4, FitsStep DEF LogoutInv

LEMMA TabReceivesStep ==
    ASSUME LogoutInv, NEW t \in Tabs, NEW w \in Workers, TabReceives(t, w)
    PROVE  LogoutInv' /\ Leaving
<1> DEFINE m == Head(toT[t][w])
           r == tab[t]
           G == Good(ForTabs)
<1>1. /\ toT' = [toT EXCEPT ![t][w] = Tail(@)] /\ toT[t][w] # <<>>
      /\ UNCHANGED <<ini, att, cleared, timer, toW, air, unsynced, session, state, forced, used>>
  BY DEF TabReceives
<1>2. toT \in [Tabs -> [Workers -> Seq(G)]] /\ hnd \in [Workers -> [Ids -> SyncHandlers]]
  BY DEF LogoutInv, MailInv, StateOK
<1>3. m \in G
  BY <1>1, <1>2, TakenIn
<1>4. m.id \in Ids
  BY <1>3 DEF Good, Messages
<1>5. hnd' \in [Workers -> [Ids -> SyncHandlers]]
  BY <1>2, AnswersType DEF TabReceives
<1>6. \/ UNCHANGED tab
      \/ r.page = "open" /\ tab' = [tab EXCEPT ![t] = Handled(r, t, m)]
      \/ r.page = "open" /\ tab' = [tab EXCEPT ![t] = Asked(r, m.id, w)]
  BY DEF TabReceives
<1> HIDE DEF m, G
<1>7. StateOK' /\ WorkerInv' /\ PairInv' /\ OwnInv' /\ Onward /\ Leaving
  <2>1. CASE UNCHANGED tab
    BY <1>1, <1>5, <2>1, HearingFits
  <2>2. CASE r.page = "open" /\ tab' = [tab EXCEPT ![t] = Handled(r, t, m)]
    <3>1. Follows(r, Handled(r, t, m), ini[t], session, forced, used.ids)
      BY <1>3, <2>2, GoodHandled DEF G
    <3> QED BY <1>1, <1>5, <2>2, <3>1, HearingFits
  <2>3. CASE r.page = "open" /\ tab' = [tab EXCEPT ![t] = Asked(r, m.id, w)]
    <3>1. Follows(r, Asked(r, m.id, w), ini[t], session, forced, used.ids)
      BY <1>4, <2>3, IsHeard, AskedFollows
    <3> QED BY <1>1, <1>5, <2>3, <3>1, HearingFits
  <2> QED BY <1>6, <2>1, <2>2, <2>3
<1>8. /\ toW \in [Workers -> [Tabs -> Seq(Good(ForWorkers)')]]
      /\ toT \in [Tabs -> [Workers -> Seq(Good(ForTabs)')]]
      /\ air \in [Tabs -> SUBSET (Good(ForAll)')]
  BY <1>7, MailGrows DEF LogoutInv
<1>9. toT' \in [Tabs -> [Workers -> Seq(Good(ForTabs)')]]
  BY <1>1, <1>8, TakenIn
<1> QED BY <1>1, <1>7, <1>8, <1>9 DEF LogoutInv, MailInv

LEMMA TabHearsStep ==
    ASSUME LogoutInv, NEW t \in Tabs, NEW m \in air[t], TabHears(t, m)
    PROVE  LogoutInv' /\ Leaving
<1> DEFINE r == tab[t]
<1>1. /\ air' = [air EXCEPT ![t] = @ \ {m}]
      /\ UNCHANGED <<ini, att, hnd, cleared, timer, toW, toT, unsynced, session, state, forced, used>>
  BY DEF TabHears
<1>2. m \in Good(ForAll)
  BY DEF LogoutInv, MailInv
<1>3. hnd' \in [Workers -> [Ids -> SyncHandlers]]
  BY <1>1 DEF LogoutInv, StateOK
<1>4. \/ UNCHANGED tab
      \/ r.page = "open" /\ tab' = [tab EXCEPT ![t] = Handled(r, t, m)]
  BY DEF TabHears
<1>5. StateOK' /\ WorkerInv' /\ PairInv' /\ OwnInv' /\ Onward /\ Leaving
  <2>1. CASE UNCHANGED tab
    BY <1>1, <1>3, <2>1, HearingFits
  <2>2. CASE r.page = "open" /\ tab' = [tab EXCEPT ![t] = Handled(r, t, m)]
    <3>1. Follows(r, Handled(r, t, m), ini[t], session, forced, used.ids)
      BY <1>2, <2>2, GoodHandled
    <3> QED BY <1>1, <1>3, <2>2, <3>1, HearingFits
  <2> QED BY <1>4, <2>1, <2>2
<1>6. /\ toW \in [Workers -> [Tabs -> Seq(Good(ForWorkers)')]]
      /\ toT \in [Tabs -> [Workers -> Seq(Good(ForTabs)')]]
      /\ air \in [Tabs -> SUBSET (Good(ForAll)')]
  BY <1>5, MailGrows DEF LogoutInv
<1>7. air' \in [Tabs -> SUBSET (Good(ForAll)')]
  BY <1>1, <1>6
<1> QED BY <1>1, <1>5, <1>6, <1>7 DEF LogoutInv, MailInv

-----------------------------------------------------------------------------
(* The steps of a worker.                                                  *)

WorkerOK(a, c, i) ==
    a.id <= used.ids /\ i <= used.ids /\ ((a.revoked \/ a.preserved \/ c) => ~session)

\* A step that changes nothing but what the workers keep and send.
Coordinated ==
    /\ ini' \in [Tabs -> Initiators] /\ \A u \in Tabs : Same(ini[u], ini'[u])
    /\ att' \in [Workers -> Attempts] /\ hnd' \in [Workers -> [Ids -> SyncHandlers]]
    /\ cleared' \in [Workers -> BOOLEAN] /\ timer' \in [Workers -> Ids \cup {NoId}]
    /\ \A v \in Workers : WorkerOK(att'[v], cleared'[v], timer'[v])
    /\ toT' \in [Tabs -> [Workers -> Seq(Good(ForTabs))]]
    /\ UNCHANGED <<tab, unsynced, session, state, air, forced, used>>

LEMMA CoordinatedStep ==
    ASSUME LogoutInv, Coordinated, toW' \in [Workers -> [Tabs -> Seq(Good(ForWorkers))]]
    PROVE  LogoutInv' /\ Leaving
<1>1. Steady
  BY DEF Coordinated, Steady
<1>2. StateOK'
  BY DEF LogoutInv, StateOK, Coordinated
<1>3. WorkerInv'
  BY DEF LogoutInv, WorkerInv, Coordinated, WorkerOK
<1>4. \A u \in Tabs : Fits(u)
  BY <1>1, SameFits DEF LogoutInv, Coordinated
<1>5. PairInv' /\ OwnInv' /\ Onward /\ Leaving
  BY <1>1, <1>4, FitsStep DEF LogoutInv
<1>6. /\ Good(ForWorkers) \subseteq Good(ForWorkers)' /\ Good(ForTabs) \subseteq Good(ForTabs)'
      /\ Good(ForAll) \subseteq Good(ForAll)'
  BY <1>2, <1>5, GoodGrows DEF LogoutInv
<1>7. /\ Seq(Good(ForWorkers)) \subseteq Seq(Good(ForWorkers)')
      /\ Seq(Good(ForTabs)) \subseteq Seq(Good(ForTabs)')
  BY <1>6, SeqGrows
<1>8. toW' \in [Workers -> [Tabs -> Seq(Good(ForWorkers)')]]
  BY <1>7
<1>9. toT' \in [Tabs -> [Workers -> Seq(Good(ForTabs)')]]
  BY <1>7 DEF Coordinated
<1>10. air' \in [Tabs -> SUBSET (Good(ForAll)')]
  BY <1>6 DEF Coordinated, LogoutInv, MailInv
<1> QED BY <1>2, <1>3, <1>5, <1>8, <1>9, <1>10 DEF LogoutInv, MailInv

\* What the worker has before the step.
LEMMA WorkerFacts ==
    ASSUME LogoutInv, NEW v \in Workers
    PROVE  /\ att[v] \in Attempts /\ cleared[v] \in BOOLEAN /\ timer[v] \in Ids \cup {NoId}
           /\ WorkerOK(att[v], cleared[v], timer[v])
BY DEF LogoutInv, StateOK, WorkerInv, WorkerOK

\* Worker w changes its attempt to a, its clearing to c and its timer to i.
LEMMA OneWorkerChanges ==
    ASSUME LogoutInv, NEW w \in Workers, NEW a \in Attempts, NEW c \in BOOLEAN, NEW i \in Ids \cup {NoId},
           att' = [att EXCEPT ![w] = a], cleared' = [cleared EXCEPT ![w] = c],
           timer' = [timer EXCEPT ![w] = i], WorkerOK(a, c, i)
    PROVE  /\ att' \in [Workers -> Attempts] /\ cleared' \in [Workers -> BOOLEAN]
           /\ timer' \in [Workers -> Ids \cup {NoId}]
           /\ \A v \in Workers : WorkerOK(att'[v], cleared'[v], timer'[v])
<1>1. /\ att \in [Workers -> Attempts] /\ cleared \in [Workers -> BOOLEAN]
      /\ timer \in [Workers -> Ids \cup {NoId}]
  BY DEF LogoutInv, StateOK
<1>2. att' \in [Workers -> Attempts] /\ cleared' \in [Workers -> BOOLEAN] /\ timer' \in [Workers -> Ids \cup {NoId}]
  BY <1>1
<1>3. \A v \in Workers :
         \/ v = w /\ att'[v] = a /\ cleared'[v] = c /\ timer'[v] = i
         \/ att'[v] = att[v] /\ cleared'[v] = cleared[v] /\ timer'[v] = timer[v]
  BY <1>1
<1>4. ASSUME NEW v \in Workers PROVE WorkerOK(att'[v], cleared'[v], timer'[v])
  BY <1>3, WorkerFacts
<1> QED BY <1>2, <1>4

LEMMA KeepsWorker ==
    ASSUME LogoutInv, NEW w \in Workers
    PROVE  /\ att = [att EXCEPT ![w] = att[w]] /\ cleared = [cleared EXCEPT ![w] = cleared[w]]
           /\ timer = [timer EXCEPT ![w] = timer[w]]
BY DEF LogoutInv, StateOK

LEMMA GoodFacts ==
    ASSUME NEW types, NEW m \in Good(types)
    PROVE  m \in Messages(types) /\ m.id \in Ids /\ m.type \in types /\ MsgOK(m) /\ m.id <= used.ids
           /\ (m.type \in {"revoked", "preserve", "complete", "clear", "force"} => ~session)
BY DEF Good, Messages, MsgOK

\* A worker passes on what it was told.
LEMMA PassedOn ==
    ASSUME NEW m \in Good(ForWorkers), m.type \in ForTabs
    PROVE  m \in Good(ForTabs)
<1>1. m \in Messages(ForTabs)
  BY DEF Good, Messages
<1> QED BY <1>1 DEF Good

LEMMA Saying ==
    ASSUME NEW type, NEW id \in Ids, NEW types, type \in types, id <= used.ids,
           type \in {"revoked", "preserve", "complete", "clear", "force"} => ~session,
           type = "force" => forced,
           type = "cancel" => \A t \in Tabs : ~Runs(t, id)
    PROVE  Msg(type, id) \in Good(types)
<1>1. Msg(type, id) \in Messages(types) /\ Msg(type, id).type = type /\ Msg(type, id).id = id
  BY DEF Msg, Messages
<1> HIDE DEF Msg
<1>2. MsgOK(Msg(type, id))
  BY <1>1 DEF MsgOK
<1> QED BY <1>1, <1>2 DEF Good

\* Unless it answers or posts, a worker leaves the initiators and its posts alone.
LEMMA Silent ==
    ASSUME LogoutInv
    PROVE  /\ ini \in [Tabs -> Initiators] /\ \A u \in Tabs : Same(ini[u], ini[u])
           /\ toT \in [Tabs -> [Workers -> Seq(Good(ForTabs))]]
           /\ hnd \in [Workers -> [Ids -> SyncHandlers]]
BY DEF LogoutInv, StateOK, MailInv, Same

LEMMA Replied ==
    ASSUME LogoutInv, NEW w \in Workers, NEW pc, NEW id, NEW ok \in BOOLEAN,
           ini' = Reply(ini, pc, id, w, ok)
    PROVE  ini' \in [Tabs -> Initiators] /\ \A u \in Tabs : Same(ini[u], ini'[u])
<1>1. ini \in [Tabs -> Initiators]
  BY Silent
<1> QED BY <1>1, ReplySame

LEMMA PostingAll ==
    ASSUME LogoutInv, NEW w \in Workers, NEW c, NEW ms \in Seq(Good(ForTabs))
    PROVE  PostedAll(w, c, ms) \in [Tabs -> [Workers -> Seq(Good(ForTabs))]]
<1> DEFINE G == Good(ForTabs)
<1>1. toT \in [Tabs -> [Workers -> Seq(G)]] /\ ms \in Seq(G)
  BY Silent
<1> HIDE DEF G
<1>2. PostedAll(w, c, ms) \in [Tabs -> [Workers -> Seq(G)]]
  BY <1>1, PostedAllIn
<1> QED BY <1>2 DEF G

LEMMA Posting ==
    ASSUME LogoutInv, NEW w \in Workers, NEW c, NEW m \in Good(ForTabs)
    PROVE  Posted(w, c, m) \in [Tabs -> [Workers -> Seq(Good(ForTabs))]]
<1> DEFINE G == Good(ForTabs)
<1> HIDE DEF G
<1>1. <<m>> \in Seq(G)
  BY DEF G
<1>2. PostedAll(w, c, <<m>>) \in [Tabs -> [Workers -> Seq(G)]]
  BY <1>1, PostingAll DEF G
<1> QED BY <1>2 DEF G, Posted

Outside == UNCHANGED <<tab, unsynced, session, state, air, forced, used>>

LEMMA ForceCoordinated ==
    ASSUME LogoutInv, NEW w \in Workers, NEW m \in Good(ForWorkers), ReceiveForce(w, m), Outside
    PROVE  Coordinated
<1>1. m.id \in Ids /\ ~session /\ m \in Good(ForTabs)
  BY GoodFacts, PassedOn DEF ReceiveForce, ForTabs
<1>2. /\ att' = [att EXCEPT ![w] = att[w]] /\ cleared' = [cleared EXCEPT ![w] = TRUE]
      /\ timer' = [timer EXCEPT ![w] = NoId] /\ UNCHANGED hnd
  BY KeepsWorker DEF ReceiveForce
<1>3. att[w] \in Attempts /\ WorkerOK(att[w], TRUE, NoId)
  <2>1. att[w] \in Attempts /\ att[w].id <= used.ids
    BY WorkerFacts DEF WorkerOK
  <2>2. NoId <= used.ids
    BY DEF NoId, LogoutInv, StateOK
  <2> QED BY <1>1, <2>1, <2>2 DEF WorkerOK
<1>4. /\ att' \in [Workers -> Attempts] /\ cleared' \in [Workers -> BOOLEAN]
      /\ timer' \in [Workers -> Ids \cup {NoId}]
      /\ \A v \in Workers : WorkerOK(att'[v], cleared'[v], timer'[v])
  BY <1>2, <1>3, OneWorkerChanges
<1>5. PICK ok \in BOOLEAN : ini' = Reply(ini, "clear", m.id, w, ok)
  BY DEF ReceiveForce
<1>6. ini' \in [Tabs -> Initiators] /\ \A u \in Tabs : Same(ini[u], ini'[u])
  BY <1>5, Replied
<1>7. toT' \in [Tabs -> [Workers -> Seq(Good(ForTabs))]]
  <2>1. toT' = toT \/ toT' = Posted(w, Windows, m)
    BY DEF ReceiveForce
  <2> QED BY <1>1, <2>1, Silent, Posting
<1> QED BY <1>2, <1>4, <1>6, <1>7, Silent DEF Coordinated, Outside

LEMMA NoAttemptOK ==
    /\ NoAttempt \in Attempts /\ NoHandler \in SyncHandlers
    /\ NoAttempt.id = NoId /\ NoAttempt.revoked = FALSE /\ NoAttempt.preserved = FALSE
BY DEF NoAttempt, NoHandler, Attempts, SyncHandlers

LEMMA SyncCoordinated ==
    ASSUME LogoutInv, NEW w \in Workers, NEW m \in Good(ForWorkers), ReceiveSync(w, m), Outside
    PROVE  Coordinated
<1>1. m.id \in Ids /\ m.id <= used.ids
  BY GoodFacts
<1>2. CASE active(w)
  <2>1. ini' = Reply(ini, "sync", m.id, w, FALSE) /\ UNCHANGED <<att, hnd, timer, cleared, toT>>
    BY <1>2 DEF ReceiveSync
  <2>2. ini' \in [Tabs -> Initiators] /\ \A u \in Tabs : Same(ini[u], ini'[u])
    BY <2>1, Silent, ReplySame
  <2> QED BY <2>1, <2>2, Silent, WorkerFacts DEF Coordinated, Outside, LogoutInv, StateOK
<1>3. CASE ~active(w)
  <2> DEFINE a == [NoAttempt EXCEPT !.id = m.id]
             h == [pc |-> "clients", wait |-> {}]
  <2>1. /\ att' = [att EXCEPT ![w] = a] /\ timer' = [timer EXCEPT ![w] = m.id]
        /\ hnd' = [hnd EXCEPT ![w][m.id] = h] /\ UNCHANGED <<ini, cleared, toT>>
    BY <1>3 DEF ReceiveSync
  <2>2. a \in Attempts /\ a.id = m.id /\ a.revoked = FALSE /\ a.preserved = FALSE
    BY <1>1 DEF NoAttempt, Attempts
  <2>3. h \in SyncHandlers
    BY DEF SyncHandlers
  <2> HIDE DEF a, h
  <2>4. hnd' \in [Workers -> [Ids -> SyncHandlers]]
    BY <1>1, <2>1, <2>3, Silent
  <2>5. WorkerOK(a, cleared[w], m.id)
    BY <1>1, <2>2, WorkerFacts DEF WorkerOK
  <2>6. /\ att' \in [Workers -> Attempts] /\ cleared' \in [Workers -> BOOLEAN]
        /\ timer' \in [Workers -> Ids \cup {NoId}]
        /\ \A v \in Workers : WorkerOK(att'[v], cleared'[v], timer'[v])
    <3>1. cleared' = [cleared EXCEPT ![w] = cleared[w]]
      BY <2>1, KeepsWorker
    <3>2. cleared[w] \in BOOLEAN
      BY WorkerFacts
    <3> QED BY <1>1, <2>1, <2>2, <2>5, <3>1, <3>2, OneWorkerChanges
  <2> QED BY <2>1, <2>4, <2>6, Silent DEF Coordinated, Outside
<1> QED BY <1>2, <1>3

\* Worker w may learn that the session is gone, stop its timer and clear its keys.
LEMMA LearnsCoordinated ==
    ASSUME LogoutInv, NEW w \in Workers, NEW a \in Attempts, NEW c \in BOOLEAN, NEW i,
           a.id = att[w].id, i \in {timer[w], NoId},
           (a.revoked /\ ~att[w].revoked) \/ (a.preserved /\ ~att[w].preserved) \/ (c /\ ~cleared[w]) => ~session,
           att' = [att EXCEPT ![w] = a], cleared' = [cleared EXCEPT ![w] = c],
           timer' = [timer EXCEPT ![w] = i], UNCHANGED hnd,
           ini' \in [Tabs -> Initiators] /\ \A u \in Tabs : Same(ini[u], ini'[u]),
           toT' \in [Tabs -> [Workers -> Seq(Good(ForTabs))]], Outside
    PROVE  Coordinated
<1>1. timer[w] \in Ids \cup {NoId} /\ WorkerOK(att[w], cleared[w], timer[w])
  BY WorkerFacts
<1>2. NoId <= used.ids /\ i \in Ids \cup {NoId}
  BY <1>1 DEF NoId, LogoutInv, StateOK
<1>3. WorkerOK(a, c, i)
  BY <1>1, <1>2 DEF WorkerOK
<1>4. /\ att' \in [Workers -> Attempts] /\ cleared' \in [Workers -> BOOLEAN]
      /\ timer' \in [Workers -> Ids \cup {NoId}]
      /\ \A v \in Workers : WorkerOK(att'[v], cleared'[v], timer'[v])
  BY <1>2, <1>3, OneWorkerChanges
<1> QED BY <1>4, Silent DEF Coordinated, Outside

LEMMA RevokedCoordinated ==
    ASSUME LogoutInv, NEW w \in Workers, NEW m \in Good(ForWorkers), Outside,
           ReceiveRevoked(w, m) \/ ReceivePreserve(w, m)
    PROVE  Coordinated
<1>1. ~session /\ m \in Good(ForTabs)
  BY GoodFacts, PassedOn DEF ReceiveRevoked, ReceivePreserve, ForTabs
<1>2. att[w] \in Attempts /\ cleared[w] \in BOOLEAN
  BY WorkerFacts
<1>3. PICK a : /\ a \in {[att[w] EXCEPT !.revoked = TRUE], [att[w] EXCEPT !.revoked = TRUE, !.preserved = TRUE]}
               /\ att' = [att EXCEPT ![w] = a]
  BY DEF ReceiveRevoked, ReceivePreserve
<1>4. a \in Attempts /\ a.id = att[w].id
  BY <1>2, <1>3 DEF Attempts
<1>5. /\ cleared' = [cleared EXCEPT ![w] = cleared[w]] /\ UNCHANGED <<ini, hnd>>
      /\ \E i \in {timer[w], NoId} : timer' = [timer EXCEPT ![w] = i]
      /\ toT' = Posted(w, att[w].clients, m)
  BY KeepsWorker DEF ReceiveRevoked, ReceivePreserve
<1>6. PICK i \in {timer[w], NoId} : timer' = [timer EXCEPT ![w] = i]
  BY <1>5
<1>7. toT' \in [Tabs -> [Workers -> Seq(Good(ForTabs))]]
  BY <1>1, <1>5, Posting
<1>8. ini' \in [Tabs -> Initiators] /\ \A u \in Tabs : Same(ini[u], ini'[u])
  BY <1>5, Silent
<1> QED BY <1>1, <1>2, <1>3, <1>4, <1>5, <1>6, <1>7, <1>8, LearnsCoordinated

LEMMA ClearCoordinated ==
    ASSUME LogoutInv, NEW w \in Workers, NEW m \in Good(ForWorkers), Outside,
           ReceiveClear(w, m) \/ ReceiveComplete(w, m) \/ ReceiveStale(w, m)
    PROVE  Coordinated
<1>1. att[w] \in Attempts /\ cleared[w] \in BOOLEAN
  BY WorkerFacts
<1>2. /\ att' = [att EXCEPT ![w] = att[w]] /\ UNCHANGED hnd
      /\ \E i \in {timer[w], NoId} : timer' = [timer EXCEPT ![w] = i]
  BY KeepsWorker DEF ReceiveClear, ReceiveComplete, ReceiveStale
<1>3. PICK i \in {timer[w], NoId} : timer' = [timer EXCEPT ![w] = i]
  BY <1>2
<1>4. PICK c \in BOOLEAN : cleared' = [cleared EXCEPT ![w] = c] /\ (c /\ ~cleared[w] => ~session)
  <2>1. CASE ReceiveClear(w, m)
    <3>1. ~session
      BY <2>1, GoodFacts DEF ReceiveClear
    <3>2. \E c \in {TRUE, cleared[w]} : cleared' = [cleared EXCEPT ![w] = c]
      BY <2>1, KeepsWorker DEF ReceiveClear
    <3> QED BY <1>1, <3>1, <3>2
  <2>2. CASE ReceiveComplete(w, m) \/ ReceiveStale(w, m)
    BY <1>1, <2>2, KeepsWorker DEF ReceiveComplete, ReceiveStale
  <2> QED BY <2>1, <2>2
<1>5. ini' \in [Tabs -> Initiators] /\ \A u \in Tabs : Same(ini[u], ini'[u])
  <2>1. ini' = ini \/ \E ok \in BOOLEAN : ini' = Reply(ini, "clear", m.id, w, ok)
    BY DEF ReceiveClear, ReceiveComplete, ReceiveStale
  <2>2. CASE ini' = ini
    BY <2>2, Silent
  <2>3. CASE \E ok \in BOOLEAN : ini' = Reply(ini, "clear", m.id, w, ok)
    BY <2>3, Replied
  <2> QED BY <2>1, <2>2, <2>3
<1>6. toT' \in [Tabs -> [Workers -> Seq(Good(ForTabs))]]
  <2>1. toT' = toT \/ (m.type = "complete" /\ toT' = Posted(w, att[w].clients, m))
    BY DEF ReceiveClear, ReceiveComplete, ReceiveStale
  <2>2. m.type = "complete" => m \in Good(ForTabs)
    BY PassedOn DEF ForTabs
  <2> QED BY <2>1, <2>2, Silent, Posting
<1> QED BY <1>1, <1>2, <1>3, <1>4, <1>5, <1>6, LearnsCoordinated

LEMMA CancelCoordinated ==
    ASSUME LogoutInv, NEW w \in Workers, NEW m \in Good(ForWorkers), Outside, ReceiveCancel(w, m)
    PROVE  Coordinated
<1> DEFINE o == att[w]
           a == IF o.revoked THEN [o EXCEPT !.preserved = TRUE] ELSE NoAttempt
           n == Msg(IF o.revoked THEN "preserve" ELSE "cancel", m.id)
<1>1. o \in Attempts /\ cleared[w] \in BOOLEAN /\ WorkerOK(o, cleared[w], timer[w])
  BY WorkerFacts
<1>2. /\ att' = [att EXCEPT ![w] = a] /\ cleared' = [cleared EXCEPT ![w] = cleared[w]]
      /\ timer' = [timer EXCEPT ![w] = NoId] /\ UNCHANGED <<ini, hnd>>
      /\ toT' = Posted(w, o.clients, n)
  BY KeepsWorker DEF ReceiveCancel
<1>3. a \in Attempts /\ (a.id = o.id \/ a.id = NoId)
      /\ (a.revoked \/ a.preserved => o.revoked)
  BY <1>1, NoAttemptOK DEF Attempts
<1>4. n \in Good(ForTabs)
  <2>1. m.id \in Ids /\ m.id <= used.ids /\ \A t \in Tabs : ~Runs(t, m.id)
    BY GoodFacts DEF MsgOK, ReceiveCancel
  <2>2. o.revoked => ~session
    BY <1>1 DEF WorkerOK
  <2>3. CASE o.revoked
    BY <2>1, <2>2, <2>3, Saying DEF ForTabs
  <2>4. CASE ~o.revoked
    BY <2>1, <2>4, Saying DEF ForTabs
  <2> QED BY <2>3, <2>4
<1> HIDE DEF a, n
<1>5. NoId <= used.ids
  BY DEF NoId, LogoutInv, StateOK
<1>6. WorkerOK(a, cleared[w], NoId)
  BY <1>1, <1>3, <1>5 DEF WorkerOK
<1>7. /\ att' \in [Workers -> Attempts] /\ cleared' \in [Workers -> BOOLEAN]
      /\ timer' \in [Workers -> Ids \cup {NoId}]
      /\ \A v \in Workers : WorkerOK(att'[v], cleared'[v], timer'[v])
  BY <1>1, <1>2, <1>3, <1>6, OneWorkerChanges
<1>8. toT' \in [Tabs -> [Workers -> Seq(Good(ForTabs))]]
  BY <1>2, <1>4, Posting
<1>9. ini' \in [Tabs -> Initiators] /\ \A u \in Tabs : Same(ini[u], ini'[u])
  BY <1>2, Silent
<1> QED BY <1>2, <1>7, <1>8, <1>9, Silent DEF Coordinated, Outside

LEMMA ReceiveCoordinated ==
    ASSUME LogoutInv, NEW w \in Workers, NEW m \in Good(ForWorkers), Outside, Receive(w, m)
    PROVE  Coordinated
BY ForceCoordinated, SyncCoordinated, RevokedCoordinated, ClearCoordinated, CancelCoordinated
   DEF Receive

LEMMA WorkerReceivesStep ==
    ASSUME LogoutInv, NEW w \in Workers, NEW t \in Tabs, WorkerReceives(w, t)
    PROVE  LogoutInv' /\ Leaving
<1> DEFINE G == Good(ForWorkers)
           m == Head(toW[w][t])
<1>1. toW \in [Workers -> [Tabs -> Seq(G)]]
  BY DEF LogoutInv, MailInv
<1>2. toW[w][t] # <<>> /\ toW' = [toW EXCEPT ![w][t] = Tail(@)] /\ Receive(w, m) /\ Outside
  BY DEF WorkerReceives, Editors, Outside
<1> HIDE DEF G, m
<1>3. m \in G /\ toW' \in [Workers -> [Tabs -> Seq(G)]]
  BY <1>1, <1>2, TakenIn DEF m
<1>4. Coordinated
  BY <1>2, <1>3, ReceiveCoordinated DEF G
<1> QED BY <1>3, <1>4, CoordinatedStep DEF G

LEMMA ExpireStep ==
    ASSUME LogoutInv, NEW w \in Workers, Expire(w)
    PROVE  LogoutInv' /\ Leaving
<1> DEFINE type == IF cleared[w] THEN "complete" ELSE IF att[w].revoked THEN "preserve" ELSE "cancel"
           m == Msg(type, timer[w])
<1>1. timer[w] # NoId /\ Abandoned(timer[w]) /\ Receive(w, m) /\ Outside /\ UNCHANGED toW
  BY DEF Expire, Editors, Outside
<1>2. timer[w] \in Ids /\ WorkerOK(att[w], cleared[w], timer[w])
  BY <1>1, WorkerFacts
<1>3. type \in ForWorkers /\ (type \in {"revoked", "preserve", "complete", "clear", "force"} => ~session)
      /\ type # "force"
  BY <1>2 DEF WorkerOK, ForWorkers
<1>4. \A t \in Tabs : ~Runs(t, timer[w])
  BY <1>1 DEF Abandoned
<1> HIDE DEF type
<1>5. m \in Good(ForWorkers)
  BY <1>2, <1>3, <1>4, Saying DEF WorkerOK
<1>6. Coordinated
  BY <1>1, <1>5, ReceiveCoordinated
<1> QED BY <1>1, <1>6, CoordinatedStep DEF LogoutInv, MailInv

\* A handler ends, and answers the initiator.
LEMMA HandlerEndsOK ==
    ASSUME LogoutInv, NEW w \in Workers, NEW id \in Ids, NEW ok \in BOOLEAN, HandlerEnds(w, id, ok)
    PROVE  /\ ini' \in [Tabs -> Initiators] /\ \A u \in Tabs : Same(ini[u], ini'[u])
           /\ hnd' \in [Workers -> [Ids -> SyncHandlers]]
<1>1. ini' = Reply(ini, "sync", id, w, ok) /\ hnd' = [hnd EXCEPT ![w][id] = NoHandler]
  BY DEF HandlerEnds
<1>2. ini' \in [Tabs -> Initiators] /\ \A u \in Tabs : Same(ini[u], ini'[u])
  BY <1>1, Replied
<1>3. hnd' \in [Workers -> [Ids -> SyncHandlers]]
  BY <1>1, Silent, NoAttemptOK
<1> QED BY <1>2, <1>3

LEMMA ListedStep ==
    ASSUME LogoutInv, NEW w \in Workers, NEW id \in Ids, Listed(w, id)
    PROVE  LogoutInv' /\ Leaving
<1>1. UNCHANGED <<cleared, timer, toW>> /\ Outside
  BY DEF Listed, Editors, Outside
<1>2. CASE att[w].id # id
  <2>1. HandlerEnds(w, id, FALSE) /\ UNCHANGED <<att, toT>>
    BY <1>2 DEF Listed
  <2>2. Coordinated
    BY <1>1, <2>1, HandlerEndsOK, Silent, WorkerFacts DEF Coordinated, Outside, LogoutInv, StateOK
  <2> QED BY <1>1, <2>2, CoordinatedStep DEF LogoutInv, MailInv
<1>3. CASE att[w].id = id
  <2> DEFINE o == att[w]
             a == [o EXCEPT !.clients = Windows]
             h == IF o.preserved THEN NoHandler ELSE [pc |-> "saving", wait |-> Windows]
             n == Msg(IF o.preserved THEN "preserve" ELSE "save", id)
             k == Msg("revoked", id)
             G == Good(ForTabs)
             ms == IF o.revoked /\ ~o.preserved THEN <<n, k>> ELSE <<n>>
  <2>1. /\ att' = [att EXCEPT ![w] = a] /\ hnd' = [hnd EXCEPT ![w][id] = h] /\ UNCHANGED ini
        /\ toT' = PostedAll(w, Windows, ms)
    BY <1>3 DEF Listed
  <2>2. o \in Attempts /\ cleared[w] \in BOOLEAN /\ timer[w] \in Ids \cup {NoId}
        /\ WorkerOK(o, cleared[w], timer[w])
    BY WorkerFacts
  <2>3. Windows \subseteq Tabs
    BY DEF Windows
  <2>4. a \in Attempts /\ a.id = o.id /\ a.revoked = o.revoked /\ a.preserved = o.preserved
    BY <2>2, <2>3 DEF Attempts
  <2>5. h \in SyncHandlers
    BY <2>3, NoAttemptOK DEF SyncHandlers
  <2>6. n \in G /\ (o.revoked => k \in G)
    <3>1. id <= used.ids /\ (o.preserved \/ o.revoked => ~session)
      BY <1>3, <2>2 DEF WorkerOK
    <3>2. CASE o.preserved
      BY <3>1, <3>2, Saying DEF ForTabs
    <3>3. CASE ~o.preserved
      BY <3>1, <3>3, Saying DEF ForTabs
    <3> QED BY <3>2, <3>3
  <2> HIDE DEF a, h, n, k, G
  <2>13. ms \in Seq(G)
    BY <2>6
  <2> HIDE DEF ms
  <2>7. hnd' \in [Workers -> [Ids -> SyncHandlers]]
    BY <2>1, <2>5, Silent
  <2>8. WorkerOK(a, cleared[w], timer[w])
    BY <2>2, <2>4 DEF WorkerOK
  <2>9. /\ att' \in [Workers -> Attempts] /\ cleared' \in [Workers -> BOOLEAN]
        /\ timer' \in [Workers -> Ids \cup {NoId}]
        /\ \A v \in Workers : WorkerOK(att'[v], cleared'[v], timer'[v])
    <3>1. cleared' = [cleared EXCEPT ![w] = cleared[w]] /\ timer' = [timer EXCEPT ![w] = timer[w]]
      BY <1>1, KeepsWorker
    <3> QED BY <2>1, <2>2, <2>4, <2>8, <3>1, OneWorkerChanges
  <2>10. toT' \in [Tabs -> [Workers -> Seq(Good(ForTabs))]]
    BY <2>1, <2>13, PostingAll DEF G
  <2>11. ini' \in [Tabs -> Initiators] /\ \A u \in Tabs : Same(ini[u], ini'[u])
    BY <2>1, Silent
  <2>12. Coordinated
    BY <1>1, <2>7, <2>9, <2>10, <2>11 DEF Coordinated, Outside
  <2> QED BY <1>1, <2>12, CoordinatedStep DEF LogoutInv, MailInv
<1> QED BY <1>2, <1>3

LEMMA SavedStep ==
    ASSUME LogoutInv, NEW w \in Workers, NEW id \in Ids, SavesFail(w, id) \/ Saved(w, id)
    PROVE  LogoutInv' /\ Leaving
<1>1. UNCHANGED <<att, cleared, timer, toT, toW>> /\ Outside
  BY DEF SavesFail, Saved, Editors, Outside
<1>2. /\ ini' \in [Tabs -> Initiators] /\ \A u \in Tabs : Same(ini[u], ini'[u])
      /\ hnd' \in [Workers -> [Ids -> SyncHandlers]]
  <2>1. CASE HandlerEnds(w, id, FALSE)
    BY <2>1, HandlerEndsOK
  <2>2. CASE ~HandlerEnds(w, id, FALSE)
    <3> DEFINE p == IF att[w].preserved THEN "none" ELSE "syncing"
               h == [hnd[w][id] EXCEPT !.pc = p]
    <3>1. hnd' = [hnd EXCEPT ![w][id] = h] /\ UNCHANGED ini
      BY <2>2 DEF SavesFail, Saved
    <3>2. hnd[w][id] \in SyncHandlers /\ p \in {"none", "syncing"}
      BY Silent
    <3> HIDE DEF p
    <3>3. h \in SyncHandlers
      BY <3>2 DEF SyncHandlers
    <3> HIDE DEF h
    <3> QED BY <3>1, <3>3, Silent
  <2> QED BY <2>1, <2>2
<1>3. Coordinated
  BY <1>1, <1>2, Silent, WorkerFacts DEF Coordinated, Outside, LogoutInv, StateOK
<1> QED BY <1>1, <1>3, CoordinatedStep DEF LogoutInv, MailInv

LEMMA SynchronizedStep ==
    ASSUME LogoutInv, NEW w \in Workers, NEW id \in Ids, Synchronized(w, id)
    PROVE  LogoutInv' /\ Leaving
<1> DEFINE a == [att[w] EXCEPT !.ready = TRUE]
<1>1. UNCHANGED <<cleared, timer, toT, toW>> /\ Outside /\ \E ok \in BOOLEAN : HandlerEnds(w, id, ok)
  BY DEF Synchronized, Editors, Outside
<1>2. /\ ini' \in [Tabs -> Initiators] /\ \A u \in Tabs : Same(ini[u], ini'[u])
      /\ hnd' \in [Workers -> [Ids -> SyncHandlers]]
  BY <1>1, HandlerEndsOK
<1>3. att[w] \in Attempts /\ WorkerOK(att[w], cleared[w], timer[w])
      /\ cleared[w] \in BOOLEAN /\ timer[w] \in Ids \cup {NoId}
  BY WorkerFacts
<1>4. a \in Attempts /\ a.id = att[w].id /\ a.revoked = att[w].revoked /\ a.preserved = att[w].preserved
  BY <1>3 DEF Attempts
<1>5. \E b \in {a, att[w]} : att' = [att EXCEPT ![w] = b]
  BY KeepsWorker DEF Synchronized
<1> HIDE DEF a
<1>6. PICK b \in {a, att[w]} : att' = [att EXCEPT ![w] = b]
  BY <1>5
<1>7. b \in Attempts /\ WorkerOK(b, cleared[w], timer[w])
  BY <1>3, <1>4 DEF WorkerOK
<1>8. /\ att' \in [Workers -> Attempts] /\ cleared' \in [Workers -> BOOLEAN]
      /\ timer' \in [Workers -> Ids \cup {NoId}]
      /\ \A v \in Workers : WorkerOK(att'[v], cleared'[v], timer'[v])
  <2>1. cleared' = [cleared EXCEPT ![w] = cleared[w]] /\ timer' = [timer EXCEPT ![w] = timer[w]]
    BY <1>1, KeepsWorker
  <2> QED BY <1>3, <1>6, <1>7, <2>1, OneWorkerChanges
<1>9. Coordinated
  BY <1>1, <1>2, <1>8, Silent DEF Coordinated, Outside
<1> QED BY <1>1, <1>9, CoordinatedStep DEF LogoutInv, MailInv

-----------------------------------------------------------------------------
(* The steps of an initiator.                                              *)

LEMMA SayingNext ==
    ASSUME NEW type, NEW id \in Ids, NEW types, type \in types, id <= used'.ids,
           type \in {"revoked", "preserve", "complete", "clear", "force"} => ~session',
           type = "force" => forced',
           type = "cancel" => \A t \in Tabs : ~(ini'[t].pc # "idle" /\ ini'[t].id = id)
    PROVE  Msg(type, id) \in Good(types)'
<1> DEFINE m == Msg(type, id)
<1>1. m \in Messages(types) /\ m.type = type /\ m.id = id
  BY DEF Msg, Messages
<1> HIDE DEF m
<1>2. MsgOK(m)'
  BY <1>1 DEF MsgOK, Runs
<1>3. m \in Good(types)'
  BY <1>1, <1>2 DEF Good
<1> QED BY <1>3 DEF m

LEMMA SentCloses ==
    ASSUME LogoutInv, StateOK', WorkerInv', PairInv', OwnInv', Onward, NEW t \in Tabs, NEW ws,
           NEW ms \in Seq(Good(ForWorkers)'), UNCHANGED toW \/ toW' = Sent(t, ws, ms), UNCHANGED toT,
           air' \in [Tabs -> SUBSET (Good(ForAll)')] \/ UNCHANGED air
    PROVE  LogoutInv'
<1> DEFINE G == Good(ForWorkers)'
<1>1. /\ toW \in [Workers -> [Tabs -> Seq(G)]]
      /\ toT \in [Tabs -> [Workers -> Seq(Good(ForTabs)')]]
      /\ air \in [Tabs -> SUBSET (Good(ForAll)')]
  BY MailGrows DEF LogoutInv
<1> HIDE DEF G
<1>2. Sent(t, ws, ms) \in [Workers -> [Tabs -> Seq(G)]]
  BY <1>1, SentIn DEF G
<1>3. toW' \in [Workers -> [Tabs -> Seq(G)]]
  BY <1>1, <1>2
<1>4. toT' \in [Tabs -> [Workers -> Seq(Good(ForTabs)')]]
  BY <1>1
<1>5. air' \in [Tabs -> SUBSET (Good(ForAll)')]
  BY <1>1
<1>6. MailInv'
  BY <1>3, <1>4, <1>5 DEF MailInv, G
<1> QED BY <1>6 DEF LogoutInv

LEMMA FollowsLess ==
    ASSUME NEW r, NEW q, NEW a, NEW s, NEW z, NEW f, NEW n, Follows(r, q, a, s, f, n), z => s
    PROVE  Follows(r, q, a, z, f, n)
BY DEF Follows, Editor, Runner

\* The initiator of t becomes b, and its record q.
LEMMA InitiatorCloses ==
    ASSUME LogoutInv, NEW t \in Tabs, NEW b \in Initiators, NEW q, Steady,
           ini' = [ini EXCEPT ![t] = b], tab' = [tab EXCEPT ![t] = q],
           b.pc # "idle" => (ini[t].pc # "idle" /\ b.id = ini[t].id),
           Follows(tab[t], q, b, session', forced, used.ids),
           session' \in BOOLEAN, state' \in [id : Ids \cup {NoId}, revoked : BOOLEAN],
           state'.revoked => (state.revoked \/ ~session'),
           UNCHANGED <<att, hnd, cleared, timer, unsynced, forced, used>>
    PROVE  StateOK' /\ WorkerInv' /\ PairInv' /\ OwnInv' /\ Onward /\ Leaving
<1>1. ini \in [Tabs -> Initiators]
  BY DEF LogoutInv, StateOK
<1>2. ini' \in [Tabs -> Initiators] /\ ini'[t] = b /\ \A u \in Tabs \ {t} : Same(ini[u], ini'[u])
  BY <1>1 DEF Same
<1>3. tab' \in [Tabs -> TabRecords] /\ \A u \in Tabs : Fits(u)
  BY <1>2, OneTabFits DEF LogoutInv
<1>4. StateOK'
  BY <1>2, <1>3 DEF LogoutInv, StateOK
<1>5. WorkerInv'
  BY WorkersStay
<1> QED BY <1>3, <1>4, <1>5, FitsStep DEF LogoutInv

LEMMA InitiatorFacts ==
    ASSUME LogoutInv, NEW t \in Tabs
    PROVE  /\ ini[t] \in Initiators /\ tab[t] \in TabRecords /\ used.ids \in Nat
           /\ state \in [id : Ids \cup {NoId}, revoked : BOOLEAN] /\ session \in BOOLEAN
           /\ (state.revoked => ~session)
           /\ Editor(tab[t], session) /\ Runner(ini[t], tab[t], session, forced, used.ids)
           /\ ini = [ini EXCEPT ![t] = ini[t]] /\ tab = [tab EXCEPT ![t] = tab[t]]
BY DEF LogoutInv, StateOK, WorkerInv, PairInv

\* It goes on with the next request, b, and may tell the workers.
LEMMA GoesOnStep ==
    ASSUME LogoutInv, NEW t \in Tabs, NEW b \in Initiators, NEW ws,
           ini' = [ini EXCEPT ![t] = b], b.pc # "idle" => ini[t].pc # "idle", b.id = ini[t].id,
           Runner(b, tab[t], session, forced, used.ids),
           UNCHANGED toW \/ (ini[t].pc # "idle" /\ toW' = Sent(t, ws, <<Msg("sync", ini[t].id)>>)),
           UNCHANGED <<tab, att, hnd, cleared, timer, toT, air, unsynced, session, state, forced, used>>
    PROVE  LogoutInv' /\ Leaving
<1>1. /\ ini[t] \in Initiators /\ tab[t] \in TabRecords
      /\ Editor(tab[t], session) /\ Runner(ini[t], tab[t], session, forced, used.ids)
      /\ state \in [id : Ids \cup {NoId}, revoked : BOOLEAN] /\ session \in BOOLEAN
      /\ tab' = [tab EXCEPT ![t] = tab[t]]
  BY InitiatorFacts
<1>2. Follows(tab[t], tab[t], b, session', forced, used.ids)
  BY <1>1 DEF Follows
<1>3. Steady
  BY DEF Steady
<1>4. StateOK' /\ WorkerInv' /\ PairInv' /\ OwnInv' /\ Onward /\ Leaving
  BY <1>1, <1>2, <1>3, InitiatorCloses
<1>5. CASE ini[t].pc # "idle"
  <2>1. ini[t].id \in Ids /\ ini[t].id <= used'.ids
    BY <1>1, <1>5 DEF Runner
  <2>2. Msg("sync", ini[t].id) \in Good(ForWorkers)'
    BY <2>1, SayingNext DEF ForWorkers
  <2> DEFINE ms == <<Msg("sync", ini[t].id)>>
  <2>3. ms \in Seq(Good(ForWorkers)')
    BY <2>2
  <2>4. UNCHANGED toW \/ toW' = Sent(t, ws, ms)
    OBVIOUS
  <2> HIDE DEF ms
  <2> QED BY <1>4, <2>3, <2>4, SentCloses
<1>6. CASE ini[t].pc = "idle"
  <2>1. <<>> \in Seq(Good(ForWorkers)')
    OBVIOUS
  <2> QED BY <1>4, <1>6, <2>1, SentCloses
<1> QED BY <1>5, <1>6

LEMMA TimeOutStep ==
    ASSUME LogoutInv, NEW t \in Tabs, TimeOut(t)
    PROVE  LogoutInv' /\ Leaving
<1> DEFINE a == ini[t]
           b == [a EXCEPT !.wait = {}, !.bad = TRUE]
<1>1. /\ ini' = [ini EXCEPT ![t] = b]
      /\ UNCHANGED <<tab, att, hnd, cleared, timer, toW, toT, air, unsynced, session, state, forced, used>>
  BY DEF TimeOut, Editors
<1>2. a \in Initiators /\ Runner(a, tab[t], session, forced, used.ids)
  BY InitiatorFacts
<1>3. b \in Initiators /\ b.pc = a.pc /\ b.id = a.id /\ b.force = a.force /\ b.bad = TRUE
  BY <1>2 DEF Initiators
<1> HIDE DEF b
<1>4. Runner(b, tab[t], session, forced, used.ids)
  BY <1>2, <1>3 DEF Runner
<1> QED BY <1>1, <1>3, <1>4, GoesOnStep

\* The catch block: whatever becomes of the session, the editor is let go.
LEMMA FailStep ==
    ASSUME LogoutInv, NEW t \in Tabs, Fail(t), ini[t].pc # "idle", session' \in {session, FALSE},
           UNCHANGED <<att, hnd, cleared, timer, toT, air, unsynced, forced, used>>
    PROVE  LogoutInv' /\ Leaving
<1> DEFINE a == ini[t]
           m == Msg("cancel", a.id)
           q == Handled(tab[t], t, m)
           ms == <<m>>
<1>1. /\ toW' = Sent(t, a.ws, ms) /\ tab' = [tab EXCEPT ![t] = q] /\ ini' = [ini EXCEPT ![t] = Idle]
      /\ state' = IF state.id = a.id THEN NoState ELSE state
  BY DEF Fail
<1>2. /\ a \in Initiators /\ tab[t] \in TabRecords /\ used.ids \in Nat
      /\ state \in [id : Ids \cup {NoId}, revoked : BOOLEAN] /\ session \in BOOLEAN
      /\ Runner(a, tab[t], session, forced, used.ids)
  BY InitiatorFacts
<1>3. a.id \in Ids /\ a.id <= used.ids /\ tab[t].page = "open"
  BY <1>2 DEF Runner
<1>4. state' \in [id : Ids \cup {NoId}, revoked : BOOLEAN] /\ (state'.revoked => state.revoked)
  BY <1>1, <1>2, NoStateOK
<1>5. m.type = "cancel" /\ m.id = a.id
  BY DEF Msg
<1> HIDE DEF m
<1>6. q = tab[t] \/ q = Cancel(tab[t])
  BY <1>5, HandledCases
<1>7. Hears(tab[t], t, session, forced, used.ids)
  BY <1>3, IsHeard
<1>8. Runner(Idle, tab[t], session, forced, used.ids)
  BY IdleOK DEF Runner
<1>9. Follows(tab[t], q, Idle, session, forced, used.ids)
  <2>1. CASE q = tab[t]
    BY <1>7, <1>8, <2>1 DEF Follows, Hears
  <2>2. CASE q = Cancel(tab[t])
    BY <1>7, <1>8, <2>2, IdleOK, CancelFollows
  <2> QED BY <1>6, <2>1, <2>2
<1> HIDE DEF q
<1>10. Follows(tab[t], q, Idle, session', forced, used.ids)
  BY <1>9, FollowsLess
<1>11. Steady /\ session' \in BOOLEAN
  <2>1. session' = session \/ session' = FALSE
    OBVIOUS
  <2>2. session' => session
    BY <2>1, Zenon
  <2>3. session' \in BOOLEAN
    BY <1>2, <2>1, Zenon
  <2> QED BY <2>2, <2>3 DEF Steady
<1>12. StateOK' /\ WorkerInv' /\ PairInv' /\ OwnInv' /\ Onward /\ Leaving
  BY <1>1, <1>4, <1>10, <1>11, IdleOK, InitiatorCloses
<1>13. ASSUME NEW u \in Tabs PROVE ~(ini'[u].pc # "idle" /\ ini'[u].id = a.id)
  <2>1. CASE u = t
    BY <1>1, <2>1, IdleOK DEF LogoutInv, StateOK
  <2>2. CASE u # t
    <3>1. ini'[u] = ini[u]
      BY <1>1, <2>2 DEF LogoutInv, StateOK
    <3> QED BY <2>2, <3>1 DEF LogoutInv, OwnInv
  <2> QED BY <2>1, <2>2
<1>14. m \in Good(ForWorkers)'
  BY <1>3, <1>13, SayingNext DEF ForWorkers, m
<1>15. ms \in Seq(Good(ForWorkers)')
  BY <1>14
<1> HIDE DEF ms
<1> QED BY <1>1, <1>12, <1>15, SentCloses

LEMMA OwnSaveStep ==
    ASSUME LogoutInv, NEW t \in Tabs, OwnSave(t) \/ Synced(t)
    PROVE  LogoutInv' /\ Leaving
<1> DEFINE a == ini[t]
<1>1. a.pc # "idle" /\ UNCHANGED <<att, hnd, cleared, timer, toT, air, unsynced, session, forced, used>>
  BY DEF OwnSave, Synced
<1>2. CASE Fail(t)
  BY <1>1, <1>2, FailStep
<1>3. CASE ~Fail(t)
  <2>1. PICK p \in {"prepare", "fetch"} : ini' = [ini EXCEPT ![t] = [a EXCEPT !.pc = p]]
    BY <1>3 DEF OwnSave, Synced
  <2>2. UNCHANGED <<toW, state, tab>> /\ a.wait = {} /\ ~a.bad
    BY <1>3 DEF OwnSave, Synced
  <2> DEFINE b == [a EXCEPT !.pc = p]
  <2>3. a \in Initiators /\ Runner(a, tab[t], session, forced, used.ids)
    BY InitiatorFacts
  <2>4. b \in Initiators /\ b.pc = p /\ b.id = a.id /\ b.force = a.force
    BY <2>3 DEF Initiators
  <2>5. ini' = [ini EXCEPT ![t] = b]
    BY <2>1
  <2> HIDE DEF b
  <2>6. Runner(b, tab[t], session, forced, used.ids)
    BY <1>1, <2>2, <2>3, <2>4 DEF Runner
  <2> QED BY <1>1, <2>2, <2>4, <2>5, <2>6, GoesOnStep
<1> QED BY <1>2, <1>3

LEMMA PrepareStep ==
    ASSUME LogoutInv, NEW t \in Tabs, Prepare(t)
    PROVE  LogoutInv' /\ Leaving
<1> DEFINE a == ini[t]
           ws == {w \in Workers : ~cleared[w]}
           x == ws = {} /\ \E u \in Tabs \ {t} : tab[u].page = "open"
<1>1. a.pc = "prepare" /\ UNCHANGED <<att, hnd, cleared, timer, toT, air, unsynced, session, forced, used>>
  BY DEF Prepare
<1>2. a \in Initiators /\ Runner(a, tab[t], session, forced, used.ids)
  BY InitiatorFacts
<1>3. x \in BOOLEAN /\ ws \subseteq Workers
  BY Zenon
<1>4. CASE Fail(t)
  BY <1>1, <1>4, FailStep
<1>5. CASE ~Fail(t)
  <2> DEFINE b == [a EXCEPT !.pc = "sync", !.ws = ws, !.wait = ws, !.bad = x]
             c == [a EXCEPT !.pc = "fetch", !.ws = ws]
  <2>1. \/ ini' = [ini EXCEPT ![t] = b] /\ toW' = Sent(t, ws, <<Msg("sync", a.id)>>) /\ UNCHANGED <<tab, state>>
        \/ ini' = [ini EXCEPT ![t] = c] /\ UNCHANGED <<toW, tab, state>>
    BY <1>5, Zenon DEF Prepare
  <2> HIDE DEF x, ws
  <2>2. b \in Initiators /\ b.pc = "sync" /\ b.id = a.id /\ b.force = a.force
    BY <1>2, <1>3 DEF Initiators
  <2>3. c \in Initiators /\ c.pc = "fetch" /\ c.id = a.id /\ c.force = a.force
    BY <1>2, <1>3 DEF Initiators
  <2> HIDE DEF b, c
  <2>4. Runner(b, tab[t], session, forced, used.ids) /\ Runner(c, tab[t], session, forced, used.ids)
    BY <1>1, <1>2, <2>2, <2>3 DEF Runner
  <2>5. CASE ini' = [ini EXCEPT ![t] = b] /\ toW' = Sent(t, ws, <<Msg("sync", a.id)>>) /\ UNCHANGED <<tab, state>>
    BY <1>1, <2>2, <2>4, <2>5, GoesOnStep
  <2>6. CASE ini' = [ini EXCEPT ![t] = c] /\ UNCHANGED <<toW, tab, state>>
    BY <1>1, <2>3, <2>4, <2>6, GoesOnStep
  <2> QED BY <2>1, <2>5, <2>6
<1> QED BY <1>4, <1>5

LEMMA FetchFailsStep ==
    ASSUME LogoutInv, NEW t \in Tabs, FetchFails(t)
    PROVE  LogoutInv' /\ Leaving
<1>1. /\ ini[t].pc # "idle" /\ session' \in {session, FALSE} /\ Fail(t)
      /\ UNCHANGED <<att, hnd, cleared, timer, toT, air, unsynced, forced, used>>
  BY DEF FetchFails
<1> QED BY <1>1, FailStep

LEMMA RevokedStep ==
    ASSUME LogoutInv, NEW t \in Tabs, Revoked(t)
    PROVE  LogoutInv' /\ Leaving
<1> DEFINE a == ini[t]
           q == Revoke(tab[t])
           b == [a EXCEPT !.pc = "clear", !.wait = a.ws, !.bad = FALSE]
           m == Msg("revoked", a.id)
           n == Msg(IF a.force THEN "force" ELSE "clear", a.id)
           ms == <<m, n>>
<1>1. /\ a.pc = "fetch" /\ session' = FALSE /\ state' = [id |-> a.id, revoked |-> TRUE]
      /\ tab' = [tab EXCEPT ![t] = q] /\ toW' = Sent(t, a.ws, ms) /\ ini' = [ini EXCEPT ![t] = b]
      /\ UNCHANGED <<att, hnd, cleared, timer, toT, air, unsynced, forced, used>>
  BY DEF Revoked
<1>2. /\ a \in Initiators /\ tab[t] \in TabRecords /\ Runner(a, tab[t], session, forced, used.ids)
  BY InitiatorFacts
<1>3. a.id \in Ids /\ a.id <= used.ids /\ tab[t].page = "open" /\ (a.force => forced)
  BY <1>1, <1>2 DEF Runner
<1>4. Hears(tab[t], t, session, forced, used.ids)
  BY <1>3, IsHeard
<1>5. Hears(tab[t], t, FALSE, forced, used.ids)
  BY <1>4 DEF Hears, Editor, Runner
<1>6. Follows(tab[t], q, a, FALSE, forced, used.ids)
  BY <1>5, RevokeFollows
<1>7. b \in Initiators /\ b.pc = "clear" /\ b.id = a.id /\ b.force = a.force
  BY <1>2 DEF Initiators
<1> HIDE DEF b, q
<1>8. Runner(b, q, FALSE, forced, used.ids)
  BY <1>1, <1>6, <1>7 DEF Follows, Runner
<1>9. Follows(tab[t], q, b, session', forced, used.ids)
  BY <1>1, <1>6, <1>8 DEF Follows
<1>10. Steady /\ session' \in BOOLEAN
  BY <1>1 DEF Steady
<1>11. state' \in [id : Ids \cup {NoId}, revoked : BOOLEAN]
  BY <1>1, <1>3
<1>12. StateOK' /\ WorkerInv' /\ PairInv' /\ OwnInv' /\ Onward /\ Leaving
  BY <1>1, <1>7, <1>9, <1>10, <1>11, InitiatorCloses
<1>13. m \in Good(ForWorkers)'
  BY <1>1, <1>3, SayingNext DEF ForWorkers
<1>14. n \in Good(ForWorkers)'
  <2>1. CASE a.force
    BY <1>1, <1>3, <2>1, SayingNext DEF ForWorkers
  <2>2. CASE ~a.force
    BY <1>1, <1>3, <2>2, SayingNext DEF ForWorkers
  <2> QED BY <2>1, <2>2
<1> HIDE DEF m, n
<1>15. ms \in Seq(Good(ForWorkers)')
  BY <1>13, <1>14
<1> HIDE DEF ms
<1> QED BY <1>1, <1>12, <1>15, SentCloses

\* The initiator leaves, having saved its own editor or forced the logout.
LEMMA OutFollows ==
    ASSUME LogoutInv, NEW t \in Tabs, ini[t].pc \in {"fetch", "clear"}
    PROVE  LET q == [tab[t] EXCEPT !.page = "out", !.known = state.revoked]
           IN  Follows(tab[t], q, Idle, session, forced, used.ids)
<1> DEFINE r == tab[t]
           a == ini[t]
           q == [r EXCEPT !.page = "out", !.known = state.revoked]
<1>1. /\ r \in TabRecords /\ state \in [id : Ids \cup {NoId}, revoked : BOOLEAN]
      /\ (state.revoked => ~session) /\ Editor(r, session) /\ Runner(a, r, session, forced, used.ids)
  BY InitiatorFacts
<1>2. q \in TabRecords
  BY <1>1 DEF TabRecords
<1>3. /\ q.page = "out" /\ q.known = state.revoked /\ q.revoked = r.revoked /\ q.preserved = r.preserved
      /\ q.pend = r.pend /\ q.dirty = r.dirty
  BY <1>1 DEF TabRecords
<1> HIDE DEF q
<1>4. LateEdits \/ forced \/ ~q.dirty
  BY <1>1, <1>3 DEF Runner
<1>5. Editor(q, session)
  BY <1>1, <1>3 DEF Editor
<1>6. Runner(Idle, q, session, forced, used.ids)
  BY IdleOK DEF Runner
<1>7. Follows(r, q, Idle, session, forced, used.ids)
  BY <1>2, <1>3, <1>4, <1>5, <1>6 DEF Follows
<1> QED BY <1>7 DEF q

LEMMA RevokedUnrecordedStep ==
    ASSUME LogoutInv, NEW t \in Tabs, RevokedUnrecorded(t)
    PROVE  LogoutInv' /\ Leaving
<1> DEFINE a == ini[t]
           q == [tab[t] EXCEPT !.page = "out", !.known = state.revoked]
           m == Msg("preserve", a.id)
           ms == <<m>>
<1>1. /\ a.pc = "fetch" /\ session' = FALSE /\ toW' = Sent(t, a.ws, ms)
      /\ tab' = [tab EXCEPT ![t] = q] /\ ini' = [ini EXCEPT ![t] = Idle]
      /\ UNCHANGED <<att, hnd, cleared, timer, toT, air, unsynced, state, forced, used>>
  BY DEF RevokedUnrecorded
<1>2. a.id \in Ids /\ a.id <= used.ids
  BY <1>1, InitiatorFacts DEF Runner
<1>3. Follows(tab[t], q, Idle, session, forced, used.ids)
  BY <1>1, OutFollows
<1> HIDE DEF q
<1>4. Follows(tab[t], q, Idle, session', forced, used.ids)
  BY <1>1, <1>3, FollowsLess
<1>5. Steady /\ session' \in BOOLEAN
  BY <1>1 DEF Steady
<1>6. StateOK' /\ WorkerInv' /\ PairInv' /\ OwnInv' /\ Onward /\ Leaving
  BY <1>1, <1>4, <1>5, IdleOK, InitiatorFacts, InitiatorCloses
<1>7. m \in Good(ForWorkers)'
  BY <1>1, <1>2, SayingNext DEF ForWorkers
<1> HIDE DEF m
<1>8. ms \in Seq(Good(ForWorkers)')
  BY <1>7
<1> HIDE DEF ms
<1> QED BY <1>1, <1>6, <1>8, SentCloses

LEMMA AwayStep ==
    ASSUME LogoutInv, NEW t \in Tabs, Away(t)
    PROVE  LogoutInv' /\ Leaving
<1> DEFINE a == ini[t]
           q == [tab[t] EXCEPT !.page = "out", !.known = state.revoked]
           m == Msg("complete", a.id)
           n == Msg(IF a.force THEN "force" ELSE "complete", a.id)
           ms == <<m>>
<1>1. /\ a.pc = "clear" /\ toW' = Sent(t, a.ws, ms)
      /\ air' = [u \in Tabs |-> IF u # t /\ tab[u].page = "open" THEN air[u] \cup {n} ELSE air[u]]
      /\ tab' = [tab EXCEPT ![t] = q] /\ ini' = [ini EXCEPT ![t] = Idle]
      /\ UNCHANGED <<att, hnd, cleared, timer, toT, unsynced, session, state, forced, used>>
  BY DEF Away
<1>2. a.id \in Ids /\ a.id <= used.ids /\ ~session /\ (a.force => forced)
  BY <1>1, InitiatorFacts DEF Runner
<1>3. Follows(tab[t], q, Idle, session', forced, used.ids)
  BY <1>1, OutFollows
<1> HIDE DEF q
<1>4. Steady
  BY <1>1 DEF Steady
<1>5. StateOK' /\ WorkerInv' /\ PairInv' /\ OwnInv' /\ Onward /\ Leaving
  BY <1>1, <1>3, <1>4, IdleOK, InitiatorFacts, InitiatorCloses
<1>6. m \in Good(ForWorkers)'
  BY <1>1, <1>2, SayingNext DEF ForWorkers
<1>7. n \in Good(ForAll)'
  <2>1. CASE a.force
    BY <1>1, <1>2, <2>1, SayingNext DEF ForAll
  <2>2. CASE ~a.force
    BY <1>1, <1>2, <2>2, SayingNext DEF ForAll
  <2> QED BY <2>1, <2>2
<1> HIDE DEF m, n
<1>8. ms \in Seq(Good(ForWorkers)')
  BY <1>6
<1>9. air \in [Tabs -> SUBSET (Good(ForAll)')]
  BY <1>5, MailGrows DEF LogoutInv
<1>10. air' \in [Tabs -> SUBSET (Good(ForAll)')]
  BY <1>1, <1>7, <1>9
<1> HIDE DEF ms
<1> QED BY <1>1, <1>5, <1>8, <1>10, SentCloses

\* A new attempt: its number is larger than any that is still talked about.
LEMMA StartStep ==
    ASSUME LogoutInv, NEW t \in Tabs, NEW force \in Forces, Start(t, force)
    PROVE  LogoutInv' /\ Leaving
<1> DEFINE id == used.ids + 1
           r == tab[t]
           q == IF force THEN r ELSE Asked(r, id, Self)
           p == IF force THEN "prepare" ELSE "save"
           v == IF force THEN {} ELSE {Self}
           b == [Idle EXCEPT !.pc = p, !.id = id, !.force = force, !.wait = v]
<1>1. /\ r.page = "open" /\ ini[t] = Idle /\ ~r.revoked /\ r.att = NoId /\ used.ids < MaxAttempts
      /\ used' = [used EXCEPT !.ids = id] /\ forced' = (forced \/ force)
      /\ state' = [id |-> id, revoked |-> FALSE] /\ ini' = [ini EXCEPT ![t] = b]
      /\ tab' = IF force THEN tab ELSE [tab EXCEPT ![t] = Asked(r, id, Self)]
      /\ UNCHANGED <<att, hnd, cleared, timer, toW, toT, air, unsynced, session>>
  BY DEF Start
<1>2. /\ r \in TabRecords /\ used.ids \in Nat /\ session \in BOOLEAN /\ Editor(r, session)
      /\ tab = [tab EXCEPT ![t] = r]
  BY InitiatorFacts
<1>3. tab' = [tab EXCEPT ![t] = q]
  BY <1>1, <1>2
<1>4. id \in Ids /\ force \in BOOLEAN
  BY <1>1, <1>2, LogoutAssumption DEF Ids
<1>5. forced' \in BOOLEAN /\ (forced => forced') /\ (force => forced')
  BY <1>1, Zenon
<1>6. used' \in [ids : Nat, closed : Nat, restarts : Nat] /\ used'.ids = id
  BY <1>1, <1>2 DEF LogoutInv, StateOK
<1>7. p \in {"prepare", "save"} /\ v \subseteq {Self} /\ (p = "save" => ~force /\ v = {Self})
      /\ (~force => p = "save")
  BY <1>4
<1> HIDE DEF p, v
<1>8. b \in Initiators /\ b.pc = p /\ b.id = id /\ b.force = force /\ b.wait = v
  BY <1>4, <1>7 DEF Idle, Initiators
<1>9. q \in TabRecords
  BY <1>2, <1>4, AskedType
<1>10. q.page = "open" /\ (\A i \in Ids : q.pend[i] \subseteq r.pend[i] \/ (i = id /\ q.pend[i] \subseteq r.pend[i] \cup {Self}))
       /\ Editor(q, session) /\ (~force /\ session => q.att = id)
  <2>1. CASE q = r
    <3>1. ~force => Refuses(r, id) \/ r.att = id
      BY <2>1, <1>1, <1>2, <1>4, IdFacts DEF Asked, Freeze, TabRecords
    <3>2. ~force => ~session
      BY <1>1, <1>2, <1>4, <3>1, IdFacts DEF Refuses, Editor
    <3> QED BY <1>1, <1>2, <2>1, <3>2
  <2>2. CASE q # r
    <3> DEFINE k == [Freeze(r, TRUE) EXCEPT !.att = id, !.save[id] = "saving", !.pend[id] = @ \cup {Self}]
    <3>1. q = k
      BY <1>1, <2>2 DEF Asked
    <3>2. /\ k.page = r.page /\ k.frozen = TRUE /\ k.att = id
          /\ k.revoked = r.revoked /\ k.preserved = r.preserved /\ k.known = r.known
      BY <1>2 DEF Freeze, TabRecords
    <3>3. k.save[id] = "saving"
      BY <1>2, <1>4 DEF Freeze, TabRecords
    <3>4. Freeze(r, TRUE).pend = r.pend /\ r.pend \in [Ids -> SUBSET (Workers \cup {Self, Done})]
      BY <1>2 DEF Freeze, TabRecords
    <3>5. k.pend = [r.pend EXCEPT ![id] = @ \cup {Self}]
      BY <1>2, <3>4 DEF Freeze, TabRecords
    <3> HIDE DEF k, q
    <3>6. \A i \in Ids : k.pend[i] = IF i = id THEN r.pend[i] \cup {Self} ELSE r.pend[i]
      BY <3>4, <3>5
    <3>7. \A i \in Ids : Done \in k.pend[i] => Done \in r.pend[i]
      BY <3>6, LogoutAssumption
    <3>8. Editor(k, session)
      BY <1>1, <1>2, <3>2, <3>3, <3>7 DEF Editor
    <3> QED BY <1>1, <3>1, <3>2, <3>6, <3>8
  <2> QED BY <2>1, <2>2
<1> HIDE DEF q, b
<1>11. Runner(b, q, session, forced', id)
  BY <1>2, <1>4, <1>5, <1>7, <1>8, <1>10 DEF Runner
<1>12. /\ tab \in [Tabs -> TabRecords] /\ ini \in [Tabs -> Initiators]
  BY DEF LogoutInv, StateOK
<1>13. /\ tab' \in [Tabs -> TabRecords] /\ ini' \in [Tabs -> Initiators] /\ tab'[t] = q /\ ini'[t] = b
       /\ \A u \in Tabs \ {t} : tab'[u] = tab[u] /\ ini'[u] = ini[u]
  BY <1>1, <1>3, <1>8, <1>9, <1>12
<1>14. StateOK'
  <2>1. state' \in [id : Ids \cup {NoId}, revoked : BOOLEAN]
    BY <1>1, <1>4
  <2> QED BY <1>1, <1>5, <1>6, <1>13, <2>1 DEF LogoutInv, StateOK
<1>15. \A u \in Tabs : Editor(tab[u], session) /\ Runner(ini[u], tab[u], session, forced, used.ids)
  BY DEF LogoutInv, PairInv
<1>16. \A u \in Tabs : ini[u].pc # "idle" => (ini[u].id \in Ids /\ ini[u].id <= used.ids)
  BY <1>15 DEF Runner
<1>17. PairInv'
  <2> SUFFICES ASSUME NEW u \in Tabs
               PROVE  Editor(tab'[u], session) /\ Runner(ini'[u], tab'[u], session, forced', id)
    BY <1>1, <1>6 DEF PairInv
  <2>1. CASE u = t
    BY <1>10, <1>11, <1>13, <2>1
  <2>2. CASE u # t
    <3>1. ini[u].pc # "idle" => ini[u].id <= id
      BY <1>2, <1>16, IdFacts
    <3> QED BY <1>5, <1>13, <1>15, <2>2, <3>1 DEF Runner
  <2> QED BY <2>1, <2>2
<1>18. Onward
  <2>1. \A u \in Tabs : (ini'[u].pc # "idle" /\ ini'[u].id <= used.ids) => Runs(u, ini'[u].id)
    BY <1>2, <1>8, <1>13 DEF Runs
  <2> QED BY <1>1, <1>2, <1>5, <1>6, <2>1 DEF Onward
<1>19. \A u \in Tabs : (ini'[u].pc # "idle" /\ ini'[u].id = id) => u = t
  BY <1>2, <1>13, <1>16
<1>20. OwnInv'
  <2>1. \A u, x \in Tabs : (ini'[u].pc # "idle" /\ ini'[x].pc # "idle" /\ ini'[u].id = ini'[x].id) => u = x
    BY <1>8, <1>13, <1>19 DEF LogoutInv, OwnInv
  <2>2. ASSUME NEW u \in Tabs, NEW i \in Ids, Self \in tab'[u].pend[i]
        PROVE  i <= id /\ \A x \in Tabs : (ini'[x].pc # "idle" /\ ini'[x].id = i) => x = u
    <3>1. CASE i = id /\ u = t
      BY <1>2, <1>19, <3>1
    <3>2. CASE Self \in tab[u].pend[i]
      <4>1. i <= used.ids /\ \A x \in Tabs : Runs(x, i) => x = u
        BY <3>2 DEF LogoutInv, OwnInv
      <4>2. i # id /\ i <= id
        BY <1>2, <4>1, IdFacts
      <4> QED BY <1>8, <1>13, <4>1, <4>2 DEF Runs
    <3> QED BY <1>10, <1>13, <2>2, <3>1, <3>2
  <2> QED BY <1>6, <2>1, <2>2 DEF OwnInv, Runs
<1>21. Leaving
  BY <1>10, <1>13 DEF Leaving
<1>22. WorkerInv'
  <2>1. \A w \in Workers : att[w].id \in Nat /\ timer[w] \in Nat
    BY IdFacts DEF LogoutInv, StateOK, Attempts
  <2> QED BY <1>1, <1>2, <1>6, <2>1 DEF LogoutInv, WorkerInv
<1>23. MailInv'
  BY <1>1, <1>14, <1>18, MailStays
<1> QED BY <1>14, <1>17, <1>20, <1>21, <1>22, <1>23 DEF LogoutInv

-----------------------------------------------------------------------------
(* The theorems.                                                           *)

LEMMA InitInv ==
    ASSUME Init
    PROVE  LogoutInv
<1>1. \A x \in {"open", "new"} :
         /\ NewTab(x) \in TabRecords /\ NewTab(x).page = x /\ NewTab(x).att = NoId
         /\ NewTab(x).revoked = FALSE /\ NewTab(x).preserved = FALSE /\ NewTab(x).known = FALSE
         /\ \A i \in Ids : NewTab(x).pend[i] = {}
  BY DEF NewTab, TabRecords
<1>2. \A t \in Tabs : \E x \in {"open", "new"} : tab[t] = NewTab(x)
  BY DEF Init
<1>3. \A t \in Tabs : tab[t] \in TabRecords /\ Editor(tab[t], session) /\ \A i \in Ids : tab[t].pend[i] = {}
  BY <1>1, <1>2 DEF Editor
<1>4. \A t \in Tabs : ini[t] = Idle
  BY DEF Init
<1>5. \A t \in Tabs : Runner(ini[t], tab[t], session, forced, used.ids)
  BY <1>4, IdleOK DEF Runner
<1>6. StateOK
  <2>1. tab = [t \in Tabs |-> tab[t]]
    BY DEF Init
  <2>2. tab \in [Tabs -> TabRecords] /\ ini \in [Tabs -> Initiators]
    BY <1>3, <2>1, IdleOK DEF Init
  <2>3. att \in [Workers -> Attempts] /\ hnd \in [Workers -> [Ids -> SyncHandlers]]
    BY NoAttemptOK DEF Init
  <2>4. used \in [ids : Nat, closed : Nat, restarts : Nat]
    BY DEF Init
  <2> QED BY <2>2, <2>3, <2>4, NoStateOK DEF Init, StateOK
<1>7. PairInv /\ OwnInv
  BY <1>3, <1>4, <1>5, IdleOK DEF PairInv, OwnInv
<1>8. WorkerInv
  BY NoAttemptOK, NoStateOK DEF Init, WorkerInv, NoId
<1>9. MailInv
  BY DEF Init, MailInv
<1> QED BY <1>6, <1>7, <1>8, <1>9 DEF LogoutInv

LEMMA NextInv ==
    ASSUME LogoutInv, Next
    PROVE  LogoutInv' /\ Leaving
<1>1. CASE \E t \in Tabs : Edit(t) \/ AutoSave(t) \/ Load(t) \/ Boot(t) \/ Close(t) \/ CleanUp(t)
  BY <1>1, EditStep, AutoSaveStep, LoadStep, CloseStep, CleanUpStep
<1>2. CASE \E t \in Tabs : InitiatorStep(t) \/ TimeOut(t)
  BY <1>2, OwnSaveStep, PrepareStep, RevokedStep, FetchFailsStep, RevokedUnrecordedStep, AwayStep,
     TimeOutStep DEF InitiatorStep
<1>3. CASE \E t \in Tabs : \E force \in Forces : Start(t, force)
  BY <1>3, StartStep
<1>4. CASE \E t \in Tabs : \E w \in Workers : TabReceives(t, w) \/ WorkerReceives(w, t)
  BY <1>4, TabReceivesStep, WorkerReceivesStep
<1>5. CASE \E t \in Tabs : \E m \in air[t] : TabHears(t, m)
  BY <1>5, TabHearsStep
<1>6. CASE \E t \in Tabs : \E id \in Ids, ok \in BOOLEAN : SaveEnds(t, id, ok)
  BY <1>6, SaveEndsStep
<1>7. CASE \E w \in Workers : Push(w) \/ Restart(w) \/ Expire(w)
  BY <1>7, PushStep, RestartStep, ExpireStep
<1>8. CASE \E w \in Workers : \E id \in Ids : HandlerStep(w, id)
  BY <1>8, ListedStep, SavedStep, SynchronizedStep DEF HandlerStep
<1>9. CASE Lapse
  BY <1>9, LapseStep
<1> QED BY <1>1, <1>2, <1>3, <1>4, <1>5, <1>6, <1>7, <1>8, <1>9 DEF Next

LEMMA StutterInv ==
    ASSUME LogoutInv, UNCHANGED vars
    PROVE  LogoutInv'
<1>1. StateOK' /\ WorkerInv' /\ PairInv' /\ OwnInv'
  BY DEF LogoutInv, StateOK, WorkerInv, PairInv, OwnInv, Runs, vars
<1>2. Onward
  BY DEF Onward, Runs, vars, LogoutInv, StateOK
<1>3. MailInv'
  BY <1>1, <1>2, MailStays DEF vars
<1> QED BY <1>1, <1>3 DEF LogoutInv

LEMMA InvTypes ==
    ASSUME LogoutInv
    PROVE  TypeOK
<1>1. Good(ForWorkers) \subseteq Messages(ForWorkers) /\ Good(ForTabs) \subseteq Messages(ForTabs)
      /\ Good(ForAll) \subseteq Messages(ForAll)
  BY DEF Good
<1>2. Seq(Good(ForWorkers)) \subseteq Seq(Messages(ForWorkers))
      /\ Seq(Good(ForTabs)) \subseteq Seq(Messages(ForTabs))
  BY <1>1, SeqGrows
<1>3. toW \in [Workers -> [Tabs -> Seq(Messages(ForWorkers))]]
      /\ toT \in [Tabs -> [Workers -> Seq(Messages(ForTabs))]]
  BY <1>2 DEF LogoutInv, MailInv
<1>4. air \in [Tabs -> SUBSET Messages(ForAll)]
  BY <1>1 DEF LogoutInv, MailInv
<1> QED BY <1>3, <1>4 DEF LogoutInv, StateOK, TypeOK

\* The variables of a logout keep their types, whatever tabs close, workers
\* restart and messages overtake each other: an attempt that is talked about
\* was started.
THEOREM TypeCorrect == Spec => []TypeOK
<1>1. Init => LogoutInv
  BY InitInv
<1>2. LogoutInv /\ [Next]_vars => LogoutInv'
  BY NextInv, StutterInv
<1>3. LogoutInv => TypeOK
  BY InvTypes
<1> QED BY <1>1, <1>2, <1>3, PTL DEF Spec

\* If the user stops typing once the session is revoked, only a forced logout
\* sends an editor away (leave of LogoutParticipant, and the page that
\* logoutBrowserSession opens) with edits it has not saved, for any number of
\* tabs, service workers, attempts and faults.
THEOREM LeaversAreSaved ==
    ASSUME ~LateEdits
    PROVE  Spec => LeavesSaved
<1>1. Init => LogoutInv
  BY InitInv
<1>2. LogoutInv /\ [Next]_vars => LogoutInv'
  BY NextInv, StutterInv
<1>3. LogoutInv /\ [Next]_vars =>
         [\A t \in Tabs : tab[t].page = "open" /\ tab'[t].page = "out" /\ tab'[t].dirty => forced]_vars
  BY NextInv DEF Leaving
<1> QED BY <1>1, <1>2, <1>3, PTL DEF Spec, LeavesSaved

-----------------------------------------------------------------------------
(* A single attempt to sign out, unforced.  Before the server's answer is  *)
(* recorded (Before) the attempt of a tab goes through stages (Stage): a   *)
(* worker that reported success has settled, with every open editor saved  *)
(* and frozen (Ready).  Once the answer is recorded (Recorded) nothing can *)
(* release these editors, so nothing is left to synchronize when the files *)
(* go (Gone).                                                              *)

\* One attempt, whose user answers the confirm dialog in time.
OneAttempt == MaxAttempts = 1 /\ ~Dawdles

\* An expiry belongs to the worker's attempt, a handler to an attempt that began.
BooksInv ==
    \A w \in Workers :
       /\ timer[w] # NoId => att[w].id = timer[w]
       /\ \A i \in Ids : hnd[w][i].pc # "none" => i <= used.ids

LEMMA BooksStay ==
    ASSUME BooksInv, UNCHANGED <<att, timer, hnd>>, used'.ids = used.ids
    PROVE  BooksInv'
BY DEF BooksInv

LEMMA AnswersPc ==
    ASSUME hnd \in [Workers -> [Ids -> SyncHandlers]], NEW id, NEW who, NEW t, NEW ok,
           NEW w \in Workers, NEW i \in Ids
    PROVE  LET h == Answers(hnd, id, who, t, ok)[w][i] IN
           \/ h = hnd[w][i]
           \/ /\ hnd[w][i].pc = "saving" /\ t \in hnd[w][i].wait /\ w \in who /\ i = id
              /\ \/ ok /\ h.pc = "saving" /\ h.wait = hnd[w][i].wait \ {t}
                 \/ ~ok /\ h.pc = "failed"
<1> DEFINE g == hnd[w][i]
           x == [g EXCEPT !.wait = @ \ {t}]
           y == [pc |-> "failed", wait |-> {}]
           h == Answers(hnd, id, who, t, ok)[w][i]
           c == w \in who /\ i = id /\ g.pc = "saving" /\ t \in g.wait
<1>1. h = IF c THEN IF ok THEN x ELSE y ELSE g
  BY DEF Answers
<1>2. g \in SyncHandlers
  OBVIOUS
<1>3. x.pc = g.pc /\ x.wait = g.wait \ {t}
  BY <1>2 DEF SyncHandlers
<1>4. y.pc = "failed"
  OBVIOUS
<1> HIDE DEF h, x, y
<1>5. CASE c /\ ok
  <2>1. h = x
    BY <1>1, <1>5, Zenon
  <2> QED BY <1>3, <1>5, <2>1 DEF h
<1>6. CASE c /\ ~ok
  <2>1. h = y
    BY <1>1, <1>6, Zenon
  <2> QED BY <1>4, <1>6, <2>1 DEF h
<1>7. CASE ~c
  <2>1. h = g
    BY <1>1, <1>7, Zenon
  <2> QED BY <2>1 DEF h
<1>8. (c /\ ok) \/ (c /\ ~ok) \/ ~c
  BY Zenon
<1> QED BY <1>5, <1>6, <1>7, <1>8

LEMMA BooksAnswered ==
    ASSUME LogoutInv, BooksInv, NEW id, NEW who, NEW t, NEW ok, hnd' = Answers(hnd, id, who, t, ok),
           UNCHANGED <<att, timer, used>>
    PROVE  BooksInv'
<1>1. hnd \in [Workers -> [Ids -> SyncHandlers]]
  BY DEF LogoutInv, StateOK
<1>2. \A w \in Workers, i \in Ids : hnd'[w][i].pc # "none" => hnd[w][i].pc # "none"
  BY <1>1, AnswersPc
<1> QED BY <1>2 DEF BooksInv

LEMMA ReceiveBooks ==
    ASSUME LogoutInv, BooksInv, NEW w \in Workers, NEW m \in Good(ForWorkers), Receive(w, m),
           UNCHANGED used
    PROVE  BooksInv'
<1>1. /\ att \in [Workers -> Attempts] /\ hnd \in [Workers -> [Ids -> SyncHandlers]]
      /\ timer \in [Workers -> Ids \cup {NoId}] /\ m.id \in Ids /\ m.id <= used.ids
  BY GoodFacts DEF LogoutInv, StateOK
<1>2. CASE ReceiveSync(w, m) /\ ~active(w)
  <2> DEFINE a == [NoAttempt EXCEPT !.id = m.id]
  <2>1. /\ att' = [att EXCEPT ![w] = a] /\ timer' = [timer EXCEPT ![w] = m.id]
        /\ hnd' = [hnd EXCEPT ![w][m.id] = [pc |-> "clients", wait |-> {}]]
    BY <1>2 DEF ReceiveSync
  <2>2. a.id = m.id
    BY DEF NoAttempt
  <2> HIDE DEF a
  <2>3. \A v \in Workers, i \in Ids : hnd'[v][i] = hnd[v][i] \/ (v = w /\ i = m.id)
    BY <1>1, <2>1
  <2>4. \A v \in Workers : timer'[v] # NoId => att'[v].id = timer'[v]
    BY <1>1, <2>1, <2>2 DEF BooksInv
  <2> QED BY <1>1, <2>3, <2>4 DEF BooksInv
<1>3. CASE ~(ReceiveSync(w, m) /\ ~active(w))
  <2>1. UNCHANGED hnd
    BY <1>3 DEF Receive, ReceiveForce, ReceiveSync, ReceiveRevoked, ReceivePreserve, ReceiveClear,
                ReceiveComplete, ReceiveCancel, ReceiveStale
  <2>2. \/ UNCHANGED <<att, timer>>
        \/ timer' = [timer EXCEPT ![w] = NoId] /\ \A v \in Workers \ {w} : att'[v] = att[v]
        \/ UNCHANGED timer /\ att' = [att EXCEPT ![w].revoked = TRUE]
    BY <1>1, <1>3 DEF Receive, ReceiveForce, ReceiveSync, ReceiveRevoked, ReceivePreserve, ReceiveClear,
                ReceiveComplete, ReceiveCancel, ReceiveStale
  <2>3. CASE UNCHANGED <<att, timer>>
    BY <2>1, <2>3 DEF BooksInv
  <2>4. CASE timer' = [timer EXCEPT ![w] = NoId] /\ \A v \in Workers \ {w} : att'[v] = att[v]
    BY <1>1, <2>1, <2>4 DEF BooksInv
  <2>5. CASE UNCHANGED timer /\ att' = [att EXCEPT ![w].revoked = TRUE]
    <3>1. \A v \in Workers : att'[v].id = att[v].id
      BY <1>1, <2>5 DEF Attempts
    <3> QED BY <2>1, <2>5, <3>1 DEF BooksInv
  <2> QED BY <2>2, <2>3, <2>4, <2>5
<1> QED BY <1>2, <1>3

LEMMA HandlerBooks ==
    ASSUME LogoutInv, BooksInv, NEW w \in Workers, NEW id \in Ids, HandlerStep(w, id)
    PROVE  BooksInv'
<1>1. /\ att \in [Workers -> Attempts] /\ hnd \in [Workers -> [Ids -> SyncHandlers]]
  BY DEF LogoutInv, StateOK
<1>2. UNCHANGED <<timer, used>>
  BY DEF HandlerStep, Listed, SavesFail, Saved, Synchronized
<1>3. \A v \in Workers : att'[v].id = att[v].id
  <2>1. \/ UNCHANGED att \/ att' = [att EXCEPT ![w].clients = Windows]
        \/ att' = [att EXCEPT ![w].ready = TRUE]
    BY DEF HandlerStep, Listed, SavesFail, Saved, Synchronized
  <2>2. CASE UNCHANGED att
    BY <2>2
  <2>3. CASE att' = [att EXCEPT ![w].clients = Windows]
    BY <1>1, <2>3 DEF Attempts
  <2>4. CASE att' = [att EXCEPT ![w].ready = TRUE]
    BY <1>1, <2>4 DEF Attempts
  <2> QED BY <2>1, <2>2, <2>3, <2>4
<1>4. \A v \in Workers, i \in Ids : hnd'[v][i] = hnd[v][i] \/ (v = w /\ i = id)
  <2>1. \/ \E h : hnd' = [hnd EXCEPT ![w][id] = h]
        \/ \E p : hnd' = [hnd EXCEPT ![w][id].pc = p]
    BY DEF HandlerStep, Listed, SavesFail, Saved, Synchronized, HandlerEnds
  <2> QED BY <1>1, <2>1
<1>5. hnd[w][id].pc # "none"
  <2>1. CASE Saved(w, id)
    <3>1. hnd[w][id] = [pc |-> "saving", wait |-> {}]
      BY <2>1 DEF Saved
    <3> QED BY <3>1
  <2>2. CASE ~Saved(w, id)
    <3>1. hnd[w][id].pc \in {"clients", "failed", "saving", "syncing"}
      BY <2>2 DEF HandlerStep, Listed, SavesFail, Synchronized
    <3> QED BY <3>1
  <2> QED BY <2>1, <2>2
<1> QED BY <1>2, <1>3, <1>4, <1>5 DEF BooksInv

\* What a worker's expiry says.
Expiry(w) ==
    Msg(IF cleared[w] THEN "complete" ELSE IF att[w].revoked THEN "preserve" ELSE "cancel", timer[w])

LEMMA ExpiryOK ==
    ASSUME LogoutInv, NEW w \in Workers, Expire(w)
    PROVE  Expiry(w) \in Good(ForWorkers) /\ Receive(w, Expiry(w)) /\ Outside /\ UNCHANGED toW
<1> DEFINE type == IF cleared[w] THEN "complete" ELSE IF att[w].revoked THEN "preserve" ELSE "cancel"
<1>1. timer[w] # NoId /\ Abandoned(timer[w]) /\ Receive(w, Msg(type, timer[w])) /\ Outside /\ UNCHANGED toW
  BY DEF Expire, Editors, Outside
<1>2. timer[w] \in Ids /\ WorkerOK(att[w], cleared[w], timer[w])
  BY <1>1, WorkerFacts
<1>3. type \in ForWorkers /\ (type \in {"revoked", "preserve", "complete", "clear", "force"} => ~session)
      /\ type # "force"
  BY <1>2 DEF WorkerOK, ForWorkers
<1>4. \A t \in Tabs : ~Runs(t, timer[w])
  BY <1>1 DEF Abandoned
<1>5. Expiry(w) = Msg(type, timer[w])
  BY DEF Expiry
<1> HIDE DEF type
<1>6. Msg(type, timer[w]) \in Good(ForWorkers)
  BY <1>2, <1>3, <1>4, Saying DEF WorkerOK
<1> QED BY <1>1, <1>5, <1>6

LEMMA BooksStep ==
    ASSUME LogoutInv, BooksInv, Next
    PROVE  BooksInv'
<1>1. CASE \E t \in Tabs : Edit(t) \/ AutoSave(t) \/ Load(t) \/ Boot(t) \/ CleanUp(t)
  BY <1>1, BooksStay DEF Edit, AutoSave, Load, Boot, CleanUp, Coordination
<1>2. CASE \E t \in Tabs : Close(t)
  BY <1>2, BooksStay DEF Close, LogoutInv, StateOK
<1>3. CASE \E t \in Tabs : InitiatorStep(t) \/ TimeOut(t)
  BY <1>3, BooksStay DEF InitiatorStep, OwnSave, Prepare, Synced, Revoked, FetchFails, RevokedUnrecorded,
     Away, TimeOut
<1>4. CASE \E t \in Tabs : \E force \in Forces : Start(t, force)
  <2>1. UNCHANGED <<att, timer, hnd>> /\ used'.ids = used.ids + 1 /\ used.ids \in Nat
    BY <1>4 DEF Start, LogoutInv, StateOK
  <2>2. \A i \in Ids : i <= used.ids => i <= used'.ids
    BY <2>1, IdFacts
  <2> QED BY <2>1, <2>2 DEF BooksInv
<1>5. CASE \E t \in Tabs : \E w \in Workers : TabReceives(t, w)
  <2>1. PICK t \in Tabs, w \in Workers : TabReceives(t, w)
    BY <1>5
  <2>2. UNCHANGED <<att, timer, used>>
    BY <2>1 DEF TabReceives
  <2>3. UNCHANGED hnd \/ \E id, ok : hnd' = Answers(hnd, id, {w}, t, ok)
    BY <2>1, Zenon DEF TabReceives
  <2> QED BY <2>2, <2>3, BooksStay, BooksAnswered
<1>6. CASE \E t \in Tabs : \E w \in Workers : WorkerReceives(w, t)
  <2>1. PICK t \in Tabs, w \in Workers : WorkerReceives(w, t)
    BY <1>6
  <2> DEFINE G == Good(ForWorkers)
             m == Head(toW[w][t])
  <2>2. toW \in [Workers -> [Tabs -> Seq(G)]] /\ toW[w][t] # <<>> /\ Receive(w, m) /\ UNCHANGED used
    BY <2>1 DEF LogoutInv, MailInv, WorkerReceives
  <2> HIDE DEF G, m
  <2>3. m \in G
    BY <2>2, TakenIn DEF m
  <2> QED BY <2>2, <2>3, ReceiveBooks DEF G
<1>7. CASE \E t \in Tabs : \E m \in air[t] : TabHears(t, m)
  BY <1>7, BooksStay DEF TabHears
<1>8. CASE \E t \in Tabs : \E id \in Ids, ok \in BOOLEAN : SaveEnds(t, id, ok)
  <2>1. PICK t \in Tabs, id \in Ids, ok \in BOOLEAN : SaveEnds(t, id, ok)
    BY <1>8
  <2>2. UNCHANGED <<att, timer, used>> /\ \E x, who : hnd' = Answers(hnd, id, who, t, x)
    BY <2>1, Zenon DEF SaveEnds
  <2> QED BY <2>2, BooksAnswered
<1>9. CASE \E w \in Workers : Push(w)
  BY <1>9, BooksStay DEF Push, Coordination
<1>10. CASE \E w \in Workers : Restart(w)
  <2>1. PICK w \in Workers : Restart(w)
    BY <1>10
  <2>2. /\ att \in [Workers -> Attempts] /\ hnd \in [Workers -> [Ids -> SyncHandlers]]
        /\ timer \in [Workers -> Ids \cup {NoId}] /\ used'.ids = used.ids
    BY <2>1 DEF LogoutInv, StateOK, Restart
  <2>3. \A v \in Workers : \/ v = w /\ timer'[v] = NoId /\ \A i \in Ids : hnd'[v][i] = NoHandler
                           \/ timer'[v] = timer[v] /\ att'[v] = att[v] /\ hnd'[v] = hnd[v]
    BY <2>1, <2>2 DEF Restart
  <2>4. NoHandler.pc = "none"
    BY DEF NoHandler
  <2> QED BY <2>2, <2>3, <2>4 DEF BooksInv
<1>11. CASE \E w \in Workers : Expire(w)
  <2>1. PICK w \in Workers : Expire(w)
    BY <1>11
  <2>2. Expiry(w) \in Good(ForWorkers) /\ Receive(w, Expiry(w)) /\ UNCHANGED used
    BY <2>1, ExpiryOK DEF Outside
  <2> QED BY <2>2, ReceiveBooks
<1>12. CASE \E w \in Workers : \E id \in Ids : HandlerStep(w, id)
  BY <1>12, HandlerBooks
<1>13. CASE Lapse
  BY <1>13, BooksStay DEF Lapse, Coordination
<1> QED BY <1>1, <1>2, <1>3, <1>4, <1>5, <1>6, <1>7, <1>8, <1>9, <1>10, <1>11, <1>12, <1>13 DEF Next

-----------------------------------------------------------------------------
(* The files are gone: a cleared worker gets no new ones.                  *)

\* Every worker is cleared and nothing unsynchronized is left.
Gone == \A w \in Workers : cleared[w] /\ ~unsynced[w]

\* No step clears a worker again that was not, and few write to its files.
LEMMA ReceiveClears ==
    ASSUME LogoutInv, NEW w \in Workers, NEW m, Receive(w, m)
    PROVE  \/ UNCHANGED cleared
           \/ m.type \in {"force", "clear"} /\ cleared' = [cleared EXCEPT ![w] = TRUE]
BY DEF Receive, ReceiveForce, ReceiveSync, ReceiveRevoked, ReceivePreserve, ReceiveClear,
       ReceiveComplete, ReceiveCancel, ReceiveStale

LEMMA SaveWrites ==
    ASSUME LogoutInv, NEW t \in Tabs, NEW id \in Ids, NEW ok \in BOOLEAN, SaveEnds(t, id, ok)
    PROVE  \/ UNCHANGED unsynced
           \/ ok /\ tab[t].dirty /\ ~cleared[Space[t]] /\ unsynced' = [unsynced EXCEPT ![Space[t]] = TRUE]
<1> DEFINE d == tab[t].dirty
           b == unsynced[Space[t]] \/ (ok /\ d)
<1>1. unsynced' = [unsynced EXCEPT ![Space[t]] = b] /\ (ok => ~cleared[Space[t]] \/ ~d)
  BY Zenon DEF SaveEnds
<1>2. unsynced \in [Workers -> BOOLEAN] /\ Space[t] \in Workers
  BY LogoutAssumption DEF LogoutInv, StateOK
<1>3. CASE ok /\ d
  <2>1. b = TRUE
    BY <1>3, Zenon
  <2> HIDE DEF b
  <2> QED BY <1>1, <1>3, <2>1
<1>4. CASE ~(ok /\ d)
  <2>1. unsynced[Space[t]] \in BOOLEAN
    BY <1>2
  <2>2. b = unsynced[Space[t]]
    BY <1>4, <2>1, Zenon
  <2> HIDE DEF b
  <2> QED BY <1>1, <1>2, <2>2
<1> QED BY <1>3, <1>4

LEMMA GoneStep ==
    ASSUME LogoutInv, Gone, Next
    PROVE  Gone'
<1>1. cleared \in [Workers -> BOOLEAN] /\ unsynced \in [Workers -> BOOLEAN] /\ Space \in [Tabs -> Workers]
  BY LogoutAssumption DEF LogoutInv, StateOK
<1>2. CASE \E t \in Tabs : Edit(t) \/ Load(t) \/ Boot(t) \/ Close(t)
  BY <1>2 DEF Gone, Edit, Load, Boot, Close, Coordination
<1>3. CASE \E t \in Tabs : AutoSave(t)
  BY <1>1, <1>3 DEF Gone, AutoSave
<1>4. CASE \E t \in Tabs : CleanUp(t)
  BY <1>4 DEF Gone, CleanUp, deleteLocalSpaceData
<1>5. CASE \E t \in Tabs : InitiatorStep(t) \/ TimeOut(t)
  BY <1>5 DEF Gone, InitiatorStep, OwnSave, Prepare, Synced, Revoked, FetchFails, RevokedUnrecorded,
     Away, TimeOut, Editors
<1>6. CASE \E t \in Tabs : \E force \in Forces : Start(t, force)
  BY <1>6 DEF Gone, Start
<1>7. CASE \E t \in Tabs : \E w \in Workers : TabReceives(t, w)
  BY <1>7 DEF Gone, TabReceives
<1>8. CASE \E t \in Tabs : \E w \in Workers : WorkerReceives(w, t)
  <2>1. PICK t \in Tabs, w \in Workers : WorkerReceives(w, t)
    BY <1>8
  <2>2. UNCHANGED unsynced /\ Receive(w, Head(toW[w][t]))
    BY <2>1 DEF WorkerReceives, Editors
  <2> QED BY <1>1, <2>2, ReceiveClears DEF Gone
<1>9. CASE \E t \in Tabs : \E m \in air[t] : TabHears(t, m)
  BY <1>9 DEF Gone, TabHears
<1>10. CASE \E t \in Tabs : \E id \in Ids, ok \in BOOLEAN : SaveEnds(t, id, ok)
  <2>1. PICK t \in Tabs, id \in Ids, ok \in BOOLEAN : SaveEnds(t, id, ok)
    BY <1>10
  <2>2. UNCHANGED cleared
    BY <2>1 DEF SaveEnds
  <2> QED BY <1>1, <2>1, <2>2, SaveWrites DEF Gone
<1>11. CASE \E w \in Workers : Push(w) \/ Restart(w)
  BY <1>1, <1>11 DEF Gone, Push, Restart
<1>12. CASE \E w \in Workers : Expire(w)
  <2>1. PICK w \in Workers : Expire(w)
    BY <1>12
  <2>2. UNCHANGED unsynced /\ Receive(w, Expiry(w))
    BY <2>1, ExpiryOK DEF Outside
  <2> QED BY <1>1, <2>2, ReceiveClears DEF Gone
<1>13. CASE \E w \in Workers : \E id \in Ids : HandlerStep(w, id)
  BY <1>13 DEF Gone, HandlerStep, Listed, SavesFail, Saved, Synchronized, Editors
<1>14. CASE Lapse
  BY <1>14 DEF Gone, Lapse, Coordination
<1> QED BY <1>2, <1>3, <1>4, <1>5, <1>6, <1>7, <1>8, <1>9, <1>10, <1>11, <1>12, <1>13, <1>14 DEF Next

-----------------------------------------------------------------------------
(* The revocation is recorded.                                             *)

\* An editor, if the tab has one, is saved for the attempt and frozen.
Ready(r) == r.page = "open" => r.frozen /\ ~r.dirty /\ ~r.preserved /\ r.att = 1 /\ r.save[1] = "ok"

\* A message that has worker w drop its keys is on its way.
ClearComes(w) == \E t \in Tabs : \E i \in 1..Len(toW[w][t]) : toW[w][t][i].type = "clear"

\* What is on its way once the revocation is recorded.
RecordedMail ==
    /\ toT \in [Tabs -> [Workers -> Seq(Messages({"save", "revoked", "complete"}))]]
    /\ toW \in [Workers -> [Tabs -> Seq(Messages({"revoked", "clear", "complete"}))]]

\* Every editor is saved, and no attempt is before its revocation.
RecordedTabs == \A t \in Tabs : Ready(tab[t]) /\ ini[t].pc \in {"idle", "clear"}

\* Every worker has synchronized and will be cleared before its expiry.
RecordedWorkers ==
    \A w \in Workers :
       /\ ~unsynced[w] /\ (att[w].id # NoId => Finished(w))
       /\ timer[w] # NoId => cleared[w] \/ ClearComes(w)

\* The revocation is recorded in localStorage.
Recorded == state.revoked /\ used.ids # 0 /\ RecordedMail /\ RecordedTabs /\ RecordedWorkers

LEMMA OneId ==
    ASSUME OneAttempt
    PROVE  Ids = {1} /\ NoId = 0
BY DEF OneAttempt, Ids, NoId

LEMMA RevokeReady ==
    ASSUME NEW r \in TabRecords, Ready(r)
    PROVE  Ready(Revoke(r))
BY DEF Ready, Revoke, TabRecords

LEMMA LeaveReady ==
    ASSUME NEW r \in TabRecords, NEW t, Ready(r)
    PROVE  Ready(Leave(r, t))
BY DEF Ready, Leave, TabRecords

LEMMA HandledReady ==
    ASSUME OneAttempt, NEW r \in TabRecords, r.page = "open", Ready(r), NEW t, NEW m, m.id \in Ids,
           m.type \in {"save", "revoked", "complete"}
    PROVE  Ready(Handled(r, t, m))
<1>1. m.id = 1
  BY OneId
<1>2. CASE m.type = "complete" /\ r.att = m.id /\ Handled(r, t, m) = Complete(r, t, m.id)
  <2> DEFINE q == Revoke(r)
  <2>1. q \in TabRecords /\ Ready(q)
    BY RevokeType, RevokeReady
  <2>2. q.save = r.save
    BY DEF Revoke, TabRecords
  <2>3. r.save[1] = "ok"
    BY DEF Ready
  <2>4. Complete(r, t, 1) = Finish(q, t, 1)
    BY <2>3 DEF Complete
  <2> HIDE DEF q
  <2>5. Finish(q, t, 1) = q \/ Finish(q, t, 1) = Leave(q, t)
    BY <2>2, <2>3 DEF Finish
  <2> QED BY <1>1, <1>2, <2>1, <2>4, <2>5, LeaveReady
<1>3. CASE m.type = "revoked" /\ Handled(r, t, m) = Revoke(r)
  BY <1>3, RevokeReady
<1>4. CASE Handled(r, t, m) = r
  BY <1>4
<1> QED BY <1>2, <1>3, <1>4, HandledCases

LEMMA AskedReady ==
    ASSUME OneAttempt, NEW r \in TabRecords, r.page = "open", Ready(r), NEW id \in Ids, NEW w
    PROVE  Asked(r, id, w) = r
<1>1. id = 1 /\ NoId # 1
  BY OneId
<1>2. r.att = 1 /\ r.save[1] = "ok" /\ ~r.preserved
  BY DEF Ready
<1> QED BY <1>1, <1>2 DEF Asked, Refuses

\* The tabs go on; the workers and their mail stay.
LEMMA RecordedClose ==
    ASSUME Recorded, RecordedTabs', state'.revoked, used'.ids = used.ids,
           toT' \in [Tabs -> [Workers -> Seq(Messages({"save", "revoked", "complete"}))]],
           UNCHANGED <<att, cleared, timer, toW, unsynced>>
    PROVE  Recorded'
<1>1. RecordedWorkers'
  BY DEF Recorded, RecordedWorkers, ClearComes, Finished
<1> QED BY <1>1 DEF Recorded, RecordedMail

\* One tab's record changes to q.
LEMMA RecordedTab ==
    ASSUME LogoutInv, Recorded, NEW t \in Tabs, NEW q, Ready(q), tab' = [tab EXCEPT ![t] = q],
           \A u \in Tabs : ini'[u].pc \in {ini[u].pc, "idle"}
    PROVE  RecordedTabs'
<1>1. \A u \in Tabs : Ready(tab'[u])
  BY DEF LogoutInv, StateOK, Recorded, RecordedTabs
<1>2. \A u \in Tabs : ini'[u].pc \in {"idle", "clear"}
  BY DEF Recorded, RecordedTabs
<1> QED BY <1>1, <1>2 DEF RecordedTabs

LEMMA RecordedTabSteps ==
    ASSUME OneAttempt, LogoutInv, Recorded, NEW t \in Tabs,
           Edit(t) \/ AutoSave(t) \/ Load(t) \/ Boot(t) \/ Close(t) \/ CleanUp(t)
    PROVE  Recorded' \/ Gone'
<1>1. /\ tab \in [Tabs -> TabRecords] /\ ini \in [Tabs -> Initiators] /\ Ready(tab[t]) /\ state.revoked
      /\ toT \in [Tabs -> [Workers -> Seq(Messages({"save", "revoked", "complete"}))]]
  BY DEF LogoutInv, StateOK, Recorded, RecordedTabs, RecordedMail
<1>2. ~Edit(t) /\ ~AutoSave(t)
  BY <1>1 DEF Edit, AutoSave, Ready
<1>3. CASE Load(t)
  <2>1. [tab[t] EXCEPT !.page = "loading"].page = "loading"
    BY <1>1 DEF TabRecords
  <2>2. Ready([tab[t] EXCEPT !.page = "loading"])
    BY <2>1 DEF Ready
  <2>3. RecordedTabs'
    BY <1>3, <2>2, RecordedTab DEF Load, Coordination
  <2> QED BY <1>1, <1>3, <2>3, RecordedClose DEF Load, Coordination
<1>4. CASE Boot(t)
  <2> DEFINE q == [tab[t] EXCEPT !.page = "out", !.known = TRUE]
  <2>1. q.page = "out"
    BY <1>1 DEF TabRecords
  <2>2. Ready(q)
    BY <2>1 DEF Ready
  <2>3. tab' = [tab EXCEPT ![t] = q]
    BY <1>1, <1>4, NoStateOK DEF Boot
  <2>4. RecordedTabs'
    BY <1>4, <2>2, <2>3, RecordedTab DEF Boot, Coordination
  <2> QED BY <1>1, <1>4, <2>4, RecordedClose DEF Boot, Coordination
<1>5. CASE Close(t)
  <2>1. Ready(NewTab("closed"))
    BY NewTabOK DEF Ready
  <2>2. \A u \in Tabs : ini'[u].pc \in {ini[u].pc, "idle"}
    BY <1>1, <1>5, IdleOK DEF Close
  <2>3. RecordedTabs'
    BY <1>5, <2>1, <2>2, RecordedTab DEF Close
  <2>4. used'.ids = used.ids
    BY <1>5 DEF Close, LogoutInv, StateOK
  <2> QED BY <1>1, <1>5, <2>3, <2>4, RecordedClose DEF Close
<1>6. CASE CleanUp(t)
  BY <1>6 DEF CleanUp, deleteLocalSpaceData, Gone
<1> QED BY <1>2, <1>3, <1>4, <1>5, <1>6

\* Messages that follow do not keep a clear from coming.
LEMMA SentKeepsClear ==
    ASSUME toW \in [Workers -> [Tabs -> Seq(Messages(ForWorkers))]], NEW t \in Tabs, NEW ws,
           NEW ms \in Seq(Messages(ForWorkers)), toW' = Sent(t, ws, ms), NEW w \in Workers, ClearComes(w)
    PROVE  ClearComes(w)'
<1>1. PICK u \in Tabs : \E i \in 1..Len(toW[w][u]) : toW[w][u][i].type = "clear"
  BY DEF ClearComes
<1>2. toW[w][u] \in Seq(Messages(ForWorkers))
  OBVIOUS
<1>3. toW'[w][u] = toW[w][u] \/ toW'[w][u] = toW[w][u] \o ms
  BY DEF Sent
<1>4. PICK i \in 1..Len(toW[w][u]) : toW[w][u][i].type = "clear"
  BY <1>1
<1>5. i \in 1..Len(toW'[w][u]) /\ toW'[w][u][i] = toW[w][u][i]
  BY <1>2, <1>3
<1> QED BY <1>4, <1>5 DEF ClearComes

LEMMA RecordedSends ==
    ASSUME LogoutInv
    PROVE  toW \in [Workers -> [Tabs -> Seq(Messages(ForWorkers))]]
BY InvTypes DEF TypeOK

LEMMA RecordedInitiator ==
    ASSUME OneAttempt, LogoutInv, Recorded, NEW t \in Tabs,
           InitiatorStep(t) \/ TimeOut(t) \/ \E force \in Forces : Start(t, force)
    PROVE  Recorded'
<1>1. /\ tab \in [Tabs -> TabRecords] /\ ini \in [Tabs -> Initiators] /\ state.revoked
      /\ ini[t].pc \in {"idle", "clear"} /\ ini[t].id \in Ids \cup {NoId} /\ used.ids \in Nat /\ used.ids # 0
      /\ toT \in [Tabs -> [Workers -> Seq(Messages({"save", "revoked", "complete"}))]]
  BY DEF LogoutInv, StateOK, Recorded, RecordedTabs, RecordedMail, Initiators
<1>2. \A force \in Forces : ~Start(t, force)
  <2>1. \A force \in Forces : Start(t, force) => used.ids < MaxAttempts
    BY Zenon DEF Start
  <2> QED BY <1>1, <2>1 DEF OneAttempt
<1>3. CASE TimeOut(t)
  <2>1. UNCHANGED tab /\ \A u \in Tabs : ini'[u].pc = ini[u].pc
    BY <1>1, <1>3 DEF TimeOut, Editors, Initiators
  <2>2. RecordedTabs'
    BY <2>1 DEF Recorded, RecordedTabs
  <2> QED BY <1>1, <1>3, <2>2, RecordedClose DEF TimeOut, Editors
<1>4. CASE InitiatorStep(t)
  <2> DEFINE q == [tab[t] EXCEPT !.page = "out", !.known = state.revoked]
             S == Messages({"revoked", "clear", "complete"})
             ms == <<Msg("complete", ini[t].id)>>
  <2>1. Away(t)
    BY <1>1, <1>4 DEF InitiatorStep, OwnSave, Prepare, Synced, Revoked, FetchFails, RevokedUnrecorded
  <2>2. /\ ini[t].pc = "clear" /\ toW' = Sent(t, ini[t].ws, ms) /\ tab' = [tab EXCEPT ![t] = q]
        /\ ini' = [ini EXCEPT ![t] = Idle]
        /\ UNCHANGED <<att, hnd, cleared, timer, toT, unsynced, session, state, forced, used>>
    BY <2>1 DEF Away
  <2>3. q.page = "out"
    BY <1>1 DEF TabRecords
  <2>4. Ready(q)
    BY <2>3 DEF Ready
  <2>5. \A u \in Tabs : ini'[u].pc \in {ini[u].pc, "idle"}
    BY <1>1, <2>2, IdleOK
  <2> HIDE DEF q
  <2>6. RecordedTabs'
    BY <2>2, <2>4, <2>5, RecordedTab
  <2>7. ini[t].id \in Ids
    BY <2>2, InitiatorFacts DEF Runner
  <2>8. Msg("complete", ini[t].id) \in S /\ Msg("complete", ini[t].id) \in Messages(ForWorkers)
    BY <2>7 DEF Msg, Messages, ForWorkers
  <2>9. ms \in Seq(S) /\ ms \in Seq(Messages(ForWorkers))
    BY <2>8
  <2> HIDE DEF S, ms
  <2>10. toW \in [Workers -> [Tabs -> Seq(S)]]
    BY DEF Recorded, RecordedMail, S
  <2>11. toW' \in [Workers -> [Tabs -> Seq(S)]]
    BY <2>2, <2>9, <2>10, SentIn
  <2>12. RecordedMail'
    BY <1>1, <2>2, <2>11 DEF RecordedMail, S
  <2>13. \A w \in Workers : ClearComes(w) => ClearComes(w)'
    BY <2>2, <2>9, RecordedSends, SentKeepsClear
  <2>14. RecordedWorkers'
    BY <2>2, <2>13 DEF Recorded, RecordedWorkers, Finished
  <2> QED BY <1>1, <2>2, <2>6, <2>12, <2>14 DEF Recorded
<1> QED BY <1>2, <1>3, <1>4

LEMMA RecordedReceives ==
    ASSUME OneAttempt, LogoutInv, Recorded, NEW t \in Tabs, NEW w \in Workers, TabReceives(t, w)
    PROVE  Recorded'
<1> DEFINE S == Messages({"save", "revoked", "complete"})
           m == Head(toT[t][w])
           r == tab[t]
<1>1. /\ toT[t][w] # <<>> /\ toT' = [toT EXCEPT ![t][w] = Tail(@)]
      /\ UNCHANGED <<ini, att, cleared, timer, toW, unsynced, state, used>>
  BY DEF TabReceives
<1>2. \/ UNCHANGED tab
      \/ r.page = "open" /\ m.type # "save" /\ tab' = [tab EXCEPT ![t] = Handled(r, t, m)]
      \/ r.page = "open" /\ tab' = [tab EXCEPT ![t] = Asked(r, m.id, w)]
  BY DEF TabReceives
<1>3. toT \in [Tabs -> [Workers -> Seq(S)]] /\ r \in TabRecords /\ Ready(r)
  BY DEF LogoutInv, StateOK, Recorded, RecordedMail, RecordedTabs
<1> HIDE DEF S, m
<1>4. m \in S /\ toT' \in [Tabs -> [Workers -> Seq(S)]]
  BY <1>1, <1>3, TakenIn DEF m
<1>5. m.id \in Ids /\ m.type \in {"save", "revoked", "complete"}
  BY <1>4 DEF S, Messages
<1>6. RecordedTabs'
  <2>1. CASE UNCHANGED tab
    BY <1>1, <2>1 DEF Recorded, RecordedTabs
  <2>2. CASE r.page = "open" /\ m.type # "save" /\ tab' = [tab EXCEPT ![t] = Handled(r, t, m)]
    <3>1. Ready(Handled(r, t, m))
      BY <1>3, <1>5, <2>2, HandledReady
    <3> QED BY <1>1, <2>2, <3>1, RecordedTab
  <2>3. CASE r.page = "open" /\ tab' = [tab EXCEPT ![t] = Asked(r, m.id, w)]
    <3>1. Asked(r, m.id, w) = r
      BY <1>3, <1>5, <2>3, AskedReady
    <3> QED BY <1>1, <1>3, <2>3, <3>1, RecordedTab
  <2> QED BY <1>2, <2>1, <2>2, <2>3
<1>7. state'.revoked
  BY <1>1 DEF Recorded
<1> QED BY <1>1, <1>4, <1>6, <1>7, RecordedClose DEF S

LEMMA RecordedHears ==
    ASSUME OneAttempt, LogoutInv, ~forced, Recorded, NEW t \in Tabs, NEW m \in air[t], TabHears(t, m)
    PROVE  Recorded'
<1> DEFINE r == tab[t]
<1>1. UNCHANGED <<ini, att, cleared, timer, toW, toT, unsynced, state, used>>
  BY DEF TabHears
<1>2. m \in Good(ForAll)
  BY DEF LogoutInv, MailInv
<1>3. m.id \in Ids /\ m.type = "complete"
  BY <1>2 DEF Good, Messages, MsgOK, ForAll
<1>4. r \in TabRecords /\ Ready(r)
  BY DEF LogoutInv, StateOK, Recorded, RecordedTabs
<1>5. UNCHANGED tab \/ (r.page = "open" /\ tab' = [tab EXCEPT ![t] = Handled(r, t, m)])
  BY DEF TabHears
<1>6. RecordedTabs'
  <2>1. CASE UNCHANGED tab
    BY <1>1, <2>1 DEF Recorded, RecordedTabs
  <2>2. CASE r.page = "open" /\ tab' = [tab EXCEPT ![t] = Handled(r, t, m)]
    <3>1. Ready(Handled(r, t, m))
      BY <1>3, <1>4, <2>2, HandledReady
    <3> QED BY <1>1, <2>2, <3>1, RecordedTab
  <2> QED BY <1>5, <2>1, <2>2
<1> QED BY <1>1, <1>6, RecordedClose DEF Recorded, RecordedMail

\* The save of a saved editor has ended.
LEMMA RecordedSaves ==
    ASSUME OneAttempt, LogoutInv, Recorded, NEW t \in Tabs, NEW id \in Ids, NEW ok
    PROVE  ~SaveEnds(t, id, ok)
<1>1. Ready(tab[t])
  BY DEF Recorded, RecordedTabs
<1>2. id = 1
  BY OneId
<1>3. SaveEnds(t, id, ok) => tab[t].page = "open" /\ tab[t].save[id] = "saving"
  BY Zenon DEF SaveEnds
<1> QED BY <1>1, <1>2, <1>3 DEF Ready

\* What a worker may do now.
Steadfast(w) ==
    /\ att'[w].id # NoId => Finished(w)'
    /\ timer'[w] # NoId => (timer'[w] = timer[w] /\ (cleared[w] => cleared'[w]))

LEMMA RecordedWorker ==
    ASSUME LogoutInv, Recorded, \A v \in Workers : Steadfast(v), RecordedMail',
           \A u \in Tabs : ini'[u].pc = ini[u].pc, UNCHANGED <<tab, unsynced, state>>,
           used'.ids = used.ids,
           \A v \in Workers : timer'[v] # NoId /\ ~cleared'[v] /\ ClearComes(v) => ClearComes(v)'
    PROVE  Recorded'
<1>1. RecordedTabs'
  BY DEF Recorded, RecordedTabs
<1>2. RecordedWorkers'
  BY DEF Recorded, RecordedWorkers, Steadfast
<1> QED BY <1>1, <1>2 DEF Recorded

LEMMA RecordedReceive ==
    ASSUME OneAttempt, LogoutInv, BooksInv, Recorded, NEW w \in Workers, NEW m \in Good(ForWorkers),
           m.type \in {"revoked", "clear", "complete"}, Receive(w, m)
    PROVE  /\ \A v \in Workers : Steadfast(v)
           /\ toT' \in [Tabs -> [Workers -> Seq(Messages({"save", "revoked", "complete"}))]]
           /\ \A u \in Tabs : ini'[u].pc = ini[u].pc
           /\ m.type = "clear" => (timer'[w] # NoId => cleared'[w])
<1> DEFINE S == Messages({"save", "revoked", "complete"})
<1>1. /\ att \in [Workers -> Attempts] /\ cleared \in [Workers -> BOOLEAN]
      /\ timer \in [Workers -> Ids \cup {NoId}] /\ ini \in [Tabs -> Initiators]
      /\ toT \in [Tabs -> [Workers -> Seq(S)]]
  BY DEF LogoutInv, StateOK, Recorded, RecordedMail
<1>2. m.id \in Ids /\ m.id = 1 /\ NoId = 0
  BY OneId, GoodFacts
<1>3. \A v \in Workers : att[v].id # NoId => Finished(v)
  BY DEF Recorded, RecordedWorkers
<1>4. timer[w] # NoId => att[w].id = 1
  BY <1>1, OneId DEF BooksInv
<1>5. CASE ReceiveRevoked(w, m)
  <2>1. /\ att' = [att EXCEPT ![w].revoked = TRUE] /\ toT' = Posted(w, att[w].clients, m)
        /\ UNCHANGED <<ini, cleared, timer>> /\ m.type = "revoked"
    BY <1>5 DEF ReceiveRevoked
  <2>2. m \in S
    BY <1>2, <2>1 DEF Good, Messages
  <2> HIDE DEF S
  <2>3. toT' \in [Tabs -> [Workers -> Seq(S)]]
    BY <1>1, <2>1, <2>2, PostedIn
  <2>4. \A v \in Workers : att'[v].id = att[v].id /\ att'[v].ready = att[v].ready /\ att'[v].preserved = att[v].preserved
    BY <1>1, <2>1 DEF Attempts
  <2>5. \A v \in Workers : Steadfast(v)
    BY <1>3, <2>1, <2>4 DEF Steadfast, Finished
  <2> QED BY <2>1, <2>3, <2>5 DEF S
<1>6. CASE ReceiveClear(w, m)
  <2>1. UNCHANGED <<att, timer, toT>> /\ m.type = "clear"
    BY <1>6 DEF ReceiveClear
  <2>2. PICK ok \in BOOLEAN : ini' = Reply(ini, "clear", m.id, w, ok)
    BY <1>6 DEF ReceiveClear
  <2>3. \A u \in Tabs : ini'[u].pc = ini[u].pc
    BY <1>1, <2>2, ReplyKeeps
  <2>4. UNCHANGED cleared \/ cleared' = [cleared EXCEPT ![w] = TRUE]
    BY <1>6 DEF ReceiveClear
  <2>5. \A v \in Workers : Steadfast(v)
    BY <1>1, <1>3, <2>1, <2>4 DEF Steadfast, Finished
  <2>6. timer'[w] # NoId => cleared'[w]
    <3>1. CASE timer[w] # NoId
      <4>1. Current(w, m) /\ Finished(w)
        BY <1>2, <1>3, <1>4, <3>1 DEF Current
      <4>2. cleared' = [cleared EXCEPT ![w] = TRUE]
        BY <1>6, <4>1 DEF ReceiveClear
      <4> QED BY <1>1, <4>2
    <3>2. CASE timer[w] = NoId
      BY <2>1, <3>2
    <3> QED BY <3>1, <3>2
  <2> QED BY <1>1, <2>1, <2>3, <2>5, <2>6
<1>7. CASE ReceiveComplete(w, m)
  <2>1. /\ timer' = [timer EXCEPT ![w] = NoId] /\ toT' = Posted(w, att[w].clients, m)
        /\ UNCHANGED <<ini, att, cleared>> /\ m.type = "complete"
    BY <1>7 DEF ReceiveComplete
  <2>2. m \in S
    BY <1>2, <2>1 DEF Good, Messages
  <2> HIDE DEF S
  <2>3. toT' \in [Tabs -> [Workers -> Seq(S)]]
    BY <1>1, <2>1, <2>2, PostedIn
  <2>4. \A v \in Workers : Steadfast(v)
    BY <1>1, <1>3, <2>1 DEF Steadfast, Finished
  <2> QED BY <2>1, <2>3, <2>4 DEF S
<1>8. CASE ReceiveStale(w, m)
  <2>1. UNCHANGED <<ini, att, hnd, cleared, timer, toT>> /\ m.type # "clear"
    BY <1>8 DEF ReceiveStale
  <2>2. \A v \in Workers : Steadfast(v)
    BY <1>3, <2>1 DEF Steadfast, Finished
  <2> QED BY <1>1, <2>1, <2>2
<1> QED BY <1>5, <1>6, <1>7, <1>8
        DEF Receive, ReceiveForce, ReceiveSync, ReceivePreserve, ReceiveCancel

\* A message is taken; a clear that comes is not lost with another.
LEMMA TakenKeepsClear ==
    ASSUME LogoutInv, NEW w \in Workers, NEW t \in Tabs, toW[w][t] # <<>>,
           toW' = [toW EXCEPT ![w][t] = Tail(@)], NEW v \in Workers, ClearComes(v),
           v = w => Head(toW[w][t]).type # "clear"
    PROVE  ClearComes(v)'
<1>1. toW \in [Workers -> [Tabs -> Seq(Messages(ForWorkers))]]
  BY RecordedSends
<1>2. PICK u \in Tabs : \E i \in 1..Len(toW[v][u]) : toW[v][u][i].type = "clear"
  BY DEF ClearComes
<1>3. PICK i \in 1..Len(toW[v][u]) : toW[v][u][i].type = "clear"
  BY <1>2
<1>4. CASE v = w /\ u = t
  <2> DEFINE q == toW[w][t]
  <2>1. q \in Seq(Messages(ForWorkers)) /\ q # <<>> /\ toW'[v][u] = Tail(q)
    BY <1>1, <1>4
  <2>2. i # 1
    BY <1>3, <1>4, <2>1
  <2>3. i - 1 \in 1..Len(Tail(q)) /\ Tail(q)[i - 1] = q[i]
    BY <1>3, <1>4, <2>1, <2>2
  <2> QED BY <1>3, <1>4, <2>1, <2>3 DEF ClearComes
<1>5. CASE ~(v = w /\ u = t)
  <2>1. toW'[v][u] = toW[v][u]
    BY <1>1, <1>5
  <2> QED BY <1>3, <2>1 DEF ClearComes
<1> QED BY <1>4, <1>5

LEMMA RecordedWorkerReceives ==
    ASSUME OneAttempt, LogoutInv, BooksInv, Recorded, NEW w \in Workers, NEW t \in Tabs,
           WorkerReceives(w, t)
    PROVE  Recorded'
<1> DEFINE G == Good(ForWorkers)
           S == Messages({"revoked", "clear", "complete"})
           m == Head(toW[w][t])
<1>1. /\ toW[w][t] # <<>> /\ toW' = [toW EXCEPT ![w][t] = Tail(@)] /\ Receive(w, m)
      /\ UNCHANGED <<tab, unsynced, state, used>>
  BY DEF WorkerReceives, Editors
<1>2. toW \in [Workers -> [Tabs -> Seq(G)]] /\ toW \in [Workers -> [Tabs -> Seq(S)]]
  BY DEF LogoutInv, MailInv, Recorded, RecordedMail
<1> HIDE DEF G, S, m
<1>3. m \in G /\ m \in S /\ toW' \in [Workers -> [Tabs -> Seq(S)]]
  BY <1>1, <1>2, TakenIn DEF m
<1>4. m.type \in {"revoked", "clear", "complete"}
  BY <1>3 DEF S, Messages
<1>5. /\ \A v \in Workers : Steadfast(v)
      /\ toT' \in [Tabs -> [Workers -> Seq(Messages({"save", "revoked", "complete"}))]]
      /\ \A u \in Tabs : ini'[u].pc = ini[u].pc
      /\ m.type = "clear" => (timer'[w] # NoId => cleared'[w])
  BY <1>1, <1>3, <1>4, RecordedReceive DEF G
<1>6. RecordedMail'
  BY <1>3, <1>5 DEF RecordedMail, S
<1>7. \A v \in Workers : timer'[v] # NoId /\ ~cleared'[v] /\ ClearComes(v) => ClearComes(v)'
  BY <1>1, <1>5, TakenKeepsClear DEF m
<1> QED BY <1>1, <1>5, <1>6, <1>7, RecordedWorker

\* A worker's time runs out only when its clear has come.
LEMMA RecordedExpire ==
    ASSUME OneAttempt, LogoutInv, BooksInv, Recorded, NEW w \in Workers, Expire(w)
    PROVE  Recorded'
<1>1. timer[w] # NoId /\ Abandoned(timer[w])
  BY DEF Expire
<1>2. Expiry(w) \in Good(ForWorkers) /\ Receive(w, Expiry(w)) /\ Outside /\ UNCHANGED toW
  BY ExpiryOK
<1>3. cleared[w]
  <2>1. \A t \in Tabs : toW[w][t] = <<>>
    BY <1>1 DEF Abandoned
  <2>2. Len(<<>>) = 0 /\ 1..0 = {}
    OBVIOUS
  <2>3. ~ClearComes(w)
    BY <2>1, <2>2 DEF ClearComes
  <2> QED BY <1>1, <2>3 DEF Recorded, RecordedWorkers
<1>4. Expiry(w).type = "complete"
  BY <1>3 DEF Expiry, Msg
<1>5. /\ \A v \in Workers : Steadfast(v)
      /\ toT' \in [Tabs -> [Workers -> Seq(Messages({"save", "revoked", "complete"}))]]
      /\ \A u \in Tabs : ini'[u].pc = ini[u].pc
  BY <1>2, <1>4, RecordedReceive
<1>6. RecordedMail'
  BY <1>2, <1>5 DEF Recorded, RecordedMail
<1>7. \A v \in Workers : ClearComes(v) => ClearComes(v)'
  BY <1>2 DEF ClearComes
<1> QED BY <1>2, <1>5, <1>6, <1>7, RecordedWorker DEF Outside

LEMMA RecordedRestart ==
    ASSUME LogoutInv, Recorded, NEW w \in Workers, Push(w) \/ Restart(w)
    PROVE  Recorded'
<1>1. Restart(w)
  BY DEF Push, Recorded, RecordedWorkers
<1>2. /\ att' = [att EXCEPT ![w] = NoAttempt] /\ timer' = [timer EXCEPT ![w] = NoId]
      /\ UNCHANGED <<tab, ini, cleared, toW, toT, unsynced, state>>
  BY <1>1 DEF Restart, Editors
<1>3. /\ att \in [Workers -> Attempts] /\ timer \in [Workers -> Ids \cup {NoId}] /\ used'.ids = used.ids
  BY <1>1 DEF LogoutInv, StateOK, Restart
<1>4. \A v \in Workers : \/ v = w /\ timer'[v] = NoId /\ att'[v].id = NoId
                         \/ timer'[v] = timer[v] /\ att'[v] = att[v]
  BY <1>2, <1>3, NoAttemptOK
<1>5. \A v \in Workers : Steadfast(v)
  BY <1>2, <1>4 DEF Steadfast, Finished, Recorded, RecordedWorkers
<1>6. RecordedMail' /\ \A v \in Workers : ClearComes(v) => ClearComes(v)'
  BY <1>2 DEF Recorded, RecordedMail, ClearComes
<1> QED BY <1>2, <1>3, <1>5, <1>6, RecordedWorker

LEMMA RecordedHandler ==
    ASSUME OneAttempt, LogoutInv, Recorded, NEW w \in Workers, NEW id \in Ids, HandlerStep(w, id)
    PROVE  Recorded'
<1> DEFINE S == Messages({"save", "revoked", "complete"})
<1>1. UNCHANGED <<tab, unsynced, state, cleared, timer, toW, used>>
  BY DEF HandlerStep, Listed, SavesFail, Saved, Synchronized, Editors
<1>2. /\ att \in [Workers -> Attempts] /\ ini \in [Tabs -> Initiators] /\ toT \in [Tabs -> [Workers -> Seq(S)]]
      /\ \A v \in Workers : att[v].id # NoId => Finished(v)
  BY DEF LogoutInv, StateOK, Recorded, RecordedMail, RecordedWorkers
<1>3. ~session
  BY DEF LogoutInv, WorkerInv, Recorded
<1>4. \A u \in Tabs : ini'[u].pc = ini[u].pc
  <2>1. UNCHANGED ini \/ \E ok \in BOOLEAN : ini' = Reply(ini, "sync", id, w, ok)
    BY DEF HandlerStep, Listed, SavesFail, Saved, Synchronized, HandlerEnds
  <2> QED BY <1>2, <2>1, ReplyKeeps
<1>5. UNCHANGED att \/ att' = [att EXCEPT ![w].clients = Windows]
  BY <1>3 DEF HandlerStep, Listed, SavesFail, Saved, Synchronized
<1>6. \A v \in Workers : att'[v].id = att[v].id /\ att'[v].ready = att[v].ready /\ att'[v].preserved = att[v].preserved
  <2>1. CASE UNCHANGED att
    BY <2>1
  <2>2. CASE att' = [att EXCEPT ![w].clients = Windows]
    BY <1>2, <2>2 DEF Attempts
  <2> QED BY <1>5, <2>1, <2>2
<1>7. \A v \in Workers : Steadfast(v)
  BY <1>1, <1>2, <1>6 DEF Steadfast, Finished
<1>8. toT' \in [Tabs -> [Workers -> Seq(S)]]
  <2>1. CASE UNCHANGED toT
    BY <1>2, <2>1
  <2>2. CASE ~UNCHANGED toT
    <3>1. att[w].id = id /\ Listed(w, id)
      BY <2>2 DEF HandlerStep, Listed, SavesFail, Saved, Synchronized
    <3>2. ~att[w].preserved
      BY <1>2, <3>1, IdFacts DEF Finished
    <3>3. Msg("save", id) \in S /\ Msg("revoked", id) \in S
      BY DEF Msg, Messages
    <3>4. PICK ms \in {<<Msg("save", id)>>, <<Msg("save", id), Msg("revoked", id)>>} :
             toT' = PostedAll(w, Windows, ms)
      <4>1. toT' = PostedAll(w, Windows, IF att[w].revoked /\ ~att[w].preserved
                                             THEN <<Msg("save", id), Msg("revoked", id)>>
                                             ELSE <<Msg("save", id)>>)
        BY <3>1, <3>2 DEF Listed
      <4> QED BY <4>1
    <3> HIDE DEF S
    <3>5. ms \in Seq(S)
      <4> DEFINE x == Msg("save", id)
                 y == Msg("revoked", id)
      <4>1. x \in S /\ y \in S /\ (ms = <<x>> \/ ms = <<x, y>>)
        BY <3>3, <3>4
      <4> HIDE DEF x, y
      <4>2. <<x>> \in Seq(S) /\ <<x, y>> \in Seq(S)
        BY <4>1
      <4> QED BY <4>1, <4>2
    <3> QED BY <1>2, <3>4, <3>5, PostedAllIn
  <2> QED BY <2>1, <2>2
<1>9. RecordedMail' /\ \A v \in Workers : ClearComes(v) => ClearComes(v)'
  BY <1>1, <1>8 DEF Recorded, RecordedMail, ClearComes
<1> QED BY <1>1, <1>4, <1>7, <1>9, RecordedWorker

LEMMA RecordedStep ==
    ASSUME OneAttempt, LogoutInv, BooksInv, ~forced, Recorded, Next
    PROVE  Recorded' \/ Gone'
<1>1. CASE \E t \in Tabs : Edit(t) \/ AutoSave(t) \/ Load(t) \/ Boot(t) \/ Close(t) \/ CleanUp(t)
  BY <1>1, RecordedTabSteps
<1>2. CASE \E t \in Tabs : InitiatorStep(t) \/ TimeOut(t) \/ \E force \in Forces : Start(t, force)
  BY <1>2, RecordedInitiator
<1>3. CASE \E t \in Tabs : \E w \in Workers : TabReceives(t, w) \/ WorkerReceives(w, t)
  BY <1>3, RecordedReceives, RecordedWorkerReceives
<1>4. CASE \E t \in Tabs : \E m \in air[t] : TabHears(t, m)
  BY <1>4, RecordedHears
<1>5. CASE \E t \in Tabs : \E id \in Ids, ok \in BOOLEAN : SaveEnds(t, id, ok)
  BY <1>5, RecordedSaves
<1>6. CASE \E w \in Workers : Push(w) \/ Restart(w) \/ Expire(w) \/ \E id \in Ids : HandlerStep(w, id)
  BY <1>6, RecordedRestart, RecordedExpire, RecordedHandler
<1>7. CASE Lapse
  BY <1>7 DEF Lapse, Recorded
<1> QED BY <1>1, <1>2, <1>3, <1>4, <1>5, <1>6, <1>7 DEF Next

-----------------------------------------------------------------------------
(* Before the revocation is recorded: what holds whether or not a tab runs *)
(* the attempt.                                                            *)

\* An editor that saved for its attempt has no edits.
Clean(r) == r.page = "open" /\ r.att # NoId /\ r.save[r.att] = "ok" => ~r.dirty

\* No tab has heard that the session is revoked.
Untold ==
    /\ ~state.revoked /\ (used.ids = 0 => session)
    /\ \A t \in Tabs : ~tab[t].known /\ ini[t].pc # "clear" /\ (session => Clean(tab[t]))

\* No worker has dropped its keys or is told to.
Uncleared ==
    /\ \A w \in Workers : ~cleared[w]
    /\ toW \in [Workers -> [Tabs -> Seq(Messages(ForWorkers \ {"clear"}))]]

\* Record q may follow r while nobody knows of a revocation.
Calm(r, q) == (q.known => r.known \/ state.revoked) /\ (Clean(r) => Clean(q))

LEMMA CalmAlike ==
    ASSUME NEW r \in TabRecords, NEW q,
           q.page \in {r.page, "out"}, q.dirty = r.dirty, q.save = r.save, q.att \in {r.att, NoId},
           q.known \in {r.known, state.revoked}
    PROVE  Calm(r, q)
BY DEF Calm, Clean

LEMMA FinishAlike ==
    ASSUME NEW r \in TabRecords, NEW t, NEW id
    PROVE  LET q == Finish(r, t, id) IN
           /\ q.page \in {r.page, "out"} /\ q.dirty = r.dirty /\ q.save = r.save /\ q.att = r.att
           /\ q.known \in {r.known, state.revoked}
BY DEF Finish, Leave, Freeze, TabRecords

LEMMA HandledCalm ==
    ASSUME NEW r \in TabRecords, NEW t, NEW m, m.id \in Ids
    PROVE  Calm(r, Handled(r, t, m))
<1>1. CASE Handled(r, t, m) = Leave(Freeze(Revoke(r), TRUE), t)
  <2> DEFINE q == Leave(Freeze(Revoke(r), TRUE), t)
  <2>1. /\ q.page \in {r.page, "out"} /\ q.dirty = r.dirty /\ q.save = r.save /\ q.att = r.att
        /\ q.known \in {r.known, state.revoked}
    BY DEF Leave, Freeze, Revoke, TabRecords
  <2> HIDE DEF q
  <2>2. Calm(r, q)
    BY <2>1, CalmAlike
  <2> QED BY <1>1, <2>2 DEF q
<1>2. CASE Handled(r, t, m) \in {Revoke(r), Preserve(r), Cancel(r), r}
  <2>1. \A q \in {Revoke(r), Preserve(r), Cancel(r), r} :
          /\ q.page = r.page /\ q.dirty = r.dirty /\ q.save = r.save /\ q.att \in {r.att, NoId}
          /\ q.known = r.known
    BY DEF Revoke, Preserve, Cancel, Freeze, TabRecords
  <2> QED BY <1>2, <2>1, CalmAlike
<1>3. CASE Handled(r, t, m) = Complete(r, t, m.id)
  <2> DEFINE p == Revoke(r)
             x == [p EXCEPT !.pend[m.id] = @ \cup {Done}]
             y == Finish(p, t, m.id)
  <2>1. p \in TabRecords
    BY RevokeType
  <2>2. p.page = r.page /\ p.dirty = r.dirty /\ p.save = r.save /\ p.att = r.att /\ p.known = r.known
    BY DEF Revoke, TabRecords
  <2>3. Complete(r, t, m.id) = x \/ Complete(r, t, m.id) = y
    BY DEF Complete
  <2> HIDE DEF p
  <2>4. x.page = p.page /\ x.dirty = p.dirty /\ x.save = p.save /\ x.att = p.att /\ x.known = p.known
    BY <2>1 DEF TabRecords
  <2>5. /\ y.page \in {p.page, "out"} /\ y.dirty = p.dirty /\ y.save = p.save /\ y.att = p.att
        /\ y.known \in {p.known, state.revoked}
    BY <2>1, FinishAlike
  <2> HIDE DEF x, y
  <2>6. Calm(r, x) /\ Calm(r, y)
    BY <2>2, <2>4, <2>5, CalmAlike
  <2> QED BY <1>3, <2>3, <2>6
<1> QED BY <1>1, <1>2, <1>3, HandledCases

LEMMA AskedCalm ==
    ASSUME NEW r \in TabRecords, NEW id \in Ids, NEW who \in Workers \cup {Self, Done}
    PROVE  Calm(r, Asked(r, id, who))
<1> DEFINE x == [Freeze(r, TRUE) EXCEPT !.att = id, !.save[id] = "saving", !.pend[id] = @ \cup {who}]
           y == [r EXCEPT !.pend[id] = @ \cup {who}]
           z == Freeze(r, FALSE)
<1>1. Asked(r, id, who) \in {r, x, y, z}
  BY DEF Asked
<1>2. x.att = id /\ x.save[id] = "saving" /\ x.known = r.known
  BY DEF Freeze, TabRecords
<1>3. /\ y.page = r.page /\ y.dirty = r.dirty /\ y.save = r.save /\ y.att = r.att /\ y.known = r.known
      /\ z.page = r.page /\ z.dirty = r.dirty /\ z.save = r.save /\ z.att = r.att /\ z.known = r.known
  BY DEF Freeze, TabRecords
<1> HIDE DEF x, y, z
<1>4. Calm(r, x)
  BY <1>2 DEF Calm, Clean
<1>5. Calm(r, y) /\ Calm(r, z) /\ Calm(r, r)
  BY <1>3, CalmAlike
<1> QED BY <1>1, <1>4, <1>5

LEMMA EndCalm ==
    ASSUME LogoutInv, NEW t \in Tabs, tab[t].page = "open", NEW id \in Ids, NEW ok \in BOOLEAN
    PROVE  Calm(tab[t], EndRecord(tab[t], t, id, ok))
<1> DEFINE r == tab[t]
           q == SavedRecord(r, id, ok)
           c == ~(ok /\ r.att = id) /\ r.revoked /\ r.pend[id] \ {Done} # {}
           p == IF c THEN Freeze(q, FALSE) ELSE q
           v == IF ok THEN "ok" ELSE "failed"
<1>1. r \in TabRecords
  BY DEF LogoutInv, StateOK
<1>2. Hears(r, t, session, forced, used.ids)
  BY IsHeard
<1>3. q \in TabRecords /\ q.save[id] = v /\ (ok => ~q.dirty) /\ q.att = r.att
  BY <1>2, SavedFollows DEF Follows
<1>4. q.save = [r.save EXCEPT ![id] = v] /\ q.known = r.known /\ (q.dirty => r.dirty) /\ q.page = r.page
  <2> DEFINE b == r.dirty /\ ~ok
  <2>1. q = [r EXCEPT !.dirty = b, !.save[id] = v, !.pend[id] = {}]
    BY DEF SavedRecord
  <2>2. b => r.dirty
    BY Zenon
  <2> HIDE DEF b, v, q
  <2> QED BY <1>1, <2>1, <2>2 DEF TabRecords
<1>5. EndRecord(r, t, id, ok) = IF Done \in r.pend[id] THEN Finish(p, t, id) ELSE p
  BY DEF EndRecord
<1>6. Freeze(q, FALSE) \in TabRecords
  BY <1>3, FreezeType
<1> HIDE DEF q, c
<1>7. p \in TabRecords /\ p.page = q.page /\ p.dirty = q.dirty /\ p.save = q.save /\ p.att = q.att /\ p.known = q.known
  BY <1>3, <1>6 DEF Freeze, TabRecords
<1> HIDE DEF p
<1> DEFINE e == Finish(p, t, id)
<1>8. /\ e.page \in {p.page, "out"} /\ e.dirty = p.dirty /\ e.save = p.save /\ e.att = p.att
      /\ e.known \in {p.known, state.revoked}
  BY <1>7, FinishAlike
<1> HIDE DEF e
<1>9. r.save \in [Ids -> {"none", "saving", "ok", "failed"}] /\ r.att \in Ids \cup {NoId}
  BY <1>1 DEF TabRecords
<1>10. Clean(r) => (q.att # NoId /\ q.save[q.att] = "ok" => ~q.dirty)
  <2>1. CASE r.att = id
    BY <1>3, <2>1
  <2>2. CASE r.att # id
    BY <1>3, <1>4, <1>9, <2>2 DEF Clean
  <2> QED BY <2>1, <2>2
<1>11. Calm(r, e) /\ Calm(r, p)
  BY <1>4, <1>7, <1>8, <1>10 DEF Calm, Clean
<1> QED BY <1>5, <1>11 DEF e

\* One tab's record changes to q, and no initiator is told of a revocation.
LEMMA UntoldTab ==
    ASSUME LogoutInv, Untold, NEW t \in Tabs, NEW q, tab' = [tab EXCEPT ![t] = q],
           ~q.known, session' => Clean(q), session' => session, used'.ids = 0 => session',
           ~state'.revoked, \A u \in Tabs : ini'[u].pc # "clear"
    PROVE  Untold'
<1>1. \A u \in Tabs : tab'[u] = tab[u] \/ (u = t /\ tab'[u] = q)
  BY DEF LogoutInv, StateOK
<1> QED BY <1>1 DEF Untold

LEMMA CalmTab ==
    ASSUME LogoutInv, Untold, NEW t \in Tabs, NEW q, tab' = [tab EXCEPT ![t] = q], Calm(tab[t], q),
           session' => session, used'.ids = 0 => session',
           ~state'.revoked, \A u \in Tabs : ini'[u].pc # "clear"
    PROVE  Untold'
<1>1. ~q.known /\ (session' => Clean(q))
  BY DEF Untold, Calm
<1> QED BY <1>1, UntoldTab

LEMMA UntoldStays ==
    ASSUME Untold, UNCHANGED <<tab, session>>, used'.ids = used.ids, ~state'.revoked,
           \A u \in Tabs : ini'[u].pc # "clear"
    PROVE  Untold'
BY DEF Untold

LEMMA UntoldTabs ==
    ASSUME LogoutInv, Untold, NEW t \in Tabs,
           Edit(t) \/ AutoSave(t) \/ Load(t) \/ Boot(t) \/ Close(t)
    PROVE  Untold'
<1> DEFINE r == tab[t]
<1>1. r \in TabRecords /\ ini \in [Tabs -> Initiators] /\ Editor(r, session)
  BY DEF LogoutInv, StateOK, PairInv
<1>2. /\ UNCHANGED <<session, state>> /\ used'.ids = used.ids
  BY DEF Edit, AutoSave, Load, Boot, Close, Coordination, LogoutInv, StateOK
<1>3. \A u \in Tabs : ini'[u].pc # "clear"
  <2>1. UNCHANGED ini \/ ini' = [ini EXCEPT ![t] = Idle]
    BY DEF Edit, AutoSave, Load, Boot, Close, Coordination
  <2> QED BY <1>1, <2>1, IdleOK DEF Untold
<1>4. ~state.revoked /\ (used.ids = 0 => session) /\ ~r.known /\ (session => Clean(r))
  BY DEF Untold
<1>5. CASE Edit(t)
  <2> DEFINE q == [r EXCEPT !.dirty = TRUE]
  <2>1. q.att = r.att /\ q.known = r.known /\ ~r.frozen /\ r.page = "open" /\ tab' = [tab EXCEPT ![t] = q]
    BY <1>1, <1>5 DEF Edit, TabRecords
  <2> HIDE DEF q
  <2>2. session => Clean(q)
    BY <1>1, <2>1 DEF Editor, Clean
  <2> QED BY <1>2, <1>3, <1>4, <2>1, <2>2, UntoldTab
<1>6. CASE AutoSave(t)
  <2> DEFINE q == [r EXCEPT !.dirty = FALSE]
  <2>1. q.dirty = FALSE /\ q.known = r.known /\ tab' = [tab EXCEPT ![t] = q]
    BY <1>1, <1>6 DEF AutoSave, TabRecords
  <2> HIDE DEF q
  <2>2. session => Clean(q)
    BY <2>1 DEF Clean
  <2> QED BY <1>2, <1>3, <1>4, <2>1, <2>2, UntoldTab
<1>7. CASE Load(t) \/ Boot(t)
  <2>1. PICK p \in {"loading", "open"} : tab' = [tab EXCEPT ![t] = [r EXCEPT !.page = p]]
    <3>1. CASE Load(t)
      BY <3>1 DEF Load
    <3>2. CASE Boot(t)
      BY <1>4, <3>2 DEF Boot
    <3> QED BY <1>7, <3>1, <3>2
  <2> DEFINE q == [r EXCEPT !.page = p]
  <2>2. q.att = r.att /\ q.known = r.known /\ r.page \in {"new", "loading"} /\ tab' = [tab EXCEPT ![t] = q]
    BY <1>1, <1>7, <2>1 DEF Load, Boot, TabRecords
  <2> HIDE DEF q
  <2>3. Clean(q)
    BY <1>1, <2>2 DEF Editor, Clean
  <2> QED BY <1>2, <1>3, <1>4, <2>2, <2>3, UntoldTab
<1>8. CASE Close(t)
  <2>1. tab' = [tab EXCEPT ![t] = NewTab("closed")]
    BY <1>8 DEF Close
  <2>2. ~NewTab("closed").known /\ Clean(NewTab("closed"))
    BY NewTabOK DEF Clean
  <2> QED BY <1>2, <1>3, <1>4, <2>1, <2>2, UntoldTab
<1> QED BY <1>5, <1>6, <1>7, <1>8

LEMMA UntoldHears ==
    ASSUME LogoutInv, Untold, NEW t \in Tabs,
           \/ \E w \in Workers : TabReceives(t, w)
           \/ \E m \in air[t] : TabHears(t, m)
           \/ \E id \in Ids, ok \in BOOLEAN : SaveEnds(t, id, ok)
    PROVE  Untold'
<1> DEFINE r == tab[t]
<1>1. r \in TabRecords /\ ini \in [Tabs -> Initiators]
  BY DEF LogoutInv, StateOK
<1>2. UNCHANGED <<session, state, used>>
  BY DEF TabReceives, TabHears, SaveEnds
<1>3. ~state'.revoked /\ (used'.ids = 0 => session')
  BY <1>2 DEF Untold
<1>4. \A u \in Tabs : ini'[u].pc = ini[u].pc
  <2>1. UNCHANGED ini \/ \E id, fine : fine \in BOOLEAN /\ ini' = Reply(ini, "save", id, Self, fine)
    <3>1. CASE \E id \in Ids, ok \in BOOLEAN : SaveEnds(t, id, ok)
      <4>1. PICK id \in Ids, ok \in BOOLEAN : SaveEnds(t, id, ok)
        BY <3>1
      <4> DEFINE fine == ok /\ r.att = id
      <4>2. UNCHANGED ini \/ ini' = Reply(ini, "save", id, Self, fine)
        BY <4>1, Zenon DEF SaveEnds
      <4>3. fine \in BOOLEAN
        BY Zenon
      <4> HIDE DEF fine
      <4> QED BY <4>2, <4>3
    <3>2. CASE ~\E id \in Ids, ok \in BOOLEAN : SaveEnds(t, id, ok)
      BY <3>2 DEF TabReceives, TabHears
    <3> QED BY <3>1, <3>2
  <2> QED BY <1>1, <2>1, ReplyKeeps
<1>5. \A u \in Tabs : ini'[u].pc # "clear"
  BY <1>4 DEF Untold
<1>6. UNCHANGED tab \/ \E q : Calm(r, q) /\ tab' = [tab EXCEPT ![t] = q]
  <2>1. ASSUME NEW w \in Workers, TabReceives(t, w)
        PROVE  UNCHANGED tab \/ \E q : Calm(r, q) /\ tab' = [tab EXCEPT ![t] = q]
    <3> DEFINE m == Head(toT[t][w])
               G == Good(ForTabs)
    <3>1. toT[t][w] # <<>> /\ toT \in [Tabs -> [Workers -> Seq(G)]]
      BY <2>1 DEF TabReceives, LogoutInv, MailInv
    <3>2. UNCHANGED tab \/ \E q \in {Handled(r, t, m), Asked(r, m.id, w)} : tab' = [tab EXCEPT ![t] = q]
      BY <2>1 DEF TabReceives
    <3> HIDE DEF G, m
    <3>3. m \in G
      BY <3>1, TakenIn DEF m
    <3>4. m.id \in Ids
      BY <3>3, GoodFacts DEF G
    <3>5. Calm(r, Handled(r, t, m)) /\ Calm(r, Asked(r, m.id, w))
      BY <1>1, <3>4, HandledCalm, AskedCalm
    <3> QED BY <3>2, <3>5
  <2>2. ASSUME NEW m \in air[t], TabHears(t, m)
        PROVE  UNCHANGED tab \/ \E q : Calm(r, q) /\ tab' = [tab EXCEPT ![t] = q]
    <3>1. m \in Good(ForAll)
      BY DEF LogoutInv, MailInv
    <3>2. Calm(r, Handled(r, t, m))
      BY <1>1, <3>1, GoodFacts, HandledCalm
    <3>3. UNCHANGED tab \/ tab' = [tab EXCEPT ![t] = Handled(r, t, m)]
      BY <2>2 DEF TabHears
    <3> QED BY <3>2, <3>3
  <2>3. ASSUME NEW id \in Ids, NEW ok \in BOOLEAN, SaveEnds(t, id, ok)
        PROVE  \E q : Calm(r, q) /\ tab' = [tab EXCEPT ![t] = q]
    <3>1. r.page = "open" /\ tab' = [tab EXCEPT ![t] = EndRecord(r, t, id, ok)]
      BY <2>3, Zenon DEF SaveEnds, EndRecord, SavedRecord
    <3>2. Calm(r, EndRecord(r, t, id, ok))
      BY <3>1, EndCalm
    <3> QED BY <3>1, <3>2
  <2> QED BY <2>1, <2>2, <2>3
<1>7. CASE UNCHANGED tab
  BY <1>2, <1>3, <1>5, <1>7, UntoldStays
<1>8. CASE \E q : Calm(r, q) /\ tab' = [tab EXCEPT ![t] = q]
  BY <1>2, <1>3, <1>5, <1>8, CalmTab
<1> QED BY <1>6, <1>7, <1>8

\* The messages to a worker that leave it its keys.
Unclear == Messages(ForWorkers \ {"clear"})

\* The attempt of t ends without a recorded revocation.
Ends(t) ==
    /\ ini' = [ini EXCEPT ![t] = Idle] /\ session' \in {session, FALSE}
    /\ state' \in {state, NoState}
    /\ \E q : Calm(tab[t], q) /\ tab' = [tab EXCEPT ![t] = q]
    /\ \E type \in {"cancel", "preserve"} : toW' = Sent(t, ini[t].ws, <<Msg(type, ini[t].id)>>)

LEMMA FailEnds ==
    ASSUME LogoutInv, NEW t \in Tabs, ini[t].pc # "idle", Fail(t), session' \in {session, FALSE}
    PROVE  Ends(t)
<1> DEFINE m == Msg("cancel", ini[t].id)
           q == Handled(tab[t], t, m)
<1>1. /\ toW' = Sent(t, ini[t].ws, <<m>>) /\ tab' = [tab EXCEPT ![t] = q] /\ ini' = [ini EXCEPT ![t] = Idle]
      /\ state' = IF state.id = ini[t].id THEN NoState ELSE state
  BY DEF Fail
<1>2. tab[t] \in TabRecords /\ ini[t].id \in Ids
  BY InitiatorFacts DEF Runner
<1>3. m.id = ini[t].id
  BY DEF Msg
<1> HIDE DEF m
<1>4. Calm(tab[t], q)
  BY <1>2, <1>3, HandledCalm
<1> HIDE DEF q
<1>5. \E x : Calm(tab[t], x) /\ tab' = [tab EXCEPT ![t] = x]
  BY <1>1, <1>4
<1>6. \E type \in {"cancel", "preserve"} : toW' = Sent(t, ini[t].ws, <<Msg(type, ini[t].id)>>)
  BY <1>1 DEF m
<1> QED BY <1>1, <1>5, <1>6 DEF Ends

LEMMA InitiatorMoves ==
    ASSUME LogoutInv, Untold, NEW t \in Tabs, InitiatorStep(t), ~Revoked(t)
    PROVE  /\ UNCHANGED <<att, hnd, cleared, timer, toT, unsynced, forced, used>>
           /\ ini[t].pc \notin {"idle", "clear"}
           /\ \/ Ends(t)
              \/ /\ UNCHANGED <<tab, state, session>>
                 /\ \/ OwnSave(t) /\ ini' = [ini EXCEPT ![t].pc = "prepare"] /\ UNCHANGED toW
                    \/ Prepare(t) /\ ini[t].force /\ UNCHANGED toW
                       /\ ini' = [ini EXCEPT ![t].pc = "fetch", ![t].ws = {w \in Workers : ~cleared[w]}]
                    \/ /\ Prepare(t) /\ ~ini[t].force
                       /\ \E x \in BOOLEAN :
                            ini' = [ini EXCEPT ![t].pc = "sync", ![t].ws = {w \in Workers : ~cleared[w]},
                                               ![t].wait = {w \in Workers : ~cleared[w]}, ![t].bad = x]
                       /\ toW' = Sent(t, {w \in Workers : ~cleared[w]}, <<Msg("sync", ini[t].id)>>)
                    \/ Synced(t) /\ ini' = [ini EXCEPT ![t].pc = "fetch"] /\ UNCHANGED toW
<1>1. ~Away(t)
  BY DEF Untold, Away
<1>2. CASE OwnSave(t)
  <2>1. ini[t].pc = "save" /\ UNCHANGED <<att, hnd, cleared, timer, toT, unsynced, session, forced, used>>
    BY <1>2 DEF OwnSave
  <2>2. Fail(t) => Ends(t)
    BY <2>1, FailEnds
  <2>3. Fail(t) \/ (ini' = [ini EXCEPT ![t].pc = "prepare"] /\ UNCHANGED <<toW, state, tab>>)
    BY <1>2 DEF OwnSave
  <2> QED BY <1>2, <2>1, <2>2, <2>3
<1>3. CASE Synced(t)
  <2>1. ini[t].pc = "sync" /\ UNCHANGED <<att, hnd, cleared, timer, toT, unsynced, session, forced, used>>
    BY <1>3 DEF Synced
  <2>2. Fail(t) => Ends(t)
    BY <2>1, FailEnds
  <2>3. Fail(t) \/ (ini' = [ini EXCEPT ![t].pc = "fetch"] /\ UNCHANGED <<toW, state, tab>>)
    BY <1>3 DEF Synced
  <2> QED BY <1>3, <2>1, <2>2, <2>3
<1>4. CASE Prepare(t)
  <2> DEFINE ws == {w \in Workers : ~cleared[w]}
             unsure == ws = {} /\ \E u \in Tabs \ {t} : tab[u].page = "open"
             going(x) == ini' = [ini EXCEPT ![t].pc = "sync", ![t].ws = ws, ![t].wait = ws, ![t].bad = x]
  <2>1. ini[t].pc = "prepare" /\ UNCHANGED <<att, hnd, cleared, timer, toT, unsynced, session, forced, used>>
    BY <1>4 DEF Prepare
  <2>2. Fail(t) => Ends(t)
    BY <2>1, FailEnds
  <2>3. unsure \in BOOLEAN
    BY Zenon
  <2>4. \/ Fail(t)
        \/ /\ ~ini[t].force /\ going(unsure)
           /\ toW' = Sent(t, ws, <<Msg("sync", ini[t].id)>>) /\ UNCHANGED <<tab, state>>
        \/ /\ ini[t].force /\ ini' = [ini EXCEPT ![t].pc = "fetch", ![t].ws = ws]
           /\ UNCHANGED <<toW, tab, state>>
    BY <1>4, Zenon DEF Prepare
  <2> HIDE DEF unsure, going, ws
  <2>5. going(unsure) => \E x \in BOOLEAN : going(x)
    BY <2>3
  <2>6. CASE Fail(t)
    BY <2>1, <2>2, <2>6
  <2>7. CASE /\ ~ini[t].force /\ going(unsure)
             /\ toW' = Sent(t, ws, <<Msg("sync", ini[t].id)>>) /\ UNCHANGED <<tab, state>>
    BY <1>4, <2>1, <2>5, <2>7 DEF going, ws
  <2>8. CASE /\ ini[t].force /\ ini' = [ini EXCEPT ![t].pc = "fetch", ![t].ws = ws]
             /\ UNCHANGED <<toW, tab, state>>
    BY <1>4, <2>1, <2>8 DEF ws
  <2> QED BY <2>4, <2>6, <2>7, <2>8
<1>5. CASE FetchFails(t)
  <2>1. ini[t].pc = "fetch" /\ Fail(t) /\ session' \in {session, FALSE}
        /\ UNCHANGED <<att, hnd, cleared, timer, toT, unsynced, forced, used>>
    BY <1>5 DEF FetchFails
  <2> QED BY <2>1, FailEnds
<1>6. CASE RevokedUnrecorded(t)
  <2> DEFINE q == [tab[t] EXCEPT !.page = "out", !.known = state.revoked]
  <2>1. /\ ini[t].pc = "fetch" /\ session' = FALSE /\ tab' = [tab EXCEPT ![t] = q]
        /\ toW' = Sent(t, ini[t].ws, <<Msg("preserve", ini[t].id)>>) /\ ini' = [ini EXCEPT ![t] = Idle]
        /\ UNCHANGED <<att, hnd, cleared, timer, toT, unsynced, state, forced, used>>
    BY <1>6 DEF RevokedUnrecorded
  <2>2. tab[t] \in TabRecords
    BY DEF LogoutInv, StateOK
  <2>3. q.page = "out" /\ q.dirty = tab[t].dirty /\ q.save = tab[t].save /\ q.att = tab[t].att /\ q.known = state.revoked
    BY <2>2 DEF TabRecords
  <2> HIDE DEF q
  <2>4. Calm(tab[t], q)
    BY <2>2, <2>3, CalmAlike
  <2>5. \E x : Calm(tab[t], x) /\ tab' = [tab EXCEPT ![t] = x]
    BY <2>1, <2>4
  <2>6. Ends(t)
    BY <2>1, <2>5 DEF Ends
  <2> QED BY <2>1, <2>6
<1> QED BY <1>1, <1>2, <1>3, <1>4, <1>5, <1>6 DEF InitiatorStep

LEMMA SaidUnclear ==
    ASSUME NEW type \in {"sync", "cancel", "preserve"}, NEW id \in Ids
    PROVE  <<Msg(type, id)>> \in Seq(Unclear)
<1>1. Msg(type, id) \in Unclear
  BY DEF Msg, Unclear, Messages, ForWorkers
<1> HIDE DEF Msg
<1> QED BY <1>1

LEMMA SentUncleared ==
    ASSUME Uncleared, UNCHANGED cleared, NEW t \in Tabs, NEW ws, NEW ms \in Seq(Unclear),
           toW' = Sent(t, ws, ms)
    PROVE  Uncleared'
<1>1. toW \in [Workers -> [Tabs -> Seq(Unclear)]]
  BY DEF Uncleared, Unclear
<1>2. toW' \in [Workers -> [Tabs -> Seq(Unclear)]]
  BY <1>1, SentIn
<1> QED BY <1>2 DEF Uncleared, Unclear

LEMMA UnclearedStays ==
    ASSUME Uncleared, UNCHANGED <<cleared, toW>>
    PROVE  Uncleared'
BY DEF Uncleared

LEMMA UntoldInitiator ==
    ASSUME LogoutInv, Untold, Uncleared, NEW t \in Tabs, InitiatorStep(t), ~Revoked(t)
    PROVE  Untold' /\ Uncleared'
<1>1. UNCHANGED <<cleared, used>> /\ ini[t].pc \notin {"idle", "clear"}
  BY InitiatorMoves
<1>2. /\ ini \in [Tabs -> Initiators] /\ ini[t].id \in Ids /\ ini[t].id <= used.ids /\ used.ids \in Nat
  BY <1>1, InitiatorFacts DEF Runner, LogoutInv, StateOK
<1>3. used.ids # 0
  <2>1. ini[t].id \in Nat /\ ini[t].id >= 1
    BY <1>2, IdFacts
  <2> HIDE DEF Ids
  <2> QED BY <1>2, <2>1
<1>4. CASE Ends(t)
  <2>1. PICK q : Calm(tab[t], q) /\ tab' = [tab EXCEPT ![t] = q]
    BY <1>4 DEF Ends
  <2>2. \A u \in Tabs : ini'[u].pc # "clear"
    BY <1>2, <1>4, IdleOK DEF Ends, Untold
  <2>3. (session' => session) /\ ~state'.revoked
    <3>1. session' = session \/ session' = FALSE
      BY <1>4 DEF Ends
    <3>2. session' => session
      BY <3>1, Zenon
    <3> QED BY <1>4, <3>2, NoStateOK DEF Ends, Untold
  <2>4. Untold'
    BY <1>1, <1>3, <2>1, <2>2, <2>3, CalmTab
  <2>5. PICK type \in {"cancel", "preserve"} : toW' = Sent(t, ini[t].ws, <<Msg(type, ini[t].id)>>)
    BY <1>4 DEF Ends
  <2>6. <<Msg(type, ini[t].id)>> \in Seq(Unclear)
    BY <1>2, SaidUnclear
  <2> QED BY <1>1, <2>4, <2>5, <2>6, SentUncleared
<1>5. CASE ~Ends(t)
  <2>1. /\ UNCHANGED <<tab, state, session>>
        /\ \E p \in {"prepare", "sync", "fetch"} : \E b : ini' = [ini EXCEPT ![t] = b] /\ b.pc = p
        /\ UNCHANGED toW \/ \E ws : toW' = Sent(t, ws, <<Msg("sync", ini[t].id)>>)
    <3> DEFINE ws == {w \in Workers : ~cleared[w]}
    <3>1. ini[t] \in Initiators
      BY <1>2
    <3>2. /\ UNCHANGED <<tab, state, session>>
          /\ UNCHANGED toW \/ \E s : toW' = Sent(t, s, <<Msg("sync", ini[t].id)>>)
      BY <1>5, InitiatorMoves
    <3>3. \/ ini' = [ini EXCEPT ![t].pc = "prepare"]
          \/ ini' = [ini EXCEPT ![t].pc = "fetch", ![t].ws = ws]
          \/ \E x \in BOOLEAN : ini' = [ini EXCEPT ![t].pc = "sync", ![t].ws = ws, ![t].wait = ws, ![t].bad = x]
          \/ ini' = [ini EXCEPT ![t].pc = "fetch"]
      BY <1>5, InitiatorMoves
    <3> HIDE DEF ws
    <3>4. CASE ini' = [ini EXCEPT ![t].pc = "prepare"]
      <4> DEFINE b == [ini[t] EXCEPT !.pc = "prepare"]
      <4>1. ini' = [ini EXCEPT ![t] = b] /\ b.pc = "prepare"
        BY <3>1, <3>4 DEF Initiators
      <4> QED BY <3>2, <4>1
    <3>5. CASE ini' = [ini EXCEPT ![t].pc = "fetch", ![t].ws = ws]
      <4> DEFINE b == [ini[t] EXCEPT !.pc = "fetch", !.ws = ws]
      <4>1. ini' = [ini EXCEPT ![t] = b] /\ b.pc = "fetch"
        BY <1>2, <3>1, <3>5 DEF Initiators
      <4> QED BY <3>2, <4>1
    <3>6. CASE \E x \in BOOLEAN : ini' = [ini EXCEPT ![t].pc = "sync", ![t].ws = ws, ![t].wait = ws, ![t].bad = x]
      <4>1. PICK x \in BOOLEAN : ini' = [ini EXCEPT ![t].pc = "sync", ![t].ws = ws, ![t].wait = ws, ![t].bad = x]
        BY <3>6
      <4> DEFINE b == [ini[t] EXCEPT !.pc = "sync", !.ws = ws, !.wait = ws, !.bad = x]
      <4>2. ini' = [ini EXCEPT ![t] = b] /\ b.pc = "sync"
        BY <1>2, <3>1, <4>1 DEF Initiators
      <4> QED BY <3>2, <4>2
    <3>7. CASE ini' = [ini EXCEPT ![t].pc = "fetch"]
      <4> DEFINE b == [ini[t] EXCEPT !.pc = "fetch"]
      <4>1. ini' = [ini EXCEPT ![t] = b] /\ b.pc = "fetch"
        BY <3>1, <3>7 DEF Initiators
      <4> QED BY <3>2, <4>1
    <3> QED BY <3>3, <3>4, <3>5, <3>6, <3>7
  <2>2. \A u \in Tabs : ini'[u].pc # "clear"
    BY <1>2, <2>1 DEF Untold
  <2>3. Untold'
    BY <1>1, <2>1, <2>2, UntoldStays DEF Untold
  <2>4. <<Msg("sync", ini[t].id)>> \in Seq(Unclear)
    BY <1>2, SaidUnclear
  <2> QED BY <1>1, <2>1, <2>3, <2>4, SentUncleared, UnclearedStays
<1> QED BY <1>4, <1>5

LEMMA UntoldTimeOut ==
    ASSUME LogoutInv, Untold, Uncleared, NEW t \in Tabs, TimeOut(t)
    PROVE  Untold' /\ Uncleared'
<1>1. /\ ini' = [ini EXCEPT ![t].wait = {}, ![t].bad = TRUE]
      /\ UNCHANGED <<tab, session, state, used, cleared, toW>>
  BY DEF TimeOut, Editors
<1>2. ini \in [Tabs -> Initiators]
  BY DEF LogoutInv, StateOK
<1>3. \A u \in Tabs : ini'[u].pc = ini[u].pc
  BY <1>1, <1>2 DEF Initiators
<1> QED BY <1>1, <1>3, UntoldStays, UnclearedStays DEF Untold

LEMMA UntoldStart ==
    ASSUME OneAttempt, LogoutInv, Untold, Uncleared, NEW t \in Tabs, NEW force \in Forces,
           Start(t, force), ~force
    PROVE  /\ Untold' /\ Uncleared' /\ used.ids = 0 /\ session /\ state'.id = 1
           /\ ini'[t].pc = "save" /\ ini'[t].force = FALSE /\ \A u \in Tabs \ {t} : ini'[u] = ini[u]
           /\ UNCHANGED <<att, hnd, toW, session>>
<1> DEFINE q == Asked(tab[t], used.ids + 1, Self)
           b == [Idle EXCEPT !.pc = "save", !.id = used.ids + 1, !.force = force, !.wait = {Self}]
<1>1. /\ used' = [used EXCEPT !.ids = used.ids + 1] /\ used.ids < MaxAttempts
      /\ state' = [id |-> used.ids + 1, revoked |-> FALSE]
      /\ UNCHANGED <<att, hnd, cleared, timer, toW, toT, air, unsynced, session>>
  BY Zenon DEF Start
<1>2. tab' = [tab EXCEPT ![t] = q] /\ ini' = [ini EXCEPT ![t] = b]
  BY DEF Start
<1>3. used.ids \in Nat /\ ini \in [Tabs -> Initiators] /\ tab[t] \in TabRecords
  BY DEF LogoutInv, StateOK
<1>4. used.ids = 0 /\ used.ids + 1 = 1 /\ 1 \in Ids
  BY <1>1, <1>3, OneId DEF OneAttempt
<1>5. used'.ids = 1
  BY <1>1, <1>4 DEF LogoutInv, StateOK
<1>6. b.pc = "save" /\ b.force = force
  BY DEF Idle
<1>7. Calm(tab[t], q)
  BY <1>3, <1>4, AskedCalm
<1> HIDE DEF q, b
<1>8. ini'[t].pc = "save" /\ ini'[t].force = FALSE /\ \A u \in Tabs \ {t} : ini'[u] = ini[u]
  <2>1. force = FALSE
    BY LogoutAssumption
  <2> QED BY <1>2, <1>3, <1>6, <2>1
<1>9. \A u \in Tabs : ini'[u].pc # "clear"
  BY <1>8 DEF Untold
<1>10. state'.id = 1 /\ ~state'.revoked
  BY <1>1, <1>4
<1>11. session
  BY <1>4 DEF Untold
<1>12. Untold'
  <2>1. tab' = [tab EXCEPT ![t] = q] /\ (session' => session) /\ (used'.ids = 0 => session')
    <3>1. used'.ids # 0
      BY <1>5
    <3> QED BY <1>1, <1>2, <3>1, Zenon
  <2> QED BY <1>7, <1>9, <1>10, <2>1, CalmTab
<1> QED BY <1>1, <1>4, <1>8, <1>10, <1>11, <1>12, UnclearedStays

\* A worker's step leaves the tabs and the session alone.
LEMMA UntoldWorker ==
    ASSUME LogoutInv, ~forced, Untold, Uncleared,
           \/ \E w \in Workers : Push(w) \/ Restart(w) \/ Expire(w) \/ \E id \in Ids : HandlerStep(w, id)
           \/ \E w \in Workers, t \in Tabs : WorkerReceives(w, t)
    PROVE  Untold' /\ Uncleared'
<1>1. ini \in [Tabs -> Initiators] /\ used \in [ids : Nat, closed : Nat, restarts : Nat]
  BY DEF LogoutInv, StateOK
<1>2. CASE \E w \in Workers : Push(w) \/ Restart(w)
  <2>1. UNCHANGED <<tab, ini, session, state, cleared, toW>> /\ used'.ids = used.ids
    BY <1>1, <1>2 DEF Push, Restart, Coordination, Editors
  <2> QED BY <2>1, UntoldStays, UnclearedStays DEF Untold
<1>3. CASE \E w \in Workers : \E id \in Ids : HandlerStep(w, id)
  <2>1. PICK w \in Workers, id \in Ids : HandlerStep(w, id)
    BY <1>3
  <2>2. UNCHANGED <<tab, session, state, cleared, toW, used>>
    BY <2>1 DEF HandlerStep, Listed, SavesFail, Saved, Synchronized, Editors
  <2>3. UNCHANGED ini \/ \E ok \in BOOLEAN : ini' = Reply(ini, "sync", id, w, ok)
    BY <2>1 DEF HandlerStep, Listed, SavesFail, Saved, Synchronized, HandlerEnds
  <2>4. \A u \in Tabs : ini'[u].pc = ini[u].pc
    BY <1>1, <2>3, ReplyKeeps
  <2> QED BY <2>2, <2>4, UntoldStays, UnclearedStays DEF Untold
<1>4. ASSUME NEW w \in Workers, NEW m \in Good(ForWorkers), Receive(w, m), Outside, m.type # "clear"
      PROVE  Untold' /\ UNCHANGED cleared
  <2>1. m.type # "force"
    BY DEF Good, MsgOK
  <2>2. UNCHANGED cleared
    BY <1>4, <2>1, ReceiveClears
  <2>3. Coordinated
    BY <1>4, ReceiveCoordinated
  <2>4. \A u \in Tabs : ini'[u].pc = ini[u].pc
    BY <2>3 DEF Coordinated, Same
  <2> QED BY <1>4, <2>2, <2>4, UntoldStays DEF Untold, Outside
<1>5. CASE \E w \in Workers : Expire(w)
  <2>1. PICK w \in Workers : Expire(w)
    BY <1>5
  <2>2. Expiry(w) \in Good(ForWorkers) /\ Receive(w, Expiry(w)) /\ Outside /\ UNCHANGED toW
    BY <2>1, ExpiryOK
  <2>3. Expiry(w).type # "clear"
    BY DEF Expiry, Msg
  <2>4. Untold' /\ UNCHANGED cleared
    BY <1>4, <2>2, <2>3
  <2> QED BY <2>2, <2>4, UnclearedStays
<1>6. CASE \E w \in Workers, t \in Tabs : WorkerReceives(w, t)
  <2>1. PICK w \in Workers, t \in Tabs : WorkerReceives(w, t)
    BY <1>6
  <2> DEFINE G == Good(ForWorkers)
             m == Head(toW[w][t])
  <2>2. /\ toW[w][t] # <<>> /\ toW' = [toW EXCEPT ![w][t] = Tail(@)] /\ Receive(w, m) /\ Outside
        /\ toW \in [Workers -> [Tabs -> Seq(G)]] /\ toW \in [Workers -> [Tabs -> Seq(Unclear)]]
    BY <2>1 DEF WorkerReceives, Editors, Outside, LogoutInv, MailInv, Uncleared, Unclear
  <2> HIDE DEF G, m
  <2>3. m \in G /\ m \in Unclear /\ toW' \in [Workers -> [Tabs -> Seq(Unclear)]]
    BY <2>2, TakenIn DEF m
  <2>4. m.type # "clear"
    BY <2>3 DEF Unclear, Messages
  <2>5. Untold' /\ UNCHANGED cleared
    BY <1>4, <2>2, <2>3, <2>4 DEF G
  <2> QED BY <2>3, <2>5 DEF Uncleared, Unclear
<1> QED BY <1>2, <1>3, <1>5, <1>6

LEMMA UntoldLapse ==
    ASSUME Untold, Uncleared, Lapse
    PROVE  Untold' /\ Uncleared'
BY NoStateOK, UntoldStays, UnclearedStays DEF Lapse, Coordination, Untold

-----------------------------------------------------------------------------
(* The attempt of a tab, stage by stage, until the server has revoked the  *)
(* session.                                                                *)

\* Worker w has synchronized for the attempt of tab t, or was restarted since.
Settled(w, t) ==
    /\ ~unsynced[w] /\ toW[w][t] = <<>> /\ (att[w].id # NoId => Finished(w))
    /\ \A u \in Tabs : Ready(tab[u])

\* The handler of worker w is as far as the editors are.
Working(w, t) ==
    hnd[w][1].pc # "none" =>
       /\ toW[w][t] = <<>>
       /\ hnd[w][1].pc = "saving" => \A u \in Tabs : u \in hnd[w][1].wait \/ Ready(tab[u])
       /\ hnd[w][1].pc = "syncing" => \A u \in Tabs : Ready(tab[u])

\* Worker w was asked to synchronize at most once, by t.
Called(w, t) ==
    /\ \A u \in Tabs : toW[w][u] = <<>> \/ (u = t /\ toW[w][u] = <<Msg("sync", 1)>>)
    /\ ini[t].pc \in {"save", "prepare"} => hnd[w][1].pc = "none" /\ \A u \in Tabs : toW[w][u] = <<>>

\* The answers that t has, unless one was bad.
Assured(t) ==
    ini[t].pc \in {"sync", "fetch"} =>
       \/ ini[t].pc = "sync" /\ ini[t].bad
       \/ /\ ini[t].ws = Workers
          /\ \A w \in Workers : ini[t].pc = "fetch" \/ w \notin ini[t].wait => Settled(w, t)

\* How far the attempt of t has come.
Stage(t) ==
    /\ session /\ ~ini[t].force /\ state.id = 1
    /\ \A w \in Workers : Called(w, t) /\ Working(w, t)
    /\ Assured(t)

\* The revocation is not recorded yet.
Before == Untold /\ Uncleared /\ \A t \in Tabs : ini[t].pc # "idle" => Stage(t)

LEMMA OneRunner ==
    ASSUME OneAttempt, LogoutInv, NEW t \in Tabs, ini[t].pc # "idle"
    PROVE  ini[t].id = 1 /\ tab[t].page = "open" /\ used.ids # 0 /\ \A u \in Tabs : ini[u].pc # "idle" => u = t
<1>1. \A u \in Tabs : ini[u].pc # "idle" => ini[u].id \in Ids /\ ini[u].id <= used.ids /\ tab[u].page = "open"
  BY DEF LogoutInv, PairInv, Runner
<1>2. \A u \in Tabs : ini[u].pc # "idle" => ini[u].id = 1
  BY <1>1, OneId
<1>3. \A u \in Tabs : ini[u].pc # "idle" /\ ini[u].id = ini[t].id => u = t
  BY DEF LogoutInv, OwnInv
<1>4. used.ids \in Nat /\ 1 <= used.ids
  BY <1>1, <1>2 DEF LogoutInv, StateOK
<1> QED BY <1>1, <1>2, <1>3, <1>4

\* A step of tab u while the attempt of t goes on.
LEMMA StageTab ==
    ASSUME OneAttempt, LogoutInv, NEW t \in Tabs, Stage(t), ini[t].pc # "idle", NEW u \in Tabs, NEW q,
           tab' = [tab EXCEPT ![u] = q], Ready(tab[u]) => Ready(q) /\ UNCHANGED unsynced,
           \/ ini'[t] = ini[t]
           \/ ini[t].pc = "save" /\ ini'[t].pc = "save" /\ ini'[t].force = ini[t].force,
           \A w \in Workers :
              \/ hnd'[w][1] = hnd[w][1]
              \/ hnd[w][1].pc = "saving" /\ hnd'[w][1].pc = "failed"
              \/ hnd[w][1].pc = "saving" /\ hnd'[w][1].pc = "saving" /\ Ready(q)
                 /\ hnd'[w][1].wait = hnd[w][1].wait \ {u},
           UNCHANGED <<att, toW, session, state>>
    PROVE  Stage(t)'
<1>1. tab \in [Tabs -> TabRecords] /\ Space[t] \in Workers
  BY LogoutAssumption DEF LogoutInv, StateOK
<1>2. tab'[u] = q /\ \A v \in Tabs : v # u => tab'[v] = tab[v]
  BY <1>1
<1>3. \A v \in Tabs : Ready(tab[v]) => Ready(tab'[v])
  BY <1>2
<1>4. ini'[t].pc = ini[t].pc /\ ini'[t].force = ini[t].force
  OBVIOUS
<1>5. ASSUME NEW w \in Workers PROVE Called(w, t)' /\ Working(w, t)'
  <2>1. Called(w, t) /\ Working(w, t)
    BY DEF Stage
  <2>2. Called(w, t)'
    BY <1>4, <2>1 DEF Called
  <2>3. CASE hnd'[w][1] = hnd[w][1]
    BY <1>3, <2>1, <2>2, <2>3 DEF Working
  <2>4. CASE hnd[w][1].pc = "saving" /\ hnd'[w][1].pc = "failed"
    BY <2>1, <2>2, <2>4 DEF Working
  <2>5. CASE /\ hnd[w][1].pc = "saving" /\ hnd'[w][1].pc = "saving" /\ Ready(q)
             /\ hnd'[w][1].wait = hnd[w][1].wait \ {u}
    <3>1. \A v \in Tabs : v \in hnd'[w][1].wait \/ Ready(tab'[v])
      BY <1>2, <1>3, <2>1, <2>5 DEF Working
    <3> QED BY <2>1, <2>2, <2>5, <3>1 DEF Working
  <2> QED BY <2>3, <2>4, <2>5
<1>6. Assured(t)'
  <2>1. CASE Ready(tab[u])
    <3>1. \A w \in Workers : Settled(w, t) => Settled(w, t)'
      BY <1>3, <2>1 DEF Settled, Finished
    <3> QED BY <3>1 DEF Stage, Assured
  <2>2. CASE ~Ready(tab[u])
    <3>1. \A w \in Workers : ~Settled(w, t)
      BY <2>2 DEF Settled
    <3> QED BY <1>1, <3>1 DEF Stage, Assured
  <2> QED BY <2>1, <2>2
<1> QED BY <1>4, <1>5, <1>6 DEF Stage

\* A step of worker w while the attempt of t goes on.
LEMMA StageWorker ==
    ASSUME NEW t \in Tabs, Stage(t), NEW w \in Workers,
           Called(w, t)', Working(w, t)',
           ini'[t].pc = ini[t].pc, ini'[t].force = ini[t].force, ini'[t].ws = ini[t].ws,
           \A v \in Workers : v # w => (v \in ini[t].wait => v \in ini'[t].wait),
           ini[t].bad => ini'[t].bad,
           ini[t].pc = "sync" /\ w \notin ini'[t].wait => ini'[t].bad \/ Settled(w, t)',
           ini[t].pc = "fetch" => Settled(w, t)',
           \A v \in Workers : v # w => hnd'[v] = hnd[v] /\ att'[v] = att[v] /\ toW'[v] = toW[v],
           \A v \in Workers : unsynced'[v] => unsynced[v],
           UNCHANGED <<tab, session, state>>
    PROVE  Stage(t)'
<1>1. ASSUME NEW v \in Workers, v # w PROVE Called(v, t)' /\ Working(v, t)' /\ (Settled(v, t) => Settled(v, t)')
  <2>1. hnd'[v] = hnd[v] /\ att'[v] = att[v] /\ toW'[v] = toW[v] /\ (unsynced'[v] => unsynced[v])
    BY <1>1
  <2>2. Called(v, t) /\ Working(v, t)
    BY DEF Stage
  <2>3. Called(v, t)' /\ Working(v, t)'
    BY <2>1, <2>2 DEF Called, Working
  <2>4. Settled(v, t) => Settled(v, t)'
    BY <2>1 DEF Settled, Finished
  <2> QED BY <2>3, <2>4
<1>2. \A v \in Workers : Called(v, t)' /\ Working(v, t)'
  BY <1>1
<1>3. Assured(t)'
  <2>1. ASSUME NEW v \in Workers, ini'[t].pc \in {"sync", "fetch"}, ~(ini'[t].pc = "sync" /\ ini'[t].bad),
               ini'[t].pc = "fetch" \/ v \notin ini'[t].wait
        PROVE  Settled(v, t)'
    <3>1. CASE v = w
      BY <2>1, <3>1
    <3>2. CASE v # w
      <4>1. ini[t].pc = "fetch" \/ v \notin ini[t].wait
        BY <2>1, <3>2
      <4>2. Settled(v, t)
        BY <2>1, <4>1 DEF Stage, Assured
      <4> QED BY <1>1, <3>2, <4>2
    <3> QED BY <3>1, <3>2
  <2> QED BY <2>1 DEF Stage, Assured
<1> QED BY <1>2, <1>3 DEF Stage

\* The tabs' own steps; a tab that waits for the logout state goes on waiting.
LEMMA StageTabs ==
    ASSUME OneAttempt, LogoutInv, Untold, NEW t \in Tabs, Stage(t), ini[t].pc # "idle", ini'[t].pc # "idle",
           NEW u \in Tabs, Edit(u) \/ AutoSave(u) \/ Load(u) \/ Boot(u) \/ Close(u)
    PROVE  Stage(t)'
<1>1. tab \in [Tabs -> TabRecords] /\ ini \in [Tabs -> Initiators] /\ tab[u] \in TabRecords
  BY DEF LogoutInv, StateOK
<1>2. CASE Edit(u)
  <2> DEFINE q == [tab[u] EXCEPT !.dirty = TRUE]
  <2>1. tab' = [tab EXCEPT ![u] = q] /\ ~Ready(tab[u]) /\ UNCHANGED <<ini, hnd, att, toW, session, state>>
    BY <1>1, <1>2 DEF Edit, Coordination, Ready
  <2> HIDE DEF q
  <2> QED BY <2>1, StageTab
<1>3. CASE AutoSave(u)
  <2> DEFINE q == [tab[u] EXCEPT !.dirty = FALSE]
  <2>1. tab' = [tab EXCEPT ![u] = q] /\ ~Ready(tab[u]) /\ UNCHANGED <<ini, hnd, att, toW, session, state>>
    BY <1>1, <1>3 DEF AutoSave, Coordination, Ready
  <2> HIDE DEF q
  <2> QED BY <2>1, StageTab
<1>4. CASE Load(u)
  <2> DEFINE q == [tab[u] EXCEPT !.page = "loading"]
  <2>1. tab' = [tab EXCEPT ![u] = q] /\ UNCHANGED <<ini, hnd, att, toW, session, state, unsynced>>
    BY <1>1, <1>4 DEF Load, Coordination
  <2>2. q.page = "loading"
    BY <1>1 DEF TabRecords
  <2> HIDE DEF q
  <2>3. Ready(q)
    BY <2>2 DEF Ready
  <2> QED BY <2>1, <2>3, StageTab
<1>5. CASE Boot(u)
  <2>1. state.id = 1 /\ ~state.revoked
    BY DEF Stage, Untold
  <2>2. state # NoState
    BY <2>1, OneId DEF NoState
  <2> QED BY <1>5, <2>1, <2>2 DEF Boot
<1>6. CASE Close(u)
  <2>1. /\ tab' = [tab EXCEPT ![u] = NewTab("closed")] /\ ini' = [ini EXCEPT ![u] = Idle]
        /\ UNCHANGED <<hnd, att, toW, session, state, unsynced>>
    BY <1>6 DEF Close
  <2>2. u # t
    BY <1>1, <2>1, IdleOK
  <2>3. ini'[t] = ini[t]
    BY <1>1, <2>1, <2>2
  <2>4. Ready(NewTab("closed"))
    BY NewTabOK DEF Ready
  <2> QED BY <2>1, <2>3, <2>4, StageTab
<1> QED BY <1>2, <1>3, <1>4, <1>5, <1>6

\* What is on its way to a tab while the attempt goes on.
LEMMA StageMail ==
    ASSUME OneAttempt, LogoutInv, NEW t \in Tabs, Stage(t), ini[t].pc # "idle"
    PROVE  /\ toT \in [Tabs -> [Workers -> Seq(Messages({"save"}))]]
           /\ \A u \in Tabs : air[u] = {}
<1>1. /\ toT \in [Tabs -> [Workers -> Seq(Good(ForTabs))]] /\ air \in [Tabs -> SUBSET Good(ForAll)]
      /\ session /\ ini[t].id = 1
  BY OneRunner DEF LogoutInv, MailInv, Stage
<1>2. Good(ForTabs) \subseteq Messages({"save"})
  <2>1. ASSUME NEW m \in Good(ForTabs) PROVE m \in Messages({"save"})
    <3>1. m \in Messages(ForTabs) /\ m.id = 1 /\ MsgOK(m)
      BY GoodFacts, OneId
    <3>2. Runs(t, m.id)
      BY <1>1, <3>1 DEF Runs
    <3>3. m.type \in ForTabs /\ m.type # "cancel" /\ m.type \notin {"revoked", "preserve", "complete", "clear", "force"}
      BY <1>1, <3>1, <3>2 DEF MsgOK, Messages
    <3> QED BY <3>1, <3>3 DEF ForTabs, Messages
  <2> QED BY <2>1
<1>3. Good(ForAll) = {}
  BY <1>1 DEF Good, MsgOK, Messages, ForAll
<1>4. Seq(Good(ForTabs)) \subseteq Seq(Messages({"save"}))
  BY <1>2, SeqGrows
<1> QED BY <1>1, <1>3, <1>4

LEMMA StageReceives ==
    ASSUME OneAttempt, LogoutInv, Untold, NEW t \in Tabs, Stage(t), ini[t].pc # "idle",
           NEW u \in Tabs, NEW w \in Workers, TabReceives(u, w)
    PROVE  Stage(t)'
<1> DEFINE S == Messages({"save"})
           m == Head(toT[u][w])
           r == tab[u]
           q == Asked(r, 1, w)
           now == Refuses(r, 1) \/ (r.att = 1 /\ r.save[1] # "saving")
           ok == ~Refuses(r, 1) /\ r.save[1] = "ok"
<1>1. toT[u][w] # <<>> /\ UNCHANGED <<ini, att, toW, unsynced, session, state>>
  BY DEF TabReceives
<1>2. toT \in [Tabs -> [Workers -> Seq(S)]]
  BY StageMail
<1>3. r \in TabRecords /\ tab \in [Tabs -> TabRecords] /\ hnd \in [Workers -> [Ids -> SyncHandlers]] /\ 1 \in Ids
  BY OneId DEF LogoutInv, StateOK
<1>4. m \in S
  BY <1>1, <1>2, TakenIn
<1>5. m.type = "save" /\ m.id = 1
  BY <1>4, OneId DEF Messages
<1>6. \/ UNCHANGED <<tab, hnd>>
      \/ /\ r.page = "open" /\ tab' = [tab EXCEPT ![u] = q]
         /\ hnd' = IF now THEN Answers(hnd, 1, {w}, u, ok) ELSE hnd
  BY <1>5 DEF TabReceives
<1> HIDE DEF m, S
<1>7. CASE UNCHANGED <<tab, hnd>>
  <2>1. tab' = [tab EXCEPT ![u] = r]
    BY <1>3, <1>7
  <2> HIDE DEF r
  <2> QED BY <1>1, <1>7, <2>1, StageTab DEF r
<1>8. CASE /\ r.page = "open" /\ tab' = [tab EXCEPT ![u] = q]
           /\ hnd' = IF now THEN Answers(hnd, 1, {w}, u, ok) ELSE hnd
  <2>1. Ready(r) => q = r
    BY <1>3, <1>8, AskedReady
  <2>2. now /\ ok => Ready(r)
    <3>1. Editor(r, session) /\ Clean(r) /\ session
      BY DEF LogoutInv, PairInv, Stage, Untold
    <3>2. now /\ ok => r.att = 1 /\ r.save[1] = "ok" /\ ~r.preserved
      BY DEF Refuses
    <3> QED BY <1>8, <3>1, <3>2, OneId DEF Ready, Editor, Clean
  <2>3. ok \in BOOLEAN
    BY Zenon
  <2> HIDE DEF q, r, ok, now
  <2>4. ASSUME NEW v \in Workers
        PROVE  \/ hnd'[v][1] = hnd[v][1]
               \/ hnd[v][1].pc = "saving" /\ hnd'[v][1].pc = "failed"
               \/ hnd[v][1].pc = "saving" /\ hnd'[v][1].pc = "saving" /\ Ready(q)
                  /\ hnd'[v][1].wait = hnd[v][1].wait \ {u}
    <3>1. CASE ~now
      BY <1>8, <3>1
    <3>2. CASE now
      <4> DEFINE who == {w}
                 h == Answers(hnd, 1, who, u, ok)[v][1]
      <4>1. hnd'[v][1] = h
        BY <1>8, <3>2
      <4> HIDE DEF who
      <4>2. \/ h = hnd[v][1]
            \/ hnd[v][1].pc = "saving" /\ ok /\ h.pc = "saving" /\ h.wait = hnd[v][1].wait \ {u}
            \/ hnd[v][1].pc = "saving" /\ h.pc = "failed"
        BY <1>3, AnswersPc
      <4> HIDE DEF h
      <4> QED BY <2>1, <2>2, <3>2, <4>1, <4>2
    <3> QED BY <3>1, <3>2
  <2>5. tab' = [tab EXCEPT ![u] = q] /\ (Ready(tab[u]) => Ready(q) /\ UNCHANGED unsynced)
    BY <1>1, <1>8, <2>1 DEF r
  <2>6. ini'[t] = ini[t] /\ UNCHANGED <<att, toW, session, state>>
    BY <1>1
  <2> QED BY <2>4, <2>5, <2>6, StageTab
<1> QED BY <1>6, <1>7, <1>8

LEMMA StageHears ==
    ASSUME OneAttempt, LogoutInv, NEW t \in Tabs, Stage(t), ini[t].pc # "idle", NEW u \in Tabs, NEW m
    PROVE  ~TabHears(u, m)
BY StageMail DEF TabHears

LEMMA StageSaves ==
    ASSUME OneAttempt, LogoutInv, NEW t \in Tabs, Stage(t), ini[t].pc # "idle",
           NEW u \in Tabs, NEW id \in Ids, NEW ok \in BOOLEAN, SaveEnds(u, id, ok)
    PROVE  Stage(t)'
<1> DEFINE r == tab[u]
           fine == ok /\ r.att = 1
           q == EndRecord(r, u, 1, ok)
<1>1. id = 1 /\ 1 \in Ids /\ NoId = 0
  BY OneId
<1>2. /\ r \in TabRecords /\ hnd \in [Workers -> [Ids -> SyncHandlers]] /\ ini \in [Tabs -> Initiators]
      /\ Editor(r, session) /\ session
  BY DEF LogoutInv, StateOK, PairInv, Stage
<1>3. /\ r.page = "open" /\ r.save[1] = "saving" /\ tab' = [tab EXCEPT ![u] = q]
      /\ hnd' = Answers(hnd, 1, r.pend[1], u, fine)
      /\ ini' = IF Self \in r.pend[1] THEN Reply(ini, "save", 1, Self, fine) ELSE ini
      /\ UNCHANGED <<att, toW, session, state>>
  BY <1>1 DEF SaveEnds, EndRecord, SavedRecord
<1>4. ~Ready(r)
  BY <1>3 DEF Ready
<1>5. fine => Ready(q)
  <2> SUFFICES ASSUME fine PROVE Ready(q)
    OBVIOUS
  <2>1. Done \notin r.pend[1] /\ ~r.preserved /\ r.frozen
    BY <1>1, <1>2, <1>3 DEF Editor
  <2>2. q = SavedRecord(r, 1, ok)
    BY <2>1 DEF EndRecord
  <2>3. SavedRecord(r, 1, ok).save[1] = "ok" /\ ~SavedRecord(r, 1, ok).dirty
    BY <1>1, <1>2 DEF SavedRecord, TabRecords
  <2>4. SavedRecord(r, 1, ok).att = r.att /\ SavedRecord(r, 1, ok).preserved = r.preserved /\ SavedRecord(r, 1, ok).frozen = r.frozen
    BY <1>2 DEF SavedRecord, TabRecords
  <2> QED BY <2>1, <2>2, <2>3, <2>4 DEF Ready
<1>6. fine \in BOOLEAN
  BY Zenon
<1> HIDE DEF q, fine
<1>7. \/ ini'[t] = ini[t]
      \/ ini[t].pc = "save" /\ ini'[t].pc = "save" /\ ini'[t].force = ini[t].force
  <2>1. CASE Self \in r.pend[1]
    <3>1. ini' = Reply(ini, "save", 1, Self, fine)
      BY <1>3, <2>1
    <3> QED BY <1>2, <1>6, <3>1, ReplyKeeps
  <2> QED BY <1>3, <2>1
<1>8. ASSUME NEW v \in Workers
      PROVE  \/ hnd'[v][1] = hnd[v][1]
             \/ hnd[v][1].pc = "saving" /\ hnd'[v][1].pc = "failed"
             \/ hnd[v][1].pc = "saving" /\ hnd'[v][1].pc = "saving" /\ Ready(q)
                /\ hnd'[v][1].wait = hnd[v][1].wait \ {u}
  <2> DEFINE h == Answers(hnd, 1, r.pend[1], u, fine)[v][1]
  <2>1. hnd'[v][1] = h
    BY <1>3
  <2>2. \/ h = hnd[v][1]
        \/ hnd[v][1].pc = "saving" /\ fine /\ h.pc = "saving" /\ h.wait = hnd[v][1].wait \ {u}
        \/ hnd[v][1].pc = "saving" /\ h.pc = "failed"
    BY <1>1, <1>2, AnswersPc
  <2> HIDE DEF h
  <2> QED BY <1>5, <2>1, <2>2
<1> QED BY <1>3, <1>4, <1>7, <1>8, StageTab

LEMMA ReplyWorkers ==
    ASSUME ini \in [Tabs -> Initiators], NEW t \in Tabs, NEW id, NEW w \in Workers, NEW ok \in BOOLEAN
    PROVE  LET b == Reply(ini, "sync", id, w, ok)[t] IN
           /\ b.pc = ini[t].pc /\ b.force = ini[t].force /\ b.ws = ini[t].ws
           /\ \A v \in Workers : v # w => (v \in ini[t].wait => v \in b.wait)
           /\ ini[t].bad => b.bad
           /\ w \in ini[t].wait /\ w \notin b.wait => b.bad \/ ok
<1> DEFINE f == Reply(ini, "sync", id, w, ok)
<1>1. /\ f[t].pc = ini[t].pc /\ f[t].force = ini[t].force
      /\ \/ f[t] = ini[t]
         \/ f[t].wait = ini[t].wait \ {w} /\ (ini[t].bad => f[t].bad) /\ (f[t].bad \/ ok)
  BY ReplyKeeps
<1>2. f[t].ws = ini[t].ws
  BY DEF Reply, Initiators
<1> HIDE DEF f
<1>3. /\ f[t].pc = ini[t].pc /\ f[t].force = ini[t].force /\ f[t].ws = ini[t].ws
      /\ \A v \in Workers : v # w => (v \in ini[t].wait => v \in f[t].wait)
      /\ ini[t].bad => f[t].bad
      /\ w \in ini[t].wait /\ w \notin f[t].wait => f[t].bad \/ ok
  <2>1. CASE f[t] = ini[t]
    BY <1>1, <1>2, <2>1
  <2>2. CASE f[t].wait = ini[t].wait \ {w} /\ (ini[t].bad => f[t].bad) /\ (f[t].bad \/ ok)
    <3>1. \A v \in Workers : v # w => (v \in ini[t].wait => v \in f[t].wait)
      BY <2>2
    <3> QED BY <1>1, <1>2, <2>2, <3>1
  <2> QED BY <1>1, <2>1, <2>2
<1> QED BY <1>3 DEF f

\* Nothing is left to a worker but its own synchronization.
LEMMA StageQuiet ==
    ASSUME OneAttempt, LogoutInv, NEW t \in Tabs, Stage(t), ini[t].pc # "idle", NEW w \in Workers,
           Push(w) \/ Restart(w)
    PROVE  Stage(t)'
<1>1. /\ att \in [Workers -> Attempts] /\ hnd \in [Workers -> [Ids -> SyncHandlers]] /\ 1 \in Ids
      /\ unsynced \in [Workers -> BOOLEAN]
  BY OneId DEF LogoutInv, StateOK
<1>2. UNCHANGED <<tab, ini, toW, session, state>> /\ \A v \in Workers : unsynced'[v] => unsynced[v]
  BY <1>1 DEF Push, Restart, Coordination, Editors
<1>3. /\ \A v \in Workers : v # w => hnd'[v] = hnd[v] /\ att'[v] = att[v] /\ toW'[v] = toW[v]
      /\ hnd'[w][1] = hnd[w][1] \/ hnd'[w][1].pc = "none"
      /\ att'[w] = att[w] \/ att'[w].id = NoId
  BY <1>1, NoAttemptOK DEF Push, Restart, Coordination, NoHandler
<1>4. Called(w, t) /\ Working(w, t)
  BY DEF Stage
<1>5. Called(w, t)'
  BY <1>2, <1>3, <1>4 DEF Called
<1>6. Working(w, t)'
  BY <1>2, <1>3, <1>4 DEF Working
<1>7. Settled(w, t) => Settled(w, t)'
  BY <1>2, <1>3 DEF Settled, Finished
<1>8. /\ ini[t].pc = "sync" /\ w \notin ini'[t].wait => ini'[t].bad \/ Settled(w, t)'
      /\ ini[t].pc = "fetch" => Settled(w, t)'
  BY <1>2, <1>7 DEF Stage, Assured
<1> QED BY <1>2, <1>3, <1>5, <1>6, <1>8, StageWorker

\* The timers do not run out on an attempt that goes on.
LEMMA StageTimers ==
    ASSUME OneAttempt, LogoutInv, NEW t \in Tabs, Stage(t), ini[t].pc # "idle"
    PROVE  ~Lapse /\ \A w \in Workers : ~Expire(w)
<1>1. Runs(t, 1) /\ state.id = 1
  BY OneRunner DEF Runs, Stage
<1>2. ~Lapse
  BY <1>1 DEF Lapse, OneAttempt
<1>3. ASSUME NEW w \in Workers, Expire(w) PROVE FALSE
  <2>1. timer[w] \in Ids
    BY <1>3 DEF Expire, LogoutInv, StateOK
  <2>2. timer[w] = 1
    BY <2>1, OneId
  <2> QED BY <1>1, <1>3, <2>2 DEF Expire, Abandoned
<1> QED BY <1>2, <1>3

LEMMA StageReceive ==
    ASSUME OneAttempt, LogoutInv, Uncleared, NEW t \in Tabs, Stage(t), ini[t].pc # "idle",
           NEW w \in Workers, NEW u \in Tabs, WorkerReceives(w, u)
    PROVE  Stage(t)'
<1>1. /\ att \in [Workers -> Attempts] /\ hnd \in [Workers -> [Ids -> SyncHandlers]] /\ 1 \in Ids
      /\ ini \in [Tabs -> Initiators] /\ NoId = 0
      /\ toW \in [Workers -> [Tabs -> Seq(Messages(ForWorkers \ {"clear"}))]]
  BY OneId DEF LogoutInv, StateOK, Uncleared
<1>2. /\ toW[w][u] # <<>> /\ toW' = [toW EXCEPT ![w][u] = Tail(@)] /\ Receive(w, Head(toW[w][u]))
      /\ UNCHANGED <<tab, unsynced, session, state>>
  BY DEF WorkerReceives, Editors
<1>3. Called(w, t) /\ Working(w, t)
  BY DEF Stage
<1>4. u = t /\ toW[w][t] = <<Msg("sync", 1)>> /\ ini[t].pc \notin {"save", "prepare"}
  BY <1>2, <1>3 DEF Called
<1>5. Head(toW[w][u]) = Msg("sync", 1) /\ Tail(toW[w][t]) = <<>>
  BY <1>4
<1>6. \A v \in Tabs : toW'[w][v] = <<>>
  BY <1>1, <1>2, <1>3, <1>4, <1>5 DEF Called
<1>7. hnd[w][1].pc = "none"
  BY <1>2, <1>3, <1>4 DEF Working
<1>8. ~Settled(w, t)
  BY <1>2, <1>4 DEF Settled
<1>9. Msg("sync", 1).type = "sync" /\ Msg("sync", 1).id = 1
  BY DEF Msg
<1>10. ReceiveSync(w, Msg("sync", 1))
  BY <1>2, <1>5, <1>9 DEF Receive, ReceiveForce, ReceiveRevoked, ReceivePreserve, ReceiveClear, ReceiveComplete,
     ReceiveCancel, ReceiveStale
<1>11. \A v \in Workers : v # w => toW'[v] = toW[v]
  BY <1>1, <1>2
<1>12. ini[t].pc # "fetch" /\ (ini[t].pc = "sync" => ini[t].bad \/ w \in ini[t].wait)
  BY <1>8 DEF Stage, Assured
<1>13. CASE active(w)
  <2>1. ini' = Reply(ini, "sync", 1, w, FALSE) /\ UNCHANGED <<att, hnd>>
    BY <1>9, <1>10, <1>13 DEF ReceiveSync
  <2>2. /\ ini'[t].pc = ini[t].pc /\ ini'[t].force = ini[t].force /\ ini'[t].ws = ini[t].ws
        /\ \A v \in Workers : v # w => (v \in ini[t].wait => v \in ini'[t].wait)
        /\ ini[t].bad => ini'[t].bad
        /\ w \in ini[t].wait /\ w \notin ini'[t].wait => ini'[t].bad
    BY <1>1, <2>1, ReplyWorkers
  <2>3. Called(w, t)' /\ Working(w, t)'
    BY <1>6, <1>7, <2>1 DEF Called, Working
  <2>4. ini[t].pc = "sync" /\ w \notin ini'[t].wait => ini'[t].bad
    BY <1>12, <2>2
  <2> QED BY <1>2, <1>11, <1>12, <2>1, <2>2, <2>3, <2>4, StageWorker
<1>14. CASE ~active(w)
  <2>1. /\ UNCHANGED ini /\ hnd' = [hnd EXCEPT ![w][1] = [pc |-> "clients", wait |-> {}]]
        /\ att' = [att EXCEPT ![w] = [NoAttempt EXCEPT !.id = 1]]
    BY <1>9, <1>10, <1>14 DEF ReceiveSync
  <2>2. /\ \A v \in Workers : v # w => hnd'[v] = hnd[v] /\ att'[v] = att[v]
        /\ hnd'[w][1].pc = "clients"
    BY <1>1, <2>1
  <2>3. Called(w, t)'
    BY <1>4, <1>6, <2>1 DEF Called
  <2>4. Working(w, t)'
    BY <1>6, <2>2 DEF Working
  <2>5. ini[t].pc = "sync" /\ w \notin ini'[t].wait => ini'[t].bad
    BY <1>12, <2>1
  <2> QED BY <1>2, <1>11, <1>12, <2>1, <2>2, <2>3, <2>4, <2>5, StageWorker
<1> QED BY <1>13, <1>14

\* The handler of worker w ends.
LEMMA StageEnds ==
    ASSUME OneAttempt, LogoutInv, NEW t \in Tabs, Stage(t), ini[t].pc # "idle", NEW w \in Workers,
           hnd[w][1].pc # "none", NEW ok \in BOOLEAN, HandlerEnds(w, 1, ok),
           \A v \in Workers : v # w => att'[v] = att[v],
           Settled(w, t) \/ ok => Settled(w, t)',
           UNCHANGED <<tab, unsynced, session, state, toW>>
    PROVE  Stage(t)'
<1>1. hnd \in [Workers -> [Ids -> SyncHandlers]] /\ ini \in [Tabs -> Initiators] /\ 1 \in Ids
  BY OneId DEF LogoutInv, StateOK
<1>2. hnd' = [hnd EXCEPT ![w][1] = NoHandler] /\ ini' = Reply(ini, "sync", 1, w, ok)
  BY DEF HandlerEnds
<1>3. hnd'[w][1].pc = "none" /\ \A v \in Workers : v # w => hnd'[v] = hnd[v]
  BY <1>1, <1>2 DEF NoHandler
<1>4. Called(w, t) /\ Working(w, t)
  BY DEF Stage
<1>5. /\ ini'[t].pc = ini[t].pc /\ ini'[t].force = ini[t].force /\ ini'[t].ws = ini[t].ws
      /\ \A v \in Workers : v # w => (v \in ini[t].wait => v \in ini'[t].wait)
      /\ ini[t].bad => ini'[t].bad
      /\ w \in ini[t].wait /\ w \notin ini'[t].wait => ini'[t].bad \/ ok
  <2> DEFINE b == Reply(ini, "sync", 1, w, ok)[t]
  <2>1. /\ b.pc = ini[t].pc /\ b.force = ini[t].force /\ b.ws = ini[t].ws
        /\ \A v \in Workers : v # w => (v \in ini[t].wait => v \in b.wait)
        /\ ini[t].bad => b.bad
        /\ w \in ini[t].wait /\ w \notin b.wait => b.bad \/ ok
    BY <1>1, ReplyWorkers
  <2>2. ini'[t] = b
    BY <1>2
  <2> HIDE DEF b
  <2> QED BY <2>1, <2>2
<1>6. Called(w, t)' /\ Working(w, t)'
  <2>1. Called(w, t)'
    BY <1>3, <1>4, <1>5 DEF Called
  <2>2. Working(w, t)'
    BY <1>3 DEF Working
  <2> QED BY <2>1, <2>2
<1>7. ini[t].pc = "fetch" => Settled(w, t)
  BY DEF Stage, Assured
<1>8. ini[t].pc = "sync" /\ w \notin ini[t].wait => ini[t].bad \/ Settled(w, t)
  BY DEF Stage, Assured
<1>9. ini[t].pc = "sync" /\ w \notin ini'[t].wait => ini'[t].bad \/ Settled(w, t)'
  BY <1>5, <1>8
<1> QED BY <1>3, <1>5, <1>6, <1>7, <1>9, StageWorker

\* The handler of worker w goes on.
LEMMA StageGoesOn ==
    ASSUME OneAttempt, LogoutInv, NEW t \in Tabs, Stage(t), ini[t].pc # "idle", NEW w \in Workers,
           hnd[w][1].pc # "none", \A v \in Workers : v # w => hnd'[v] = hnd[v],
           \A v \in Workers : att'[v].id = att[v].id /\ att'[v].ready = att[v].ready
                              /\ att'[v].preserved = att[v].preserved /\ (v # w => att'[v] = att[v]),
           Working(w, t)', UNCHANGED <<ini, tab, unsynced, session, state, toW>>
    PROVE  Stage(t)'
<1>1. Called(w, t) /\ Working(w, t)
  BY DEF Stage
<1>2. Called(w, t)'
  BY <1>1 DEF Called
<1>3. Settled(w, t) => Settled(w, t)'
  BY DEF Settled, Finished
<1>4. /\ ini[t].pc = "fetch" => Settled(w, t)'
      /\ ini[t].pc = "sync" /\ w \notin ini'[t].wait => ini'[t].bad \/ Settled(w, t)'
  BY <1>3 DEF Stage, Assured
<1> QED BY <1>2, <1>4, StageWorker

LEMMA StageHandler ==
    ASSUME OneAttempt, LogoutInv, NEW t \in Tabs, Stage(t), ini[t].pc # "idle", NEW w \in Workers,
           NEW id \in Ids, HandlerStep(w, id)
    PROVE  Stage(t)'
<1>1. /\ id = 1 /\ 1 \in Ids /\ hnd \in [Workers -> [Ids -> SyncHandlers]] /\ att \in [Workers -> Attempts]
  BY OneId DEF LogoutInv, StateOK
<1>2. session /\ ~att[w].preserved /\ Working(w, t)
  <2>1. session /\ Working(w, t)
    BY DEF Stage
  <2>2. att[w].preserved => ~session
    BY DEF LogoutInv, WorkerInv
  <2> QED BY <2>1, <2>2
<1>3. hnd[w][1].pc # "none" /\ UNCHANGED <<tab, unsynced, session, state, toW>>
  <2>1. UNCHANGED <<tab, unsynced, session, state, toW>>
    BY DEF HandlerStep, Listed, SavesFail, Saved, Synchronized, Editors
  <2>2. hnd[w][1].pc \in {"clients", "saving", "failed", "syncing"}
    <3>1. Saved(w, 1) => hnd[w][1].pc = "saving"
      BY DEF Saved
    <3>2. Listed(w, 1) \/ SavesFail(w, 1) \/ Synchronized(w, 1) => hnd[w][1].pc \in {"clients", "saving", "failed", "syncing"}
      BY DEF Listed, SavesFail, Synchronized
    <3> QED BY <1>1, <3>1, <3>2 DEF HandlerStep
  <2> QED BY <2>1, <2>2
<1>4. toW[w][t] = <<>>
  BY <1>2, <1>3 DEF Working
<1>5. UNCHANGED att => (Settled(w, t) => Settled(w, t)')
  BY <1>3 DEF Settled, Finished
<1>6. CASE HandlerEnds(w, 1, FALSE) /\ UNCHANGED att
  BY <1>3, <1>5, <1>6, StageEnds
<1>7. CASE Listed(w, id) /\ att[w].id = id
  <2>1. /\ hnd' = [hnd EXCEPT ![w][1] = [pc |-> "saving", wait |-> Windows]]
        /\ att' = [att EXCEPT ![w].clients = Windows] /\ UNCHANGED ini
    BY <1>1, <1>2, <1>7 DEF Listed
  <2>2. /\ hnd'[w][1].pc = "saving" /\ hnd'[w][1].wait = Windows /\ \A v \in Workers : v # w => hnd'[v] = hnd[v]
    BY <1>1, <2>1
  <2>3. \A v \in Workers : att'[v].id = att[v].id /\ att'[v].ready = att[v].ready
                           /\ att'[v].preserved = att[v].preserved /\ (v # w => att'[v] = att[v])
    BY <1>1, <2>1 DEF Attempts
  <2>4. \A u \in Tabs : u \in Windows \/ Ready(tab[u])
    BY DEF Windows, Pages, Ready
  <2>5. Working(w, t)'
    BY <1>3, <1>4, <2>2, <2>4 DEF Working
  <2> QED BY <1>3, <2>1, <2>2, <2>3, <2>5, StageGoesOn
<1>8. CASE Saved(w, id) /\ att[w].id = id
  <2>1. hnd[w][1] = [pc |-> "saving", wait |-> {}] /\ hnd' = [hnd EXCEPT ![w][1].pc = "syncing"] /\ UNCHANGED <<att, ini>>
    BY <1>1, <1>2, <1>8 DEF Saved
  <2>2. hnd[w][1].pc = "saving" /\ hnd[w][1].wait = {}
    BY <2>1
  <2>3. \A u \in Tabs : Ready(tab[u])
    BY <1>2, <2>2 DEF Working
  <2>4. hnd'[w][1].pc = "syncing" /\ \A v \in Workers : v # w => hnd'[v] = hnd[v]
    BY <1>1, <2>1 DEF SyncHandlers
  <2>5. Working(w, t)'
    BY <1>3, <1>4, <2>3, <2>4 DEF Working
  <2> QED BY <1>3, <2>1, <2>4, <2>5, StageGoesOn
<1>9. CASE /\ hnd[w][1].pc = "syncing" /\ ~unsynced[w] /\ HandlerEnds(w, 1, TRUE)
           /\ att' = [att EXCEPT ![w].ready = TRUE]
  <2>1. \A u \in Tabs : Ready(tab[u])
    BY <1>2, <1>9 DEF Working
  <2>2. att'[w].ready /\ ~att'[w].preserved /\ \A v \in Workers : v # w => att'[v] = att[v]
    BY <1>1, <1>2, <1>9 DEF Attempts
  <2>3. Settled(w, t)'
    BY <1>3, <1>4, <1>9, <2>1, <2>2 DEF Settled, Finished
  <2> QED BY <1>3, <1>9, <2>2, <2>3, StageEnds
<1> QED BY <1>1, <1>6, <1>7, <1>8, <1>9 DEF HandlerStep, Listed, SavesFail, Saved, Synchronized

LEMMA StageInitiator ==
    ASSUME OneAttempt, LogoutInv, Before, NEW t \in Tabs, InitiatorStep(t), ~Revoked(t),
           NEW u \in Tabs, ini'[u].pc # "idle"
    PROVE  Stage(u)'
<1>1. /\ UNCHANGED hnd /\ ini[t].pc \notin {"idle", "clear"}
      /\ \/ Ends(t)
         \/ /\ UNCHANGED <<tab, state, session>>
            /\ \/ OwnSave(t) /\ ini' = [ini EXCEPT ![t].pc = "prepare"] /\ UNCHANGED toW
               \/ Prepare(t) /\ ini[t].force /\ UNCHANGED toW
                  /\ ini' = [ini EXCEPT ![t].pc = "fetch", ![t].ws = {w \in Workers : ~cleared[w]}]
               \/ /\ Prepare(t) /\ ~ini[t].force
                  /\ \E x \in BOOLEAN :
                       ini' = [ini EXCEPT ![t].pc = "sync", ![t].ws = {w \in Workers : ~cleared[w]},
                                          ![t].wait = {w \in Workers : ~cleared[w]}, ![t].bad = x]
                  /\ toW' = Sent(t, {w \in Workers : ~cleared[w]}, <<Msg("sync", ini[t].id)>>)
               \/ Synced(t) /\ ini' = [ini EXCEPT ![t].pc = "fetch"] /\ UNCHANGED toW
      /\ UNCHANGED <<att, unsynced>>
  BY InitiatorMoves DEF Before
<1>2. Stage(t) /\ ini[t].id = 1 /\ \A v \in Tabs : ini[v].pc # "idle" => v = t
  BY <1>1, OneRunner DEF Before
<1>3. /\ ini \in [Tabs -> Initiators] /\ {w \in Workers : ~cleared[w]} = Workers
      /\ toW \in [Workers -> [Tabs -> Seq(Messages(ForWorkers \ {"clear"}))]]
  BY DEF LogoutInv, StateOK, Before, Uncleared
<1>4. ini[t] \in Initiators /\ ~ini[t].force /\ session /\ state.id = 1
  BY <1>2, <1>3 DEF Stage
<1>5. u = t
  <2>1. \A v \in Tabs : v # t => ini'[v] = ini[v]
    BY <1>1, <1>3 DEF Ends
  <2> QED BY <1>2, <2>1
<1>6. CASE Ends(t)
  BY <1>3, <1>5, <1>6, IdleOK DEF Ends
<1>7. CASE /\ UNCHANGED <<tab, state, session>>
           /\ OwnSave(t) /\ ini' = [ini EXCEPT ![t].pc = "prepare"] /\ UNCHANGED toW
  <2>1. ini[t].pc = "save" /\ ini'[t].pc = "prepare" /\ ini'[t].force = ini[t].force
    BY <1>3, <1>4, <1>7 DEF OwnSave, Initiators
  <2>2. ASSUME NEW w \in Workers PROVE Called(w, t)' /\ Working(w, t)'
    <3>1. Called(w, t)
      BY <1>2 DEF Stage
    <3>2. hnd[w][1].pc = "none" /\ \A v \in Tabs : toW[w][v] = <<>>
      BY <2>1, <3>1 DEF Called
    <3> QED BY <1>1, <1>7, <3>2 DEF Called, Working
  <2>3. Assured(t)'
    BY <2>1 DEF Assured
  <2>4. session' /\ ~ini'[t].force /\ state'.id = 1
    BY <1>4, <1>7, <2>1
  <2> QED BY <1>5, <2>2, <2>3, <2>4 DEF Stage
<1>8. CASE /\ UNCHANGED <<tab, state, session>> /\ Prepare(t)
           /\ \E x \in BOOLEAN :
                 ini' = [ini EXCEPT ![t].pc = "sync", ![t].ws = Workers, ![t].wait = Workers, ![t].bad = x]
           /\ toW' = Sent(t, Workers, <<Msg("sync", 1)>>)
  <2>1. ini[t].pc = "prepare"
    BY <1>8 DEF Prepare
  <2>2. PICK x \in BOOLEAN :
                 ini' = [ini EXCEPT ![t].pc = "sync", ![t].ws = Workers, ![t].wait = Workers, ![t].bad = x]
    BY <1>8
  <2> DEFINE b == [ini[t] EXCEPT !.pc = "sync", !.ws = Workers, !.wait = Workers, !.bad = x]
  <2>3. ini'[t] = b
    BY <1>3, <1>4, <2>2 DEF Initiators
  <2>4. b.pc = "sync" /\ b.ws = Workers /\ b.wait = Workers /\ b.force = ini[t].force
    BY <1>4 DEF Initiators
  <2> HIDE DEF b
  <2>5. ASSUME NEW w \in Workers PROVE Called(w, t)' /\ Working(w, t)'
    <3> DEFINE m == Msg("sync", 1)
    <3>1. Called(w, t)
      BY <1>2 DEF Stage
    <3>2. hnd[w][1].pc = "none" /\ \A v \in Tabs : toW[w][v] = <<>>
      BY <2>1, <3>1 DEF Called
    <3> HIDE DEF m
    <3>3. toW'[w] = [toW[w] EXCEPT ![t] = @ \o <<m>>]
      BY <1>8 DEF Sent, m
    <3>4. \A v \in Tabs : toW'[w][v] = <<>> \/ (v = t /\ toW'[w][v] = <<m>>)
      <4>1. toW[w] \in [Tabs -> Seq(Messages(ForWorkers \ {"clear"}))]
        BY <1>3
      <4>2. <<>> \o <<m>> = <<m>>
        OBVIOUS
      <4>3. toW'[w] = [toW[w] EXCEPT ![t] = <<m>>]
        BY <3>2, <3>3, <4>2
      <4> QED BY <3>2, <4>1, <4>3
    <3>5. hnd'[w][1].pc = "none"
      BY <1>1, <3>2
    <3> QED BY <2>3, <2>4, <3>4, <3>5 DEF Called, Working, m
  <2>6. Assured(t)'
    BY <2>3, <2>4 DEF Assured
  <2>7. session' /\ ~ini'[t].force /\ state'.id = 1
    BY <1>4, <1>8, <2>3, <2>4
  <2> QED BY <1>5, <2>5, <2>6, <2>7 DEF Stage
<1>9. CASE /\ UNCHANGED <<tab, state, session>>
           /\ Synced(t) /\ ini' = [ini EXCEPT ![t].pc = "fetch"] /\ UNCHANGED toW
  <2>1. ini'[t].pc = "fetch" /\ ini'[t].force = ini[t].force /\ ini'[t].ws = ini[t].ws
    BY <1>3, <1>4, <1>9 DEF Initiators
  <2>2. ini[t].pc = "sync" /\ ini[t].wait = {} /\ (ini[t].bad => Fail(t))
    BY <1>9 DEF Synced
  <2>3. ~Fail(t)
    BY <1>3, <2>1, IdleOK DEF Fail
  <2>4. ini[t].ws = Workers /\ \A w \in Workers : Settled(w, t)
    BY <1>2, <2>2, <2>3 DEF Stage, Assured
  <2>5. \A w \in Workers : Settled(w, t)'
    BY <1>1, <1>9, <2>4 DEF Settled, Finished
  <2>6. Assured(t)'
    BY <2>1, <2>4, <2>5 DEF Assured
  <2>7. ASSUME NEW w \in Workers PROVE Called(w, t)' /\ Working(w, t)'
    <3>1. Called(w, t) /\ Working(w, t)
      BY <1>2 DEF Stage
    <3>2. Called(w, t)'
      BY <1>9, <2>1, <3>1 DEF Called
    <3>3. Working(w, t)'
      BY <1>1, <1>9, <3>1 DEF Working
    <3> QED BY <3>2, <3>3
  <2>8. session' /\ ~ini'[t].force /\ state'.id = 1
    BY <1>4, <1>9, <2>1
  <2> QED BY <1>5, <2>6, <2>7, <2>8 DEF Stage
<1> QED BY <1>1, <1>2, <1>3, <1>4, <1>6, <1>7, <1>8, <1>9

LEMMA StageTimeOut ==
    ASSUME OneAttempt, LogoutInv, NEW t \in Tabs, Stage(t), ini[t].pc # "idle", NEW u \in Tabs, TimeOut(u)
    PROVE  Stage(t)'
<1>1. /\ ini' = [ini EXCEPT ![u].wait = {}, ![u].bad = TRUE] /\ ini \in [Tabs -> Initiators]
      /\ UNCHANGED <<tab, unsynced, session, state, att, hnd, toW>>
  BY DEF TimeOut, Editors, LogoutInv, StateOK
<1>2. /\ ini'[t].pc = ini[t].pc /\ ini'[t].force = ini[t].force /\ ini'[t].ws = ini[t].ws
      /\ ini'[t] = ini[t] \/ ini'[t].bad
  BY <1>1 DEF Initiators
<1>3. ASSUME NEW w \in Workers PROVE Called(w, t)' /\ Working(w, t)' /\ (Settled(w, t) => Settled(w, t)')
  <2>1. Called(w, t) /\ Working(w, t)
    BY DEF Stage
  <2>2. Called(w, t)'
    BY <1>1, <1>2, <2>1 DEF Called
  <2>3. Working(w, t)'
    BY <1>1, <2>1 DEF Working
  <2>4. Settled(w, t) => Settled(w, t)'
    BY <1>1 DEF Settled, Finished
  <2> QED BY <2>2, <2>3, <2>4
<1>4. Assured(t)'
  BY <1>2, <1>3 DEF Stage, Assured
<1> QED BY <1>1, <1>2, <1>3, <1>4 DEF Stage

\* The first attempt starts with nothing on its way.
LEMMA StageStart ==
    ASSUME OneAttempt, LogoutInv, BooksInv, Before, NEW t \in Tabs, NEW force \in Forces, Start(t, force),
           ~force, NEW u \in Tabs, ini'[u].pc # "idle"
    PROVE  Stage(u)'
<1>1. /\ used.ids = 0 /\ session /\ state'.id = 1 /\ ini'[t].pc = "save" /\ ini'[t].force = FALSE
      /\ \A v \in Tabs \ {t} : ini'[v] = ini[v]
      /\ UNCHANGED <<att, hnd, toW, session>>
  BY UntoldStart DEF Before
<1>2. \A v \in Tabs : ini[v].pc = "idle"
  BY <1>1, OneRunner
<1>3. u = t
  BY <1>1, <1>2
<1>4. ASSUME NEW w \in Workers PROVE Called(w, t)' /\ Working(w, t)'
  <2>1. hnd[w][1].pc = "none"
    BY <1>1, OneId DEF BooksInv
  <2>2. Good(ForWorkers) = {}
    <3>1. ASSUME NEW m \in Good(ForWorkers) PROVE FALSE
      <4>1. m.id = 1 /\ m.id <= 0
        BY <1>1, GoodFacts, OneId
      <4> QED BY <4>1
    <3> QED BY <3>1
  <2>3. \A v \in Tabs : toW[w][v] = <<>>
    <3>1. toW[w] \in [Tabs -> Seq({})]
      BY <2>2 DEF LogoutInv, MailInv
    <3> QED BY <3>1
  <2> QED BY <1>1, <2>1, <2>3 DEF Called, Working
<1>5. Assured(t)'
  BY <1>1 DEF Assured
<1> QED BY <1>1, <1>3, <1>4, <1>5 DEF Stage

\* The session is revoked when every worker is settled.
LEMMA StageRevoked ==
    ASSUME OneAttempt, LogoutInv, Before, NEW t \in Tabs, Revoked(t)
    PROVE  Recorded'
<1> DEFINE a == Msg("revoked", 1)
           c == Msg("clear", 1)
           S == Messages({"revoked", "clear", "complete"})
<1>1. ini[t].pc = "fetch"
  BY DEF Revoked
<1>2. Stage(t) /\ ini[t].id = 1 /\ used.ids # 0 /\ \A v \in Tabs : ini[v].pc # "idle" => v = t
  BY <1>1, OneRunner DEF Before
<1>3. ini[t].ws = Workers /\ (\A w \in Workers : Settled(w, t) /\ Called(w, t)) /\ ~ini[t].force
  BY <1>1, <1>2 DEF Stage, Assured
<1>4. /\ state' = [id |-> 1, revoked |-> TRUE] /\ tab' = [tab EXCEPT ![t] = Revoke(@)]
      /\ toW' = Sent(t, Workers, <<a, c>>)
      /\ ini' = [ini EXCEPT ![t].pc = "clear", ![t].wait = ini[t].ws, ![t].bad = FALSE]
      /\ UNCHANGED <<att, timer, toT, unsynced, used>>
  BY <1>2, <1>3 DEF Revoked
<1>5. /\ tab \in [Tabs -> TabRecords] /\ ini \in [Tabs -> Initiators] /\ Space[t] \in Workers
      /\ toW \in [Workers -> [Tabs -> Seq(Messages(ForWorkers \ {"clear"}))]]
  BY LogoutAssumption DEF LogoutInv, StateOK, Before, Uncleared
<1>6. \A v \in Tabs : Ready(tab[v])
  BY <1>3, <1>5 DEF Settled
<1>7. \A v \in Tabs : Ready(tab'[v])
  <2>1. Ready(Revoke(tab[t]))
    BY <1>5, <1>6, RevokeReady
  <2>2. tab' = [tab EXCEPT ![t] = Revoke(tab[t])]
    BY <1>4
  <2> QED BY <1>5, <1>6, <2>1, <2>2
<1>8. \A v \in Tabs : ini'[v].pc \in {"idle", "clear"}
  <2>1. ini'[t].pc = "clear"
    BY <1>4, <1>5 DEF Initiators
  <2>2. \A v \in Tabs \ {t} : ini'[v] = ini[v]
    BY <1>4, <1>5
  <2> QED BY <1>2, <2>1, <2>2
<1>9. a \in S /\ c \in S /\ c.type = "clear"
  BY OneId DEF Msg, Messages
<1> HIDE DEF a, c, S
<1>10. ASSUME NEW w \in Workers PROVE toW'[w] \in [Tabs -> Seq(S)] /\ toW'[w][t] = <<a, c>>
  <2>1. \A v \in Tabs : toW[w][v] = <<>>
    BY <1>3 DEF Settled, Called
  <2>2. toW'[w] = [toW[w] EXCEPT ![t] = @ \o <<a, c>>]
    BY <1>4 DEF Sent
  <2>3. toW[w] \in [Tabs -> Seq(Messages(ForWorkers \ {"clear"}))]
    BY <1>5
  <2>4. <<>> \o <<a, c>> = <<a, c>>
    OBVIOUS
  <2>5. toW'[w] = [toW[w] EXCEPT ![t] = <<a, c>>]
    BY <2>1, <2>2, <2>4
  <2>6. <<a, c>> \in Seq(S) /\ <<>> \in Seq(S)
    BY <1>9
  <2>7. \A v \in Tabs : toW'[w][v] \in Seq(S)
    BY <2>1, <2>3, <2>5, <2>6
  <2> QED BY <2>3, <2>5, <2>7
<1>11. RecordedMail'
  <2>1. toW' \in [Workers -> [Tabs -> Seq(S)]]
    BY <1>4, <1>10 DEF Sent
  <2>2. Seq(Messages({"save"})) \subseteq Seq(Messages({"save", "revoked", "complete"}))
    BY SeqGrows DEF Messages
  <2>3. toT \in [Tabs -> [Workers -> Seq(Messages({"save"}))]]
    BY <1>1, <1>2, StageMail
  <2>4. toT \in [Tabs -> [Workers -> Seq(Messages({"save", "revoked", "complete"}))]]
    BY <2>2, <2>3
  <2> QED BY <1>4, <2>1, <2>4 DEF RecordedMail, S
<1>12. RecordedTabs'
  BY <1>7, <1>8 DEF RecordedTabs
<1>13. RecordedWorkers'
  <2>1. ASSUME NEW w \in Workers PROVE ClearComes(w)'
    <3>1. toW'[w][t] = <<a, c>>
      BY <1>10
    <3>2. Len(toW'[w][t]) = 2 /\ toW'[w][t][2] = c
      BY <3>1
    <3>3. 2 \in 1..Len(toW'[w][t]) /\ toW'[w][t][2].type = "clear"
      BY <1>9, <3>2
    <3> QED BY <3>3 DEF ClearComes
  <2>2. ASSUME NEW w \in Workers PROVE ~unsynced'[w] /\ (att'[w].id # NoId => Finished(w)')
    <3>1. Settled(w, t)
      BY <1>3
    <3> QED BY <1>4, <3>1 DEF Settled, Finished
  <2> QED BY <2>1, <2>2 DEF RecordedWorkers
<1> QED BY <1>2, <1>4, <1>11, <1>12, <1>13 DEF Recorded

\* Only a forced logout asked for changes forced, and nothing takes it back.
LEMMA ForcedStays ==
    ASSUME LogoutInv, Next
    PROVE  forced => forced'
<1>1. ASSUME NEW t \in Tabs, Edit(t) \/ AutoSave(t) \/ Load(t) \/ Boot(t) \/ Close(t) \/ CleanUp(t) \/ TimeOut(t)
      PROVE  UNCHANGED forced
  BY <1>1 DEF Edit, AutoSave, Load, Boot, Close, CleanUp, TimeOut
<1>2. ASSUME NEW t \in Tabs, InitiatorStep(t)
      PROVE  UNCHANGED forced
  BY <1>2 DEF InitiatorStep, OwnSave, Prepare, Synced, Revoked, FetchFails, RevokedUnrecorded, Away
<1>3. ASSUME NEW t \in Tabs, \/ \E w \in Workers : TabReceives(t, w) \/ WorkerReceives(w, t)
                             \/ \E m \in air[t] : TabHears(t, m)
                             \/ \E id \in Ids, ok \in BOOLEAN : SaveEnds(t, id, ok)
      PROVE  UNCHANGED forced
  BY <1>3 DEF TabReceives, WorkerReceives, TabHears, SaveEnds
<1>4. ASSUME NEW w \in Workers, Push(w) \/ Restart(w) \/ Expire(w) \/ \E id \in Ids : HandlerStep(w, id)
      PROVE  UNCHANGED forced
  BY <1>4 DEF Push, Restart, Expire, HandlerStep, Listed, SavesFail, Saved, Synchronized
<1>5. ASSUME NEW t \in Tabs, NEW force \in Forces, Start(t, force)
      PROVE  forced' = (forced \/ force)
  BY <1>5 DEF Start
<1>6. Lapse => UNCHANGED forced
  BY DEF Lapse
<1>7. UNCHANGED forced \/ \E t \in Tabs, force \in Forces : Start(t, force)
  BY <1>1, <1>2, <1>3, <1>4, <1>6 DEF Next
<1> QED BY <1>5, <1>7, Zenon

LEMMA BeforeStep ==
    ASSUME OneAttempt, LogoutInv, BooksInv, ~forced', Before, Next
    PROVE  Before' \/ Recorded'
<1>1. Untold /\ Uncleared /\ \A t \in Tabs : ini[t].pc # "idle" => Stage(t)
  BY DEF Before
<1>2. ini \in [Tabs -> Initiators] /\ forced \in BOOLEAN
  BY DEF LogoutInv, StateOK
<1>3. ~forced
  BY ForcedStays
<1>4. ASSUME NEW t \in Tabs, Edit(t) \/ AutoSave(t) \/ Load(t) \/ Boot(t) \/ Close(t)
      PROVE  Before'
  <2>1. UNCHANGED <<cleared, toW>> /\ (UNCHANGED ini \/ ini' = [ini EXCEPT ![t] = Idle])
    BY <1>4 DEF Edit, AutoSave, Load, Boot, Close, Coordination
  <2>2. \A u \in Tabs : ini'[u].pc # "idle" => ini[u].pc # "idle"
    BY <1>2, <2>1, IdleOK
  <2>3. \A u \in Tabs : ini'[u].pc # "idle" => Stage(u)'
    BY <1>1, <1>4, <2>2, StageTabs
  <2> QED BY <1>1, <1>4, <2>1, <2>3, UntoldTabs, UnclearedStays DEF Before
<1>5. ASSUME NEW t \in Tabs PROVE ~CleanUp(t)
  BY <1>1 DEF CleanUp, Untold
<1>6. ASSUME NEW t \in Tabs, InitiatorStep(t), ~Revoked(t) PROVE Before'
  BY <1>1, <1>6, UntoldInitiator, StageInitiator DEF Before
<1>7. ASSUME NEW t \in Tabs, Revoked(t) PROVE Recorded'
  BY <1>7, StageRevoked
<1>8. ASSUME NEW t \in Tabs, TimeOut(t) PROVE Before'
  <2>1. \A u \in Tabs : ini'[u].pc = ini[u].pc
    BY <1>2, <1>8 DEF TimeOut, Initiators
  <2> QED BY <1>1, <1>8, <2>1, UntoldTimeOut, StageTimeOut DEF Before
<1>9. ASSUME NEW t \in Tabs, NEW force \in Forces, Start(t, force) PROVE Before'
  <2>1. ~force
    BY <1>9 DEF Start
  <2>2. Untold' /\ Uncleared'
    BY <1>1, <1>9, <2>1, UntoldStart
  <2> QED BY <1>9, <2>1, <2>2, StageStart DEF Before
<1>10. ASSUME NEW t \in Tabs, NEW w \in Workers, TabReceives(t, w) PROVE Before'
  <2>1. UNCHANGED <<ini, cleared, toW>>
    BY <1>10 DEF TabReceives
  <2>2. Untold'
    BY <1>1, <1>10, UntoldHears
  <2>3. \A u \in Tabs : ini'[u].pc # "idle" => Stage(u)'
    BY <1>1, <1>10, <2>1, StageReceives
  <2> QED BY <1>1, <2>1, <2>2, <2>3, UnclearedStays DEF Before
<1>11. ASSUME NEW t \in Tabs, NEW m \in air[t], TabHears(t, m) PROVE Before'
  <2>1. UNCHANGED <<ini, cleared, toW>>
    BY <1>11 DEF TabHears
  <2>2. Untold'
    BY <1>1, <1>11, UntoldHears
  <2>3. \A u \in Tabs : ini'[u].pc # "idle" => Stage(u)'
    BY <1>1, <1>11, <2>1, StageHears
  <2> QED BY <1>1, <2>1, <2>2, <2>3, UnclearedStays DEF Before
<1>12. ASSUME NEW t \in Tabs, NEW id \in Ids, NEW ok \in BOOLEAN, SaveEnds(t, id, ok) PROVE Before'
  <2>1. UNCHANGED <<cleared, toW>>
    BY <1>12 DEF SaveEnds
  <2>2. \A u \in Tabs : ini'[u].pc = ini[u].pc
    <3> DEFINE fine == ok /\ tab[t].att = id
    <3>1. ini' = ini \/ ini' = Reply(ini, "save", id, Self, fine)
      BY <1>12 DEF SaveEnds
    <3>2. fine \in BOOLEAN
      BY Zenon
    <3> HIDE DEF fine
    <3> QED BY <1>2, <3>1, <3>2, ReplyKeeps
  <2>3. Untold'
    BY <1>1, <1>12, UntoldHears
  <2>4. \A u \in Tabs : ini'[u].pc # "idle" => Stage(u)'
    BY <1>1, <1>12, <2>2, StageSaves
  <2> QED BY <1>1, <2>1, <2>3, <2>4, UnclearedStays DEF Before
<1>13. ASSUME NEW w \in Workers, NEW t \in Tabs, WorkerReceives(w, t) PROVE Before'
  <2>1. Untold' /\ Uncleared'
    BY <1>1, <1>3, <1>13, UntoldWorker
  <2>2. \A u \in Tabs : ini'[u].pc = ini[u].pc
    <3> DEFINE m == Head(toW[w][t])
    <3>1. toW \in [Workers -> [Tabs -> Seq(Good(ForWorkers))]] /\ toW[w][t] # <<>> /\ Receive(w, m) /\ Outside
      BY <1>13 DEF LogoutInv, MailInv, WorkerReceives, Editors, Outside
    <3>2. m \in Good(ForWorkers)
      BY <3>1, TakenIn
    <3> HIDE DEF m
    <3>3. Coordinated
      BY <3>1, <3>2, ReceiveCoordinated
    <3> QED BY <3>3 DEF Coordinated, Same
  <2>3. \A u \in Tabs : ini'[u].pc # "idle" => Stage(u)'
    BY <1>1, <1>13, <2>2, StageReceive
  <2> QED BY <2>1, <2>3 DEF Before
<1>14. ASSUME NEW w \in Workers, Push(w) \/ Restart(w) PROVE Before'
  <2>1. UNCHANGED ini
    BY <1>14 DEF Push, Restart, Coordination
  <2>2. Untold' /\ Uncleared'
    BY <1>1, <1>3, <1>14, UntoldWorker
  <2>3. \A u \in Tabs : ini'[u].pc # "idle" => Stage(u)'
    BY <1>1, <1>14, <2>1, StageQuiet
  <2> QED BY <2>2, <2>3 DEF Before
<1>15. ASSUME NEW w \in Workers, Expire(w) PROVE Before'
  <2>1. Untold' /\ Uncleared'
    BY <1>1, <1>3, <1>15, UntoldWorker
  <2>2. \A u \in Tabs : ini'[u].pc = ini[u].pc
    <3>1. Expiry(w) \in Good(ForWorkers) /\ Receive(w, Expiry(w)) /\ Outside
      BY <1>15, ExpiryOK
    <3>2. Coordinated
      BY <3>1, ReceiveCoordinated
    <3> QED BY <3>2 DEF Coordinated, Same
  <2>3. \A u \in Tabs : ini'[u].pc # "idle" => Stage(u)'
    BY <1>1, <1>15, <2>2, StageTimers
  <2> QED BY <2>1, <2>3 DEF Before
<1>16. ASSUME NEW w \in Workers, NEW id \in Ids, HandlerStep(w, id) PROVE Before'
  <2>1. Untold' /\ Uncleared'
    BY <1>1, <1>3, <1>16, UntoldWorker
  <2>2. \A u \in Tabs : ini'[u].pc = ini[u].pc
    <3>1. UNCHANGED ini \/ \E ok \in BOOLEAN : ini' = Reply(ini, "sync", id, w, ok)
      BY <1>16 DEF HandlerStep, Listed, SavesFail, Saved, Synchronized, HandlerEnds
    <3> QED BY <1>2, <3>1, ReplyKeeps
  <2>3. \A u \in Tabs : ini'[u].pc # "idle" => Stage(u)'
    BY <1>1, <1>16, <2>2, StageHandler
  <2> QED BY <2>1, <2>3 DEF Before
<1>17. ASSUME Lapse PROVE Before'
  <2>1. UNCHANGED ini
    BY <1>17 DEF Lapse, Coordination
  <2>2. \A u \in Tabs : ini'[u].pc # "idle" => Stage(u)'
    BY <1>1, <1>17, <2>1, StageTimers
  <2> QED BY <1>1, <1>17, <2>2, UntoldLapse DEF Before
<1> QED BY <1>4, <1>5, <1>6, <1>7, <1>8, <1>9, <1>10, <1>11, <1>12, <1>13, <1>14, <1>15, <1>16, <1>17 DEF Next

\* Unless a logout was forced, the attempt is before, at or past its record.
SyncInv == LogoutInv /\ BooksInv /\ (forced \/ Before \/ Recorded \/ Gone)

LEMMA SyncInit ==
    ASSUME Init
    PROVE  SyncInv
<1>1. LogoutInv
  BY InitInv
<1>2. BooksInv
  BY DEF Init, BooksInv, NoHandler
<1>3. Untold
  <2>1. \A t \in Tabs : tab[t].known = FALSE /\ tab[t].att = NoId /\ ini[t].pc = "idle"
    BY DEF Init, NewTab, Idle
  <2>2. state.revoked = FALSE /\ session
    BY DEF Init, NoState
  <2> QED BY <2>1, <2>2 DEF Untold, Clean
<1>4. Uncleared
  BY DEF Init, Uncleared
<1>5. \A t \in Tabs : ini[t].pc = "idle"
  BY DEF Init, Idle
<1> QED BY <1>1, <1>2, <1>3, <1>4, <1>5 DEF SyncInv, Before

\* Files go unsynchronized only with a session, or in a forced logout.
LEMMA SyncDeletes ==
    ASSUME SyncInv, Next, NEW w \in Workers, unsynced[w], ~unsynced'[w]
    PROVE  session \/ forced
<1>1. LogoutInv /\ unsynced \in [Workers -> BOOLEAN]
  BY DEF SyncInv, LogoutInv, StateOK
<1>2. ~Recorded /\ ~Gone
  BY DEF Recorded, RecordedWorkers, Gone
<1>3. CASE \E v \in Workers : Push(v)
  BY <1>3 DEF Push
<1>4. CASE \E t \in Tabs : CleanUp(t)
  <2>1. ~Before
    BY <1>4 DEF CleanUp, Before, Untold
  <2> QED BY <1>2, <2>1 DEF SyncInv
<1>5. ASSUME NEW t \in Tabs PROVE ~AutoSave(t)
  BY <1>1 DEF AutoSave
<1>6. ASSUME NEW t \in Tabs, NEW id \in Ids, NEW ok \in BOOLEAN PROVE ~SaveEnds(t, id, ok)
  BY <1>1, SaveWrites
<1>7. ASSUME NEW t \in Tabs
      PROVE  /\ ~Edit(t) /\ ~Load(t) /\ ~Boot(t) /\ ~Close(t) /\ ~TimeOut(t)
             /\ \A force \in Forces : ~Start(t, force)
  BY DEF Edit, Load, Boot, Close, TimeOut, Start, Editors
<1>8. ASSUME NEW t \in Tabs PROVE ~InitiatorStep(t)
  BY DEF InitiatorStep, OwnSave, Prepare, Synced, Revoked, FetchFails, RevokedUnrecorded, Away
<1>9. ASSUME NEW t \in Tabs
      PROVE  /\ \A v \in Workers : ~TabReceives(t, v) /\ ~WorkerReceives(v, t)
             /\ \A m \in air[t] : ~TabHears(t, m)
  BY DEF TabReceives, WorkerReceives, TabHears, Editors
<1>10. ASSUME NEW v \in Workers PROVE ~Restart(v) /\ ~Expire(v) /\ \A id \in Ids : ~HandlerStep(v, id)
  BY DEF Restart, Expire, HandlerStep, Listed, SavesFail, Saved, Synchronized, Editors
<1>11. ~Lapse
  BY DEF Lapse
<1> QED BY <1>3, <1>4, <1>5, <1>6, <1>7, <1>8, <1>9, <1>10, <1>11 DEF Next

LEMMA SyncNext ==
    ASSUME OneAttempt, SyncInv, Next
    PROVE  SyncInv'
<1>1. LogoutInv /\ BooksInv
  BY DEF SyncInv
<1>2. LogoutInv' /\ BooksInv' /\ (forced => forced')
  BY <1>1, NextInv, BooksStep, ForcedStays
<1>3. ASSUME ~forced' PROVE Before' \/ Recorded' \/ Gone'
  <2>1. CASE Before
    BY <1>1, <1>3, <2>1, BeforeStep
  <2>2. CASE Recorded
    BY <1>1, <1>2, <1>3, <2>2, RecordedStep
  <2>3. CASE Gone
    BY <1>1, <2>3, GoneStep
  <2> QED BY <1>2, <1>3, <2>1, <2>2, <2>3 DEF SyncInv
<1> QED BY <1>2, <1>3 DEF SyncInv

LEMMA SyncStutter ==
    ASSUME SyncInv, UNCHANGED vars
    PROVE  SyncInv'
<1>1. LogoutInv'
  BY StutterInv DEF SyncInv
<1>2. BooksInv'
  BY DEF SyncInv, BooksInv, vars
<1>3. Untold /\ Uncleared => Untold' /\ Uncleared'
  BY DEF Untold, Uncleared, vars
<1>4. (\A t \in Tabs : ini[t].pc # "idle" => Stage(t)) => (\A t \in Tabs : ini[t].pc # "idle" => Stage(t))'
  BY DEF Stage, Called, Working, Assured, Settled, Finished, vars
<1>5. Recorded => Recorded'
  BY DEF Recorded, RecordedMail, RecordedTabs, RecordedWorkers, Finished, ClearComes, vars
<1>6. (forced => forced') /\ (Gone => Gone')
  BY DEF Gone, vars
<1>7. Before => Before'
  BY <1>3, <1>4 DEF Before
<1> QED BY <1>1, <1>2, <1>5, <1>6, <1>7 DEF SyncInv

\* With one attempt to sign out, and a user who answers its dialog within the
\* 30 s of the logout state, only a forced logout deletes files with edits the
\* server does not have (DeletesSynced), whatever closes, restarts or is
\* edited meanwhile.
THEOREM DeletedFilesAreSynced ==
    ASSUME OneAttempt
    PROVE  Spec => DeletesSynced
<1> DEFINE A == \A w \in Workers : unsynced[w] /\ ~unsynced'[w] => session \/ forced
<1>1. Init => SyncInv
  BY SyncInit
<1>2. SyncInv /\ [Next]_vars => SyncInv'
  BY SyncNext, SyncStutter
<1>3. SyncInv /\ [Next]_vars => [A]_vars
  BY SyncDeletes
<1> QED BY <1>1, <1>2, <1>3, PTL DEF Spec, DeletesSynced
=============================================================================
