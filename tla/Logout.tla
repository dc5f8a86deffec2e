------------------------------- MODULE Logout -------------------------------
(***************************************************************************)
(* Signing out of a browser.  The tab where the user asks for it           *)
(* (logoutBrowserSession in client/logout.ts) has every service worker     *)
(* save the editors of all tabs and synchronize, revokes the session at    *)
(* the server, has the workers drop their keys and tells the tabs to       *)
(* leave.  The page they leave to (SignedOut.tsx, logout_cleanup.ts)       *)
(* deletes the local files.  A worker coordinates one attempt at a time    *)
(* (WorkerLogout in client/service_worker/logout.ts), an editor takes part *)
(* through a LogoutParticipant, and a key of localStorage                  *)
(* (logout_state.ts) keeps new tabs from starting meanwhile.               *)
(*                                                                         *)
(* An editor's text is whether it holds edits that are not saved; the      *)
(* files of a space are whether they hold edits the server does not have.  *)
(* Messages between a tab and a worker arrive in order, those on the       *)
(* broadcast channel in any order; a request's answer counts only while    *)
(* its sender waits.  localLockIncomplete and the texts of errors are left *)
(* out: they only choose what the user reads.                              *)
(***************************************************************************)
EXTENDS Naturals, Sequences

CONSTANTS
    Tabs,           \* windows of the browser, each used once
    OpenFirst,      \* those that are open at the start
    Workers,        \* service workers, one for each space
    Space,          \* the worker that serves each tab
    MaxAttempts,    \* bound: attempts to sign out
    MaxFaults,      \* bound: tabs that close and workers that restart
    Restarts,       \* whether the browser may restart a service worker
    Forces,         \* the kinds of attempt: TRUE is a forced logout
    Dawdles,        \* whether 30 s may pass in a logout that goes on (its confirm dialog)
    LateEdits,      \* whether editors are edited after the session is revoked
    Self, Done      \* who waits for an editor's save besides the workers

ASSUME LogoutAssumption ==
    /\ OpenFirst \subseteq Tabs /\ Space \in [Tabs -> Workers]
    /\ MaxAttempts \in Nat /\ MaxFaults \in Nat /\ Restarts \in BOOLEAN /\ Forces \subseteq BOOLEAN
    /\ Dawdles \in BOOLEAN /\ LateEdits \in BOOLEAN
    /\ Self \notin Workers /\ Done \notin Workers /\ Self # Done

Ids == 1..MaxAttempts
NoId == 0

VARIABLES
    tab,        \* per tab: its page, editor and LogoutParticipant
    ini,        \* per tab: the logoutBrowserSession it runs
    att,        \* per worker: attempt
    hnd,        \* per worker and attempt: the handler of its logout-sync
    cleared,    \* per worker: cleared
    timer,      \* per worker: the attempt whose expiry runs, or NoId
    toW,        \* per worker and tab: messages on their way
    toT,        \* per tab and worker: messages on their way
    air,        \* per tab: messages of the broadcast channel on their way
    unsynced,   \* per worker: whether its files hold edits the server lacks
    session,    \* whether the server accepts the session
    state,      \* sb-logout-state of localStorage: [id, revoked]
    forced,     \* whether a forced logout was asked for
    used        \* [ids, closed, restarts] so far

vars == <<tab, ini, att, hnd, cleared, timer, toW, toT, air, unsynced, session, state,
          forced, used>>

Idle == [pc |-> "idle", id |-> NoId, force |-> FALSE, ws |-> {}, wait |-> {}, bad |-> FALSE]
NoAttempt == [id |-> NoId, clients |-> {}, ready |-> FALSE, revoked |-> FALSE, preserved |-> FALSE]
NoHandler == [pc |-> "none", wait |-> {}]
NoState == [id |-> NoId, revoked |-> FALSE]

NewTab(page) ==
    [page |-> page, dirty |-> FALSE, frozen |-> FALSE, att |-> NoId, revoked |-> FALSE,
     preserved |-> FALSE, save |-> [i \in Ids |-> "none"], pend |-> [i \in Ids |-> {}],
     known |-> FALSE]

Init ==
    /\ tab = [t \in Tabs |-> NewTab(IF t \in OpenFirst THEN "open" ELSE "new")]
    /\ ini = [t \in Tabs |-> Idle]
    /\ att = [w \in Workers |-> NoAttempt]
    /\ hnd = [w \in Workers |-> [i \in Ids |-> NoHandler]]
    /\ cleared = [w \in Workers |-> FALSE] /\ timer = [w \in Workers |-> NoId]
    /\ toW = [w \in Workers |-> [t \in Tabs |-> <<>>]]
    /\ toT = [t \in Tabs |-> [w \in Workers |-> <<>>]]
    /\ air = [t \in Tabs |-> {}]
    /\ unsynced = [w \in Workers |-> FALSE]
    /\ session = TRUE /\ state = NoState /\ forced = FALSE
    /\ used = [ids |-> 0, closed |-> 0, restarts |-> 0]

Msg(type, id) == [type |-> type, id |-> id]
Pages == {"loading", "open", "out"}
Windows == {t \in Tabs : tab[t].page \in Pages}

\* The tab that runs attempt id, if it still does.
Runs(t, id) == ini[t].pc # "idle" /\ ini[t].id = id
Abandoned(id) == \A t \in Tabs : ~Runs(t, id) /\ \A w \in Workers : toW[w][t] = <<>>

Editors == UNCHANGED <<tab, unsynced, session, state>>
Coordination == UNCHANGED <<ini, att, hnd, cleared, timer, toW, toT, air>>

-----------------------------------------------------------------------------
(* The editors and the spaces, apart from logging out.                     *)

Edit(t) ==
    /\ tab[t].page = "open" /\ ~tab[t].frozen /\ ~tab[t].dirty
    /\ session \/ LateEdits
    /\ tab' = [tab EXCEPT ![t].dirty = TRUE]
    /\ Coordination /\ UNCHANGED <<unsynced, session, state, forced, used>>

\* An editor saves by itself; the files of a cleared worker are out of reach.
AutoSave(t) ==
    /\ tab[t].page = "open" /\ tab[t].dirty /\ ~cleared[Space[t]]
    /\ tab' = [tab EXCEPT ![t].dirty = FALSE]
    /\ unsynced' = [unsynced EXCEPT ![Space[t]] = TRUE]
    /\ Coordination /\ UNCHANGED <<session, state, forced, used>>

Push(w) ==
    /\ unsynced[w] /\ session /\ ~cleared[w]
    /\ unsynced' = [unsynced EXCEPT ![w] = FALSE]
    /\ Coordination /\ UNCHANGED <<tab, session, state, forced, used>>

Load(t) ==
    /\ tab[t].page = "new"
    /\ tab' = [tab EXCEPT ![t].page = "loading"]
    /\ Coordination /\ UNCHANGED <<unsynced, session, state, forced, used>>

\* waitForLogout lets a tab start, keeps it waiting, or sends it to sign-in.
Boot(t) ==
    /\ tab[t].page = "loading"
    /\ \/ /\ state = NoState
          /\ tab' = [tab EXCEPT ![t].page = "open"]
       \/ /\ state.revoked
          /\ tab' = [tab EXCEPT ![t].page = "out", ![t].known = TRUE]
    /\ Coordination /\ UNCHANGED <<unsynced, session, state, forced, used>>

\* The user closes a tab, or it crashes.
Close(t) ==
    /\ used.closed + used.restarts < MaxFaults /\ tab[t].page \in Pages
    /\ used' = [used EXCEPT !.closed = @ + 1]
    /\ tab' = [tab EXCEPT ![t] = NewTab("closed")]
    /\ ini' = [ini EXCEPT ![t] = Idle]
    /\ UNCHANGED <<att, hnd, cleared, timer, toW, toT, air, unsynced, session, state, forced>>

Restart(w) ==
    /\ Restarts /\ used.closed + used.restarts < MaxFaults /\ ~cleared[w]
    /\ used' = [used EXCEPT !.restarts = @ + 1]
    /\ att' = [att EXCEPT ![w] = NoAttempt]
    /\ hnd' = [hnd EXCEPT ![w] = [i \in Ids |-> NoHandler]]
    /\ timer' = [timer EXCEPT ![w] = NoId]
    /\ Editors /\ UNCHANGED <<ini, cleared, toW, toT, air, forced>>

\* expires of the logout state.
Lapse ==
    /\ state # NoState /\ ~state.revoked
    /\ Dawdles \/ \A t \in Tabs : ~Runs(t, state.id)
    /\ state' = NoState
    /\ Coordination /\ UNCHANGED <<tab, unsynced, session, forced, used>>

\* The files of all spaces go, and with them the logout state.
deleteLocalSpaceData == unsynced' = [w \in Workers |-> FALSE] /\ state' = NoState

\* SignedOut, told that the session is revoked, unregisters the workers first.
CleanUp(t) ==
    /\ tab[t].page = "out" /\ tab[t].known
    /\ tab' = [tab EXCEPT ![t].page = "closed"]
    /\ cleared' = [w \in Workers |-> TRUE]
    /\ deleteLocalSpaceData
    /\ UNCHANGED <<ini, att, hnd, timer, toW, toT, air, session, forced, used>>

-----------------------------------------------------------------------------
(* LogoutParticipant, as functions of a tab's record.                      *)

Freeze(r, v) == [r EXCEPT !.frozen = v]
Revoke(r) == [r EXCEPT !.revoked = TRUE]
Preserve(r) == Freeze([r EXCEPT !.revoked = TRUE, !.preserved = TRUE], FALSE)

\* leave: a tab that runs a logout itself goes when that ends.
Leave(r, t) ==
    IF ini[t].pc # "idle" THEN r ELSE [r EXCEPT !.page = "out", !.known = state.revoked]

\* What logout-complete does once attempt.saved has settled.
Finish(r, t, id) ==
    IF r.save[id] = "failed" THEN Freeze(r, FALSE)
    ELSE IF r.att = id /\ ~r.preserved THEN Leave(r, t) ELSE r

Complete(r, t, id) ==
    IF r.save[id] = "saving" THEN [Revoke(r) EXCEPT !.pend[id] = @ \cup {Done}]
    ELSE Finish(Revoke(r), t, id)

Cancel(r) == Freeze(IF r.revoked THEN [r EXCEPT !.preserved = TRUE] ELSE [r EXCEPT !.att = NoId], FALSE)

\* handle, for every message but logout-save.
Handled(r, t, m) ==
    CASE m.type = "force" -> Leave(Freeze(Revoke(r), TRUE), t)
      [] m.type = "revoked" -> Revoke(r)
      [] m.type = "preserve" -> Preserve(r)
      [] m.type = "complete" /\ r.att = m.id -> Complete(r, t, m.id)
      [] m.type = "cancel" /\ r.att = m.id -> Cancel(r)
      [] OTHER -> r

Refuses(r, id) == r.preserved \/ r.att \notin {NoId, id}

\* Mutant: the editor stays editable while it is saved.
AskedUnfrozen(r, id, who) ==
    IF Refuses(r, id) THEN r
    ELSE IF r.att = NoId THEN [r EXCEPT !.att = id, !.save[id] = "saving", !.pend[id] = @ \cup {who}]
    ELSE IF r.save[id] = "saving" THEN [r EXCEPT !.pend[id] = @ \cup {who}]
    ELSE r

\* logout-save is refused, starts a save, or joins the one of its attempt.
Asked(r, id, who) ==
    IF Refuses(r, id) THEN r
    ELSE IF r.att = NoId
         THEN [Freeze(r, TRUE) EXCEPT !.att = id, !.save[id] = "saving", !.pend[id] = @ \cup {who}]
    ELSE IF r.save[id] = "saving" THEN [r EXCEPT !.pend[id] = @ \cup {who}]
    ELSE IF r.save[id] = "failed" /\ r.revoked THEN Freeze(r, FALSE)
    ELSE r

\* The answers to the saves a worker waits for.
Answers(h, id, who, t, ok) ==
    [w \in Workers |-> [i \in Ids |->
        IF w \in who /\ i = id /\ h[w][i].pc = "saving" /\ t \in h[w][i].wait
        THEN IF ok THEN [h[w][i] EXCEPT !.wait = @ \ {t}] ELSE [pc |-> "failed", wait |-> {}]
        ELSE h[w][i]]]

\* The answer to a request of the tab that runs attempt id.
Reply(f, pc, id, w, ok) ==
    [t \in Tabs |->
        IF f[t].pc = pc /\ f[t].id = id /\ w \in f[t].wait
        THEN [f[t] EXCEPT !.wait = @ \ {w}, !.bad = @ \/ ~ok]
        ELSE f[t]]

\* The editor of t has saved, or could not: the requests that waited go on.
SaveEnds(t, id, ok) ==
    LET r == tab[t]
        fine == ok /\ r.att = id
        saved == [r EXCEPT !.dirty = @ /\ ~ok, !.save[id] = IF ok THEN "ok" ELSE "failed",
                           !.pend[id] = {}]
        told == IF ~fine /\ r.revoked /\ r.pend[id] \ {Done} # {} THEN Freeze(saved, FALSE) ELSE saved
    IN  /\ r.page = "open" /\ r.save[id] = "saving"
        /\ ok => ~cleared[Space[t]] \/ ~r.dirty
        /\ tab' = [tab EXCEPT ![t] = IF Done \in r.pend[id] THEN Finish(told, t, id) ELSE told]
        /\ unsynced' = [unsynced EXCEPT ![Space[t]] = @ \/ (ok /\ r.dirty)]
        /\ hnd' = Answers(hnd, id, r.pend[id], t, fine)
        /\ ini' = IF Self \in r.pend[id] THEN Reply(ini, "save", id, Self, fine) ELSE ini
        /\ UNCHANGED <<att, cleared, timer, toW, toT, air, session, state, forced, used>>

\* A message of worker w arrives; only an editor listens.
TabReceives(t, w) ==
    /\ toT[t][w] # <<>>
    /\ toT' = [toT EXCEPT ![t][w] = Tail(@)]
    /\ LET m == Head(toT[t][w])
           r == tab[t]
           now == Refuses(r, m.id) \/ (r.att = m.id /\ r.save[m.id] # "saving")
       IN IF r.page # "open" THEN UNCHANGED <<tab, hnd>>
          ELSE IF m.type # "save"
          THEN tab' = [tab EXCEPT ![t] = Handled(r, t, m)] /\ UNCHANGED hnd
          ELSE /\ tab' = [tab EXCEPT ![t] = Asked(r, m.id, w)]
               /\ hnd' = IF now
                         THEN Answers(hnd, m.id, {w}, t, ~Refuses(r, m.id) /\ r.save[m.id] = "ok")
                         ELSE hnd
    /\ UNCHANGED <<ini, att, cleared, timer, toW, air, unsynced, session, state, forced, used>>

TabHears(t, m) ==
    /\ m \in air[t]
    /\ air' = [air EXCEPT ![t] = @ \ {m}]
    /\ tab' = IF tab[t].page = "open" THEN [tab EXCEPT ![t] = Handled(tab[t], t, m)] ELSE tab
    /\ UNCHANGED <<ini, att, hnd, cleared, timer, toW, toT, unsynced, session, state, forced, used>>

-----------------------------------------------------------------------------
(* WorkerLogout.                                                           *)

active(w) == cleared[w] \/ att[w].id # NoId

PostedAll(w, clients, ms) ==
    [t \in Tabs |-> IF t \in clients THEN [toT[t] EXCEPT ![w] = @ \o ms] ELSE toT[t]]

Posted(w, clients, m) == PostedAll(w, clients, <<m>>)

Current(w, m) == att[w].id = m.id

ReceiveForce(w, m) ==
    /\ m.type = "force"
    /\ timer' = [timer EXCEPT ![w] = NoId]
    /\ cleared' = [cleared EXCEPT ![w] = TRUE]
    /\ \/ toT' = Posted(w, Windows, m) /\ ini' = Reply(ini, "clear", m.id, w, TRUE)
       \/ UNCHANGED toT /\ ini' = Reply(ini, "clear", m.id, w, FALSE)
    /\ UNCHANGED <<att, hnd>>

ReceiveSync(w, m) ==
    /\ m.type = "sync"
    /\ IF active(w)
       THEN ini' = Reply(ini, "sync", m.id, w, FALSE) /\ UNCHANGED <<att, hnd, timer>>
       ELSE /\ att' = [att EXCEPT ![w] = [NoAttempt EXCEPT !.id = m.id]]
            /\ timer' = [timer EXCEPT ![w] = m.id]
            /\ hnd' = [hnd EXCEPT ![w][m.id] = [pc |-> "clients", wait |-> {}]]
            /\ UNCHANGED ini
    /\ UNCHANGED <<cleared, toT>>

ReceiveRevoked(w, m) ==
    /\ m.type = "revoked" /\ Current(w, m)
    /\ att' = [att EXCEPT ![w].revoked = TRUE]
    /\ toT' = Posted(w, att[w].clients, m)
    /\ UNCHANGED <<ini, hnd, cleared, timer>>

ReceivePreserve(w, m) ==
    /\ m.type = "preserve" /\ Current(w, m)
    /\ att' = [att EXCEPT ![w].revoked = TRUE, ![w].preserved = TRUE]
    /\ timer' = [timer EXCEPT ![w] = NoId]
    /\ toT' = Posted(w, att[w].clients, m)
    /\ UNCHANGED <<ini, hnd, cleared>>

Finished(w) == att[w].ready /\ ~att[w].preserved

\* The keys are gone even when destroying the captures fails.
ReceiveClear(w, m) ==
    /\ m.type = "clear"
    /\ \/ /\ Current(w, m) /\ Finished(w)
          /\ cleared' = [cleared EXCEPT ![w] = TRUE]
          /\ \E ok \in BOOLEAN : ini' = Reply(ini, "clear", m.id, w, ok)
       \/ /\ ~(Current(w, m) /\ Finished(w))
          /\ ini' = Reply(ini, "clear", m.id, w, FALSE) /\ UNCHANGED cleared
    /\ UNCHANGED <<att, hnd, timer, toT>>

ReceiveComplete(w, m) ==
    /\ m.type = "complete" /\ Current(w, m) /\ Finished(w)
    /\ timer' = [timer EXCEPT ![w] = NoId]
    /\ toT' = Posted(w, att[w].clients, m)
    /\ UNCHANGED <<ini, att, hnd, cleared>>

\* Mutant: the tabs are not told of a cancelled attempt.
ReceiveCancelQuietly(w, m) ==
    /\ m.type = "cancel" /\ Current(w, m)
    /\ timer' = [timer EXCEPT ![w] = NoId]
    /\ att' = [att EXCEPT ![w] = IF @.revoked THEN [@ EXCEPT !.preserved = TRUE] ELSE NoAttempt]
    /\ UNCHANGED <<ini, hnd, cleared, toT>>

ReceiveCancel(w, m) ==
    /\ m.type = "cancel" /\ Current(w, m)
    /\ timer' = [timer EXCEPT ![w] = NoId]
    /\ att' = [att EXCEPT ![w] = IF @.revoked THEN [@ EXCEPT !.preserved = TRUE] ELSE NoAttempt]
    /\ toT' = Posted(w, att[w].clients, Msg(IF att[w].revoked THEN "preserve" ELSE "cancel", m.id))
    /\ UNCHANGED <<ini, hnd, cleared>>

\* "Logout preparation expired": a message of an attempt this worker has not.
ReceiveStale(w, m) ==
    /\ m.type \in {"revoked", "preserve", "complete", "cancel"}
    /\ ~Current(w, m) \/ (m.type = "complete" /\ ~Finished(w))
    /\ UNCHANGED <<ini, att, hnd, cleared, timer, toT>>

Receive(w, m) ==
    \/ ReceiveForce(w, m) \/ ReceiveSync(w, m) \/ ReceiveRevoked(w, m) \/ ReceivePreserve(w, m)
    \/ ReceiveClear(w, m) \/ ReceiveComplete(w, m) \/ ReceiveCancel(w, m) \/ ReceiveStale(w, m)

WorkerReceives(w, t) ==
    /\ toW[w][t] # <<>>
    /\ toW' = [toW EXCEPT ![w][t] = Tail(@)]
    /\ Receive(w, Head(toW[w][t]))
    /\ Editors /\ UNCHANGED <<air, forced, used>>

\* The expiry of 30 s: the initiator's own timeouts add up to less.
Expire(w) ==
    /\ timer[w] # NoId /\ Abandoned(timer[w])
    /\ Receive(w, Msg(IF cleared[w] THEN "complete" ELSE IF att[w].revoked THEN "preserve"
                      ELSE "cancel", timer[w]))
    /\ Editors /\ UNCHANGED <<toW, air, forced, used>>

\* The rest of the logout-sync handler, after each of its awaits.
HandlerEnds(w, id, ok) ==
    /\ hnd' = [hnd EXCEPT ![w][id] = NoHandler]
    /\ ini' = Reply(ini, "sync", id, w, ok)

\* The tabs are asked to save, and told at once if the session was revoked
\* while they were listed.
Listed(w, id) ==
    LET first == Msg(IF att[w].preserved THEN "preserve" ELSE "save", id)
        late == att[w].revoked /\ ~att[w].preserved
    IN
    /\ hnd[w][id].pc = "clients"
    /\ IF att[w].id # id
       THEN HandlerEnds(w, id, FALSE) /\ UNCHANGED <<att, toT>>
       ELSE /\ att' = [att EXCEPT ![w].clients = Windows]
            /\ toT' = PostedAll(w, Windows, IF late THEN <<first, Msg("revoked", id)>> ELSE <<first>>)
            /\ hnd' = [hnd EXCEPT ![w][id] = IF att[w].preserved THEN NoHandler
                                             ELSE [pc |-> "saving", wait |-> Windows]]
            /\ UNCHANGED ini
    /\ Editors /\ UNCHANGED <<cleared, timer, toW, air, forced, used>>

\* An editor refused or could not save, or one did not answer in 5 s.
SavesFail(w, id) ==
    /\ hnd[w][id].pc = "failed" \/ (hnd[w][id].pc = "saving" /\ hnd[w][id].wait # {})
    /\ HandlerEnds(w, id, FALSE)
    /\ Editors /\ UNCHANGED <<att, cleared, timer, toW, toT, air, forced, used>>

Saved(w, id) ==
    /\ hnd[w][id] = [pc |-> "saving", wait |-> {}]
    /\ IF att[w].id # id
       THEN HandlerEnds(w, id, FALSE)
       ELSE /\ hnd' = [hnd EXCEPT ![w][id].pc = IF att[w].preserved THEN "none" ELSE "syncing"]
            /\ UNCHANGED ini
    /\ Editors /\ UNCHANGED <<att, cleared, timer, toW, toT, air, forced, used>>

\* Mutant: synchronize does not look what syncSpace returned.
SynchronizedOnce(w, id) ==
    /\ hnd[w][id].pc = "syncing" /\ att[w].id = id /\ ~cleared[w]
    /\ att' = [att EXCEPT ![w].ready = TRUE]
    /\ HandlerEnds(w, id, TRUE)
    /\ Editors /\ UNCHANGED <<cleared, timer, toW, toT, air, forced, used>>

\* syncSpace finds nothing left to do, or the worker cannot synchronize.
Synchronized(w, id) ==
    /\ hnd[w][id].pc = "syncing"
    /\ \/ /\ ~unsynced[w] /\ session /\ att[w].id = id /\ ~cleared[w]
          /\ att' = [att EXCEPT ![w].ready = TRUE]
          /\ HandlerEnds(w, id, TRUE)
       \/ HandlerEnds(w, id, FALSE) /\ UNCHANGED att
    /\ Editors /\ UNCHANGED <<cleared, timer, toW, toT, air, forced, used>>

-----------------------------------------------------------------------------
(* logoutBrowserSession.                                                   *)

Sent(t, ws, ms) ==
    [w \in Workers |-> IF w \in ws THEN [toW[w] EXCEPT ![t] = @ \o ms] ELSE toW[w]]

\* It starts with the state in localStorage and its own editor.
Start(t, force) ==
    LET id == used.ids + 1 IN
    /\ tab[t].page = "open" /\ ini[t] = Idle /\ ~tab[t].revoked /\ tab[t].att = NoId
    /\ ~tab[t].frozen /\ used.ids < MaxAttempts
    /\ used' = [used EXCEPT !.ids = id] /\ forced' = (forced \/ force)
    /\ state' = [id |-> id, revoked |-> FALSE]
    /\ tab' = IF force THEN tab ELSE [tab EXCEPT ![t] = Asked(tab[t], id, Self)]
    /\ ini' = [ini EXCEPT ![t] = [Idle EXCEPT !.pc = IF force THEN "prepare" ELSE "save", !.id = id,
                                              !.force = force, !.wait = IF force THEN {} ELSE {Self}]]
    /\ UNCHANGED <<att, hnd, cleared, timer, toW, toT, air, unsynced, session>>

\* A request that waits too long is rejected.
TimeOut(t) ==
    /\ ini[t].wait # {}
    /\ ini' = [ini EXCEPT ![t].wait = {}, ![t].bad = TRUE]
    /\ Editors /\ UNCHANGED <<att, hnd, cleared, timer, toW, toT, air, forced, used>>

\* Mutant: the attempt is forgotten before its cancellation is sent.
FailForgetful(t) ==
    /\ toW' = Sent(t, ini[t].ws, <<Msg("cancel", NoId)>>)
    /\ ini' = [ini EXCEPT ![t] = Idle]
    /\ UNCHANGED <<state, tab>>

\* The catch block before the session is revoked, and declining to go on.
Fail(t) ==
    LET id == ini[t].id IN
    /\ toW' = Sent(t, ini[t].ws, <<Msg("cancel", id)>>)
    /\ state' = IF state.id = id THEN NoState ELSE state
    /\ tab' = [tab EXCEPT ![t] = Handled(tab[t], t, Msg("cancel", id))]
    /\ ini' = [ini EXCEPT ![t] = Idle]

OwnSave(t) ==
    /\ ini[t].pc = "save" /\ ini[t].wait = {}
    /\ IF ini[t].bad THEN Fail(t)
       ELSE ini' = [ini EXCEPT ![t].pc = "prepare"] /\ UNCHANGED <<toW, state, tab>>
    /\ UNCHANGED <<att, hnd, cleared, timer, toT, air, unsynced, session, forced, used>>

\* The workers are looked up; the user may decline to lose captures.
Prepare(t) ==
    LET ws == {w \in Workers : ~cleared[w]}
        unsure == ws = {} /\ \E u \in Tabs \ {t} : tab[u].page = "open"
    IN  /\ ini[t].pc = "prepare"
        /\ \/ /\ ~ini[t].force
              /\ ini' = [ini EXCEPT ![t].pc = "sync", ![t].ws = ws, ![t].wait = ws, ![t].bad = unsure]
              /\ toW' = Sent(t, ws, <<Msg("sync", ini[t].id)>>)
              /\ UNCHANGED <<tab, state>>
           \/ ~ini[t].force /\ Fail(t)
           \/ /\ ini[t].force
              /\ ini' = [ini EXCEPT ![t].pc = "fetch", ![t].ws = ws]
              /\ UNCHANGED <<toW, tab, state>>
        /\ UNCHANGED <<att, hnd, cleared, timer, toT, air, unsynced, session, forced, used>>

Synced(t) ==
    /\ ini[t].pc = "sync" /\ ini[t].wait = {}
    /\ IF ini[t].bad THEN Fail(t)
       ELSE ini' = [ini EXCEPT ![t].pc = "fetch"] /\ UNCHANGED <<toW, state, tab>>
    /\ UNCHANGED <<att, hnd, cleared, timer, toT, air, unsynced, session, forced, used>>

\* The server revokes the session and the workers hear of it.
Revoked(t) ==
    LET id == ini[t].id IN
    /\ ini[t].pc = "fetch"
    /\ session' = FALSE /\ state' = [id |-> id, revoked |-> TRUE]
    /\ tab' = [tab EXCEPT ![t] = Revoke(@)]
    /\ toW' = Sent(t, ini[t].ws, <<Msg("revoked", id), Msg(IF ini[t].force THEN "force" ELSE "clear", id)>>)
    /\ ini' = [ini EXCEPT ![t].pc = "clear", ![t].wait = ini[t].ws, ![t].bad = FALSE]
    /\ UNCHANGED <<att, hnd, cleared, timer, toT, air, unsynced, forced, used>>

\* The request fails, or its answer is lost after the server revoked.
FetchFails(t) ==
    /\ ini[t].pc = "fetch"
    /\ session' \in {session, FALSE}
    /\ Fail(t)
    /\ UNCHANGED <<att, hnd, cleared, timer, toT, air, unsynced, forced, used>>

\* localStorage refuses the revoked state: the catch block of a revoked session.
RevokedUnrecorded(t) ==
    /\ ini[t].pc = "fetch"
    /\ session' = FALSE
    /\ toW' = Sent(t, ini[t].ws, <<Msg("preserve", ini[t].id)>>)
    /\ tab' = [tab EXCEPT ![t].page = "out", ![t].known = state.revoked]
    /\ ini' = [ini EXCEPT ![t] = Idle]
    /\ UNCHANGED <<att, hnd, cleared, timer, toT, air, unsynced, state, forced, used>>

\* Every worker answered or failed to: the tabs are told, and this one leaves.
Away(t) ==
    LET m == Msg(IF ini[t].force THEN "force" ELSE "complete", ini[t].id) IN
    /\ ini[t].pc = "clear" /\ ini[t].wait = {}
    /\ toW' = Sent(t, ini[t].ws, <<Msg("complete", ini[t].id)>>)
    /\ air' = [u \in Tabs |-> IF u # t /\ tab[u].page = "open" THEN air[u] \cup {m} ELSE air[u]]
    /\ tab' = [tab EXCEPT ![t].page = "out", ![t].known = state.revoked]
    /\ ini' = [ini EXCEPT ![t] = Idle]
    /\ UNCHANGED <<att, hnd, cleared, timer, toT, unsynced, session, state, forced, used>>

-----------------------------------------------------------------------------
InitiatorStep(t) ==
    OwnSave(t) \/ Prepare(t) \/ Synced(t) \/ Revoked(t) \/ FetchFails(t) \/ RevokedUnrecorded(t)
    \/ Away(t)

HandlerStep(w, id) == Listed(w, id) \/ SavesFail(w, id) \/ Saved(w, id) \/ Synchronized(w, id)

Next ==
    \/ \E t \in Tabs :
          \/ Edit(t) \/ AutoSave(t) \/ Load(t) \/ Boot(t) \/ Close(t) \/ CleanUp(t)
          \/ InitiatorStep(t) \/ TimeOut(t)
          \/ \E force \in Forces : Start(t, force)
          \/ \E w \in Workers : TabReceives(t, w) \/ WorkerReceives(w, t)
          \/ \E m \in air[t] : TabHears(t, m)
          \/ \E id \in Ids, ok \in BOOLEAN : SaveEnds(t, id, ok)
    \/ \E w \in Workers :
          Push(w) \/ Restart(w) \/ Expire(w) \/ \E id \in Ids : HandlerStep(w, id)
    \/ Lapse

Spec == Init /\ [][Next]_vars

\* Messages are delivered, saves and requests end or time out, timers fire, and
\* the user answers the confirm dialog.
LiveSpec ==
    /\ Spec
    /\ \A t \in Tabs :
          /\ WF_vars(InitiatorStep(t)) /\ WF_vars(TimeOut(t))
          /\ \A w \in Workers : WF_vars(TabReceives(t, w)) /\ WF_vars(WorkerReceives(w, t))
          /\ WF_vars(\E m \in air[t] : TabHears(t, m))
          /\ \A id \in Ids : WF_vars(\E ok \in BOOLEAN : SaveEnds(t, id, ok))
    /\ \A w \in Workers : WF_vars(Expire(w)) /\ \A id \in Ids : WF_vars(HandlerStep(w, id))

-----------------------------------------------------------------------------
TabRecords ==
    [page : {"new", "loading", "open", "out", "closed"}, dirty : BOOLEAN, frozen : BOOLEAN,
     att : Ids \cup {NoId}, revoked : BOOLEAN, preserved : BOOLEAN,
     save : [Ids -> {"none", "saving", "ok", "failed"}],
     pend : [Ids -> SUBSET (Workers \cup {Self, Done})], known : BOOLEAN]

Initiators ==
    [pc : {"idle", "save", "prepare", "sync", "fetch", "clear"}, id : Ids \cup {NoId},
     force : BOOLEAN, ws : SUBSET Workers, wait : SUBSET (Workers \cup {Self}), bad : BOOLEAN]

Attempts ==
    [id : Ids \cup {NoId}, clients : SUBSET Tabs, ready : BOOLEAN, revoked : BOOLEAN,
     preserved : BOOLEAN]

SyncHandlers == [pc : {"none", "clients", "saving", "failed", "syncing"}, wait : SUBSET Tabs]

Messages(types) == [type : types, id : Ids]
ForWorkers == {"sync", "cancel", "revoked", "preserve", "clear", "complete", "force"}
ForTabs == {"save", "cancel", "complete", "revoked", "preserve", "force"}
ForAll == {"complete", "force"}

TypeOK ==
    /\ tab \in [Tabs -> TabRecords]
    /\ ini \in [Tabs -> Initiators]
    /\ att \in [Workers -> Attempts] /\ hnd \in [Workers -> [Ids -> SyncHandlers]]
    /\ cleared \in [Workers -> BOOLEAN] /\ timer \in [Workers -> Ids \cup {NoId}]
    /\ toW \in [Workers -> [Tabs -> Seq(Messages(ForWorkers))]]
    /\ toT \in [Tabs -> [Workers -> Seq(Messages(ForTabs))]]
    /\ air \in [Tabs -> SUBSET Messages(ForAll)]
    /\ unsynced \in [Workers -> BOOLEAN] /\ session \in BOOLEAN /\ forced \in BOOLEAN
    /\ state \in [id : Ids \cup {NoId}, revoked : BOOLEAN]
    /\ used \in [ids : Nat, closed : Nat, restarts : Nat]

\* Only a forced logout sends an editor away with edits it has not saved.
LeavesSaved ==
    [][\A t \in Tabs : tab[t].page = "open" /\ tab'[t].page = "out" /\ tab'[t].dirty => forced]_vars

\* Only a forced logout deletes files with edits the server does not have.
DeletesSynced == [][\A w \in Workers : unsynced[w] /\ ~unsynced'[w] => session \/ forced]_vars

\* An editor that was frozen for a logout is released or sent away, whichever
\* tabs close on the way, as long as the service workers keep running.
FrozenTabsRecover ==
    \A t \in Tabs : tab[t].page = "open" /\ tab[t].frozen
                       ~> tab[t].page # "open" \/ ~tab[t].frozen \/ used.restarts > 0
=============================================================================
