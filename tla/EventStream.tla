----------------------------- MODULE EventStream -----------------------------
(***************************************************************************)
(* How a change on the server's disk reaches a client within seconds.  The *)
(* watcher (server/src/watcher.rs) collects raw notifications, debounces   *)
(* them and broadcasts events; /.events (server/src/handlers/events.rs)    *)
(* streams them to a tab; the tab (client/realtime_events.ts, with the     *)
(* hooks of client/client.ts) gathers them into batches and either has its *)
(* service worker pull the files or asks for them itself.  While the       *)
(* stream delivers, the tab vouches for it, and the service worker relies  *)
(* on that: it skips probes of the open page (client/service_worker/       *)
(* sync_engine.ts, dirty_queue.ts).                                        *)
(*                                                                         *)
(* A file is its version, which stands for its time and its hash.  `copy'  *)
(* is what the client has of the files: the local files of its service     *)
(* worker or, without one, what the tab last saw of them.  A cycle of the  *)
(* sync engine is one step that pulls (SpaceSync has its details).  Time   *)
(* passes in ticks for the health of the stream only; every other timer    *)
(* may fire at any time.                                                   *)
(*                                                                         *)
(* There is one tab.  In the code all tabs share realtimeHealthyUntil, and *)
(* one whose connection breaks ends it for those that still receive.       *)
(***************************************************************************)
EXTENDS Naturals, Sequences, FiniteSets

CONSTANTS
    Paths,
    Watched,            \* the paths of open pages: Space.watchedFiles
    Modes,              \* whether a service worker is active
    FloodThreshold,     \* FLOOD_THRESHOLD
    BatchThreshold,     \* BATCH_THRESHOLD
    Capacity,           \* CHANNEL_CAPACITY
    PingInterval,       \* PING_INTERVAL, in ticks
    Throttle,           \* HEARTBEAT_THROTTLE_MS, in ticks
    HealthTtl,          \* realtimeHealthTtlMs, in ticks
    MaxChanges,         \* bound: writes and deletions on the server's disk
    MaxFaults,          \* bound: connections that break or fall silent, requests that fail
    None

Versions == 1..(MaxChanges + 1)

ASSUME StreamAssumption ==
    /\ Watched \subseteq Paths /\ Modes \subseteq BOOLEAN /\ None \notin Paths
    /\ FloodThreshold \in Nat /\ BatchThreshold \in Nat /\ Capacity \in Nat \ {0}
    /\ PingInterval \in Nat \ {0} /\ Throttle \in Nat \ {0} /\ HealthTtl \in Nat
    /\ MaxChanges \in Nat /\ MaxFaults \in Nat

\* 30 s, 5 s and 45 s in the code.
ASSUME TimesFit == PingInterval + Throttle <= HealthTtl

INSTANCE SyncOrigin WITH Hashes <- Versions, Times <- Versions

ASSUME UndefinedAssumption == None \notin Origins

VARIABLES
    worker,     \* serviceWorkerActive
    disk,       \* the server's files
    raw,        \* paths notified and not received by the watcher's thread
    pending,    \* debounce_loop's pending
    resolved,   \* its events that are not sent yet
    sub,        \* whether the tab is subscribed to the broadcast channel
    chan,       \* what the channel holds for it
    lagged,     \* whether the channel dropped some of that
    src,        \* the tab's EventSource
    live,       \* how many EventSources are not closed
    stalled,    \* whether the connection delivers nothing without an error
    retry,      \* retryTimer
    ever,       \* everConnected
    refresh,    \* whether the listing after a reconnect is due
    box,        \* the tab's pending events, one for each name
    flush,      \* where runFlush is, and what it has left to do
    marks,      \* the dirty queue: an origin for each path, or None
    full,       \* its fullScan
    copy,       \* the client's files
    missed,     \* per path: whether an event that mattered got lost, and how
    idle,       \* ticks since the server sent something
    beat,       \* ticks since the tab last vouched for the stream, up to Throttle
    life,       \* ticks until realtimeHealthyUntil
    left        \* what is left of the bounds

server == <<disk, raw, pending, resolved>>
channel == <<sub, chan, lagged>>
source == <<src, live, stalled, retry, ever>>
inbox == <<refresh, box, flush>>
engine == <<marks, full>>
ends == <<copy, missed>>
clocks == <<idle, beat, life>>
vars == <<worker, server, channel, source, inbox, engine, ends, clocks, left>>

Event(name, action, v, hash) == [name |-> name, action |-> action, v |-> v, hash |-> hash]
resync == Event(None, "resync", 0, None)
Changes(evs) == {e \in evs : e.action = "change"}

Idle == [at |-> "idle", changes |-> {}, deletes |-> FALSE]

Init ==
    /\ worker \in Modes
    /\ disk = [p \in Paths |-> 1] /\ copy = disk /\ missed = [p \in Paths |-> "no"]
    /\ raw = {} /\ pending = {} /\ resolved = {}
    /\ sub = FALSE /\ chan = <<>> /\ lagged = FALSE
    /\ src = "connecting" /\ live = 1 /\ stalled = FALSE /\ retry = FALSE /\ ever = FALSE
    /\ refresh = FALSE /\ box = {} /\ flush = Idle
    /\ marks = [p \in Paths |-> None] /\ full = FALSE
    /\ idle = 0 /\ beat = Throttle /\ life = 0
    /\ left = [changes |-> MaxChanges, faults |-> MaxFaults]

-----------------------------------------------------------------------------
(* What the client has, and what it should have.                           *)

\* A service worker leaves deletions to its periodic scan: no event of the
\* stream makes it look for one.
Stale(p) == copy[p] # disk[p] /\ (worker => disk[p] # None)

\* Mutant: a connection that is open counts as healthy.
isRealtimeHealthyOpen == src = "open"

isRealtimeHealthy == life > 0

Has(files) ==
    /\ copy' = files
    /\ missed' = [p \in Paths |-> IF files[p] = disk[p] THEN "no" ELSE missed[p]]

Pull(p) == Has([copy EXCEPT ![p] = disk[p]])

Loses(ps, how) ==
    /\ missed' = [p \in Paths |-> IF p \in ps /\ Stale(p) /\ missed[p] = "no"
                                  THEN how ELSE missed[p]]
    /\ UNCHANGED copy

Fault == left.faults > 0 /\ left' = [left EXCEPT !.faults = @ - 1]

\* The paths an event is about.
About(e) == IF e.action = "resync" THEN Paths ELSE {e.name}
InChannel == IF lagged THEN Paths ELSE UNION {About(chan[i]) : i \in 1..Len(chan)}

\* Before the first connection nobody promised to catch up.
Gap == IF ever THEN "gap" ELSE "early"

-----------------------------------------------------------------------------
(* The server: disk, watcher, channel.                                     *)

\* Whoever changes a file has the operating system notify the watcher.
Changed(p, v) ==
    /\ left.changes > 0 /\ left' = [left EXCEPT !.changes = @ - 1]
    /\ disk' = [disk EXCEPT ![p] = v]
    /\ raw' = raw \cup {p}
    /\ missed' = [missed EXCEPT ![p] = "no"]
    /\ UNCHANGED <<worker, pending, resolved, channel, source, inbox, engine, copy, clocks>>

Write(p) == Changed(p, MaxChanges - left.changes + 2)

Remove(p) == disk[p] # None /\ Changed(p, None)

Watcher == UNCHANGED <<worker, disk, source, inbox, engine, clocks, left>>

\* debounce_loop receives a path.
Receive(p) ==
    /\ p \in raw /\ resolved = {}
    /\ raw' = raw \ {p} /\ pending' = pending \cup {p}
    /\ UNCHANGED <<resolved, channel, ends>> /\ Watcher

\* The channel keeps Capacity events for a subscriber and drops the oldest.
Send(e) ==
    IF sub /\ ~stalled
    THEN /\ chan' = IF Len(chan) < Capacity THEN Append(chan, e) ELSE Append(Tail(chan), e)
         /\ lagged' = (lagged \/ Len(chan) >= Capacity)
         /\ UNCHANGED <<sub, ends>>
    ELSE Loses(About(e), Gap) /\ UNCHANGED channel

Seen(p) == IF disk[p] = None THEN Event(p, "delete", 0, None) ELSE Event(p, "change", disk[p], None)

\* DEBOUNCE passed for the paths `ready' without another notification: their files
\* are looked up, and many of them become one event.
Resolve(ready) ==
    /\ resolved = {} /\ ready # {}
    /\ pending' = pending \ ready
    /\ IF Cardinality(ready) > FloodThreshold
       THEN Send(resync) /\ UNCHANGED resolved
       ELSE resolved' = {Seen(p) : p \in ready} /\ UNCHANGED <<channel, ends>>
    /\ UNCHANGED raw /\ Watcher

\* enrich_event hashes the file as it is by now.
enrich_event(e) == IF e.action = "change" THEN [e EXCEPT !.hash = disk[e.name]] ELSE e

SendNext(e) ==
    /\ e \in resolved
    /\ resolved' = resolved \ {e}
    /\ Send(enrich_event(e))
    /\ UNCHANGED <<raw, pending>> /\ Watcher

-----------------------------------------------------------------------------
(* The connection.                                                         *)

Connection == UNCHANGED <<worker, server, engine>>

\* onReceipt: the tab vouches for the stream, once within Throttle.
onReceipt ==
    IF beat < Throttle THEN UNCHANGED <<beat, life>> ELSE beat' = 0 /\ life' = HealthTtl

\* Mutant: the throttle goes on although the stream was reported down.
reportDownThrottled == life' = 0 /\ UNCHANGED beat

\* reportDown: the next receipt is reported at once.
reportDown == beat' = Throttle /\ life' = 0

\* connect: a new EventSource.
connect ==
    /\ src' = "connecting" /\ live' = live + 1 /\ retry' = FALSE
    /\ UNCHANGED <<stalled, ever, channel, inbox, ends, clocks, left>> /\ Connection

Retry == retry /\ connect

\* Mutant: a pending reconnect is not asked for.
onOnlineAlways == src = "open" /\ connect

\* The browser is online again: no need to wait for the timer.
onOnline == retry /\ connect

\* handle_events subscribes before it answers.
Subscribe ==
    /\ src = "connecting" /\ ~sub
    /\ sub' = TRUE /\ chan' = <<>> /\ lagged' = FALSE /\ idle' = 0
    /\ UNCHANGED <<source, inbox, ends, beat, life, left>> /\ Connection

\* Mutant: nothing is asked for after a reconnect.
OpenQuietly ==
    /\ src = "connecting" /\ sub
    /\ src' = "open" /\ ever' = TRUE
    /\ onReceipt
    /\ UNCHANGED <<channel, live, stalled, retry, inbox, ends, idle, left>> /\ Connection

\* onopen: after a gap the tab asks for the list of files.
Open ==
    /\ src = "connecting" /\ sub
    /\ src' = "open" /\ ever' = TRUE
    /\ refresh' = (refresh \/ ever)
    /\ onReceipt
    /\ UNCHANGED <<channel, live, stalled, retry, box, flush, ends, idle, left>> /\ Connection

Flowing == src = "open" /\ ~stalled

\* Mutant: a subscriber that lags goes on with what is left.
upcomingLeft == Head(chan)

\* The event handle_events sends next: resync when the channel dropped some.
upcoming == IF lagged THEN resync ELSE Head(chan)

\* handleEvent: the newest event of each name is kept, and a timer runs unless a
\* flush does.
handleEvent(e) ==
    /\ box' = {o \in box : o.name # e.name} \cup {e}
    /\ flush' = IF flush.at = "idle" THEN [flush EXCEPT !.at = "timer"] ELSE flush

\* onmessage.
Deliver ==
    /\ Flowing /\ (lagged \/ chan # <<>>)
    /\ lagged' = FALSE /\ chan' = IF lagged THEN chan ELSE Tail(chan)
    /\ onReceipt /\ handleEvent(upcoming)
    /\ idle' = 0
    /\ UNCHANGED <<sub, source, refresh, ends, left>> /\ Connection

\* WithPing: a stream that was idle for PingInterval.
Ping ==
    /\ Flowing /\ idle >= PingInterval /\ ~lagged /\ chan = <<>>
    /\ idle' = 0 /\ onReceipt
    /\ UNCHANGED <<channel, source, inbox, ends, left>> /\ Connection

\* The connection is half open: it stays "open" and delivers nothing.
Stall ==
    /\ Flowing /\ Fault
    /\ stalled' = TRUE /\ chan' = <<>> /\ lagged' = FALSE
    /\ Loses(InChannel, Gap)
    /\ UNCHANGED <<sub, src, live, retry, ever, inbox, clocks>> /\ Connection

\* onerror: the source is closed and a reconnect scheduled.
onerror ==
    /\ src # "none" /\ src' = "none" /\ live' = live - 1 /\ stalled' = FALSE /\ retry' = TRUE
    /\ sub' = FALSE /\ chan' = <<>> /\ lagged' = FALSE
    /\ Loses(InChannel, Gap)
    /\ reportDown
    /\ idle' = 0
    /\ UNCHANGED <<ever, inbox>> /\ Connection

\* A connection breaks, the server shuts down or a silent connection times out.
Break == onerror /\ IF stalled THEN UNCHANGED left ELSE Fault

\* A tick passes; a stream that flows has delivered what it has by then.
Tick ==
    /\ Flowing => idle < PingInterval /\ chan = <<>> /\ ~lagged
    /\ idle' = IF sub /\ idle < PingInterval THEN idle + 1 ELSE idle
    /\ beat' = IF beat < Throttle THEN beat + 1 ELSE beat
    /\ life' = IF life > 0 THEN life - 1 ELSE 0
    /\ clocks' # clocks
    /\ UNCHANGED <<channel, source, inbox, ends, left>> /\ Connection

-----------------------------------------------------------------------------
(* The tab's flushes.                                                      *)

Tab == UNCHANGED <<worker, server, channel, source, clocks>>

\* refreshFileList asks the service worker, which lists its own copies, or the
\* server; a probe does the same for one file.
Listed == IF worker THEN UNCHANGED ends ELSE Has(disk)
Probed(p) == IF worker \/ disk[p] = None THEN UNCHANGED ends ELSE Pull(p)

\* A request that fails, or a probe that notices nothing because another
\* operation is under way.
Unnoticed(ps) == ~worker /\ Fault /\ Loses(ps, "failed")

Marked(p, o) == marks' = [marks EXCEPT ![p] = IF @ = None THEN o ELSE mergeOrigins(@, o)]

\* Where a flush goes on after a file.
Onward(changes, deletes) ==
    [at |-> IF changes # {} THEN "file" ELSE IF deletes THEN "list" ELSE "end",
     changes |-> changes, deletes |-> deletes]

\* Mutant: a deleted file is asked for like a changed one.
FlushStartUnsorted ==
    /\ flush.at = "timer"
    /\ box' = {}
    /\ flush' = IF resync \in box \/ Cardinality(Changes(box)) >= BatchThreshold
                THEN [Idle EXCEPT !.at = "all"]
                ELSE Onward(box, \E e \in box : e.action = "delete")
    /\ UNCHANGED <<refresh, engine, ends, left>> /\ Tab

\* The timer fires: the batch is taken, and sorted by how much there is.
FlushStart ==
    /\ flush.at = "timer"
    /\ box' = {}
    /\ flush' = IF resync \in box \/ Cardinality(Changes(box)) >= BatchThreshold
                THEN [Idle EXCEPT !.at = "all"]
                ELSE Onward(Changes(box), \E e \in box : e.action = "delete")
    /\ UNCHANGED <<refresh, engine, ends, left>> /\ Tab

\* A flood: one scan of the space, then one listing.
FlushAll ==
    /\ flush.at = "all"
    /\ flush' = [Idle EXCEPT !.at = "list"]
    /\ full' = (full \/ worker)
    /\ UNCHANGED <<refresh, box, marks, ends, left>> /\ Tab

\* A changed file: the service worker is told, and the tab waits until it is
\* done or 30 s have passed; without one the tab asks for the file.
FlushFile(e) ==
    /\ flush.at = "file" /\ e \in flush.changes
    /\ flush' = Onward(flush.changes \ {e}, flush.deletes)
    /\ IF worker
       THEN Marked(e.name, RemoteOrigin(e.v, e.hash)) /\ UNCHANGED <<ends, left>>
       ELSE /\ (Probed(e.name) /\ UNCHANGED left) \/ Unnoticed({e.name})
            /\ UNCHANGED marks
    /\ UNCHANGED <<refresh, box, full>> /\ Tab

FlushList ==
    /\ flush.at = "list"
    /\ flush' = [Idle EXCEPT !.at = "end"]
    /\ (Listed /\ UNCHANGED left) \/ Unnoticed(Paths)
    /\ UNCHANGED <<refresh, box, engine>> /\ Tab

\* Mutant: what arrived during the flush waits for the next event.
FlushEndIdle ==
    /\ flush.at = "end"
    /\ flush' = Idle
    /\ UNCHANGED <<refresh, box, engine, ends, left>> /\ Tab

\* runFlush: what arrived during the flush has a timer of its own.
FlushEnd ==
    /\ flush.at = "end"
    /\ flush' = IF box = {} THEN Idle ELSE [Idle EXCEPT !.at = "timer"]
    /\ UNCHANGED <<refresh, box, engine, ends, left>> /\ Tab

\* The listing after a reconnect.
Refresh ==
    /\ refresh
    /\ refresh' = FALSE
    /\ \/ Listed /\ UNCHANGED left
       \/ /\ ~worker /\ Fault /\ UNCHANGED copy
          /\ missed' = [p \in Paths |-> IF missed[p] = "gap" THEN "failed" ELSE missed[p]]
    /\ UNCHANGED <<box, flush, engine>> /\ Tab

\* Space.watch: the tab asks for the open page, and the service worker, if it
\* has a copy, probes the server for it.
Observe(p) ==
    /\ p \in Watched
    /\ IF worker
       THEN copy[p] # None /\ Marked(p, ProbeOrigin) /\ UNCHANGED ends
       ELSE Probed(p) /\ UNCHANGED marks
    /\ UNCHANGED <<inbox, full, left>> /\ Tab

-----------------------------------------------------------------------------
(* The sync engine of the service worker.                                  *)

Engine == UNCHANGED <<worker, server, channel, source, inbox, clocks>>

skipped(p) ==
    shouldSkip(marks[p], IF copy[p] = None THEN None ELSE <<copy[p], copy[p]>>, copy[p],
               isRealtimeHealthy)

\* The run loop takes a path; a cycle that fails is not repeated.
SyncFile(p) ==
    /\ marks[p] # None
    /\ marks' = [marks EXCEPT ![p] = None]
    /\ \/ skipped(p) /\ UNCHANGED <<ends, left>>
       \/ ~skipped(p) /\ Pull(p) /\ UNCHANGED left
       \/ ~skipped(p) /\ Fault /\ Loses({p}, "failed")
    /\ UNCHANGED full /\ Engine

SyncSpace ==
    /\ full
    /\ full' = FALSE
    /\ (Has(disk) /\ UNCHANGED left) \/ (Fault /\ Loses(Paths, "failed"))
    /\ UNCHANGED marks /\ Engine

\* The periodic scan or, without a service worker, the periodic listing.
Poll ==
    /\ Has(disk)
    /\ UNCHANGED <<engine, left>> /\ Engine

-----------------------------------------------------------------------------
WatcherStep ==
    \/ \E p \in Paths : Receive(p)
    \/ \E ready \in SUBSET pending : Resolve(ready)
    \/ \E e \in resolved : SendNext(e)
Resolves(p) == \E ready \in SUBSET pending : p \in ready /\ Resolve(ready)
FlushStep ==
    FlushStart \/ FlushAll \/ (\E e \in flush.changes : FlushFile(e)) \/ FlushList \/ FlushEnd

Next ==
    \/ \E p \in Paths : Write(p) \/ Remove(p) \/ Observe(p) \/ SyncFile(p)
    \/ WatcherStep \/ Retry \/ onOnline \/ Subscribe \/ Open \/ Deliver \/ Ping
    \/ Stall \/ Break \/ Tick \/ FlushStep \/ Refresh \/ SyncSpace \/ Poll

Spec == Init /\ [][Next]_vars

\* Threads, timers and the event loop go on, and what is sent on a connection that
\* works arrives.  Nothing is assumed of the periodic scans, of a connection that
\* fell silent, or of the browser's online event.
LiveSpec ==
    /\ Spec
    /\ WF_vars(\E e \in resolved : SendNext(e)) /\ WF_vars(Deliver \/ Ping) /\ WF_vars(Tick)
    /\ WF_vars(Retry \/ Subscribe \/ Open)
    /\ WF_vars(FlushStep) /\ WF_vars(Refresh) /\ WF_vars(SyncSpace)
    /\ \A p \in Paths :
        WF_vars(Receive(p)) /\ WF_vars(Resolves(p)) /\ WF_vars(SyncFile(p)) /\ WF_vars(Observe(p))

-----------------------------------------------------------------------------
Events == [name : Paths \cup {None}, action : {"change", "delete", "resync"},
           v : Versions \cup {0}, hash : Versions \cup {None}]

TypeOK ==
    /\ worker \in BOOLEAN /\ {disk, copy} \subseteq [Paths -> Versions \cup {None}]
    /\ raw \subseteq Paths /\ pending \subseteq Paths
    /\ resolved \subseteq Events
    /\ sub \in BOOLEAN /\ chan \in Seq(Events) /\ Len(chan) <= Capacity /\ lagged \in BOOLEAN
    /\ src \in {"none", "connecting", "open"} /\ live \in Nat
    /\ {stalled, retry, ever, refresh, full} \subseteq BOOLEAN
    /\ box \subseteq Events
    /\ flush.changes \subseteq Changes(Events)
    /\ flush \in [at : {"idle", "timer", "all", "file", "list", "end"},
                  changes : {flush.changes}, deletes : BOOLEAN]
    /\ marks \in [Paths -> Origins \cup {None}]
    /\ missed \in [Paths -> {"no", "early", "gap", "failed"}]
    /\ idle \in 0..PingInterval /\ beat \in 0..Throttle /\ life \in 0..HealthTtl
    /\ left \in [changes : 0..MaxChanges, faults : 0..MaxFaults]

\* What is on its way will make the client look at path p.
Announces(e, p) ==
    \/ e.action = "resync"
    \/ /\ e.name = p
       /\ worker => /\ e.action = "change"
                    /\ copy[p] = None \/ e.v # copy[p] \/ e.hash \notin {None, copy[p]}

Announced(p) ==
    \/ p \in raw \cup pending \/ (\E e \in resolved : e.name = p)
    \/ lagged \/ (\E i \in 1..Len(chan) : Announces(chan[i], p))
    \/ (\E e \in box \cup flush.changes : Announces(e, p))
    \/ flush.at = "all" \/ full
    \/ (~worker /\ (flush.deletes \/ flush.at = "list" \/ refresh))
    \/ (marks[p] # None /\ ~skipped(p))

\* Between the notification and the pull nothing loses a change: not the
\* debouncing, the flood control, a subscriber that lags, the coalescing of
\* events or the batches of the tab.  A file the client has an old version of is
\* announced somewhere on the way, unless its event met no connection, was lost
\* with one, or a request for it failed.
StaleIsAnnounced == \A p \in Paths : Stale(p) /\ missed[p] = "no" => Announced(p)

\* A stream that delivers is never taken for dead: the server's pings, the tab's
\* throttle and the service worker's expiry, set in three files, fit together.
QuietStreamStaysHealthy == Flowing => isRealtimeHealthy

\* The retry timer and the browser's online event never leave two EventSources
\* side by side.
OneSource == live <= 1

\* A change that did not get lost is pulled, without the periodic scan.
ChangesGetPulled ==
    \A p \in Paths : Stale(p) ~> (~Stale(p) \/ missed[p] # "no")

\* A change of the open page is seen whatever the stream lost: a tab that vouched for
\* a connection gone silent stops being believed, and the probes go on.  What a
\* stream that delivers again had lost before is left to the periodic scan.
OpenPageGetsFresh ==
    \A p \in Watched :
        (Stale(p) /\ None \notin {copy[p], disk[p]})
            ~> (~Stale(p) \/ None \in {copy[p], disk[p]} \/ (Flowing /\ missed[p] # "no"))

\* Without a service worker a tab that reconnects catches up on what it missed,
\* as long as the connection does not fall silent.
GapsAreCaughtUp ==
    \A p \in Paths : (~worker /\ missed[p] = "gap") ~> (missed[p] # "gap" \/ stalled)
=============================================================================
