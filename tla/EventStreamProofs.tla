------------------------- MODULE EventStreamProofs -------------------------
(***************************************************************************)
(* The event stream, for every interval of the pings, throttle and expiry  *)
(* that fit together, every threshold and capacity, and any number of      *)
(* files, changes and faults: the tab never has two EventSources, while    *)
(* one delivers the service worker believes in it, and no change gets lost *)
(* between the watcher and the pull.                                       *)
(*                                                                         *)
(* Health is inductive once two sums are bounded: while a throttle runs,   *)
(* what is left of the expiry plus the time since the tab last vouched     *)
(* makes up the whole expiry, and at any time what is left of it plus the  *)
(* time the stream has been idle exceeds the expiry less one throttle.     *)
(*                                                                         *)
(* That some event on its way announces a change is not inductive: a later *)
(* event of the same file replaces it in the tab's box, or is merged with  *)
(* its mark.  What is: the last event about the file, in the order of      *)
(* channel, box, flush and mark, makes the client look at it (Newest),     *)
(* whether or not the stream counts as healthy.                            *)
(***************************************************************************)
EXTENDS EventStream, TLAPS

ClockType ==
    /\ src \in {"none", "connecting", "open"}
    /\ idle \in 0..PingInterval /\ beat \in 0..Throttle /\ life \in 0..HealthTtl

SourceInv ==
    /\ retry => src = "none"
    /\ live = IF src = "none" THEN 0 ELSE 1
    /\ stalled => src = "open"
    /\ src = "open" => sub

HealthInv ==
    /\ src # "open" => beat = Throttle
    /\ Flowing => /\ beat < Throttle => life + beat >= HealthTtl
                  /\ life + idle + Throttle > HealthTtl

IInv == ClockType /\ SourceInv /\ HealthInv

\* What the invariant reads.
read == <<src, live, stalled, retry, sub, idle, beat, life>>

LEMMA InitIInv == Init => IInv
<1> SUFFICES ASSUME Init PROVE IInv
  OBVIOUS
<1>1. /\ src = "connecting" /\ live = 1 /\ stalled = FALSE /\ retry = FALSE /\ sub = FALSE
      /\ idle = 0 /\ beat = Throttle /\ life = 0
  BY DEF Init
<1> QED
  BY <1>1, StreamAssumption DEF IInv, ClockType, SourceInv, HealthInv, Flowing

LEMMA UnreadKeeps == ASSUME IInv, UNCHANGED read PROVE IInv'
BY DEF read, IInv, ClockType, SourceInv, HealthInv, Flowing

\* A receipt renews the expiry unless the throttle runs, and then most of it is left.
LEMMA ReceiptHealth ==
    ASSUME ClockType, onReceipt, beat < Throttle => life + beat >= HealthTtl
    PROVE  /\ beat' \in 0..Throttle /\ life' \in 0..HealthTtl
           /\ beat' < Throttle => life' + beat' >= HealthTtl
           /\ life' + Throttle > HealthTtl
BY StreamAssumption DEF ClockType, onReceipt

LEMMA ConnectKeeps == ASSUME IInv, retry, connect PROVE IInv'
BY StreamAssumption
DEF IInv, ClockType, SourceInv, HealthInv, Flowing, connect, channel, clocks

LEMMA SubscribeKeeps == ASSUME IInv, Subscribe PROVE IInv'
BY StreamAssumption
DEF IInv, ClockType, SourceInv, HealthInv, Flowing, Subscribe, source

LEMMA OpenKeeps == ASSUME IInv, Open PROVE IInv'
BY StreamAssumption
DEF IInv, ClockType, SourceInv, HealthInv, Flowing, Open, onReceipt, channel

LEMMA DeliverKeeps == ASSUME IInv, Deliver \/ Ping PROVE IInv'
<1>1. Flowing /\ idle' = 0 /\ onReceipt /\ UNCHANGED <<sub, source>>
  BY DEF Deliver, Ping, channel
<1>2. /\ beat' \in 0..Throttle /\ life' \in 0..HealthTtl
      /\ beat' < Throttle => life' + beat' >= HealthTtl
      /\ life' + Throttle > HealthTtl
  BY <1>1, ReceiptHealth DEF IInv, HealthInv
<1>3. ClockType'
  BY <1>1, <1>2, StreamAssumption DEF IInv, ClockType, source
<1>4. SourceInv'
  BY <1>1 DEF IInv, SourceInv, source
<1>5. HealthInv'
  <2>1. src' = "open"
    BY <1>1 DEF Flowing, source
  <2>2. life' + idle' + Throttle > HealthTtl
    <3>1. idle' = 0 /\ life' \in Nat /\ Throttle \in Nat
      BY <1>1, <1>2, StreamAssumption
    <3> QED BY <3>1, <1>2
  <2> QED BY <1>2, <2>1, <2>2 DEF HealthInv
<1> QED BY <1>3, <1>4, <1>5 DEF IInv

LEMMA StallKeeps == ASSUME IInv, Stall PROVE IInv'
BY StreamAssumption
DEF IInv, ClockType, SourceInv, HealthInv, Flowing, Stall, clocks

LEMMA BreakKeeps == ASSUME IInv, Break PROVE IInv'
<1>1. /\ src # "none" /\ src' = "none" /\ live' = live - 1 /\ stalled' = FALSE /\ retry' = TRUE
      /\ sub' = FALSE /\ idle' = 0 /\ beat' = Throttle /\ life' = 0
  BY DEF Break, onerror, reportDown
<1> QED
  BY <1>1, StreamAssumption DEF IInv, ClockType, SourceInv, HealthInv, Flowing

LEMMA TickKeeps == ASSUME IInv, Tick PROVE IInv'
BY StreamAssumption, TimesFit
DEF IInv, ClockType, SourceInv, HealthInv, Flowing, Tick, channel, source

\* The server's disk and watcher, the flushes, the probes and the sync engine leave
\* the connection and its clocks alone; an event sent fills the channel only.
LEMMA OthersUnread ==
    ASSUME \/ \E p \in Paths : Write(p) \/ Remove(p) \/ Observe(p) \/ SyncFile(p)
           \/ WatcherStep \/ FlushStep \/ Refresh \/ SyncSpace \/ Poll
    PROVE  UNCHANGED read
<1>1. ASSUME NEW p \in Paths, Write(p) \/ Remove(p) PROVE UNCHANGED read
  BY <1>1 DEF Write, Remove, Changed, read, channel, source, clocks
<1>2. ASSUME Tab \/ Engine PROVE UNCHANGED read
  BY <1>2 DEF Tab, Engine, read, channel, source, clocks
<1>3. ASSUME NEW p \in Paths, Observe(p) \/ SyncFile(p) PROVE UNCHANGED read
  BY <1>2, <1>3 DEF Observe, SyncFile
<1>4. ASSUME WatcherStep PROVE UNCHANGED read
  <2>1. \A e : Send(e) => UNCHANGED sub
    BY DEF Send, channel
  <2>2. ASSUME Watcher, UNCHANGED sub PROVE UNCHANGED read
    BY <2>2 DEF Watcher, read, source, clocks
  <2>3. ASSUME NEW p \in Paths, Receive(p) PROVE UNCHANGED read
    BY <2>2, <2>3 DEF Receive, channel
  <2>4. ASSUME NEW ready, Resolve(ready) PROVE UNCHANGED read
    BY <2>1, <2>2, <2>4 DEF Resolve, channel
  <2>5. ASSUME NEW e \in resolved, SendNext(e) PROVE UNCHANGED read
    BY <2>1, <2>2, <2>5 DEF SendNext
  <2> QED BY <1>4, <2>3, <2>4, <2>5 DEF WatcherStep
<1>5. ASSUME FlushStep PROVE UNCHANGED read
  BY <1>2, <1>5 DEF FlushStep, FlushStart, FlushAll, FlushFile, FlushList, FlushEnd
<1>6. ASSUME Refresh \/ SyncSpace \/ Poll PROVE UNCHANGED read
  BY <1>2, <1>6 DEF Refresh, SyncSpace, Poll
<1> QED BY <1>1, <1>3, <1>4, <1>5, <1>6

LEMMA NextKeeps == IInv /\ [Next]_vars => IInv'
<1> SUFFICES ASSUME IInv, [Next]_vars PROVE IInv'
  OBVIOUS
<1>1. CASE UNCHANGED vars
  BY <1>1, UnreadKeeps DEF vars, read, channel, source, clocks
<1>2. CASE Retry \/ onOnline
  BY <1>2, ConnectKeeps DEF Retry, onOnline
<1>3. CASE Subscribe
  BY <1>3, SubscribeKeeps
<1>4. CASE Open
  BY <1>4, OpenKeeps
<1>5. CASE Deliver \/ Ping
  BY <1>5, DeliverKeeps
<1>6. CASE Stall
  BY <1>6, StallKeeps
<1>7. CASE Break
  BY <1>7, BreakKeeps
<1>8. CASE Tick
  BY <1>8, TickKeeps
<1>9. CASE \/ \E p \in Paths : Write(p) \/ Remove(p) \/ Observe(p) \/ SyncFile(p)
           \/ WatcherStep \/ FlushStep \/ Refresh \/ SyncSpace \/ Poll
  BY <1>9, OthersUnread, UnreadKeeps
<1> QED
  BY <1>1, <1>2, <1>3, <1>4, <1>5, <1>6, <1>7, <1>8, <1>9 DEF Next

LEMMA Inductive == Spec => []IInv
BY InitIInv, NextKeeps, PTL DEF Spec

\* While the stream delivers, isRealtimeHealthy holds, for every PING_INTERVAL,
\* HEARTBEAT_THROTTLE_MS and realtimeHealthTtlMs with TimesFit.
THEOREM DeliveringIsHealthy == Spec => []QuietStreamStaysHealthy
<1>1. IInv => QuietStreamStaysHealthy
  BY StreamAssumption, TimesFit
  DEF IInv, ClockType, HealthInv, QuietStreamStaysHealthy, isRealtimeHealthy
<1> QED BY <1>1, Inductive, PTL

\* onOnline, the retry timer and onerror never leave two EventSources open.
THEOREM OnlyOneSource == Spec => []OneSource
<1>1. IInv => OneSource
  BY DEF IInv, ClockType, SourceInv, OneSource
<1> QED BY <1>1, Inductive, PTL

-----------------------------------------------------------------------------
(* Types.                                                                  *)

\* An event of one file names it, and a change its version.
FileEvents == {e \in Events : e.action # "resync" /\ e.name \in Paths
                              /\ (e.action = "change" => e.v \in Versions)}
ChannelEvents == FileEvents \cup {resync}

ServerOK ==
    /\ worker \in BOOLEAN /\ disk \in [Paths -> Versions \cup {None}]
    /\ raw \subseteq Paths /\ pending \subseteq Paths /\ resolved \subseteq FileEvents
    /\ left \in [changes : 0..MaxChanges, faults : 0..MaxFaults]

ChannelOK ==
    /\ sub \in BOOLEAN /\ chan \in Seq(ChannelEvents) /\ Len(chan) <= Capacity
    /\ lagged \in BOOLEAN /\ (~sub => chan = <<>> /\ ~lagged)

SourceOK == {stalled, retry, ever} \subseteq BOOLEAN

\* A flush has files left only while it goes through them.
FlushOK ==
    /\ flush.changes \subseteq Changes(FileEvents)
    /\ flush = [at |-> flush.at, changes |-> flush.changes, deletes |-> flush.deletes]
    /\ flush.at \in {"idle", "timer", "all", "file", "list", "end"} /\ flush.deletes \in BOOLEAN
    /\ flush.at # "file" => flush.changes = {}
    /\ flush.at \notin {"file", "list"} => ~flush.deletes

InboxOK == refresh \in BOOLEAN /\ box \subseteq ChannelEvents /\ FlushOK

EngineOK ==
    /\ marks \in [Paths -> Origins \cup {None}] /\ full \in BOOLEAN

EndsOK ==
    /\ copy \in [Paths -> Versions \cup {None}]
    /\ missed \in [Paths -> {"no", "early", "gap", "failed"}]

TypeInv == ServerOK /\ ChannelOK /\ SourceOK /\ InboxOK /\ EngineOK /\ EndsOK

LEMMA NoneNoPath == \A e \in FileEvents : e # resync /\ e.name # None /\ e.name \in Paths
BY StreamAssumption DEF FileEvents, resync, Event

LEMMA EventTypes == FileEvents \subseteq Events /\ ChannelEvents \subseteq Events
<1>1. resync \in Events
  BY DEF resync, Event, Events
<1> QED BY <1>1 DEF FileEvents, ChannelEvents

LEMMA TypeInvTypes == TypeInv /\ IInv => TypeOK
<1> SUFFICES ASSUME TypeInv, IInv PROVE TypeOK
  OBVIOUS
<1>1. resolved \subseteq Events /\ box \subseteq Events /\ chan \in Seq(Events)
  BY EventTypes DEF TypeInv, ServerOK, InboxOK, ChannelOK
<1>2. flush.changes \subseteq Changes(Events)
  BY EventTypes DEF TypeInv, InboxOK, FlushOK, Changes
<1>3. flush \in [at : {"idle", "timer", "all", "file", "list", "end"},
                  changes : {flush.changes}, deletes : BOOLEAN]
  BY DEF TypeInv, InboxOK, FlushOK
<1>4. {stalled, retry, ever, refresh, full} \subseteq BOOLEAN
  BY Zenon DEF TypeInv, SourceOK, InboxOK, EngineOK, EndsOK
<1>5. {disk, copy} \subseteq [Paths -> Versions \cup {None}]
  BY DEF TypeInv, ServerOK, EngineOK, EndsOK
<1>6. live \in Nat /\ src \in {"none", "connecting", "open"}
  BY DEF IInv, SourceInv, ClockType
<1>7. idle \in 0..PingInterval /\ beat \in 0..Throttle /\ life \in 0..HealthTtl
  BY DEF IInv, ClockType
<1>8. worker \in BOOLEAN /\ sub \in BOOLEAN /\ lagged \in BOOLEAN
  BY Zenon DEF TypeInv, ServerOK, ChannelOK
<1>9. /\ raw \subseteq Paths /\ pending \subseteq Paths /\ Len(chan) <= Capacity
      /\ marks \in [Paths -> Origins \cup {None}]
      /\ missed \in [Paths -> {"no", "early", "gap", "failed"}]
      /\ left \in [changes : 0..MaxChanges, faults : 0..MaxFaults]
  BY Zenon DEF TypeInv, ServerOK, ChannelOK, EngineOK, EndsOK
<1> QED BY <1>1, <1>2, <1>3, <1>4, <1>5, <1>6, <1>7, <1>8, <1>9, Zenon DEF TypeOK

LEMMA InitType == Init => TypeInv
<1> SUFFICES ASSUME Init PROVE TypeInv
  OBVIOUS
<1>1. ServerOK
  <2>1. worker \in BOOLEAN
    BY StreamAssumption, Zenon DEF Init
  <2>2. disk \in [Paths -> Versions \cup {None}]
    BY StreamAssumption DEF Init, Versions
  <2> QED BY <2>1, <2>2, StreamAssumption DEF Init, ServerOK
<1>2. ChannelOK
  <2>1. sub = FALSE /\ chan = <<>> /\ lagged = FALSE
    BY DEF Init
  <2>2. sub \in BOOLEAN /\ lagged \in BOOLEAN /\ (~sub => chan = <<>> /\ ~lagged)
    BY <2>1, Zenon
  <2>3. <<>> \in Seq(ChannelEvents) /\ Len(<<>>) = 0 /\ 0 <= Capacity
    BY StreamAssumption
  <2> QED BY <2>1, <2>2, <2>3, Zenon DEF ChannelOK
<1>3. SourceOK
  BY DEF Init, SourceOK
<1>4. InboxOK
  <2>1. refresh = FALSE /\ box = {} /\ flush = Idle
    BY DEF Init
  <2> QED BY <2>1 DEF InboxOK, FlushOK, Idle
<1>5. EngineOK
  <2>1. marks = [p \in Paths |-> None] /\ full = FALSE
    BY DEF Init
  <2> QED BY <2>1 DEF EngineOK
<1>6. EndsOK
  <2>1. copy = [p \in Paths |-> 1] /\ missed = [p \in Paths |-> "no"] /\ 1 \in Versions
    BY StreamAssumption DEF Init, Versions
  <2> QED BY <2>1 DEF EndsOK
<1> QED BY <1>1, <1>2, <1>3, <1>4, <1>5, <1>6 DEF TypeInv

\* What the client has and what it missed, after it looked or failed to.
LEMMA HasType ==
    ASSUME EndsOK, NEW files \in [Paths -> Versions \cup {None}], Has(files)
    PROVE  EndsOK'
BY DEF EndsOK, Has

LEMMA PullType ==
    ASSUME ServerOK, EndsOK, NEW p \in Paths, Pull(p)
    PROVE  EndsOK'
<1>1. [copy EXCEPT ![p] = disk[p]] \in [Paths -> Versions \cup {None}]
  BY DEF ServerOK, EndsOK
<1> QED BY <1>1, HasType DEF Pull

LEMMA LosesType ==
    ASSUME EndsOK, NEW ps, NEW how \in {"early", "gap", "failed"}, Loses(ps, how)
    PROVE  EndsOK'
BY DEF EndsOK, Loses

LEMMA GapType == Gap \in {"early", "gap", "failed"}
BY DEF Gap

LEMMA FaultType ==
    ASSUME ServerOK, Fault
    PROVE  left' \in [changes : 0..MaxChanges, faults : 0..MaxFaults]
BY StreamAssumption DEF ServerOK, Fault

\* Events.
LEMMA SeenType ==
    ASSUME ServerOK, NEW p \in Paths
    PROVE  Seen(p) \in FileEvents /\ Seen(p).name = p /\ (Seen(p).action = "delete" <=> disk[p] = None)
BY DEF ServerOK, Seen, Event, FileEvents, Events

LEMMA EnrichType ==
    ASSUME ServerOK, NEW e \in FileEvents
    PROVE  /\ enrich_event(e) \in FileEvents /\ enrich_event(e).name = e.name
           /\ enrich_event(e).action = e.action
           /\ e.action = "change" => enrich_event(e).hash = disk[e.name]
<1>1. e.name \in Paths /\ disk[e.name] \in Versions \cup {None}
  BY DEF FileEvents, ServerOK
<1> QED BY <1>1 DEF FileEvents, Events, enrich_event

LEMMA SendType ==
    ASSUME ChannelOK, EndsOK, NEW e \in ChannelEvents, Send(e)
    PROVE  ChannelOK' /\ EndsOK'
<1>1. CASE sub /\ ~stalled
  <2>1. /\ chan' = IF Len(chan) < Capacity THEN Append(chan, e) ELSE Append(Tail(chan), e)
        /\ lagged' = (lagged \/ Len(chan) >= Capacity) /\ UNCHANGED <<sub, ends>>
    BY <1>1 DEF Send
  <2>2. chan \in Seq(ChannelEvents) /\ Len(chan) \in Nat /\ Len(chan) <= Capacity /\ Capacity \in Nat \ {0}
    BY StreamAssumption DEF ChannelOK
  <2>3. chan' \in Seq(ChannelEvents) /\ Len(chan') <= Capacity
    <3>1. CASE Len(chan) < Capacity
      BY <2>1, <2>2, <3>1
    <3>2. CASE Len(chan) >= Capacity
      <4>1. chan # <<>>
        BY <2>2, <3>2
      <4>2. Tail(chan) \in Seq(ChannelEvents) /\ Len(Tail(chan)) = Len(chan) - 1
        BY <2>2, <4>1
      <4> QED BY <2>1, <2>2, <3>2, <4>2
    <3> QED BY <2>2, <3>1, <3>2
  <2>4. lagged' \in BOOLEAN
    BY <2>1, Zenon
  <2>5. EndsOK'
    BY <2>1 DEF EndsOK, ends
  <2> QED BY <1>1, <2>1, <2>3, <2>4, <2>5 DEF ChannelOK
<1>2. CASE ~(sub /\ ~stalled)
  <2>1. Loses(About(e), Gap) /\ UNCHANGED channel
    BY <1>2 DEF Send
  <2>2. ChannelOK'
    BY <2>1 DEF ChannelOK, channel
  <2> QED BY <2>1, <2>2, LosesType, GapType
<1> QED BY <1>1, <1>2

-----------------------------------------------------------------------------
(* Every step keeps the types.                                             *)

LEMMA ServerType ==
    ASSUME TypeInv, \/ \E p \in Paths : Write(p) \/ Remove(p)
                    \/ WatcherStep
    PROVE  TypeInv'
<1>1. ASSUME NEW p \in Paths, NEW v \in Versions \cup {None}, Changed(p, v) PROVE TypeInv'
  <2>1. /\ left.changes > 0 /\ left' = [left EXCEPT !.changes = @ - 1]
        /\ disk' = [disk EXCEPT ![p] = v] /\ raw' = raw \cup {p}
        /\ missed' = [missed EXCEPT ![p] = "no"]
        /\ UNCHANGED <<worker, pending, resolved, channel, source, inbox, engine, copy>>
    BY <1>1 DEF Changed
  <2>2. left' \in [changes : 0..MaxChanges, faults : 0..MaxFaults]
    BY <2>1, StreamAssumption DEF TypeInv, ServerOK
  <2>3. ServerOK'
    BY <2>1, <2>2 DEF TypeInv, ServerOK
  <2>4. EndsOK'
    BY <2>1 DEF TypeInv, EndsOK
  <2>5. ChannelOK' /\ SourceOK' /\ InboxOK' /\ EngineOK'
    BY <2>1 DEF TypeInv, ChannelOK, SourceOK, InboxOK, FlushOK, EngineOK, channel, source, inbox, engine
  <2> QED BY <2>3, <2>4, <2>5 DEF TypeInv
<1>2. ASSUME NEW p \in Paths, Write(p) PROVE TypeInv'
  <2>1. MaxChanges - left.changes + 2 \in Versions
    BY <1>2, StreamAssumption DEF Write, Changed, TypeInv, ServerOK, Versions
  <2> QED BY <1>1, <1>2, <2>1 DEF Write
<1>3. ASSUME NEW p \in Paths, Remove(p) PROVE TypeInv'
  BY <1>1, <1>3 DEF Remove
<1>4. ASSUME Watcher, raw' \subseteq Paths, pending' \subseteq Paths, resolved' \subseteq FileEvents,
             ChannelOK', EndsOK'
      PROVE  TypeInv'
  <2>1. ServerOK'
    BY <1>4 DEF Watcher, TypeInv, ServerOK
  <2>2. SourceOK' /\ InboxOK' /\ EngineOK'
    BY <1>4 DEF Watcher, TypeInv, SourceOK, InboxOK, FlushOK, EngineOK, source, inbox, engine
  <2> QED BY <1>4, <2>1, <2>2 DEF TypeInv
<1>5. ASSUME UNCHANGED <<channel, ends>> PROVE ChannelOK' /\ EndsOK'
  BY <1>5 DEF TypeInv, ChannelOK, EndsOK, channel, ends
<1>6. ASSUME NEW p \in Paths, Receive(p) PROVE TypeInv'
  BY <1>4, <1>5, <1>6 DEF Receive, TypeInv, ServerOK
<1>7. ASSUME NEW ready \in SUBSET pending, Resolve(ready) PROVE TypeInv'
  <2>1. raw' \subseteq Paths /\ pending' \subseteq Paths /\ Watcher
    BY <1>7 DEF Resolve, TypeInv, ServerOK
  <2>2. CASE Cardinality(ready) > FloodThreshold
    <3>1. Send(resync) /\ UNCHANGED resolved
      BY <1>7, <2>2 DEF Resolve
    <3>2. ChannelOK' /\ EndsOK'
      BY <3>1, SendType DEF TypeInv, ChannelEvents
    <3> QED BY <1>4, <2>1, <3>1, <3>2 DEF TypeInv, ServerOK
  <2>3. CASE ~(Cardinality(ready) > FloodThreshold)
    <3>1. resolved' = {Seen(p) : p \in ready} /\ UNCHANGED <<channel, ends>>
      BY <1>7, <2>3 DEF Resolve
    <3>2. \A p \in ready : Seen(p) \in FileEvents
      BY SeenType DEF TypeInv, ServerOK
    <3>3. resolved' \subseteq FileEvents
      BY <3>1, <3>2
    <3> QED BY <1>4, <1>5, <2>1, <3>1, <3>3
  <2> QED BY <2>2, <2>3
<1>8. ASSUME NEW e \in resolved, SendNext(e) PROVE TypeInv'
  <2>1. e \in FileEvents /\ enrich_event(e) \in ChannelEvents
    BY EnrichType DEF TypeInv, ServerOK, ChannelEvents
  <2>2. Send(enrich_event(e)) /\ resolved' = resolved \ {e} /\ UNCHANGED <<raw, pending>> /\ Watcher
    BY <1>8 DEF SendNext
  <2>3. ChannelOK' /\ EndsOK'
    BY <2>1, <2>2, SendType DEF TypeInv
  <2> QED BY <1>4, <2>2, <2>3 DEF TypeInv, ServerOK
<1> QED BY <1>2, <1>3, <1>6, <1>7, <1>8 DEF WatcherStep

\* The event that is sent next.
LEMMA UpcomingType ==
    ASSUME ChannelOK, lagged \/ chan # <<>>
    PROVE  /\ upcoming \in ChannelEvents
           /\ ~lagged => Tail(chan) \in Seq(ChannelEvents) /\ Len(Tail(chan)) = Len(chan) - 1
BY DEF ChannelOK, upcoming, ChannelEvents

LEMMA HandleType ==
    ASSUME InboxOK, NEW e \in ChannelEvents, handleEvent(e), UNCHANGED refresh
    PROVE  InboxOK'
<1>1. box' \subseteq ChannelEvents
  BY DEF handleEvent, InboxOK
<1>2. \/ flush' = flush
      \/ /\ flush' = [at |-> "timer", changes |-> flush.changes, deletes |-> flush.deletes]
         /\ flush.at = "idle"
  <2>1. CASE flush.at = "idle"
    BY <2>1 DEF handleEvent, InboxOK, FlushOK
  <2>2. CASE flush.at # "idle"
    BY <2>2 DEF handleEvent
  <2> QED BY <2>1, <2>2
<1>3. FlushOK'
  <2>1. CASE flush' = flush
    BY <2>1 DEF InboxOK, FlushOK
  <2>2. CASE flush' = [at |-> "timer", changes |-> flush.changes, deletes |-> flush.deletes]
             /\ flush.at = "idle"
    BY <2>2 DEF InboxOK, FlushOK
  <2> QED BY <1>2, <2>1, <2>2
<1> QED BY <1>1, <1>3 DEF InboxOK

LEMMA ConnectionType ==
    ASSUME TypeInv, Retry \/ onOnline \/ Subscribe \/ Open \/ Deliver \/ Ping \/ Stall \/ Break \/ Tick
    PROVE  TypeInv'
<1>1. ASSUME Connection, ChannelOK', SourceOK', InboxOK', EndsOK',
             left' \in [changes : 0..MaxChanges, faults : 0..MaxFaults]
      PROVE  TypeInv'
  <2>1. ServerOK'
    BY <1>1 DEF Connection, server, TypeInv, ServerOK
  <2>2. EngineOK'
    BY <1>1 DEF Connection, engine, TypeInv, EngineOK
  <2> QED BY <1>1, <2>1, <2>2 DEF TypeInv
<1>2. /\ UNCHANGED channel => ChannelOK'
      /\ UNCHANGED <<stalled, retry, ever>> => SourceOK'
      /\ UNCHANGED inbox => InboxOK'
      /\ UNCHANGED ends => EndsOK'
      /\ UNCHANGED left => left' \in [changes : 0..MaxChanges, faults : 0..MaxFaults]
  BY DEF TypeInv, ChannelOK, SourceOK, InboxOK, FlushOK, EndsOK, ServerOK, channel, inbox, ends
<1>3. /\ ({sub', lagged'} \subseteq BOOLEAN /\ chan' = <<>> /\ ~lagged') => ChannelOK'
  <2>1. <<>> \in Seq(ChannelEvents) /\ Len(<<>>) = 0 /\ 0 <= Capacity
    BY StreamAssumption
  <2> QED BY <2>1, Zenon DEF ChannelOK
<1>4. CASE Retry \/ onOnline
  <2>1. connect
    BY <1>4 DEF Retry, onOnline
  <2>2. retry' = FALSE /\ UNCHANGED <<stalled, ever>>
    BY <2>1 DEF connect
  <2>3. SourceOK'
    BY <2>2, Zenon DEF TypeInv, SourceOK
  <2> QED BY <1>1, <1>2, <2>1, <2>3 DEF connect
<1>5. CASE Subscribe
  <2>1. sub' = TRUE /\ chan' = <<>> /\ lagged' = FALSE
    BY <1>5 DEF Subscribe
  <2>2. ChannelOK'
    BY <1>3, <2>1, Zenon
  <2> QED BY <1>1, <1>2, <1>5, <2>2 DEF Subscribe, source
<1>6. CASE Open
  <2>1. ever' = TRUE /\ refresh' = (refresh \/ ever) /\ UNCHANGED <<stalled, retry, box, flush, channel, ends, left>> /\ Connection
    BY <1>6 DEF Open
  <2>2. SourceOK'
    BY <2>1, Zenon DEF TypeInv, SourceOK
  <2>3. refresh' \in BOOLEAN
    BY <2>1, Zenon
  <2>4. InboxOK'
    BY <2>1, <2>3 DEF TypeInv, InboxOK, FlushOK
  <2> QED BY <1>1, <1>2, <2>1, <2>2, <2>4
<1>7. CASE Deliver
  <2>1. /\ (lagged \/ chan # <<>>) /\ lagged' = FALSE /\ chan' = (IF lagged THEN chan ELSE Tail(chan))
        /\ handleEvent(upcoming) /\ UNCHANGED <<sub, source, refresh, ends, left>> /\ Connection
    BY <1>7 DEF Deliver
  <2>2. InboxOK'
    BY <2>1, UpcomingType, HandleType DEF TypeInv
  <2>3. chan' \in Seq(ChannelEvents) /\ Len(chan') <= Capacity
    BY <2>1, UpcomingType, StreamAssumption DEF TypeInv, ChannelOK
  <2>4. sub' \in BOOLEAN /\ lagged' \in BOOLEAN /\ ~lagged' /\ (~sub' => chan' = <<>>)
    <3>1. sub' = sub /\ (~sub => chan = <<>> /\ ~lagged) /\ sub \in BOOLEAN
      BY <2>1, Zenon DEF TypeInv, ChannelOK
    <3>2. sub
      BY <2>1, <3>1
    <3> QED BY <2>1, <3>1, <3>2, Zenon
  <2>5. ChannelOK'
    BY <2>3, <2>4, Zenon DEF ChannelOK
  <2> QED BY <1>1, <1>2, <2>1, <2>2, <2>5 DEF source
<1>8. CASE Ping
  BY <1>1, <1>2, <1>8 DEF Ping, source
<1>9. CASE Stall
  <2>1. /\ stalled' = TRUE /\ chan' = <<>> /\ lagged' = FALSE /\ Fault /\ Loses(InChannel, Gap)
        /\ UNCHANGED <<sub, retry, ever, inbox>> /\ Connection
    BY <1>9 DEF Stall
  <2>2. SourceOK'
    BY <2>1, Zenon DEF TypeInv, SourceOK
  <2>3. ChannelOK'
    <3>1. {sub', lagged'} \subseteq BOOLEAN
      BY <2>1, Zenon DEF TypeInv, ChannelOK
    <3> QED BY <1>3, <2>1, <3>1
  <2>4. EndsOK'
    BY <2>1, LosesType, GapType DEF TypeInv
  <2> QED BY <1>1, <1>2, <2>1, <2>2, <2>3, <2>4, FaultType DEF TypeInv
<1>10. CASE Break
  <2>1. /\ stalled' = FALSE /\ retry' = TRUE /\ sub' = FALSE /\ chan' = <<>> /\ lagged' = FALSE
        /\ Loses(InChannel, Gap) /\ UNCHANGED <<ever, inbox>> /\ Connection
        /\ UNCHANGED left \/ Fault
    BY <1>10 DEF Break, onerror
  <2>2. SourceOK'
    BY <2>1, Zenon DEF TypeInv, SourceOK
  <2>3. ChannelOK'
    <3>1. {sub', lagged'} \subseteq BOOLEAN
      BY <2>1, Zenon
    <3> QED BY <1>3, <2>1, <3>1
  <2>4. EndsOK'
    BY <2>1, LosesType, GapType DEF TypeInv
  <2> QED BY <1>1, <1>2, <2>1, <2>2, <2>3, <2>4, FaultType DEF TypeInv
<1>11. CASE Tick
  BY <1>1, <1>2, <1>11 DEF Tick, source
<1> QED BY <1>4, <1>5, <1>6, <1>7, <1>8, <1>9, <1>10, <1>11

LEMMA ReportedType ==
    ASSUME NEW o \in Origins
    PROVE  reportedRevision(o) \in Versions \cup {None}
BY DEF Origins, reportedRevision

LEMMA MergeType ==
    ASSUME NEW a \in Origins, NEW b \in Origins
    PROVE  mergeOrigins(a, b) \in Origins
<1>1. reportedRevision(a) \in Versions \cup {None} /\ reportedRevision(b) \in Versions \cup {None}
  BY ReportedType
<1> QED BY <1>1 DEF Origins, OriginTypes, mergeOrigins, AnyOrigin

LEMMA MarkType ==
    ASSUME EngineOK, NEW p \in Paths, NEW o \in Origins, Marked(p, o), UNCHANGED full
    PROVE  EngineOK'
<1>1. CASE marks[p] = None
  BY <1>1 DEF EngineOK, Marked
<1>2. CASE marks[p] # None
  <2>1. marks[p] \in Origins
    BY <1>2 DEF EngineOK
  <2>2. mergeOrigins(marks[p], o) \in Origins
    BY <2>1, MergeType
  <2>3. marks' = [marks EXCEPT ![p] = mergeOrigins(marks[p], o)]
    BY <1>2 DEF Marked
  <2> QED BY <2>2, <2>3 DEF EngineOK
<1> QED BY <1>1, <1>2

LEMMA MarkedWith ==
    /\ ProbeOrigin \in Origins
    /\ \A e \in Changes(FileEvents) : RemoteOrigin(e.v, e.hash) \in Origins /\ e.name \in Paths
BY DEF ProbeOrigin, RemoteOrigin, Origins, OriginTypes, Changes, FileEvents, Events

LEMMA OnwardType ==
    ASSUME NEW c \in SUBSET Changes(FileEvents), NEW d \in BOOLEAN, flush' = Onward(c, d)
    PROVE  FlushOK'
BY DEF Onward, FlushOK

LEMMA IdleType ==
    ASSUME NEW l \in {"idle", "timer", "all", "list", "end"}, flush' = [Idle EXCEPT !.at = l]
    PROVE  FlushOK'
<1>1. flush' = [at |-> l, changes |-> {}, deletes |-> FALSE]
  BY DEF Idle
<1>2. flush'.at = l /\ flush'.changes = {} /\ flush'.deletes = FALSE
  BY <1>1
<1>3. flush'.deletes \in BOOLEAN /\ ~flush'.deletes
  BY <1>2, Zenon
<1> QED BY <1>1, <1>2, <1>3 DEF FlushOK

\* A look at the files, or one that fails.
LEMMA LookType ==
    ASSUME ServerOK, EndsOK, NEW p \in Paths, NEW ps,
           \/ (Listed \/ Probed(p) \/ Has(disk) \/ Pull(p)) /\ UNCHANGED left
           \/ Fault /\ Loses(ps, "failed")
    PROVE  EndsOK' /\ left' \in [changes : 0..MaxChanges, faults : 0..MaxFaults]
<1>1. CASE (Listed \/ Probed(p) \/ Has(disk) \/ Pull(p)) /\ UNCHANGED left
  <2>1. left' \in [changes : 0..MaxChanges, faults : 0..MaxFaults]
    BY <1>1 DEF ServerOK
  <2>2. CASE UNCHANGED ends
    BY <2>1, <2>2 DEF EndsOK, ends
  <2>3. CASE Has(disk)
    BY <2>1, <2>3, HasType DEF ServerOK
  <2>4. CASE Pull(p)
    BY <2>1, <2>4, PullType
  <2> QED BY <1>1, <2>2, <2>3, <2>4 DEF Listed, Probed
<1>2. CASE Fault /\ Loses(ps, "failed")
  BY <1>2, FaultType, LosesType
<1> QED BY <1>1, <1>2

LEMMA TabType ==
    ASSUME TypeInv, FlushStep \/ Refresh \/ (\E p \in Paths : Observe(p))
    PROVE  TypeInv'
<1>1. ASSUME Tab, InboxOK', EngineOK', EndsOK',
             left' \in [changes : 0..MaxChanges, faults : 0..MaxFaults]
      PROVE  TypeInv'
  <2>1. ServerOK'
    BY <1>1 DEF Tab, server, TypeInv, ServerOK
  <2>2. ChannelOK' /\ SourceOK'
    BY <1>1 DEF Tab, channel, source, TypeInv, ChannelOK, SourceOK
  <2> QED BY <1>1, <2>1, <2>2 DEF TypeInv
<1>2. /\ UNCHANGED <<refresh, box>> /\ FlushOK' => InboxOK'
      /\ UNCHANGED engine => EngineOK'
      /\ UNCHANGED ends => EndsOK'
      /\ UNCHANGED left => left' \in [changes : 0..MaxChanges, faults : 0..MaxFaults]
      /\ UNCHANGED inbox => InboxOK'
  BY DEF TypeInv, InboxOK, FlushOK, EngineOK, EndsOK, ServerOK, engine, ends, inbox
<1>3. CASE FlushStart
  <2>1. box' = {} /\ UNCHANGED <<refresh, engine, ends, left>> /\ Tab
    BY <1>3 DEF FlushStart
  <2>2. Changes(box) \subseteq Changes(FileEvents)
    <3>1. resync.action # "change"
      BY DEF resync, Event
    <3> QED BY <3>1 DEF TypeInv, InboxOK, ChannelEvents, Changes
  <2>3. (\E e \in box : e.action = "delete") \in BOOLEAN
    BY Zenon
  <2>4. FlushOK'
    <3>1. \/ flush' = [Idle EXCEPT !.at = "all"]
          \/ flush' = Onward(Changes(box), \E e \in box : e.action = "delete")
      BY <1>3 DEF FlushStart
    <3> QED BY <2>2, <2>3, <3>1, IdleType, OnwardType
  <2>5. InboxOK'
    BY <2>1, <2>4 DEF TypeInv, InboxOK
  <2> QED BY <1>1, <1>2, <2>1, <2>5
<1>4. CASE FlushAll
  <2>1. flush' = [Idle EXCEPT !.at = "list"] /\ full' = (full \/ worker)
        /\ UNCHANGED <<refresh, box, marks, ends, left>> /\ Tab
    BY <1>4 DEF FlushAll
  <2>2. full' \in BOOLEAN
    BY <2>1, Zenon
  <2>3. EngineOK'
    BY <2>1, <2>2 DEF TypeInv, EngineOK
  <2> QED BY <1>1, <1>2, <2>1, <2>3, IdleType
<1>5. ASSUME NEW e \in flush.changes, FlushFile(e) PROVE TypeInv'
  <2>1. e \in Changes(FileEvents) /\ e.name \in Paths /\ RemoteOrigin(e.v, e.hash) \in Origins
    BY MarkedWith DEF TypeInv, InboxOK, FlushOK
  <2>2. flush' = Onward(flush.changes \ {e}, flush.deletes) /\ UNCHANGED <<refresh, box, full>> /\ Tab
    BY <1>5 DEF FlushFile
  <2>3. InboxOK'
    <3>1. flush.changes \ {e} \in SUBSET Changes(FileEvents) /\ flush.deletes \in BOOLEAN
      BY DEF TypeInv, InboxOK, FlushOK
    <3> QED BY <1>2, <2>2, <3>1, OnwardType
  <2>4. CASE worker
    <3>1. Marked(e.name, RemoteOrigin(e.v, e.hash)) /\ UNCHANGED <<ends, left>>
      BY <1>5, <2>4 DEF FlushFile
    <3>2. EngineOK'
      BY <2>1, <2>2, <3>1, MarkType DEF TypeInv
    <3> QED BY <1>1, <1>2, <2>2, <2>3, <3>1, <3>2
  <2>5. CASE ~worker
    <3>1. UNCHANGED engine /\ ((Probed(e.name) /\ UNCHANGED left) \/ (Fault /\ Loses({e.name}, "failed")))
      BY <1>5, <2>2, <2>5 DEF FlushFile, Unnoticed, engine
    <3>2. EndsOK' /\ left' \in [changes : 0..MaxChanges, faults : 0..MaxFaults]
      BY <2>1, <3>1, LookType DEF TypeInv
    <3> QED BY <1>1, <1>2, <2>2, <2>3, <3>1, <3>2
  <2> QED BY <2>4, <2>5
<1>6. CASE FlushList
  <2>1. flush' = [Idle EXCEPT !.at = "end"] /\ UNCHANGED <<refresh, box, engine>> /\ Tab
        /\ ((Listed /\ UNCHANGED left) \/ (Fault /\ Loses(Paths, "failed")))
    BY <1>6 DEF FlushList, Unnoticed
  <2>2. EndsOK' /\ left' \in [changes : 0..MaxChanges, faults : 0..MaxFaults]
    <3>1. CASE UNCHANGED ends /\ UNCHANGED left
      BY <1>2, <3>1
    <3>2. CASE Has(disk) /\ UNCHANGED left
      BY <1>2, <3>2, HasType DEF TypeInv, ServerOK
    <3>3. CASE Fault /\ Loses(Paths, "failed")
      BY <3>3, FaultType, LosesType DEF TypeInv
    <3> QED BY <2>1, <3>1, <3>2, <3>3 DEF Listed
  <2> QED BY <1>1, <1>2, <2>1, <2>2, IdleType
<1>7. CASE FlushEnd
  <2>1. UNCHANGED <<refresh, box, engine, ends, left>> /\ Tab
        /\ (flush' = Idle \/ flush' = [Idle EXCEPT !.at = "timer"])
    BY <1>7 DEF FlushEnd
  <2>2. Idle = [Idle EXCEPT !.at = "idle"]
    BY DEF Idle
  <2> QED BY <1>1, <1>2, <2>1, <2>2, IdleType
<1>8. CASE Refresh
  <2>1. refresh' = FALSE /\ UNCHANGED <<box, flush, engine>> /\ Tab
    BY <1>8 DEF Refresh
  <2>2. InboxOK'
    BY <2>1 DEF TypeInv, InboxOK, FlushOK
  <2>3. EndsOK' /\ left' \in [changes : 0..MaxChanges, faults : 0..MaxFaults]
    <3>1. CASE Listed /\ UNCHANGED left
      BY <1>2, <3>1, HasType DEF TypeInv, ServerOK, Listed
    <3>2. CASE ~(Listed /\ UNCHANGED left)
      <4>1. /\ Fault /\ UNCHANGED copy
            /\ missed' = [p \in Paths |-> IF missed[p] = "gap" THEN "failed" ELSE missed[p]]
        BY <1>8, <3>2 DEF Refresh
      <4>2. EndsOK'
        BY <4>1 DEF TypeInv, EndsOK
      <4> QED BY <4>1, <4>2, FaultType DEF TypeInv
    <3> QED BY <3>1, <3>2
  <2> QED BY <1>1, <1>2, <2>1, <2>2, <2>3
<1>9. ASSUME NEW p \in Paths, Observe(p) PROVE TypeInv'
  <2>1. UNCHANGED <<inbox, full, left>> /\ Tab
    BY <1>9 DEF Observe
  <2>2. CASE worker
    <3>1. Marked(p, ProbeOrigin) /\ UNCHANGED ends
      BY <1>9, <2>2 DEF Observe
    <3>2. EngineOK'
      BY <2>1, <3>1, MarkType, MarkedWith DEF TypeInv
    <3> QED BY <1>1, <1>2, <2>1, <3>1, <3>2
  <2>3. CASE ~worker
    <3>1. Probed(p) /\ UNCHANGED <<marks, left>>
      BY <1>9, <2>1, <2>3 DEF Observe
    <3>2. EndsOK'
      BY <3>1, LookType DEF TypeInv
    <3> QED BY <1>1, <1>2, <2>1, <3>1, <3>2 DEF engine
  <2> QED BY <2>2, <2>3
<1> QED BY <1>3, <1>4, <1>5, <1>6, <1>7, <1>8, <1>9 DEF FlushStep

LEMMA EngineType ==
    ASSUME TypeInv, (\E p \in Paths : SyncFile(p)) \/ SyncSpace \/ Poll
    PROVE  TypeInv'
<1>1. ASSUME Engine, EngineOK', EndsOK',
             left' \in [changes : 0..MaxChanges, faults : 0..MaxFaults]
      PROVE  TypeInv'
  <2>1. ServerOK'
    BY <1>1 DEF Engine, server, TypeInv, ServerOK
  <2>2. ChannelOK' /\ SourceOK' /\ InboxOK'
    BY <1>1 DEF Engine, channel, source, inbox, TypeInv, ChannelOK, SourceOK, InboxOK, FlushOK
  <2> QED BY <1>1, <2>1, <2>2 DEF TypeInv
<1>2. /\ UNCHANGED engine => EngineOK'
      /\ UNCHANGED ends => EndsOK'
      /\ UNCHANGED left => left' \in [changes : 0..MaxChanges, faults : 0..MaxFaults]
  BY DEF TypeInv, EngineOK, EndsOK, ServerOK, engine, ends
<1>3. ASSUME NEW p \in Paths, SyncFile(p) PROVE TypeInv'
  <2>1. marks' = [marks EXCEPT ![p] = None] /\ UNCHANGED full /\ Engine
        /\ \/ UNCHANGED <<ends, left>>
           \/ Pull(p) /\ UNCHANGED left
           \/ Fault /\ Loses({p}, "failed")
    BY <1>3 DEF SyncFile
  <2>2. EngineOK'
    BY <2>1 DEF TypeInv, EngineOK
  <2>3. EndsOK' /\ left' \in [changes : 0..MaxChanges, faults : 0..MaxFaults]
    BY <1>2, <2>1, LookType DEF TypeInv
  <2> QED BY <1>1, <2>1, <2>2, <2>3
<1>4. CASE SyncSpace
  <2>1. full' = FALSE /\ UNCHANGED marks /\ Engine
        /\ ((Has(disk) /\ UNCHANGED left) \/ (Fault /\ Loses(Paths, "failed")))
    BY <1>4 DEF SyncSpace
  <2>2. EngineOK'
    BY <2>1 DEF TypeInv, EngineOK
  <2>3. EndsOK' /\ left' \in [changes : 0..MaxChanges, faults : 0..MaxFaults]
    <3>1. CASE Has(disk) /\ UNCHANGED left
      BY <1>2, <3>1, HasType DEF TypeInv, ServerOK
    <3>2. CASE Fault /\ Loses(Paths, "failed")
      BY <3>2, FaultType, LosesType DEF TypeInv
    <3> QED BY <2>1, <3>1, <3>2
  <2> QED BY <1>1, <2>1, <2>2, <2>3
<1>5. CASE Poll
  BY <1>1, <1>2, <1>5, HasType DEF Poll, TypeInv, ServerOK
<1> QED BY <1>3, <1>4, <1>5

LEMMA NextType == TypeInv /\ [Next]_vars => TypeInv'
<1> SUFFICES ASSUME TypeInv, [Next]_vars PROVE TypeInv'
  OBVIOUS
<1>1. CASE UNCHANGED vars
  BY <1>1 DEF vars, server, channel, source, inbox, engine, ends, TypeInv, ServerOK, ChannelOK,
      SourceOK, InboxOK, FlushOK, EngineOK, EndsOK
<1> QED BY <1>1, ServerType, ConnectionType, TabType, EngineType DEF Next

LEMMA TypeInvHolds == Spec => []TypeInv
BY InitType, NextType, PTL DEF Spec

\* Between the watcher's thread and the client every event keeps its shape and the
\* channel its capacity, a flush has files left only while it goes through them, and
\* merged marks stay marks.
THEOREM TypeCorrect == Spec => []TypeOK
BY TypeInvTypes, TypeInvHolds, Inductive, PTL

-----------------------------------------------------------------------------
(* The way of a change.                                                    *)

\* A file that was looked up has not changed since, or its change waits.
ResolvedInv ==
    \A e \in resolved : (e.action = "delete" <=> disk[e.name] = None) \/ e.name \in raw

\* The watcher has still to send an event for p.
OnServer(p) == p \in raw \cup pending \/ \E e \in resolved : e.name = p

\* The client is going to look at everything.
Swept ==
    \/ lagged \/ (\E i \in 1..Len(chan) : chan[i] = resync) \/ resync \in box
    \/ flush.at = "all" \/ full
    \/ (~worker /\ (flush.deletes \/ flush.at = "list"))

\* The events that make the client look at path p and see what is there now.
GoodFor(p) ==
    {e \in ChannelEvents :
        /\ disk[p] = None => e.action = "delete"
        /\ worker => /\ e.action = "change"
                     /\ copy[p] = None \/ e.v # copy[p] \/ e.hash \notin {None, copy[p]}}

\* The mark of p is acted upon, healthy stream or not.
Acted(p) ==
    /\ marks[p] # None
    /\ ~shouldSkip(marks[p], IF copy[p] = None THEN None ELSE <<copy[p], copy[p]>>, copy[p], TRUE)

Of(evs, p) == {e \in evs : e.name = p}
InSeq(s, p) == \E i \in 1..Len(s) : s[i].name = p
LastIn(s, p, G) ==
    \E i \in 1..Len(s) :
        /\ s[i].name = p /\ s[i] \in G
        /\ \A j \in 1..Len(s) : j > i => s[j].name # p

\* The last event about p in the channel s, the box b and the flush f is in G.
Ends(p, s, b, f, G, acted) ==
    IF InSeq(s, p) THEN LastIn(s, p, G)
    ELSE IF Of(b, p) # {} THEN Of(b, p) \subseteq G
    ELSE IF Of(f, p) # {} THEN Of(f, p) \subseteq G
    ELSE acted

Newest(p) == Ends(p, chan, box, flush.changes, GoodFor(p), Acted(p))

Way(p) == OnServer(p) \/ Swept \/ Newest(p)

\* A file the client has an old version of is on its way, and the last event about
\* it is one that makes the client look.
Coming(p) == Stale(p) /\ missed[p] = "no" => Way(p)

AnnounceInv == ResolvedInv /\ \A p \in Paths : Coming(p)

\* Sequences of events.
LEMMA AppendEnds ==
    ASSUME NEW p, NEW s \in Seq(ChannelEvents), NEW e, e.name = p, NEW b, NEW f, NEW G, e \in G,
           NEW acted
    PROVE  Ends(p, Append(s, e), b, f, G, acted)
<1>1. Len(s) \in Nat /\ Len(Append(s, e)) = Len(s) + 1 /\ Append(s, e)[Len(s) + 1] = e
  OBVIOUS
<1>2. LastIn(Append(s, e), p, G) /\ InSeq(Append(s, e), p)
  BY <1>1 DEF LastIn, InSeq
<1> QED BY <1>2 DEF Ends

LEMMA AppendOther ==
    ASSUME NEW p, NEW s \in Seq(ChannelEvents), NEW e, e.name # p, NEW b, NEW f, NEW G,
           NEW acted, Ends(p, s, b, f, G, acted)
    PROVE  Ends(p, Append(s, e), b, f, G, acted)
<1>1. /\ Len(s) \in Nat /\ Len(Append(s, e)) = Len(s) + 1 /\ Append(s, e)[Len(s) + 1] = e
      /\ \A i \in 1..Len(s) : Append(s, e)[i] = s[i]
  OBVIOUS
<1>2. /\ InSeq(s, p) => InSeq(Append(s, e), p)
      /\ InSeq(Append(s, e), p) => InSeq(s, p)
  BY <1>1 DEF InSeq
<1>3. LastIn(s, p, G) => LastIn(Append(s, e), p, G)
  BY <1>1 DEF LastIn
<1> QED BY <1>2, <1>3 DEF Ends

LEMMA TailEnds ==
    ASSUME NEW p, NEW s \in Seq(ChannelEvents), s # <<>>, NEW b, NEW f, NEW G,
           NEW acted, Ends(p, s, b, f, G, acted)
    PROVE  Ends(p, Tail(s), {o \in b : o.name # Head(s).name} \cup {Head(s)}, f, G, acted)
<1> DEFINE c == {o \in b : o.name # Head(s).name} \cup {Head(s)}
<1>1. /\ Len(s) \in Nat /\ Len(s) > 0 /\ Len(Tail(s)) = Len(s) - 1 /\ Head(s) = s[1]
      /\ \A i \in 1..(Len(s) - 1) : Tail(s)[i] = s[i + 1]
  OBVIOUS
<1>2. CASE InSeq(Tail(s), p)
  <2>1. InSeq(s, p)
    BY <1>1, <1>2 DEF InSeq
  <2>2. PICK i \in 1..Len(s) : /\ s[i].name = p /\ s[i] \in G
                               /\ \A j \in 1..Len(s) : j > i => s[j].name # p
    BY <2>1 DEF Ends, LastIn
  <2>3. PICK k \in 1..(Len(s) - 1) : s[k + 1].name = p
    BY <1>1, <1>2 DEF InSeq
  <2>4. i >= k + 1
    BY <1>1, <2>2, <2>3
  <2>5. i - 1 \in 1..Len(Tail(s)) /\ Tail(s)[i - 1] = s[i]
    BY <1>1, <2>3, <2>4
  <2>6. \A j \in 1..Len(Tail(s)) : j > i - 1 => Tail(s)[j].name # p
    BY <1>1, <2>2
  <2>7. LastIn(Tail(s), p, G)
    BY <2>2, <2>5, <2>6 DEF LastIn
  <2> QED BY <1>2, <2>7 DEF Ends
<1>3. CASE ~InSeq(Tail(s), p) /\ Head(s).name = p
  <2>1. InSeq(s, p)
    BY <1>1, <1>3 DEF InSeq
  <2>2. PICK i \in 1..Len(s) : s[i].name = p /\ s[i] \in G
    BY <2>1 DEF Ends, LastIn
  <2>3. i = 1
    <3>1. ASSUME i # 1 PROVE FALSE
      <4>1. i - 1 \in 1..Len(Tail(s)) /\ Tail(s)[i - 1] = s[i]
        BY <1>1, <3>1
      <4> QED BY <1>3, <2>2, <4>1 DEF InSeq
    <3> QED BY <3>1
  <2>4. Head(s) \in G /\ Of(c, p) = {Head(s)}
    BY <1>1, <1>3, <2>2, <2>3 DEF Of
  <2> QED BY <1>3, <2>4 DEF Ends
<1>4. CASE ~InSeq(Tail(s), p) /\ Head(s).name # p
  <2>1. ~InSeq(s, p)
    <3>1. ASSUME NEW i \in 1..Len(s), s[i].name = p PROVE FALSE
      <4>1. i - 1 \in 1..Len(Tail(s)) /\ Tail(s)[i - 1] = s[i]
        BY <1>1, <1>4, <3>1
      <4> QED BY <1>4, <3>1, <4>1 DEF InSeq
    <3> QED BY <3>1 DEF InSeq
  <2>2. Of(c, p) = Of(b, p)
    BY <1>4 DEF Of
  <2> QED BY <1>4, <2>1, <2>2 DEF Ends
<1> QED BY <1>2, <1>3, <1>4

-----------------------------------------------------------------------------
(* Each step leaves what is stale on its way.                              *)

\* A step that changes neither the file nor the client's copy of it.
Same(p) == UNCHANGED worker /\ disk'[p] = disk[p] /\ copy'[p] = copy[p]

LEMMA SameGood ==
    ASSUME NEW p \in Paths, Same(p)
    PROVE  /\ GoodFor(p)' = GoodFor(p) /\ (Stale(p)' => Stale(p))
           /\ marks'[p] = marks[p] => (Acted(p) => Acted(p)')
<1>1. GoodFor(p)' = GoodFor(p)
  BY DEF Same, GoodFor
<1>2. Stale(p)' => Stale(p)
  BY DEF Same, Stale
<1>3. marks'[p] = marks[p] => (Acted(p) => Acted(p)')
  BY DEF Same, Acted
<1> QED BY <1>1, <1>2, <1>3

LEMMA Carry ==
    ASSUME NEW p \in Paths, Coming(p), Same(p), missed'[p] = "no" => missed[p] = "no",
           Stale(p) /\ missed[p] = "no" /\ missed'[p] = "no" /\ Way(p) => Way(p)'
    PROVE  Coming(p)'
BY SameGood DEF Coming

\* The client looked and has what is there, or missed nothing and has what it had.
LEMMA HasKeeps ==
    ASSUME TypeInv, NEW p \in Paths, NEW files \in [Paths -> Versions \cup {None}], Has(files),
           files[p] \in {copy[p], disk[p]}, UNCHANGED <<disk, worker>>
    PROVE  ~Stale(p)' \/ (Same(p) /\ missed'[p] = missed[p])
<1>1. copy'[p] = files[p] /\ missed'[p] = IF files[p] = disk[p] THEN "no" ELSE missed[p]
  BY DEF Has
<1> QED BY <1>1 DEF Stale, Same

LEMMA LosesKeeps ==
    ASSUME TypeInv, NEW p \in Paths, NEW ps, NEW how \in {"early", "gap", "failed"}, Loses(ps, how),
           UNCHANGED <<disk, worker>>
    PROVE  /\ Same(p) /\ (missed'[p] = "no" => missed[p] = "no")
           /\ Stale(p) /\ p \in ps => missed'[p] # "no"
<1>1. missed'[p] = (IF p \in ps /\ Stale(p) /\ missed[p] = "no" THEN how ELSE missed[p])
      /\ UNCHANGED copy
  BY DEF Loses
<1> QED BY <1>1 DEF Same

\* The parts of the way, where a step does not touch them.
LEMMA WayParts ==
    ASSUME NEW p \in Paths, Same(p)
    PROVE  /\ UNCHANGED <<raw, pending, resolved>> => (OnServer(p) => OnServer(p)')
           /\ UNCHANGED <<lagged, chan, box, flush>> /\ (full => full') => (Swept => Swept')
           /\ UNCHANGED <<chan, box, flush>> /\ marks'[p] = marks[p] => (Newest(p) => Newest(p)')
<1>1. UNCHANGED <<raw, pending, resolved>> => (OnServer(p) => OnServer(p)')
  BY DEF OnServer
<1>2. UNCHANGED <<lagged, chan, box, flush>> /\ (full => full') => (Swept => Swept')
  BY DEF Swept, Same
<1>3. UNCHANGED <<chan, box, flush>> /\ marks'[p] = marks[p] => (Newest(p) => Newest(p)')
  BY SameGood DEF Newest, Ends
<1> QED BY <1>1, <1>2, <1>3

LEMMA QuietKeeps ==
    ASSUME NEW p \in Paths, Coming(p), UNCHANGED <<worker, server, engine, ends, lagged, chan, box, flush>>
    PROVE  Coming(p)'
<1>1. Same(p) /\ missed' = missed /\ marks' = marks /\ full' = full
  BY DEF Same, server, ends, engine
<1>2. Way(p) => Way(p)'
  BY <1>1, WayParts DEF Way, server
<1> QED BY <1>1, <1>2, Carry

LEMMA ServerKeeps ==
    ASSUME TypeInv, ResolvedInv, NEW p \in Paths, Coming(p), NEW q \in Paths, Write(q) \/ Remove(q)
    PROVE  Coming(p)'
<1>1. PICK v : Changed(q, v)
  BY DEF Write, Remove
<1>2. /\ disk' = [disk EXCEPT ![q] = v] /\ raw' = raw \cup {q} /\ missed' = [missed EXCEPT ![q] = "no"]
      /\ UNCHANGED <<worker, pending, resolved, channel, inbox, engine, copy>>
  BY <1>1 DEF Changed
<1>3. CASE p = q
  BY <1>2, <1>3 DEF Coming, Way, OnServer
<1>4. CASE p # q
  <2>1. Same(p) /\ missed'[p] = missed[p]
    BY <1>2, <1>4 DEF Same, TypeInv, ServerOK, EndsOK
  <2>2. OnServer(p) => OnServer(p)'
    BY <1>2 DEF OnServer
  <2>3. Way(p) => Way(p)'
    BY <1>2, <2>1, <2>2, WayParts DEF Way, channel, inbox, engine
  <2> QED BY <2>1, <2>3, Carry
<1> QED BY <1>3, <1>4

\* What is sent about p, or about everything, waits in the channel or is missed;
\* what is sent about another file leaves p alone.
LEMMA SendKeeps ==
    ASSUME TypeInv, NEW p \in Paths, NEW e \in ChannelEvents, Send(e),
           UNCHANGED <<worker, disk, inbox, engine>>
    PROVE  /\ Same(p) /\ (missed'[p] = "no" => missed[p] = "no") /\ (Swept => Swept')
           /\ (e = resync /\ Stale(p) /\ missed'[p] = "no") => Swept'
           /\ (e.name = p /\ e \in GoodFor(p) /\ Stale(p) /\ missed'[p] = "no") => Swept' \/ Newest(p)'
           /\ (e.name # p /\ Newest(p)) => Swept' \/ Newest(p)'
<1>0. UNCHANGED <<box, flush, marks, full>>
  BY DEF inbox, engine
<1>1. CASE sub /\ ~stalled
  <2>1. /\ chan' = IF Len(chan) < Capacity THEN Append(chan, e) ELSE Append(Tail(chan), e)
        /\ lagged' = (lagged \/ Len(chan) >= Capacity) /\ UNCHANGED <<copy, missed>>
    BY <1>1 DEF Send, ends
  <2>2. Same(p)
    BY <2>1 DEF Same
  <2>3. chan \in Seq(ChannelEvents) /\ Len(chan) \in Nat /\ Capacity \in Nat
    BY StreamAssumption DEF TypeInv, ChannelOK
  <2>4. CASE Len(chan) >= Capacity
    <3>1. Swept'
      BY <2>1, <2>4 DEF Swept
    <3> QED BY <2>1, <2>2, <3>1
  <2>5. CASE Len(chan) < Capacity
    <3>1. chan' = Append(chan, e) /\ (lagged => lagged')
      BY <2>1, <2>3, <2>5
    <3>2. /\ Len(chan') = Len(chan) + 1 /\ chan'[Len(chan) + 1] = e
          /\ \A i \in 1..Len(chan) : chan'[i] = chan[i]
      BY <2>3, <3>1
    <3>3. Swept => Swept'
      BY <1>0, <2>3, <3>1, <3>2 DEF Swept
    <3>4. e = resync => Swept'
      BY <2>3, <3>2 DEF Swept
    <3>5. GoodFor(p)' = GoodFor(p) /\ (Acted(p) => Acted(p)')
      BY <1>0, <2>2, SameGood
    <3>6. (e.name = p /\ e \in GoodFor(p)) => Newest(p)'
      BY <1>0, <2>3, <3>1, <3>5, AppendEnds DEF Newest
    <3>7. (e.name # p /\ Newest(p)) => Newest(p)'
      <4>1. Ends(p, chan, box, flush.changes, GoodFor(p), Acted(p)) =>
              Ends(p, chan, box, flush.changes, GoodFor(p), Acted(p)')
        BY <3>5 DEF Ends
      <4> QED BY <1>0, <2>3, <3>1, <3>5, <4>1, AppendOther DEF Newest
    <3> QED BY <2>1, <2>2, <3>3, <3>4, <3>6, <3>7
  <2> QED BY <2>3, <2>4, <2>5
<1>2. CASE ~(sub /\ ~stalled)
  <2>1. Loses(About(e), Gap) /\ UNCHANGED <<chan, lagged>>
    BY <1>2 DEF Send, channel
  <2>2. Same(p) /\ (missed'[p] = "no" => missed[p] = "no") /\ (Stale(p) /\ p \in About(e) => missed'[p] # "no")
    BY <2>1, GapType, LosesKeeps
  <2>3. (e = resync \/ e.name = p) => p \in About(e)
    BY DEF About, resync, Event
  <2>4. (Swept => Swept') /\ (Newest(p) => Newest(p)')
    BY <1>0, <2>1, <2>2, WayParts
  <2> QED BY <2>2, <2>3, <2>4
<1> QED BY <1>1, <1>2

LEMMA WatcherKeeps ==
    ASSUME TypeInv, ResolvedInv, NEW p \in Paths, Coming(p), WatcherStep
    PROVE  Coming(p)'
<1>0. resolved \subseteq FileEvents /\ pending \subseteq Paths
  BY DEF TypeInv, ServerOK
<1>1. ASSUME NEW q \in Paths, Receive(q) PROVE Coming(p)'
  <2>1. /\ raw' = raw \ {q} /\ pending' = pending \cup {q} /\ UNCHANGED <<resolved, channel, ends>>
        /\ UNCHANGED <<worker, disk, inbox, engine>>
    BY <1>1 DEF Receive, Watcher
  <2>2. Same(p) /\ missed' = missed /\ (OnServer(p) => OnServer(p)')
    BY <2>1 DEF Same, ends, OnServer
  <2>3. Way(p) => Way(p)'
    BY <2>1, <2>2, WayParts DEF Way, channel, inbox, engine
  <2> QED BY <2>2, <2>3, Carry
<1>2. ASSUME NEW ready \in SUBSET pending, Resolve(ready) PROVE Coming(p)'
  <2>1. /\ resolved = {} /\ pending' = pending \ ready /\ UNCHANGED raw
        /\ UNCHANGED <<worker, disk, inbox, engine>>
    BY <1>2 DEF Resolve, Watcher
  <2>2. CASE Cardinality(ready) > FloodThreshold
    <3>1. Send(resync) /\ resync \in ChannelEvents
      BY <1>2, <2>2 DEF Resolve, ChannelEvents
    <3>2. /\ Same(p) /\ (missed'[p] = "no" => missed[p] = "no")
          /\ (Stale(p) /\ missed'[p] = "no") => Swept'
      BY <2>1, <3>1, SendKeeps
    <3> QED BY <3>2, Carry DEF Way
  <2>3. CASE ~(Cardinality(ready) > FloodThreshold)
    <3>1. resolved' = {Seen(q) : q \in ready} /\ UNCHANGED <<channel, ends>>
      BY <1>2, <2>3 DEF Resolve
    <3>2. Same(p) /\ missed' = missed
      BY <2>1, <3>1 DEF Same, ends
    <3>3. p \in ready => \E e \in resolved' : e.name = p
      BY <3>1, SeenType DEF TypeInv
    <3>4. OnServer(p) => OnServer(p)'
      BY <2>1, <3>3 DEF OnServer
    <3>5. Way(p) => Way(p)'
      BY <2>1, <3>1, <3>2, <3>4, WayParts DEF Way, channel, inbox, engine
    <3> QED BY <3>2, <3>5, Carry
  <2> QED BY <2>2, <2>3
<1>3. ASSUME NEW e \in resolved, SendNext(e) PROVE Coming(p)'
  <2> DEFINE s == enrich_event(e)
  <2>1. /\ resolved' = resolved \ {e} /\ Send(s) /\ UNCHANGED <<raw, pending>>
        /\ UNCHANGED <<worker, disk, inbox, engine>>
    BY <1>3 DEF SendNext, Watcher
  <2>2. /\ e \in FileEvents /\ s \in FileEvents /\ s \in ChannelEvents /\ s.name = e.name
        /\ s.action = e.action /\ (e.action = "change" => s.hash = disk[e.name])
    BY <1>0, EnrichType DEF TypeInv, ChannelEvents
  <2> HIDE DEF s
  <2>3. /\ Same(p) /\ (missed'[p] = "no" => missed[p] = "no") /\ (Swept => Swept')
        /\ (s.name = p /\ s \in GoodFor(p) /\ Stale(p) /\ missed'[p] = "no") => Swept' \/ Newest(p)'
        /\ (s.name # p /\ Newest(p)) => Swept' \/ Newest(p)'
    BY <2>1, <2>2, SendKeeps
  <2>4. CASE e.name # p
    <3>1. OnServer(p) => OnServer(p)'
      BY <2>1, <2>4 DEF OnServer
    <3>2. Way(p) => Way(p)'
      BY <2>2, <2>3, <2>4, <3>1 DEF Way
    <3> QED BY <2>3, <3>2, Carry
  <2>5. CASE e.name = p
    <3>1. CASE p \in raw
      BY <2>1, <3>1 DEF Coming, Way, OnServer
    <3>2. CASE p \notin raw
      <4>1. e.action = "delete" <=> disk[p] = None
        BY <2>5, <3>2 DEF ResolvedInv
      <4>2. e.action \in {"change", "delete"}
        BY <2>2 DEF FileEvents, Events
      <4>3. Stale(p) => s \in GoodFor(p)
        BY <2>2, <2>5, <4>1, <4>2 DEF Stale, GoodFor
      <4> QED BY <2>2, <2>3, <2>5, <4>3, Carry DEF Way
    <3> QED BY <3>1, <3>2
  <2> QED BY <2>4, <2>5
<1> QED BY <1>1, <1>2, <1>3 DEF WatcherStep

\* What the channel loses with a connection is missed.
LEMMA LostKeeps ==
    ASSUME TypeInv, NEW p \in Paths, Coming(p), Loses(InChannel, Gap), chan' = <<>>, lagged' = FALSE,
           UNCHANGED <<worker, server, box, flush, engine>>
    PROVE  Coming(p)'
<1>1. /\ Same(p) /\ (missed'[p] = "no" => missed[p] = "no")
      /\ Stale(p) /\ p \in InChannel => missed'[p] # "no"
  BY GapType, LosesKeeps DEF server
<1>2. CASE p \in InChannel
  BY <1>1, <1>2, SameGood DEF Coming
<1>3. CASE p \notin InChannel
  <2>1. ~lagged
    BY <1>3 DEF InChannel
  <2>2. \A i \in 1..Len(chan) : p \notin About(chan[i])
    BY <1>3, <2>1 DEF InChannel
  <2>3. ~InSeq(chan, p) /\ \A i \in 1..Len(chan) : chan[i] # resync
    BY <2>2 DEF About, resync, Event, InSeq
  <2>4. Swept => Swept'
    BY <2>1, <2>3, <1>1 DEF Swept, engine
  <2>5. ~InSeq(chan', p)
    BY DEF InSeq
  <2>6. GoodFor(p)' = GoodFor(p) /\ (Acted(p) => Acted(p)')
    BY <1>1, SameGood DEF engine
  <2>7. Newest(p) => Newest(p)'
    BY <2>3, <2>5, <2>6 DEF Newest, Ends
  <2>8. OnServer(p) => OnServer(p)'
    BY <1>1, WayParts DEF server
  <2> QED BY <1>1, <2>4, <2>7, <2>8, Carry DEF Way
<1> QED BY <1>2, <1>3

\* An event moves from the channel to the tab's box, and replaces an older one.
LEMMA DeliverComing ==
    ASSUME TypeInv, NEW p \in Paths, Coming(p), Deliver
    PROVE  Coming(p)'
<1>1. /\ lagged \/ chan # <<>>
      /\ lagged' = FALSE
      /\ chan' = IF lagged THEN chan ELSE Tail(chan)
      /\ handleEvent(upcoming)
      /\ UNCHANGED <<worker, server, engine, ends>>
  BY DEF Deliver, Connection
<1>2. /\ box' = {o \in box : o.name # upcoming.name} \cup {upcoming}
      /\ flush' = IF flush.at = "idle" THEN [flush EXCEPT !.at = "timer"] ELSE flush
  BY <1>1 DEF handleEvent
<1>3. Same(p) /\ missed' = missed /\ marks' = marks /\ full' = full
  BY <1>1 DEF Same, server, ends, engine
<1>4. /\ flush'.changes = flush.changes /\ flush'.deletes = flush.deletes
      /\ flush.at \in {"all", "list"} => flush'.at = flush.at
  BY <1>2 DEF TypeInv, InboxOK, FlushOK
<1>5. CASE lagged
  <2>1. resync \in box'
    BY <1>2, <1>5 DEF upcoming
  <2> QED BY <1>3, <2>1, Carry DEF Way, Swept
<1>6. CASE ~lagged
  <2>1. upcoming = Head(chan) /\ chan' = Tail(chan) /\ chan # <<>> /\ chan \in Seq(ChannelEvents)
    BY <1>1, <1>6 DEF upcoming, TypeInv, ChannelOK
  <2>2. /\ Len(chan) \in Nat /\ Len(chan') = Len(chan) - 1 /\ Head(chan) = chan[1]
        /\ \A i \in 1..(Len(chan) - 1) : chan'[i] = chan[i + 1]
    BY <2>1
  <2>3. Swept => Swept'
    <3>1. CASE resync \in box
      <4>1. upcoming = resync \/ upcoming.name # resync.name
        <5>1. upcoming \in ChannelEvents /\ resync.name = None
          BY <1>1, UpcomingType DEF TypeInv, resync, Event
        <5> QED BY <5>1, NoneNoPath DEF ChannelEvents
      <4> QED BY <1>2, <3>1, <4>1 DEF Swept
    <3>2. CASE \E i \in 1..Len(chan) : chan[i] = resync
      <4>1. PICK i \in 1..Len(chan) : chan[i] = resync
        BY <3>2
      <4>2. CASE i = 1
        BY <1>2, <2>1, <2>2, <4>1, <4>2 DEF Swept
      <4>3. CASE i # 1
        <5>1. i - 1 \in 1..Len(chan') /\ chan'[i - 1] = resync
          BY <2>2, <4>1, <4>3
        <5> QED BY <5>1 DEF Swept
      <4> QED BY <4>2, <4>3
    <3>3. CASE full \/ flush.at = "all" \/ (~worker /\ (flush.deletes \/ flush.at = "list"))
      BY <1>1, <1>3, <1>4, <3>3 DEF Swept
    <3> QED BY <1>6, <3>1, <3>2, <3>3 DEF Swept
  <2>4. Newest(p) => Newest(p)'
    <3>1. GoodFor(p)' = GoodFor(p) /\ (Acted(p) => Acted(p)')
      BY <1>3, SameGood
    <3>2. SUFFICES ASSUME Newest(p) PROVE Newest(p)'
      OBVIOUS
    <3>3. Ends(p, chan, box, flush.changes, GoodFor(p), Acted(p)')
      BY <3>1, <3>2 DEF Newest, Ends
    <3>4. Ends(p, Tail(chan), {o \in box : o.name # Head(chan).name} \cup {Head(chan)},
               flush.changes, GoodFor(p), Acted(p)')
      BY <2>1, <3>3, TailEnds
    <3> QED BY <1>2, <1>4, <2>1, <3>1, <3>4 DEF Newest
  <2>5. OnServer(p) => OnServer(p)'
    BY <1>1, <1>3, WayParts DEF server
  <2> QED BY <1>3, <2>3, <2>4, <2>5, Carry DEF Way
<1> QED BY <1>5, <1>6

LEMMA ConnectionKeeps ==
    ASSUME TypeInv, NEW p \in Paths, Coming(p),
           Retry \/ onOnline \/ Subscribe \/ Open \/ Deliver \/ Ping \/ Stall \/ Break \/ Tick
    PROVE  Coming(p)'
<1>1. CASE Retry \/ onOnline
  BY <1>1, QuietKeeps DEF Retry, onOnline, connect, Connection, channel, inbox
<1>2. CASE Subscribe
  <2>1. ~sub
    BY <1>2 DEF Subscribe
  <2>2. lagged \in BOOLEAN /\ ~lagged /\ chan = <<>>
    BY <2>1, Zenon DEF TypeInv, ChannelOK
  <2>3. lagged' = lagged /\ chan' = chan
    <3>1. lagged' = FALSE /\ chan' = <<>>
      BY <1>2 DEF Subscribe
    <3>2. lagged = FALSE
      BY <2>2, Zenon
    <3> QED BY <2>2, <3>1, <3>2
  <2> QED BY <1>2, <2>3, QuietKeeps DEF Subscribe, Connection, inbox
<1>3. CASE Open
  BY <1>3, QuietKeeps DEF Open, Connection, channel
<1>4. CASE Deliver
  BY <1>4, DeliverComing
<1>5. CASE Ping
  BY <1>5, QuietKeeps DEF Ping, Connection, channel, inbox
<1>6. CASE Stall
  BY <1>6, LostKeeps DEF Stall, Connection, inbox
<1>7. CASE Break
  BY <1>7, LostKeeps DEF Break, onerror, Connection, inbox
<1>8. CASE Tick
  BY <1>8, QuietKeeps DEF Tick, Connection, channel, inbox
<1> QED BY <1>1, <1>2, <1>3, <1>4, <1>5, <1>6, <1>7, <1>8

\* A mark that a good event adds is acted upon, and no later mark undoes that.
Passes(m, c) == ~shouldSkip(m, IF c = None THEN None ELSE <<c, c>>, c, TRUE)

LEMMA ProbePasses ==
    ASSUME NEW a \in Origins, NEW c, Passes(a, c)
    PROVE  Passes(mergeOrigins(a, ProbeOrigin), c)
<1>1. a.type # "probe"
  BY DEF Passes, shouldSkip
<1>2. \E h : mergeOrigins(a, ProbeOrigin) = AnyOrigin(h)
  BY <1>1, Zenon DEF mergeOrigins, ProbeOrigin
<1> QED BY <1>2 DEF AnyOrigin, Passes, shouldSkip

LEMMA RemotePasses ==
    ASSUME NEW a \in Origins \cup {None}, NEW c, NEW v, NEW h,
           c = None \/ v # c \/ h \notin {None, c}
    PROVE  Passes(IF a = None THEN RemoteOrigin(v, h) ELSE mergeOrigins(a, RemoteOrigin(v, h)), c)
<1>1. \A k : (h \notin {None, c} => k = h) => Passes(RemoteOrigin(v, k), c)
  BY DEF RemoteOrigin, Passes, shouldSkip
<1>2. CASE a = None
  BY <1>1, <1>2
<1>3. CASE a # None /\ a.type # "remote"
  <2>1. \E k : mergeOrigins(a, RemoteOrigin(v, h)) = AnyOrigin(k)
    BY <1>3, Zenon DEF mergeOrigins, RemoteOrigin
  <2>2. \A k : Passes(AnyOrigin(k), c)
    BY DEF AnyOrigin, Passes, shouldSkip
  <2> QED BY <1>3, <2>1, <2>2
<1>4. CASE a # None /\ a.type = "remote"
  <2> DEFINE o == RemoteOrigin(v, h)
             k == IF reportedRevision(o) # None THEN reportedRevision(o) ELSE reportedRevision(a)
  <2>1. o.type = "remote" /\ o = [type |-> "remote", lastModified |-> v, hash |-> h]
    BY DEF RemoteOrigin
  <2>2. mergeOrigins(a, o) = [o EXCEPT !.hash = k]
    BY <1>4, <2>1, Zenon DEF mergeOrigins
  <2>3. h \notin {None, c} => k = h
    BY <2>1 DEF reportedRevision
  <2>4. [o EXCEPT !.hash = k] = RemoteOrigin(v, k)
    BY <2>1 DEF RemoteOrigin
  <2>5. Passes(RemoteOrigin(v, k), c)
    BY <1>1, <2>3
  <2> QED BY <1>4, <2>2, <2>4, <2>5
<1> QED BY <1>2, <1>3, <1>4

LEMMA MarkKeeps ==
    ASSUME TypeInv, NEW p \in Paths, NEW q \in Paths, NEW o \in Origins, Marked(q, o), Same(p)
    PROVE  /\ p # q => marks'[p] = marks[p]
           /\ p = q /\ o = ProbeOrigin => (Acted(p) => Acted(p)')
           /\ p = q => \A e \in GoodFor(p) : worker /\ o = RemoteOrigin(e.v, e.hash) => Acted(p)'
<1> DEFINE n == IF marks[q] = None THEN o ELSE mergeOrigins(marks[q], o)
<1>1. marks \in [Paths -> Origins \cup {None}] /\ marks' = [marks EXCEPT ![q] = n]
  BY DEF TypeInv, EngineOK, Marked
<1>2. n \in Origins /\ n # None
  <2>1. n \in Origins
    BY <1>1, MergeType
  <2> QED BY <2>1, UndefinedAssumption
<1>3. ASSUME p = q, o = ProbeOrigin, Acted(p) PROVE Acted(p)'
  <2>1. marks[p] \in Origins /\ Passes(marks[p], copy[p]) /\ n = mergeOrigins(marks[p], ProbeOrigin)
    BY <1>1, <1>3 DEF Acted, Passes
  <2>2. Passes(n, copy[p])
    BY <2>1, ProbePasses
  <2>3. marks'[p] = n /\ copy'[p] = copy[p]
    BY <1>1, <1>3 DEF Same
  <2> HIDE DEF n
  <2> QED BY <1>2, <2>2, <2>3 DEF Acted, Passes
<1>4. ASSUME p = q, NEW e \in GoodFor(p), worker, o = RemoteOrigin(e.v, e.hash) PROVE Acted(p)'
  <2>1. copy[p] = None \/ e.v # copy[p] \/ e.hash \notin {None, copy[p]}
    BY <1>4 DEF GoodFor
  <2>2. Passes(n, copy[p])
    BY <1>1, <1>4, <2>1, RemotePasses
  <2>3. marks'[p] = n /\ copy'[p] = copy[p]
    BY <1>1, <1>4 DEF Same
  <2> HIDE DEF n
  <2> QED BY <1>2, <2>2, <2>3 DEF Acted, Passes
<1> HIDE DEF n
<1>5. p # q => marks'[p] = marks[p]
  BY <1>1
<1> QED BY <1>3, <1>4, <1>5

\* The client has just looked at p.
LEMMA LookedKeeps ==
    ASSUME TypeInv, NEW p \in Paths, Has(disk) \/ Pull(p), UNCHANGED <<worker, disk>>
    PROVE  Coming(p)'
<1>1. copy'[p] = disk[p]
  BY DEF TypeInv, ServerOK, EndsOK, Has, Pull
<1> QED BY <1>1 DEF Coming, Stale

\* It has looked at another file.
LEMMA LookedElsewhere ==
    ASSUME TypeInv, NEW p \in Paths, NEW q \in Paths, p # q, Pull(q), UNCHANGED <<worker, disk>>
    PROVE  Coming(p)' \/ (Same(p) /\ missed'[p] = missed[p])
<1>1. [copy EXCEPT ![q] = disk[q]] \in [Paths -> Versions \cup {None}]
  BY DEF TypeInv, ServerOK, EndsOK
<1>2. [copy EXCEPT ![q] = disk[q]][p] = copy[p]
  BY DEF TypeInv, EndsOK
<1>3. ~Stale(p)' \/ (Same(p) /\ missed'[p] = missed[p])
  BY <1>1, <1>2, HasKeeps DEF Pull
<1> QED BY <1>3 DEF Coming

LEMMA FlushStartKeeps ==
    ASSUME TypeInv, NEW p \in Paths, Coming(p), FlushStart
    PROVE  Coming(p)'
<1> DEFINE del == \E e \in box : e.action = "delete"
<1>1. flush.at = "timer" /\ flush.changes = {} /\ ~flush.deletes
  BY DEF FlushStart, TypeInv, InboxOK, FlushOK
<1>2. box' = {} /\ UNCHANGED <<worker, server, engine, ends, chan, lagged>>
  BY DEF FlushStart, Tab, channel
<1>3. Same(p) /\ missed' = missed /\ marks' = marks /\ full' = full
  BY <1>2 DEF Same, server, ends, engine
<1>4. OnServer(p) => OnServer(p)'
  BY <1>2, <1>3, WayParts DEF server
<1>5. CASE resync \in box \/ Cardinality(Changes(box)) >= BatchThreshold
  <2>1. flush' = [Idle EXCEPT !.at = "all"]
    BY <1>5 DEF FlushStart
  <2>2. flush'.at = "all"
    BY <2>1 DEF Idle
  <2> QED BY <1>3, <2>2, Carry DEF Way, Swept
<1>6. CASE ~(resync \in box \/ Cardinality(Changes(box)) >= BatchThreshold)
  <2>1. flush' = Onward(Changes(box), del)
    BY <1>6 DEF FlushStart
  <2>2. flush'.changes = Changes(box) /\ flush'.deletes = del
    BY <2>1 DEF Onward
  <2>3. Swept => Swept'
    BY <1>1, <1>2, <1>3, <1>6 DEF Swept
  <2>4. GoodFor(p)' = GoodFor(p) /\ (Acted(p) => Acted(p)')
    BY <1>3, SameGood
  <2>5. \A e \in Of(box, p) : e \in FileEvents /\ e.action \in {"change", "delete"}
    <3>1. resync.name \notin Paths
      BY StreamAssumption DEF resync, Event
    <3> QED BY <3>1 DEF TypeInv, InboxOK, ChannelEvents, Of, FileEvents, Events
  <2>6. Of(Changes(box), p) \subseteq Of(box, p)
    BY DEF Of, Changes
  <2>7. Newest(p) => Swept' \/ Newest(p)'
    <3> SUFFICES ASSUME Newest(p) PROVE Swept' \/ Newest(p)'
      OBVIOUS
    <3>1. CASE InSeq(chan, p)
      BY <1>2, <2>4, <3>1 DEF Newest, Ends
    <3>2. CASE ~InSeq(chan, p) /\ Of(box, p) = {}
      <4>1. Of(flush.changes, p) = {} /\ Of(Changes(box), p) = {} /\ Of(box', p) = {}
        BY <1>1, <1>2, <2>6, <3>2 DEF Of
      <4> QED BY <1>2, <2>2, <2>4, <3>2, <4>1 DEF Newest, Ends
    <3>3. CASE ~InSeq(chan, p) /\ \E e \in Of(box, p) : e.action = "delete"
      <4>1. PICK e \in Of(box, p) : e.action = "delete"
        BY <3>3
      <4>2. e \in GoodFor(p)
        BY <3>3 DEF Newest, Ends
      <4>3. ~worker /\ del
        BY <4>1, <4>2 DEF GoodFor, Of
      <4> QED BY <1>2, <2>2, <4>3 DEF Swept
    <3>4. CASE ~InSeq(chan, p) /\ Of(box, p) # {} /\ \A e \in Of(box, p) : e.action # "delete"
      <4>1. Of(Changes(box), p) = Of(box, p) /\ Of(box', p) = {}
        BY <1>2, <2>5, <3>4 DEF Of, Changes
      <4>2. Of(box, p) \subseteq GoodFor(p)
        BY <3>4 DEF Newest, Ends
      <4> QED BY <1>2, <2>2, <2>4, <3>4, <4>1, <4>2 DEF Newest, Ends
    <3> QED BY <3>1, <3>2, <3>3, <3>4
  <2> QED BY <1>3, <1>4, <2>3, <2>7, Carry DEF Way
<1> QED BY <1>5, <1>6

\* A flush goes on with the other files: what it says of p moves to the mark.
LEMMA OnwardKeeps ==
    ASSUME TypeInv, NEW p \in Paths, NEW e \in flush.changes, flush.at = "file",
           flush' = Onward(flush.changes \ {e}, flush.deletes),
           UNCHANGED <<server, box, full, chan, lagged>>, Same(p),
           e.name # p => marks'[p] = marks[p],
           e.name = p /\ e \in GoodFor(p) => Acted(p)'
    PROVE  Way(p) => Way(p)'
<1>1. flush'.changes = flush.changes \ {e} /\ flush'.deletes = flush.deletes
  BY DEF Onward
<1>2. (Swept => Swept') /\ (OnServer(p) => OnServer(p)')
  BY <1>1, WayParts DEF Swept, Same, server
<1>3. GoodFor(p)' = GoodFor(p) /\ (e.name # p /\ Acted(p) => Acted(p)')
  BY SameGood
<1>4. Newest(p) => Newest(p)'
  <2>1. CASE InSeq(chan, p) \/ Of(box, p) # {}
    BY <1>3, <2>1 DEF Newest, Ends
  <2>2. CASE ~InSeq(chan, p) /\ Of(box, p) = {} /\ e.name # p
    <3>1. Of(flush'.changes, p) = Of(flush.changes, p)
      BY <1>1, <2>2 DEF Of
    <3> QED BY <1>3, <2>2, <3>1 DEF Newest, Ends
  <2>3. CASE ~InSeq(chan, p) /\ Of(box, p) = {} /\ e.name = p
    <3>1. e \in Of(flush.changes, p) /\ Of(flush'.changes, p) \subseteq Of(flush.changes, p)
      BY <1>1, <2>3 DEF Of
    <3>2. Newest(p) => Of(flush.changes, p) \subseteq GoodFor(p)
      BY <2>3, <3>1 DEF Newest, Ends
    <3>3. Newest(p) => Acted(p)' /\ Of(flush'.changes, p) \subseteq GoodFor(p)
      BY <2>3, <3>1, <3>2
    <3> QED BY <1>3, <2>3, <3>3 DEF Newest, Ends
  <2> QED BY <2>1, <2>2, <2>3
<1> QED BY <1>2, <1>4 DEF Way

LEMMA FlushFileKeeps ==
    ASSUME TypeInv, NEW p \in Paths, Coming(p), NEW e \in flush.changes, FlushFile(e)
    PROVE  Coming(p)'
<1>1. e \in Changes(FileEvents) /\ e.name \in Paths /\ RemoteOrigin(e.v, e.hash) \in Origins
      /\ e.action = "change"
  BY MarkedWith DEF TypeInv, InboxOK, FlushOK, Changes
<1>2. /\ flush.at = "file" /\ flush' = Onward(flush.changes \ {e}, flush.deletes)
      /\ UNCHANGED <<worker, server, box, full, chan, lagged>>
  BY DEF FlushFile, Tab, channel
<1>3. UNCHANGED <<worker, disk>>
  BY <1>2 DEF server
<1>4. CASE worker
  <2>1. Marked(e.name, RemoteOrigin(e.v, e.hash)) /\ UNCHANGED ends
    BY <1>4 DEF FlushFile
  <2>2. Same(p) /\ missed' = missed
    BY <1>3, <2>1 DEF Same, ends
  <2>3. /\ p # e.name => marks'[p] = marks[p]
        /\ (e.name = p /\ e \in GoodFor(p)) => Acted(p)'
    BY <1>1, <1>4, <2>1, <2>2, MarkKeeps
  <2>4. Way(p) => Way(p)'
    BY <1>2, <2>2, <2>3, OnwardKeeps
  <2> QED BY <2>2, <2>4, Carry
<1>5. CASE ~worker
  <2>1. (Probed(e.name) \/ Loses({e.name}, "failed")) /\ UNCHANGED marks
    BY <1>5 DEF FlushFile, Unnoticed
  <2>2. ASSUME Same(p), e.name # p \/ disk[p] = None PROVE Way(p) => Way(p)'
    <3>1. e.name = p => e \notin GoodFor(p)
      BY <1>1, <2>2 DEF GoodFor
    <3> QED BY <1>2, <2>1, <2>2, <3>1, OnwardKeeps
  <2>3. CASE Loses({e.name}, "failed")
    <3>1. /\ Same(p) /\ (missed'[p] = "no" => missed[p] = "no")
          /\ Stale(p) /\ p = e.name => missed'[p] # "no"
      BY <1>3, <2>3, LosesKeeps
    <3> QED BY <2>2, <3>1, Carry
  <2>4. CASE disk[e.name] # None /\ Pull(e.name)
    <3>1. CASE e.name = p
      BY <1>3, <2>4, <3>1, LookedKeeps
    <3>2. CASE e.name # p
      BY <1>1, <1>3, <2>2, <2>4, <3>2, LookedElsewhere, Carry
    <3> QED BY <3>1, <3>2
  <2>5. CASE disk[e.name] = None /\ UNCHANGED ends
    <3>1. Same(p) /\ missed' = missed
      BY <1>3, <2>5 DEF Same, ends
    <3> QED BY <2>2, <2>5, <3>1, Carry
  <2> QED BY <1>5, <2>1, <2>3, <2>4, <2>5 DEF Probed
<1> QED BY <1>4, <1>5

LEMMA TabKeeps ==
    ASSUME TypeInv, NEW p \in Paths, Coming(p), FlushStep \/ Refresh \/ (\E q \in Paths : Observe(q))
    PROVE  Coming(p)'
<1>1. CASE FlushStart
  BY <1>1, FlushStartKeeps
<1>2. CASE FlushAll
  <2>1. /\ flush' = [Idle EXCEPT !.at = "list"] /\ full' = (full \/ worker)
        /\ UNCHANGED <<worker, server, ends>>
    BY <1>2 DEF FlushAll, Tab
  <2>2. Swept'
    BY <2>1 DEF Idle, Swept
  <2>3. Same(p) /\ missed' = missed
    BY <2>1 DEF Same, server, ends
  <2> QED BY <2>2, <2>3, Carry DEF Way
<1>3. CASE \E e \in flush.changes : FlushFile(e)
  BY <1>3, FlushFileKeeps
<1>4. CASE FlushList
  <2>1. /\ flush.at = "list" /\ flush' = [Idle EXCEPT !.at = "end"]
        /\ UNCHANGED <<worker, server, box, engine, chan, lagged>>
        /\ Listed \/ (~worker /\ Loses(Paths, "failed"))
    BY <1>4 DEF FlushList, Tab, channel, Unnoticed
  <2>2. CASE ~worker
    <3>1. CASE Has(disk)
      BY <2>1, <3>1, LookedKeeps DEF server
    <3>2. CASE Loses(Paths, "failed")
      BY <2>1, <3>2, LosesKeeps, SameGood DEF server, Coming
    <3> QED BY <2>1, <2>2, <3>1, <3>2 DEF Listed
  <2>3. CASE worker
    <3>1. UNCHANGED ends
      BY <2>1, <2>3 DEF Listed
    <3>2. Same(p) /\ missed' = missed /\ marks' = marks /\ full' = full
      BY <2>1, <3>1 DEF Same, server, ends, engine
    <3>3. flush.changes = {} /\ flush'.changes = {}
      BY <2>1 DEF Idle, TypeInv, InboxOK, FlushOK
    <3>4. (Swept => Swept') /\ (OnServer(p) => OnServer(p)')
      BY <2>1, <2>3, <3>2, WayParts DEF Swept, server
    <3>5. Newest(p) => Newest(p)'
      BY <2>1, <3>2, <3>3, SameGood DEF Newest, Ends
    <3> QED BY <3>2, <3>4, <3>5, Carry DEF Way
  <2> QED BY <2>2, <2>3
<1>5. CASE FlushEnd
  <2>1. /\ flush.at = "end" /\ flush' \in {Idle, [Idle EXCEPT !.at = "timer"]}
        /\ UNCHANGED <<worker, server, box, engine, ends, chan, lagged>>
    BY <1>5 DEF FlushEnd, Tab, channel
  <2>2. Same(p) /\ missed' = missed /\ marks' = marks /\ full' = full
    BY <2>1 DEF Same, server, ends, engine
  <2>3. flush.changes = {} /\ flush'.changes = {} /\ ~flush.deletes
    BY <2>1 DEF Idle, TypeInv, InboxOK, FlushOK
  <2>4. (Swept => Swept') /\ (OnServer(p) => OnServer(p)')
    BY <2>1, <2>2, <2>3, WayParts DEF Swept, server
  <2>5. Newest(p) => Newest(p)'
    BY <2>1, <2>2, <2>3, SameGood DEF Newest, Ends
  <2> QED BY <2>2, <2>4, <2>5, Carry DEF Way
<1>6. CASE Refresh
  <2>1. UNCHANGED <<worker, server, box, flush, engine, chan, lagged>>
    BY <1>6 DEF Refresh, Tab, channel
  <2>2. CASE Listed
    <3>1. CASE worker
      BY <2>1, <2>2, <3>1, QuietKeeps DEF Listed
    <3>2. CASE ~worker
      BY <2>1, <2>2, <3>2, LookedKeeps DEF Listed, server
    <3> QED BY <3>1, <3>2
  <2>3. CASE ~Listed
    <3>1. /\ UNCHANGED copy
          /\ missed' = [q \in Paths |-> IF missed[q] = "gap" THEN "failed" ELSE missed[q]]
      BY <1>6, <2>3 DEF Refresh
    <3>2. Same(p) /\ (missed'[p] = "no" => missed[p] = "no")
      BY <2>1, <3>1 DEF Same, server
    <3>3. Way(p) => Way(p)'
      BY <2>1, <3>2, WayParts DEF Way, server, engine
    <3> QED BY <3>2, <3>3, Carry
  <2> QED BY <2>2, <2>3
<1>7. ASSUME NEW q \in Paths, Observe(q) PROVE Coming(p)'
  <2>1. UNCHANGED <<worker, server, box, flush, full, chan, lagged>>
    BY <1>7 DEF Observe, Tab, channel, inbox
  <2>2. CASE worker
    <3>1. Marked(q, ProbeOrigin) /\ UNCHANGED ends
      BY <1>7, <2>2 DEF Observe
    <3>2. Same(p) /\ missed' = missed
      BY <2>1, <3>1 DEF Same, server, ends
    <3>3. Acted(p) => Acted(p)'
      BY <3>1, <3>2, MarkKeeps, MarkedWith, SameGood
    <3>4. Newest(p) => Newest(p)'
      BY <2>1, <3>2, <3>3, SameGood DEF Newest, Ends
    <3>5. (Swept => Swept') /\ (OnServer(p) => OnServer(p)')
      BY <2>1, <3>2, WayParts DEF server
    <3> QED BY <3>2, <3>4, <3>5, Carry DEF Way
  <2>3. CASE ~worker
    <3>1. Probed(q) /\ UNCHANGED marks
      BY <1>7, <2>3 DEF Observe
    <3>2. ASSUME Same(p) PROVE Way(p) => Way(p)'
      BY <2>1, <3>1, <3>2, WayParts DEF Way, server
    <3>3. CASE UNCHANGED ends
      <4>1. Same(p) /\ missed' = missed
        BY <2>1, <3>3 DEF Same, server, ends
      <4> QED BY <3>2, <4>1, Carry
    <3>4. CASE Pull(q) /\ p = q
      BY <2>1, <3>4, LookedKeeps DEF server
    <3>5. CASE Pull(q) /\ p # q
      BY <2>1, <3>2, <3>5, LookedElsewhere, Carry DEF server
    <3> QED BY <3>1, <3>3, <3>4, <3>5 DEF Probed
  <2> QED BY <2>2, <2>3
<1> QED BY <1>1, <1>2, <1>3, <1>4, <1>5, <1>6, <1>7 DEF FlushStep

\* The run loop takes a mark: it pulls, fails, or drops a mark that says nothing.
LEMMA EngineKeeps ==
    ASSUME TypeInv, NEW p \in Paths, Coming(p), (\E q \in Paths : SyncFile(q)) \/ SyncSpace \/ Poll
    PROVE  Coming(p)'
<1>1. UNCHANGED <<worker, server, box, flush, chan, lagged>> /\ UNCHANGED disk
  BY DEF SyncFile, SyncSpace, Poll, Engine, channel, inbox, server
<1>2. CASE Poll
  BY <1>1, <1>2, LookedKeeps DEF Poll
<1>3. CASE SyncSpace
  <2>1. CASE Has(disk)
    BY <1>1, <2>1, LookedKeeps
  <2>2. CASE Loses(Paths, "failed")
    BY <1>1, <2>2, LosesKeeps, SameGood DEF Coming
  <2> QED BY <1>3, <2>1, <2>2 DEF SyncSpace
<1>4. ASSUME NEW q \in Paths, SyncFile(q) PROVE Coming(p)'
  <2>1. marks' = [marks EXCEPT ![q] = None] /\ UNCHANGED full /\ marks[q] # None
    BY <1>4 DEF SyncFile
  <2>2. p # q => marks'[p] = marks[p]
    BY <2>1 DEF TypeInv, EngineOK
  <2>3. ASSUME Same(p), p # q \/ ~Acted(p) PROVE Way(p) => Way(p)'
    <3>1. (Swept => Swept') /\ (OnServer(p) => OnServer(p)')
      BY <1>1, <2>1, <2>3, WayParts DEF server
    <3>2. Acted(p) => Acted(p)'
      BY <2>2, <2>3, SameGood
    <3>3. Newest(p) => Newest(p)'
      BY <1>1, <2>3, <3>2, SameGood DEF Newest, Ends
    <3> QED BY <3>1, <3>3 DEF Way
  <2>4. CASE skipped(q) /\ UNCHANGED ends
    <3>1. Same(p) /\ missed' = missed
      BY <1>1, <2>4 DEF Same, ends
    <3>2. p = q => ~Acted(p)
      BY <2>4 DEF skipped, Acted, shouldSkip
    <3> QED BY <2>3, <3>1, <3>2, Carry
  <2>5. CASE Pull(q) /\ p = q
    BY <1>1, <2>5, LookedKeeps
  <2>6. CASE Pull(q) /\ p # q
    BY <1>1, <2>3, <2>6, LookedElsewhere, Carry
  <2>7. CASE Loses({q}, "failed")
    <3>1. /\ Same(p) /\ (missed'[p] = "no" => missed[p] = "no")
          /\ Stale(p) /\ p = q => missed'[p] # "no"
      BY <1>1, <2>7, LosesKeeps
    <3>2. CASE p = q
      BY <3>1, <3>2, SameGood DEF Coming
    <3>3. CASE p # q
      BY <2>3, <3>1, <3>3, Carry
    <3> QED BY <3>2, <3>3
  <2> QED BY <1>4, <2>4, <2>5, <2>6, <2>7 DEF SyncFile
<1> QED BY <1>2, <1>3, <1>4

LEMMA ResolvedKeeps ==
    ASSUME TypeInv, ResolvedInv, [Next]_vars
    PROVE  ResolvedInv'
<1>0. resolved \subseteq FileEvents /\ \A e \in resolved : e.name \in Paths
  BY DEF TypeInv, ServerOK, FileEvents
<1>1. ASSUME NEW p \in Paths, Write(p) \/ Remove(p) PROVE ResolvedInv'
  <2>1. PICK v : disk' = [disk EXCEPT ![p] = v] /\ raw' = raw \cup {p} /\ UNCHANGED resolved
    BY <1>1 DEF Write, Remove, Changed
  <2>2. \A q \in Paths : q # p => disk'[q] = disk[q]
    BY <2>1 DEF TypeInv, ServerOK
  <2> QED BY <1>0, <2>1, <2>2 DEF ResolvedInv
<1>2. ASSUME NEW p \in Paths, Receive(p) PROVE ResolvedInv'
  BY <1>2 DEF Receive, ResolvedInv
<1>3. ASSUME NEW ready \in SUBSET pending, Resolve(ready) PROVE ResolvedInv'
  <2>1. UNCHANGED disk /\ (resolved' = {Seen(p) : p \in ready} \/ (resolved' = {}))
    BY <1>3 DEF Resolve, Watcher
  <2>2. \A p \in ready : Seen(p).name = p /\ (Seen(p).action = "delete" <=> disk[p] = None)
    BY SeenType DEF TypeInv, ServerOK
  <2> QED BY <2>1, <2>2 DEF ResolvedInv
<1>4. ASSUME NEW e \in resolved, SendNext(e) PROVE ResolvedInv'
  BY <1>4 DEF SendNext, Watcher, ResolvedInv
<1>5. ASSUME UNCHANGED server PROVE ResolvedInv'
  BY <1>5 DEF server, ResolvedInv
<1>6. CASE Retry \/ onOnline \/ Subscribe \/ Open \/ Deliver \/ Ping \/ Stall \/ Break \/ Tick
  <2>1. Connection
    BY <1>6 DEF Retry, onOnline, connect, Subscribe, Open, Deliver, Ping, Stall, Break, onerror, Tick
  <2> QED BY <1>5, <2>1 DEF Connection
<1>7. CASE FlushStep \/ Refresh \/ (\E p \in Paths : Observe(p))
  <2>1. Tab
    BY <1>7 DEF FlushStep, FlushStart, FlushAll, FlushFile, FlushList, FlushEnd, Refresh, Observe
  <2> QED BY <1>5, <2>1 DEF Tab
<1>8. CASE (\E p \in Paths : SyncFile(p)) \/ SyncSpace \/ Poll
  <2>1. Engine
    BY <1>8 DEF SyncFile, SyncSpace, Poll
  <2> QED BY <1>5, <2>1 DEF Engine
<1>9. CASE UNCHANGED vars
  BY <1>5, <1>9 DEF vars
<1> QED BY <1>1, <1>2, <1>3, <1>4, <1>6, <1>7, <1>8, <1>9 DEF Next, WatcherStep

LEMMA InitAnnounce == Init => AnnounceInv
BY DEF Init, AnnounceInv, ResolvedInv, Coming, Stale

LEMMA NextAnnounce == TypeInv /\ AnnounceInv /\ [Next]_vars => AnnounceInv'
<1> SUFFICES ASSUME TypeInv, AnnounceInv, [Next]_vars PROVE AnnounceInv'
  OBVIOUS
<1>1. ResolvedInv'
  BY ResolvedKeeps DEF AnnounceInv
<1>2. ASSUME NEW p \in Paths PROVE Coming(p)'
  <2>1. ResolvedInv /\ Coming(p)
    BY DEF AnnounceInv
  <2>2. CASE UNCHANGED vars
    BY <2>1, <2>2, QuietKeeps DEF vars, channel, inbox
  <2> QED BY <2>1, <2>2, ServerKeeps, WatcherKeeps, ConnectionKeeps, TabKeeps, EngineKeeps DEF Next
<1> QED BY <1>1, <1>2 DEF AnnounceInv

\* The debouncing, the flood control, a channel that drops, the coalescing of
\* handleEvent, the batches of runFlush and the marks of the dirty queue never lose a
\* change between them, for any number of files, changes and faults and whatever the
\* thresholds and the capacity are.
THEOREM NoChangeIsLost == Spec => []StaleIsAnnounced
<1>1. TypeInv /\ AnnounceInv => StaleIsAnnounced
  <2> SUFFICES ASSUME TypeInv, AnnounceInv, NEW p \in Paths, Stale(p), missed[p] = "no"
               PROVE  Announced(p)
    BY DEF StaleIsAnnounced
  <2>1. Way(p)
    BY DEF AnnounceInv, Coming
  <2>2. OnServer(p) => Announced(p)
    BY DEF OnServer, Announced
  <2>3. Swept => Announced(p)
    <3>1. \A e : e = resync => Announces(e, p)
      BY DEF resync, Event, Announces
    <3> QED BY <3>1 DEF Swept, Announced
  <2>4. \A e \in GoodFor(p) : e.name = p => Announces(e, p)
    BY DEF GoodFor, Announces
  <2>5. Acted(p) => marks[p] # None /\ ~skipped(p)
    BY DEF Acted, skipped, shouldSkip
  <2>6. Newest(p) => Announced(p)
    <3>1. CASE InSeq(chan, p)
      BY <2>4, <3>1 DEF Newest, Ends, LastIn, Announced
    <3>2. CASE ~InSeq(chan, p) /\ Of(box, p) # {}
      BY <2>4, <3>2 DEF Newest, Ends, Of, Announced
    <3>3. CASE ~InSeq(chan, p) /\ Of(box, p) = {} /\ Of(flush.changes, p) # {}
      BY <2>4, <3>3 DEF Newest, Ends, Of, Announced
    <3>4. CASE ~InSeq(chan, p) /\ Of(box, p) = {} /\ Of(flush.changes, p) = {}
      BY <2>5, <3>4 DEF Newest, Ends, Announced
    <3> QED BY <3>1, <3>2, <3>3, <3>4
  <2> QED BY <2>1, <2>2, <2>3, <2>6 DEF Way
<1>2. Spec => []AnnounceInv
  BY InitAnnounce, NextAnnounce, TypeInvHolds, PTL DEF Spec
<1> QED BY <1>1, <1>2, TypeInvHolds, PTL
=============================================================================
