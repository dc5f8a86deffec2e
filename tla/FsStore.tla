------------------------------- MODULE FsStore -------------------------------
(***************************************************************************)
(* The server's file handlers (server/src/handlers/fs.rs) over a directory *)
(* on disk, with the path locks, the mutation lock and the cache of hashes *)
(* of server/src/fs_guard.rs, and the commits of the revision history that *)
(* run beside them.                                                        *)
(*                                                                         *)
(* A thread of the blocking pool runs one request.  One action is the code *)
(* between two accesses to state that other threads share: a stat, a read, *)
(* a rename, a look into the cache, a lock.  A hash is the content itself. *)
(* A stamp stands for what a stat tells of a file's revision, its          *)
(* modification time and its size.  A PUT sets the modification time from  *)
(* its request, and other programs set it too, so a stamp may repeat:      *)
(* Repeats says whether it does.                                           *)
(*                                                                         *)
(* Reading a file is a stat and then a read, and GET takes no lock.  A     *)
(* program other than the server may write to the directory at any time    *)
(* outside the windows named by Exposed.                                   *)
(***************************************************************************)
EXTENDS Naturals, FiniteSets, Sequences

CONSTANTS
    Paths, Contents, None, Star, Unmergeable, Merge(_, _, _),
    Threads,        \* slots for requests in flight
    LockIds,        \* identities of the Arc<Mutex<()>> objects
    Capacity,       \* HASH_CACHE_CAPACITY
    SweepAbove,     \* LOCK_SWEEP_THRESHOLD
    Attempts,       \* MAX_RECONCILE_ATTEMPTS
    Seeds,          \* what files contain at first and other programs write
    Offered,        \* the requests that clients send
    Repeats,        \* whether a write may leave a stamp that was seen before
    MaxStamp,       \* bound: writes to the directory
    MaxForeign,     \* bound: writes by other programs
    MaxCommits,     \* bound: commits of the revision history
    AnyWindow       \* whether other programs write in the exposed windows too

Writes == {"put", "delete", "reconcile"}
Handlers == Writes \cup {"get", "head", "meta"}
Stamps == Nat
Files == [content : Contents, stamp : Stamps]
Requests ==
    [op : Handlers, path : Paths, ifMatch : Contents \cup {None, Star},
     ifNone : BOOLEAN, base : Contents, body : Contents]
Answers ==
    [status : {"ok", "precondition", "missing", "conflict", "retry"},
     hash : Contents \cup {None}]

ASSUME BoundsAssumption ==
    /\ Capacity \in Nat /\ SweepAbove \in Nat /\ Attempts \in Nat \ {0}
    /\ MaxStamp \in Nat /\ MaxForeign \in Nat /\ MaxCommits \in Nat
    /\ AnyWindow \in BOOLEAN /\ Repeats \in BOOLEAN
    /\ Offered \subseteq Requests /\ Seeds \subseteq Contents

ASSUME MergeAssumption ==
    /\ Unmergeable \subseteq Contents
    /\ \A a, b, c \in Contents : Merge(a, b, c) \in Contents \cup {None}

ASSUME UndefinedAssumption ==
    /\ Star # None /\ Star \notin Contents /\ None \notin Contents
    /\ None \notin LockIds /\ None \notin Threads /\ None \notin Stamps
    /\ None \notin Files /\ None \notin Requests /\ None \notin Answers
    /\ None \notin [stamp : Stamps, hash : Contents]

VARIABLES
    disk,       \* the file of each path, or None
    clock,      \* the last stamp a write left
    entries,    \* HashCache.entries: the recorded stamp and hash, or None
    order,      \* HashCache.order
    locks,      \* FsGuard.locks: the lock in the table for each path, or None
    arc,        \* per thread: the lock it holds a reference to, or None
    owner,      \* per lock: the thread that locked it, or None
    pc,         \* per thread: its next step
    req,        \* per thread: its request
    reg,        \* per thread: its locals
    ans,        \* per thread: its answer, once decided
    commit,     \* the commit that holds commit_lock: whether one runs, whether it
                \* holds mutation too, the paths it has read and what it read
    foreign,    \* writes by other programs so far
    commits     \* commits so far

vars == <<disk, clock, entries, order, locks, arc, owner, pc, req, reg, ans,
          commit, foreign, commits>>

\* Why a thread reads a file or its hash.
Reasons == {"none", "exists", "match", "deleted", "meta", "get", "head", "current", "again"}
Labels == {"idle", "parse", "rejected", "lock", "acquire", "check", "hash", "stat", "read",
           "lookup", "record", "write", "restat", "note", "remove", "forget", "respond"}
Locals == [why : Reasons, stamp : Stamps \cup {None},
           data : Contents \cup {None}, out : Contents \cup {None},
           tries : 0..(Attempts - 1)]
Fresh == [why |-> "none", stamp |-> None, data |-> None, out |-> None, tries |-> 0]

\* The steps a thread takes while it holds mutation for reading, and the ones
\* it takes while it holds its path's lock.
Mutating == {"lock", "acquire", "check", "hash", "stat", "read", "record", "write",
             "restat", "note", "remove", "forget", "respond"}
Locked == Mutating \ {"lock", "acquire"}

Reads(t) == pc[t] # "idle" /\ req[t].op \notin Writes
InMutation(t) == ~Reads(t) /\ pc[t] \in Mutating
InLock(t) == ~Reads(t) /\ pc[t] \in Locked

NoCommit == [on |-> FALSE, gated |-> FALSE, read |-> {}, tree |-> [p \in Paths |-> None]]

Answer(status, hash) == [status |-> status, hash |-> hash]

Init ==
    /\ disk \in [Paths -> [content : Seeds, stamp : {0}] \cup {None}]
    /\ clock = 0
    /\ entries = [p \in Paths |-> None] /\ order = <<>>
    /\ locks = [p \in Paths |-> None]
    /\ arc = [t \in Threads |-> None] /\ owner = [l \in LockIds |-> None]
    /\ pc = [t \in Threads |-> "idle"] /\ req = [t \in Threads |-> None]
    /\ reg = [t \in Threads |-> Fresh] /\ ans = [t \in Threads |-> None]
    /\ commit = NoCommit
    /\ foreign = 0 /\ commits = 0

\* The stamps a write may leave.
NewStamps == IF Repeats THEN 0..(clock + 1) ELSE {clock + 1}

Goto(t, l) == pc' = [pc EXCEPT ![t] = l]
Unlocked == UNCHANGED <<locks, arc, owner>>
Uncached == UNCHANGED <<entries, order>>
Elsewhere == UNCHANGED <<req, commit, foreign, commits>>

-----------------------------------------------------------------------------
(* fs_guard.rs                                                             *)

cachedHash(p, stamp) ==
    IF entries[p] # None /\ entries[p].stamp = stamp THEN entries[p].hash ELSE None

\* Mutant: the eviction queue keeps one entry more than its capacity.
recordOneMore(p, stamp, hash) ==
    LET queue == IF entries[p] = None THEN Append(order, p) ELSE order
        full == Len(queue) > Capacity + 1
    IN  /\ order' = IF full THEN Tail(queue) ELSE queue
        /\ entries' = [q \in Paths |->
              IF full /\ q = Head(queue) THEN None
              ELSE IF q = p THEN [stamp |-> stamp, hash |-> hash] ELSE entries[q]]

\* FsGuard::record.  The queue is at most one too long, so the loop that
\* evicts runs at most once; it may evict the path it just recorded.
record(p, stamp, hash) ==
    LET queue == IF entries[p] = None THEN Append(order, p) ELSE order
        full == Len(queue) > Capacity
    IN  /\ order' = IF full THEN Tail(queue) ELSE queue
        /\ entries' = [q \in Paths |->
              IF full /\ q = Head(queue) THEN None
              ELSE IF q = p THEN [stamp |-> stamp, hash |-> hash] ELSE entries[q]]

\* FsGuard::forget leaves the path in the eviction queue.
forget(p) ==
    /\ entries' = [entries EXCEPT ![p] = None]
    /\ UNCHANGED order

Held == {arc[t] : t \in Threads} \ {None}

\* Mutant: the sweep drops locks that are in use.
sweptAll == [p \in Paths |-> None]

\* Arc::strong_count(lock) > 1: a thread holds a reference besides the table.
swept == [p \in Paths |-> IF locks[p] \in Held THEN locks[p] ELSE None]

\* FsGuard::path_lock
path_lock(t) ==
    /\ pc[t] = "lock"
    /\ LET p == req[t].path
           table == IF Cardinality({q \in Paths : locks[q] # None}) > SweepAbove
                    THEN swept ELSE locks
           taken == Held \cup {table[q] : q \in Paths}
       IN  \E l \in IF table[p] # None THEN {table[p]} ELSE LockIds \ taken :
              /\ locks' = [table EXCEPT ![p] = l]
              /\ arc' = [arc EXCEPT ![t] = l]
    /\ Goto(t, "acquire")
    /\ UNCHANGED <<disk, clock, owner, reg, ans>> /\ Uncached /\ Elsewhere

\* lock.lock()
Acquire(t) ==
    /\ pc[t] = "acquire" /\ owner[arc[t]] = None
    /\ owner' = [owner EXCEPT ![arc[t]] = t]
    /\ Goto(t, IF req[t].op = "reconcile" THEN "stat" ELSE "check")
    /\ reg' = [reg EXCEPT ![t].why = IF req[t].op = "reconcile" THEN "current" ELSE "none"]
    /\ UNCHANGED <<disk, clock, locks, arc, ans>> /\ Uncached /\ Elsewhere

\* Mutant: a refused precondition leaves the path locked.
RespondKeepingLock(t) ==
    /\ pc[t] \in {"respond", "rejected"}
    /\ owner' = [l \in LockIds |->
          IF owner[l] = t /\ ans[t] # Answer("precondition", None) THEN None ELSE owner[l]]
    /\ arc' = [arc EXCEPT ![t] = None]
    /\ pc' = [pc EXCEPT ![t] = "idle"] /\ req' = [req EXCEPT ![t] = None]
    /\ reg' = [reg EXCEPT ![t] = Fresh] /\ ans' = [ans EXCEPT ![t] = None]
    /\ UNCHANGED <<disk, clock, locks, commit, foreign, commits>> /\ Uncached

\* The answer goes out and the guards are dropped.
Respond(t) ==
    /\ pc[t] \in {"respond", "rejected"}
    /\ owner' = [l \in LockIds |-> IF owner[l] = t THEN None ELSE owner[l]]
    /\ arc' = [arc EXCEPT ![t] = None]
    /\ pc' = [pc EXCEPT ![t] = "idle"] /\ req' = [req EXCEPT ![t] = None]
    /\ reg' = [reg EXCEPT ![t] = Fresh] /\ ans' = [ans EXCEPT ![t] = None]
    /\ UNCHANGED <<disk, clock, locks, commit, foreign, commits>> /\ Uncached

-----------------------------------------------------------------------------
(* Reading files and hashes                                                *)

Decide(t, status, hash) == ans' = [ans EXCEPT ![t] = Answer(status, hash)]

\* What follows once hash_for has the hash of the file (None: it failed):
\* the comparison with If-Match, the 412 of If-None-Match, the deletion, the
\* answer to a metadata request.
afterHash(t, h) ==
    CASE reg[t].why = "match" /\ h = req[t].ifMatch ->
           Goto(t, IF req[t].op = "put" THEN "write" ELSE "hash") /\ UNCHANGED ans
      [] reg[t].why = "match" /\ h # req[t].ifMatch ->
           /\ IF h = None THEN Decide(t, "missing", None)
              ELSE Decide(t, "precondition", h)
           /\ Goto(t, "respond")
      [] reg[t].why = "exists" -> Decide(t, "precondition", h) /\ Goto(t, "respond")
      [] reg[t].why = "deleted" -> Goto(t, "remove") /\ UNCHANGED ans
      [] OTHER -> Goto(t, "respond") /\ UNCHANGED ans

\* What the thread keeps: a PUT its body, a DELETE that passed If-Match the
\* reason for which it hashes once more.
AfterHash(t, h) ==
    /\ afterHash(t, h)
    /\ reg' = [reg EXCEPT ![t] =
          CASE @.why = "match" /\ req[t].op = "put" -> [Fresh EXCEPT !.out = req[t].body]
            [] @.why = "match" /\ req[t].op = "delete" -> [Fresh EXCEPT !.why = "deleted"]
            [] OTHER -> Fresh]

\* hash_for, up to the lookup in the cache.
HashFor(t) ==
    /\ pc[t] = "hash"
    /\ LET p == req[t].path
           h == IF disk[p] = None THEN None ELSE cachedHash(p, disk[p].stamp)
       IN  IF disk[p] = None \/ h # None
           THEN AfterHash(t, h)
           ELSE Goto(t, "stat") /\ UNCHANGED <<reg, ans>>
    /\ UNCHANGED <<disk, clock>> /\ Unlocked /\ Uncached /\ Elsewhere

\* Mutant: the loop of reconcile_locked runs once too often.
lastAttemptLate(t) == reg[t].tries = Attempts

lastAttempt(t) == reg[t].tries + 1 = Attempts

\* Mutant: the merged text is written over whatever the file holds now.
unchangedUnchecked(t, d) == TRUE

\* The second read found what the first did.
unchanged(t, d) == d = reg[t].data

\* What follows once reconcile_locked has read the current file (d, or None),
\* for the first time or, having merged, "again".
reconcile(t, d) ==
    LET r == req[t]
        To(l, new) == Goto(t, l) /\ reg' = [reg EXCEPT ![t] = new]
        again == reg[t].why = "again"
        merged == Merge(r.base, r.body, d)
    IN  IF again
        THEN IF unchanged(t, d)
             THEN To("write", [Fresh EXCEPT !.out = reg[t].out]) /\ UNCHANGED ans
             ELSE IF ~lastAttempt(t)
             THEN /\ To("stat", [Fresh EXCEPT !.why = "current", !.tries = reg[t].tries + 1])
                  /\ UNCHANGED ans
             ELSE IF d # None THEN Decide(t, "retry", d) /\ To("respond", Fresh)
             ELSE To("write", [Fresh EXCEPT !.out = r.body]) /\ UNCHANGED ans
        ELSE IF d = r.body THEN Decide(t, "ok", d) /\ To("note", [reg[t] EXCEPT !.out = d])
             ELSE IF d \in {None, r.base}
             THEN To("write", [Fresh EXCEPT !.out = r.body]) /\ UNCHANGED ans
             ELSE IF d \in Unmergeable \/ merged = None
             THEN Decide(t, "conflict", None) /\ To("respond", Fresh)
             ELSE /\ To("stat", [reg[t] EXCEPT !.why = "again", !.data = d, !.out = merged])
                  /\ UNCHANGED ans

\* space.read_file: the stat ...
Stat(t) ==
    /\ pc[t] = "stat"
    /\ LET f == disk[req[t].path] IN
       IF f # None
       THEN /\ reg' = [reg EXCEPT ![t].stamp = f.stamp]
            /\ Goto(t, IF reg[t].why = "head" THEN "lookup" ELSE "read")
            /\ UNCHANGED ans
       ELSE IF reg[t].why \in {"current", "again"} THEN reconcile(t, None)
       ELSE AfterHash(t, None)
    /\ UNCHANGED <<disk, clock>> /\ Unlocked /\ Uncached /\ Elsewhere

\* ... and the read.
Read(t) ==
    /\ pc[t] = "read"
    /\ LET f == disk[req[t].path]
           d == IF f = None THEN None ELSE f.content
       IN  IF reg[t].why \in {"current", "again"} THEN reconcile(t, d)
           ELSE IF d = None THEN AfterHash(t, None)
           ELSE /\ reg' = [reg EXCEPT ![t].data = d]
                /\ Goto(t, IF reg[t].why = "get" THEN "lookup" ELSE "record")
                /\ UNCHANGED ans
    /\ UNCHANGED <<disk, clock>> /\ Unlocked /\ Uncached /\ Elsewhere

\* GET and HEAD answer with the cached hash of what they stat'ed.  Without
\* one, GET hashes what it read and HEAD sends none.
Lookup(t) ==
    /\ pc[t] = "lookup"
    /\ LET h == cachedHash(req[t].path, reg[t].stamp) IN
       /\ Goto(t, IF h # None \/ reg[t].why = "head" THEN "respond" ELSE "record")
       /\ reg' = IF h # None \/ reg[t].why = "head" THEN [reg EXCEPT ![t] = Fresh] ELSE reg
    /\ UNCHANGED <<disk, clock, ans>> /\ Unlocked /\ Uncached /\ Elsewhere

\* Mutant: it is recorded under what a later stat tells.
RecordRestatted(t) ==
    /\ pc[t] = "record"
    /\ LET f == disk[req[t].path] IN
       record(req[t].path, IF f = None THEN reg[t].stamp ELSE f.stamp, reg[t].data)
    /\ AfterHash(t, reg[t].data)
    /\ UNCHANGED <<disk, clock>> /\ Unlocked /\ Elsewhere

\* The hash of what was read is recorded under what was stat'ed.
Record(t) ==
    /\ pc[t] = "record"
    /\ record(req[t].path, reg[t].stamp, reg[t].data)
    /\ AfterHash(t, reg[t].data)
    /\ UNCHANGED <<disk, clock>> /\ Unlocked /\ Elsewhere

-----------------------------------------------------------------------------
(* The handlers                                                            *)

Pending == Cardinality({t \in Threads : pc[t] # "idle" /\ req[t].op \in Writes})

\* A request arrives at its handler.
Begin(t, r) ==
    /\ pc[t] = "idle"
    /\ r.op \in Writes => clock + Pending + (MaxForeign - foreign) < MaxStamp
    /\ req' = [req EXCEPT ![t] = r]
    /\ reg' = [reg EXCEPT ![t].why = IF r.op \in {"get", "head", "meta"} THEN r.op ELSE "none"]
    /\ Goto(t, CASE r.op \in {"get", "head"} -> "stat"
                 [] r.op = "meta" -> "hash"
                 [] r.op \in Writes -> "parse")
    /\ UNCHANGED <<disk, clock, ans, commit, foreign, commits>> /\ Unlocked /\ Uncached

\* Before it takes a lock, a reconciliation refuses texts it can't merge.
Refused(t) ==
    req[t].op = "reconcile" /\ {req[t].base, req[t].body} \cap Unmergeable # {}

Refuse(t) ==
    /\ pc[t] = "parse" /\ Refused(t)
    /\ Decide(t, "conflict", None) /\ Goto(t, "rejected")
    /\ UNCHANGED <<disk, clock, reg>> /\ Unlocked /\ Uncached /\ Elsewhere

\* fs_guard.mutation.read()
EnterMutation(t) ==
    /\ pc[t] = "parse" /\ ~Refused(t) /\ ~commit.gated
    /\ Goto(t, "lock")
    /\ UNCHANGED <<disk, clock, reg, ans>> /\ Unlocked /\ Uncached /\ Elsewhere

\* evaluate_preconditions, up to the hash of the file.
verdict(r, f) ==
    CASE r.ifNone /\ f # None -> "exists"
      [] r.ifMatch # None /\ f = None -> "fail"
      [] r.ifMatch \notin {None, Star} /\ ~(r.ifNone /\ f # None) /\ f # None -> "match"
      [] OTHER -> "pass"

\* A PUT that passes writes; a DELETE that passes looks up the hash of what
\* it deletes.
Check(t) ==
    /\ pc[t] = "check"
    /\ LET r == req[t]
           v == verdict(r, disk[r.path])
       IN  IF v = "fail" THEN Decide(t, "precondition", None) /\ Goto(t, "respond")
                              /\ UNCHANGED reg
           ELSE /\ reg' = [reg EXCEPT ![t] =
                      CASE v # "pass" -> [Fresh EXCEPT !.why = v]
                        [] v = "pass" /\ r.op = "put" -> [Fresh EXCEPT !.out = r.body]
                        [] OTHER -> [Fresh EXCEPT !.why = "deleted"]]
                /\ Goto(t, IF v = "pass" /\ r.op = "put" THEN "write" ELSE "hash")
                /\ UNCHANGED ans
    /\ UNCHANGED <<disk, clock>> /\ Unlocked /\ Uncached /\ Elsewhere

\* space.write_file: the rename ...
Write(t) ==
    /\ pc[t] = "write"
    /\ \E s \in NewStamps :
          disk' = [disk EXCEPT ![req[t].path] = [content |-> reg[t].out, stamp |-> s]]
    /\ clock' = clock + 1
    /\ Decide(t, "ok", reg[t].out)
    /\ Goto(t, "restat")
    /\ UNCHANGED reg /\ Unlocked /\ Uncached /\ Elsewhere

\* ... and the stat of what is there after it.  If nothing is, the handler
\* answers 404, and a reconciliation 409.
Restat(t) ==
    /\ pc[t] = "restat"
    /\ LET f == disk[req[t].path] IN
       IF f = None
       THEN /\ Decide(t, IF req[t].op = "put" THEN "missing" ELSE "conflict", None)
            /\ Goto(t, "respond") /\ UNCHANGED reg
       ELSE /\ reg' = [reg EXCEPT ![t].stamp = f.stamp]
            /\ Goto(t, "note") /\ UNCHANGED ans
    /\ UNCHANGED <<disk, clock>> /\ Unlocked /\ Uncached /\ Elsewhere

\* The hash of what was written is recorded under what was stat'ed.
Note(t) ==
    /\ pc[t] = "note"
    /\ record(req[t].path, reg[t].stamp, reg[t].out)
    /\ reg' = [reg EXCEPT ![t] = Fresh]
    /\ Goto(t, "respond")
    /\ UNCHANGED <<disk, clock, ans>> /\ Unlocked /\ Elsewhere

\* space.delete_file
Remove(t) ==
    /\ pc[t] = "remove"
    /\ IF disk[req[t].path] = None
       THEN Decide(t, "missing", None) /\ Goto(t, "respond") /\ UNCHANGED disk
       ELSE /\ disk' = [disk EXCEPT ![req[t].path] = None]
            /\ Decide(t, "ok", None) /\ Goto(t, "forget")
    /\ UNCHANGED <<clock, reg>> /\ Unlocked /\ Uncached /\ Elsewhere

Forget(t) ==
    /\ pc[t] = "forget"
    /\ forget(req[t].path)
    /\ Goto(t, "respond")
    /\ UNCHANGED <<disk, clock, reg, ans>> /\ Unlocked /\ Elsewhere

-----------------------------------------------------------------------------
(* Commits and other programs                                              *)

Quiet == UNCHANGED <<clock, pc, req, reg, ans>> /\ Unlocked /\ Uncached

\* Mutant: a commit starts while requests write.
CommitBeginAnytime ==
    /\ ~commit.on /\ commits < MaxCommits
    /\ commit' = [NoCommit EXCEPT !.on = TRUE, !.gated = TRUE]
    /\ commits' = commits + 1
    /\ UNCHANGED <<disk, foreign>> /\ Quiet

\* The commit of a batch: commit_locked takes fs_guard.mutation.write().
CommitBegin ==
    /\ ~commit.on /\ commits < MaxCommits
    /\ \A t \in Threads : ~InMutation(t)
    /\ commit' = [NoCommit EXCEPT !.on = TRUE, !.gated = TRUE]
    /\ commits' = commits + 1
    /\ UNCHANGED <<disk, foreign>> /\ Quiet

\* The commits of everything, by the sweep and by the second half of
\* snapshot_now, hold commit_lock and not mutation.  What they read is left out.
SweepBegin ==
    /\ ~commit.on /\ commits < MaxCommits
    /\ commit' = [NoCommit EXCEPT !.on = TRUE]
    /\ commits' = commits + 1
    /\ UNCHANGED <<disk, foreign>> /\ Quiet

\* A batch is read file by file ...
CommitPath(p) ==
    /\ commit.gated /\ p \notin commit.read
    /\ commit' = [commit EXCEPT !.read = @ \cup {p}, !.tree[p] = disk[p]]
    /\ UNCHANGED <<disk, foreign, commits>> /\ Quiet

\* ... and lets go.
CommitEnd ==
    /\ commit.on
    /\ commit' = NoCommit
    /\ UNCHANGED <<disk, foreign, commits>> /\ Quiet

\* The windows in which the code can't see another program's write: a handler
\* has judged the file and not yet recorded what it did, or a batch is committed.
Exposed(p) ==
    \/ commit.gated
    \/ \E t \in Threads :
          /\ InLock(t) /\ req[t].path = p
          /\ IF req[t].op = "reconcile" THEN pc[t] \in {"write", "restat", "note"}
             ELSE pc[t] \notin {"check", "respond"}

\* Another program writes or deletes a file.  It too may set the time back.
Foreign(p) ==
    /\ foreign < MaxForeign
    /\ AnyWindow \/ ~Exposed(p)
    /\ \/ \E c \in Seeds, s \in NewStamps :
             disk' = [disk EXCEPT ![p] = [content |-> c, stamp |-> s]]
       \/ disk' = [disk EXCEPT ![p] = None]
    /\ clock' = clock + 1 /\ foreign' = foreign + 1
    /\ UNCHANGED <<pc, req, reg, ans, commit, commits>> /\ Unlocked /\ Uncached

-----------------------------------------------------------------------------
Step(t) ==
    \/ Refuse(t) \/ EnterMutation(t) \/ path_lock(t) \/ Acquire(t) \/ Check(t)
    \/ HashFor(t) \/ Stat(t) \/ Read(t) \/ Lookup(t) \/ Record(t)
    \/ Write(t) \/ Restat(t) \/ Note(t) \/ Remove(t) \/ Forget(t) \/ Respond(t)

Next ==
    \/ \E t \in Threads : Step(t) \/ \E r \in Offered : Begin(t, r)
    \/ CommitBegin \/ SweepBegin \/ CommitEnd \/ \E p \in Paths : CommitPath(p) \/ Foreign(p)

Spec == Init /\ [][Next]_vars

\* Threads are scheduled, and neither lock starves one that waits for it.
LiveSpec ==
    /\ Spec /\ WF_vars(CommitEnd)
    /\ \A t \in Threads :
          WF_vars(Step(t)) /\ SF_vars(Acquire(t)) /\ SF_vars(EnterMutation(t))

-----------------------------------------------------------------------------
TypeOK ==
    /\ disk \in [Paths -> Files \cup {None}] /\ clock \in Nat
    /\ entries \in [Paths -> [stamp : Stamps, hash : Contents] \cup {None}]
    /\ order \in Seq(Paths)
    /\ locks \in [Paths -> LockIds \cup {None}]
    /\ arc \in [Threads -> LockIds \cup {None}]
    /\ owner \in [LockIds -> Threads \cup {None}]
    /\ pc \in [Threads -> Labels] /\ req \in [Threads -> Requests \cup {None}]
    /\ reg \in [Threads -> Locals] /\ ans \in [Threads -> Answers \cup {None}]
    /\ commit \in [on : BOOLEAN, gated : BOOLEAN, read : SUBSET Paths, tree : [Paths -> Files \cup {None}]]
    /\ foreign \in 0..MaxForeign /\ commits \in 0..MaxCommits

\* At most one handler is between the checks and the answer for a path: the
\* sweep of the lock table never gives two requests different locks for it.
LockExclusive ==
    \A t, u \in Threads :
       t # u /\ InLock(t) /\ InLock(u) => req[t].path # req[u].path

\* The cache holds at most HASH_CACHE_CAPACITY hashes, although forget leaves
\* paths in the eviction queue and record then queues them again.
CacheBounded ==
    /\ Len(order) <= Capacity
    /\ Cardinality({p \in Paths : entries[p] # None}) <= Capacity

\* Whatever order the unlocked reads of GET and HEAD, the writes of handlers
\* and the writes of other programs take, a recorded hash that a stat of the
\* file vouches for is the hash of the file.
HashIsCurrent ==
    \A p \in Paths :
       disk[p] # None /\ entries[p] # None /\ entries[p].stamp = disk[p].stamp
          => entries[p].hash = disk[p].content

\* The commit of a batch, which holds the mutation lock, sees the directory as
\* it was at one moment, whatever requests, sweeps and snapshots surround it: no
\* request changes one of its files after it has read another.
CommitIsConsistent ==
    commit.gated => \A p \in commit.read : commit.tree[p] = disk[p]

\* Every request is answered: no thread waits for ever for a lock.
EveryRequestAnswered ==
    \A t \in Threads : pc[t] # "idle" ~> pc[t] = "idle"

\* The handlers implement the store of CondStore: a request takes effect when
\* its answer is decided, which for a write is the rename and for a deletion
\* the removal.
Store == INSTANCE CondStore WITH
    Clients <- Threads, Offered <- {r \in Offered : r.op \in Writes},
    file <- [p \in Paths |-> IF disk[p] = None THEN None ELSE disk[p].content],
    call <- [t \in Threads |->
       IF pc[t] = "idle" \/ Reads(t) THEN [state |-> "idle", req |-> None, ans |-> None]
       ELSE [state |-> IF ans[t] = None THEN "called" ELSE "applied",
             req |-> req[t], ans |-> ans[t]]]

\* Conditional PUT, conditional DELETE and reconciliation are atomic: each
\* judges and changes the content the file has at one moment.
Atomic == Store!Spec
=============================================================================
