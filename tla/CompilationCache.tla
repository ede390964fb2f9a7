---- MODULE CompilationCache ----
(***************************************************************************)
(* The disk cache of compiled binaries (cutile_cache/_cache.py) as the     *)
(* processes of one machine share it.  A compilation looks its key up,     *)
(* compiles on a miss, stores the binary and evicts old entries            *)
(* (compile_tile in cuda/tile/_compile.py); `cutile-cache log` pages       *)
(* through the entries.  Every operation opens a connection of its own.    *)
(*                                                                         *)
(* SQLite is external and modelled from its use: a statement sees the      *)
(* committed rows of the file its connection opened, the first change of a *)
(* transaction takes the write lock, a process that finds the file locked  *)
(* waits and may give up with an error, and a file that was unlinked stays *)
(* readable to those who have it open but takes no new transaction.        *)
(***************************************************************************)
EXTENDS Integers, Sequences, FiniteSets, Functions

CONSTANTS
    Compilers,      \* processes that compile kernels
    Lister,         \* the process that runs `cutile-cache log`; it may compile as well
    Keys,           \* cache keys; numbers, for ORDER BY
    Size,           \* Size[k]: bytes of the binary of key k (blob_size)
    SizeLimit,      \* CUDA_TILE_CACHE_SIZE
    RowLimit,       \* first row_limit of evict_lru (100)
    RowFactor,      \* its growth (10)
    BatchSize,      \* _CACHE_ENTRY_BATCH_SIZE
    MaxCounts,      \* max_count arguments of cache_entries; negative: unlimited
    MaxClock,       \* bound: last value of time.time()
    MaxFiles        \* bound: database files ever created

ASSUME CacheAssumption ==
    /\ Keys \subseteq Nat \ {0} /\ IsFiniteSet(Keys)
    /\ Size \in [Keys -> Nat \ {0}] /\ SizeLimit \in Nat
    /\ RowLimit \in Nat \ {0} /\ RowFactor \in Nat \ {0, 1}
    /\ BatchSize \in Nat \ {0} /\ MaxCounts \subseteq Int
    /\ MaxClock \in Nat /\ MaxFiles \in Nat \ {0}

VARIABLES
    files,      \* files[f]: rows of the database file f, atime per key
    path,       \* the file at <cache_dir>/cache.db, 0 if there is none
    made,       \* number of files created so far
    corrupt,    \* files that are damaged
    clock,      \* time.time()
    proc,       \* proc[p]: where the process is in its operation
    listing     \* what cache_entries has yielded, and its cursor

vars == <<files, path, made, corrupt, clock, proc, listing>>

Procs == Compilers \cup {Lister}
Absent == -1
Rows == [Keys -> 0..MaxClock \cup {Absent}]
NoRows == [k \in Keys |-> Absent]

\* conn: the file the connection has open; stamp: the time.time() a statement
\* will write; locked, txn: whether it has a transaction open, and its rows;
\* rows: row_limit of evict_lru.
Process == [pc     : {"idle", "connect", "recreate", "reconnect", "select", "write",
                      "commit", "compile", "page", "listed"},
            op     : {"none", "lookup", "store", "evict", "list"},
            key    : Keys \cup {0},
            conn   : 0..MaxFiles,
            stamp  : 0..MaxClock,
            locked : BOOLEAN,
            txn    : Rows,
            rows   : Nat]

\* bounded: whether max_count limits it; last: <<last_atime, last_key>>, <<>>
\* before the first batch; listed: the rows yielded; watched: keys whose row is as it was when the listing opened the file.
Listing == [bounded   : BOOLEAN,
            max       : Nat,
            remaining : Nat,
            last      : Seq(Int),
            listed    : Seq((0..MaxClock) \X Keys),
            watched   : SUBSET Keys]

Idle == [pc |-> "idle", op |-> "none", key |-> 0, conn |-> 0, stamp |-> 0,
         locked |-> FALSE, txn |-> NoRows, rows |-> 0]

NoListing == [bounded |-> FALSE, max |-> 0, remaining |-> 0,
              last |-> <<>>, listed |-> <<>>, watched |-> {}]

Init ==
    /\ files = [f \in 1..MaxFiles |-> NoRows]
    /\ path = 0 /\ made = 0 /\ corrupt = {} /\ clock = 0
    /\ proc = [p \in Procs |-> Idle]
    /\ listing = NoListing

----
(* The rows of a table, in the order of the index on (atime, key). *)

Entries(c) == {k \in Keys : c[k] # Absent}

Older(c, j, k) == c[j] < c[k] \/ (c[j] = c[k] /\ j < k)

\* A mistake: ORDER BY key.
UpToByKey(c, k) == {j \in Entries(c) : j <= k}

\* The rows up to and including k's, and SUM(blob_size) OVER (ORDER BY atime, key).
UpTo(c, k) == {j \in Entries(c) : j = k \/ Older(c, j, k)}
Bytes(S) == FoldFunctionOnSet(+, 0, Size, S)
Cumulative(c, k) == Bytes(UpTo(c, k))
Total(c) == Bytes(Entries(c))

Without(c, S) == [k \in Keys |-> IF k \in S THEN Absent ELSE c[k]]

----
(* Connections and errors. *)

\* Another process has a transaction open on the file.
LockedByOther(p, f) == \E q \in Procs \ {p} : proc[q].locked /\ proc[q].conn = f

\* sqlite3.Error: "database is locked" after the timeout, a file that is
\* malformed, or one that has been unlinked.
Errors(p, f) == LockedByOther(p, f) \/ f \in corrupt \/ f # path

Closed(r) == [r EXCEPT !.conn = 0, !.stamp = 0, !.locked = FALSE, !.txn = NoRows, !.rows = 0]

\* What a process does after an operation, whether it succeeded or its error was
\* caught: a lookup that found nothing compiles, a store evicts, evict ends.
Continue(r) ==
    CASE r.op = "lookup" -> [Closed(r) EXCEPT !.pc = "compile"]
      [] r.op = "store"  -> [Closed(r) EXCEPT !.pc = "connect", !.op = "evict"]
      [] OTHER           -> Idle

\* The first statement after _connect.  cache_store takes its time stamp before
\* it waits for the lock.
Opened(r, f) ==
    [r EXCEPT !.conn  = f,
              !.pc    = CASE r.op = "lookup" -> "select"
                          [] r.op = "list"   -> "page"
                          [] OTHER           -> "write",
              !.stamp = IF r.op = "store" THEN clock ELSE 0,
              !.rows  = IF r.op = "evict" THEN RowLimit ELSE 0]

\* _open_db: the file at the path, created if there is none.
OpenDb(p) ==
    /\ path # 0 \/ made < MaxFiles
    /\ path \notin corrupt
    /\ LET f == IF path = 0 THEN made + 1 ELSE path
       IN  /\ path' = f
           /\ made' = IF path = 0 THEN f ELSE made
           /\ proc' = [proc EXCEPT ![p] = Opened(@, f)]
           /\ listing' = IF proc[p].op = "list"
                         THEN [listing EXCEPT !.watched = Entries(files[f])] ELSE listing
    /\ UNCHANGED <<files, corrupt, clock>>

Connect(p) == proc[p].pc \in {"connect", "reconnect"} /\ OpenDb(p)

\* _open_db fails the first time: whatever the error is, the file is taken for
\* corrupt.
ConnectFails(p) ==
    /\ proc[p].pc = "connect" /\ path # 0 /\ Errors(p, path)
    /\ proc' = [proc EXCEPT ![p].pc = "recreate"]
    /\ UNCHANGED <<files, path, made, corrupt, clock, listing>>

\* A mistake: the connection is tried again on the same file.
UnlinkRetries(p) ==
    /\ proc[p].pc = "recreate"
    /\ proc' = [proc EXCEPT ![p].pc = "connect"]
    /\ UNCHANGED <<files, path, made, corrupt, clock, listing>>

\* os.unlink of whatever file is at the path by now.
Unlink(p) ==
    /\ proc[p].pc = "recreate" /\ made < MaxFiles
    /\ path' = 0
    /\ proc' = [proc EXCEPT ![p].pc = "reconnect"]
    /\ UNCHANGED <<files, made, corrupt, clock, listing>>

UnlinkFails(p) ==
    /\ proc[p].pc = "recreate"
    /\ proc' = [proc EXCEPT ![p].pc = "reconnect"]
    /\ UNCHANGED <<files, path, made, corrupt, clock, listing>>

\* The generator of a listing that does not go on is closed.
Abandoned(p) == listing' = IF proc[p].op = "list" THEN NoListing ELSE listing

\* The second _open_db, or a statement, raises sqlite3.Error: the transaction is
\* rolled back, the connection closed, and the error caught by the operation (by
\* the command, for a listing).
Fail(p) ==
    /\ \/ proc[p].pc = "reconnect" /\ path # 0 /\ Errors(p, path)
       \/ proc[p].pc \in {"select", "write", "commit", "page"} /\ Errors(p, proc[p].conn)
    /\ proc' = [proc EXCEPT ![p] = Continue(@)]
    /\ Abandoned(p)
    /\ UNCHANGED <<files, path, made, corrupt, clock>>

\* os.makedirs raises OSError.  evict_lru does not catch it, so compile_tile
\* raises; the process is done with the request all the same.
MakedirsFails(p) ==
    /\ proc[p].pc = "connect"
    /\ proc' = [proc EXCEPT ![p] = Continue(@)]
    /\ Abandoned(p)
    /\ UNCHANGED <<files, path, made, corrupt, clock>>

----
(* A compilation: lookup, compile on a miss, store, evict. *)

Request(p, k) ==
    /\ p \in Compilers /\ proc[p].pc = "idle"
    /\ proc' = [proc EXCEPT ![p] = [Idle EXCEPT !.pc = "connect", !.op = "lookup", !.key = k]]
    /\ UNCHANGED <<files, path, made, corrupt, clock, listing>>

\* SELECT blob: on a hit the time stamp is taken, and written later.
Select(p) ==
    /\ proc[p].pc = "select"
    /\ proc' = [proc EXCEPT ![p] = IF @.key \in Entries(files[@.conn])
                                     THEN [@ EXCEPT !.pc = "write", !.stamp = clock]
                                     ELSE Continue(@)]
    /\ UNCHANGED <<files, path, made, corrupt, clock, listing>>

\* The compiler ends, with a binary or with TileCompilerError.
Compile(p) ==
    /\ proc[p].pc = "compile"
    /\ proc' = [proc EXCEPT ![p] = [@ EXCEPT !.pc = "connect", !.op = "store"]]
    /\ UNCHANGED <<files, path, made, corrupt, clock, listing>>

CompileFails(p) ==
    /\ proc[p].pc = "compile"
    /\ proc' = [proc EXCEPT ![p] = Idle]
    /\ UNCHANGED <<files, path, made, corrupt, clock, listing>>

\* A mistake: the time stamp is written with INSERT OR REPLACE.
TouchedUpsert(c, k, t) == [c EXCEPT ![k] = t]

\* UPDATE cache SET atime: no row if the entry has been evicted meanwhile.
Touched(c, k, t) == IF k \in Entries(c) THEN [c EXCEPT ![k] = t] ELSE c

\* INSERT OR IGNORE.
Inserted(c, k, t) == IF k \in Entries(c) THEN c ELSE [c EXCEPT ![k] = t]

\* A mistake: what is removed stays below the excess.
EvictableShort(c, limit) ==
    {k \in Entries(c) : /\ Cardinality(UpTo(c, k)) <= limit
                        /\ Cumulative(c, k) < Total(c) - SizeLimit}

\* The rows one DELETE of evict_lru selects: of the row_limit oldest, those that
\* together take no more than the excess over the limit.
Evictable(c, limit) ==
    {k \in Entries(c) : /\ Cardinality(UpTo(c, k)) <= limit
                        /\ Cumulative(c, k) <= Total(c) - SizeLimit}

\* The loop ends when a DELETE removed fewer rows than it could.
LastDelete(S, limit) == Cardinality(S) < limit

\* A statement runs in the process's transaction, which its first one opens.
MayWrite(p) == proc[p].locked \/ (proc[p].conn = path /\ ~LockedByOther(p, path))
Table(r) == IF r.locked THEN r.txn ELSE files[r.conn]

UpdateOrInsert(p) ==
    LET r == proc[p]
        c == Table(r)
    IN  /\ r.pc = "write" /\ r.op \in {"lookup", "store"} /\ MayWrite(p)
        /\ proc' = [proc EXCEPT
               ![p].pc     = "commit",
               ![p].locked = TRUE,
               ![p].txn    = IF r.op = "lookup" THEN Touched(c, r.key, r.stamp)
                                                ELSE Inserted(c, r.key, r.stamp)]
        /\ UNCHANGED <<files, path, made, corrupt, clock, listing>>

Delete(p) ==
    LET r    == proc[p]
        c    == Table(r)
        gone == Evictable(c, r.rows)
        last == LastDelete(gone, r.rows)
    IN  /\ r.pc = "write" /\ r.op = "evict" /\ MayWrite(p)
        /\ proc' = [proc EXCEPT
               ![p].pc     = IF last THEN "commit" ELSE "write",
               ![p].locked = TRUE,
               ![p].txn    = Without(c, gone),
               ![p].rows   = IF last THEN 0 ELSE r.rows * RowFactor]
        /\ UNCHANGED <<files, path, made, corrupt, clock, listing>>

\* The rows become visible in the file the connection has open.  A lookup returns
\* the binary it has read; the others go on.
Commit(p) ==
    /\ proc[p].pc = "commit"
    /\ LET f == proc[p].conn
       IN  /\ files' = [files EXCEPT ![f] = proc[p].txn]
           /\ listing' = IF proc[Lister].op = "list" /\ proc[Lister].conn = f
                         THEN [listing EXCEPT !.watched =
                                   {k \in @ : files[f][k] = proc[p].txn[k]}]
                         ELSE listing
    /\ proc' = [proc EXCEPT ![p] = IF @.op = "lookup" THEN Idle ELSE Continue(@)]
    /\ UNCHANGED <<path, made, corrupt, clock>>

----
(* cache_entries: batches in descending (atime, key), each a query of its own. *)

StartListing(m) ==
    /\ proc[Lister].pc = "idle"
    /\ proc' = [proc EXCEPT ![Lister] = [Idle EXCEPT !.pc = "connect", !.op = "list"]]
    /\ LET n == IF m < 0 THEN 0 ELSE m
       IN  listing' = [bounded |-> m >= 0, max |-> n, remaining |-> n,
                       last |-> <<>>, listed |-> <<>>, watched |-> {}]
    /\ UNCHANGED <<files, path, made, corrupt, clock>>

\* Mistakes: the cursor compares the time alone, or does not exclude its own row.
BeforeCursorByTime(c, k, last) == c[k] < last[1]
BeforeCursorOrAt(c, k, last) == c[k] < last[1] \/ (c[k] = last[1] /\ k <= last[2])

\* WHERE (atime, key) < (last_atime, last_key)
BeforeCursor(c, k, last) == c[k] < last[1] \/ (c[k] = last[1] /\ k < last[2])

\* ORDER BY atime DESC, key DESC LIMIT n: row i has i - 1 rows in front of it.
Batch(c, last, n) ==
    LET candidates == {k \in Entries(c) : last # <<>> => BeforeCursor(c, k, last)}
        InFront(k) == {j \in candidates : Older(c, k, j)}
        row(i)     == CHOOSE k \in candidates : Cardinality(InFront(k)) = i - 1
        count      == Cardinality(candidates)
    IN  [i \in 1..(IF n < count THEN n ELSE count) |-> <<c[row(i)], row(i)>>]

BatchLimit == IF listing.bounded /\ listing.remaining < BatchSize
              THEN listing.remaining ELSE BatchSize

Exhausted == listing.bounded /\ listing.remaining = 0

Page ==
    /\ proc[Lister].pc = "page" /\ ~Exhausted
    /\ LET rows == Batch(files[proc[Lister].conn], listing.last, BatchLimit)
       IN  /\ rows # <<>>
           /\ listing' = [listing EXCEPT
                  !.listed    = @ \o rows,
                  !.last      = rows[Len(rows)],
                  !.remaining = IF listing.bounded THEN @ - Len(rows) ELSE @]
    /\ UNCHANGED <<files, path, made, corrupt, clock, proc>>

ListingEnds ==
    /\ proc[Lister].pc = "page"
    /\ \/ Exhausted
       \/ Batch(files[proc[Lister].conn], listing.last, BatchLimit) = <<>>
    /\ proc' = [proc EXCEPT ![Lister] = [Idle EXCEPT !.pc = "listed"]]
    /\ UNCHANGED <<files, path, made, corrupt, clock, listing>>

----
(* The environment. *)

Tick ==
    /\ clock < MaxClock
    /\ clock' = clock + 1
    /\ UNCHANGED <<files, path, made, corrupt, proc, listing>>

\* A process dies (or the reader of a listing stops reading): an open transaction
\* is rolled back.
Crash(p) ==
    /\ proc[p].pc \notin {"idle", "listed"}
    /\ proc' = [proc EXCEPT ![p] = Idle]
    /\ Abandoned(p)
    /\ UNCHANGED <<files, path, made, corrupt, clock>>

\* The file is damaged from outside.
Damage ==
    /\ path # 0 /\ made < MaxFiles
    /\ corrupt' = corrupt \cup {path}
    /\ UNCHANGED <<files, path, made, clock, proc, listing>>

Step(p) ==
    \/ Connect(p) \/ ConnectFails(p) \/ Unlink(p) \/ UnlinkFails(p)
    \/ Fail(p) \/ MakedirsFails(p)
    \/ Select(p) \/ Compile(p) \/ CompileFails(p)
    \/ UpdateOrInsert(p) \/ Delete(p) \/ Commit(p)

ListerStep == Step(Lister) \/ Page \/ ListingEnds

Next ==
    \/ \E p \in Procs : Step(p) \/ Crash(p)
    \/ \E p \in Compilers, k \in Keys : Request(p, k)
    \/ \E m \in MaxCounts : StartListing(m)
    \/ Page \/ ListingEnds \/ Tick \/ Damage

\* A process that is running gets to run, and SQLite waits no longer than its
\* timeout; nobody has to make a request, and the environment need not move.
Spec == /\ Init /\ [][Next]_vars
        /\ \A p \in Compilers : WF_vars(Step(p))
        /\ WF_vars(ListerStep)

----
(* Properties. *)

\* Every variable keeps its type.
TypeOK ==
    /\ files \in [1..MaxFiles -> Rows]
    /\ path \in 0..MaxFiles /\ made \in 0..MaxFiles /\ corrupt \subseteq 1..MaxFiles
    /\ clock \in 0..MaxClock
    /\ proc \in [Procs -> Process]
    /\ listing \in Listing

\* A commit changes what its operation is about and nothing else, however the
\* operations of the processes overlap: a lookup moves the time stamp of its own
\* entry and never brings back one that was evicted after it was read; a store adds
\* its own entry or leaves the existing one alone; an eviction only removes.
Confined(op, key, old, new) ==
    \/ /\ op = "lookup" /\ Entries(new) = Entries(old)
       /\ \A k \in Keys \ {key} : new[k] = old[k]
    \/ /\ op = "store"
       /\ \A k \in Keys : new[k] = old[k] \/ (k = key /\ old[k] = Absent)
    \/ /\ op = "evict"
       /\ \A k \in Keys : new[k] = old[k] \/ new[k] = Absent

CommitsAreConfined ==
    [][\A p \in Compilers : Commit(p) =>
           Confined(proc[p].op, proc[p].key, files[proc[p].conn], files'[proc[p].conn])]_vars

\* What an eviction that commits has removed and what it has left.
Evicts(p) == Commit(p) /\ proc[p].op = "evict"
Evicted(p) == Entries(files[proc[p].conn]) \ Entries(files'[proc[p].conn])
Kept(p) == Entries(files'[proc[p].conn])

\* No entry evict_lru removes was used more recently than one it keeps, whichever
\* way the entries were looked up and stored before and during the eviction.
EvictsOldestFirst ==
    [][\A p \in Compilers : Evicts(p) =>
           \A g \in Evicted(p), k \in Kept(p) :
               files[proc[p].conn][g] <= files[proc[p].conn][k]]_vars

\* However many DELETEs it takes, evict_lru touches nothing while the cache is within
\* the limit, and leaves less than one entry too many: without the oldest of the
\* entries it keeps, they would fit.
EvictsWhatItMust ==
    [][\A p \in Compilers : Evicts(p) =>
           /\ Evicted(p) # {} => Total(files[proc[p].conn]) > SizeLimit
           /\ \A k \in Kept(p) :
                  (\A j \in Kept(p) : j = k \/ Older(files[proc[p].conn], k, j))
                      => Bytes(Kept(p) \ {k}) < SizeLimit]_vars

\* cache_entries yields its rows in strictly descending order of (atime, key) and
\* no more than max_count of them, although each batch reads the table anew.
ListingInOrder ==
    /\ \A i, j \in 1..Len(listing.listed) : i < j =>
           LET a == listing.listed[i]
               b == listing.listed[j]
           IN  b[1] < a[1] \/ (b[1] = a[1] /\ b[2] < a[2])
    /\ listing.bounded => Len(listing.listed) <= listing.max

\* cache_entries misses no entry that stays as it was from the time the database was
\* opened, however many entries are stored, looked up and evicted between two
\* batches: the ones at or above the cursor have been listed, and when the listing
\* ends before max_count all of them have.
Listed(k) == \E i \in 1..Len(listing.listed) : listing.listed[i][2] = k
ListingSkipsNothing ==
    /\ proc[Lister].pc = "page" /\ listing.last # <<>> =>
           LET c == files[proc[Lister].conn]
           IN  \A k \in listing.watched :
                   Listed(k) \/ c[k] < listing.last[1]
                             \/ (c[k] = listing.last[1] /\ k < listing.last[2])
    /\ proc[Lister].pc = "listed" /\ ~Exhausted => \A k \in listing.watched : Listed(k)

\* A listing is right at every point: ordered, bounded and complete so far (cache_entries).
ListingInv == TypeOK /\ ListingInOrder /\ ListingSkipsNothing

\* Every request ends: no process waits for ever for a lock, a connection or the
\* next round of an eviction, and no listing goes on for ever.
EveryRequestEnds ==
    \A p \in Procs : proc[p].pc \notin {"idle", "listed"} ~> proc[p].pc \in {"idle", "listed"}
====
