---- MODULE StreamBufferPool ----
(***************************************************************************)
(* The staging memory for list arguments of a kernel launch                *)
(* (cext/stream_buffer.cpp and its use by stage_list_args_on_stream and    *)
(* launch in cext/tile_kernel.cpp).  Per CUDA stream a StreamBuffer keeps  *)
(* a list of chunks; a transaction carves regions out of the last chunk,   *)
(* enqueues a host-to-device copy and a kernel that use them, and on close *)
(* records an event on every chunk it touched.  A chunk whose event has    *)
(* completed is reclaimed for any stream.                                  *)
(*                                                                         *)
(* The transaction of a launch lives inside the global lock, so there is   *)
(* at most one at a time; the GPU works off the streams concurrently.      *)
(* The driver calls are external: an allocation, a copy or a launch may    *)
(* fail; work and events of one stream complete in order.                  *)
(***************************************************************************)
EXTENDS Integers, Sequences, FiniteSets

CONSTANTS
    Streams,
    Chunks,             \* chunks the driver has memory for
    Sizes,              \* requested sizes in bytes
    Alignment,          \* kAlignment
    InitialCapacity,    \* kInitialChunkCapacity
    Ratio,              \* kMinChunkToAllocationRatio
    Bits,               \* width of size_t
    NoChunk, NoTx,
    MaxAllocations,     \* bound: allocations of one transaction
    MaxQueued           \* bound: GPU operations waiting on one stream

ASSUME PoolAssumption ==
    /\ Sizes \subseteq Nat
    /\ Alignment \in Nat \ {0} /\ InitialCapacity \in Nat \ {0} /\ Ratio \in Nat \ {0}
    /\ Bits \in Nat \ {0} /\ MaxAllocations \in Nat /\ MaxQueued \in Nat
    /\ NoChunk \notin Chunks /\ NoTx \notin Streams

VARIABLES
    pool,   \* StreamBufferPool: a record of PoolType
    thead,  \* thead[s]: transaction_head of the stream's buffer
    tx,     \* stream of the open transaction, or NoTx
    fresh,  \* regions the transaction has allocated and not yet given to the GPU
    staged, \* regions it has copied to the device
    launched, \* whether its kernel has been launched
    gpu     \* gpu[s]: operations of the stream the GPU has not completed

vars == <<pool, thead, tx, fresh, staged, launched, gpu>>

Region == [chunk : Chunks, lo : Nat, hi : Nat]

\* known: streams with a StreamBuffer; list: its chunks, head first; chunk: the
\* memory of a chunk (capacity 0: none allocated); free: chunk_freelist.
PoolType == [known    : SUBSET Streams,
             list     : [Streams -> Seq(Chunks)],
             chunk    : [Chunks -> [capacity : Nat, available : Nat]],
             free     : SUBSET Chunks,
             capacity : Nat \ {0}]

Live(p) == {c \in Chunks : p.chunk[c].capacity # 0}

Memory(size) == [capacity |-> size, available |-> size]

Members(seq) == {seq[i] : i \in DOMAIN seq}

\* A copy or a kernel that uses regions, and the event of a chunk.
Work(regions) == [regions |-> regions, event |-> NoChunk]
Record(c) == [regions |-> {}, event |-> c]

Init ==
    /\ pool = [known    |-> {},
               list     |-> [s \in Streams |-> <<>>],
               chunk    |-> [c \in Chunks |-> Memory(0)],
               free     |-> {},
               capacity |-> InitialCapacity]
    /\ thead = [s \in Streams |-> NoChunk]
    /\ tx = NoTx
    /\ fresh = {}
    /\ staged = {}
    /\ launched = FALSE
    /\ gpu = [s \in Streams |-> <<>>]

(***************************************************************************)
(* Reclaiming.                                                             *)
(***************************************************************************)

\* cuEventQuery: the last record of the chunk's event has completed.
EventDone(c) == \A s \in Streams : \A i \in DOMAIN gpu[s] : gpu[s][i].event # c

\* poll_events: how many chunks leave the head of a stream's list.
Polled(p, s) ==
    CHOOSE k \in 0..Len(p.list[s]) :
        /\ \A i \in 1..k : p.list[s][i] # thead[s] /\ EventDone(p.list[s][i])
        /\ k < Len(p.list[s]) =>
              (p.list[s][k + 1] = thead[s] \/ ~EventDone(p.list[s][k + 1]))

Drop(seq, k) == SubSeq(seq, k + 1, Len(seq))

\* delete_chunk for a set of chunks.
Deleted(p, cs) == [c \in Chunks |-> IF c \in cs THEN Memory(0) ELSE p.chunk[c]]

\* reclaim: poll every known stream; chunks of the current capacity go to the
\* free list, others are deleted; a drained buffer without a transaction is
\* unregistered.
Reclaim(p) ==
    LET polled == UNION {{p.list[s][i] : i \in 1..Polled(p, s)} : s \in p.known}
        kept   == {c \in polled : p.chunk[c].capacity = p.capacity}
        lists  == [s \in Streams |-> IF s \in p.known THEN Drop(p.list[s], Polled(p, s))
                                     ELSE p.list[s]]
    IN  [p EXCEPT !.known = {s \in p.known : lists[s] # <<>> \/ s = tx},
                  !.list = lists,
                  !.chunk = Deleted(p, polled \ kept),
                  !.free = p.free \cup kept]

(***************************************************************************)
(* Allocating.                                                             *)
(***************************************************************************)
AlignUp(size) == ((size + Alignment - 1) \div Alignment) * Alignment

Roomy(capacity, size) == capacity \div Ratio >= size

SizeMax == 2^Bits - 1

\* What doubling can reach before the loop's check against SIZE_MAX / 2 fails.
Doubled(capacity) ==
    {c \in 1..(2 * (SizeMax \div 2) - 1) : \E k \in 1..Bits : c = capacity * 2^k}

\* The do-while loop of allocate_chunk doubles at least once, until the request
\* fits; no member: the capacity would overflow.
Grown(capacity, size) ==
    {c \in Doubled(capacity) :
        /\ Roomy(c, size)
        /\ \A d \in Doubled(capacity) : Roomy(d, size) => c <= d}

\* A mistake: keeps the free chunks of the old capacity.
GrowKeepsFree(p, capacity) == [p EXCEPT !.capacity = capacity]

\* A larger request raises the capacity and deletes the free chunks.
Grow(p, capacity) ==
    [p EXCEPT !.chunk = Deleted(p, p.free), !.free = {}, !.capacity = capacity]

\* A mistake: leaves the chunk on the free list.
LinkStaysFree(p, s, c) ==
    [p EXCEPT !.chunk[c] = Memory(p.capacity), !.list[s] = Append(@, c)]

\* The chunk becomes the tail of the stream's list, with all of it available.
Link(p, s, c) ==
    [p EXCEPT !.chunk[c] = Memory(p.capacity),
              !.list[s] = Append(@, c),
              !.free = @ \ {c}]

TailOf(p, s) == p.list[s][Len(p.list[s])]

\* A mistake: any tail will do.
HasRoomInTail(p, s, size) == p.list[s] # <<>>

HasRoom(p, s, size) == p.list[s] # <<>> /\ p.chunk[TailOf(p, s)].available >= size

\* A mistake: the region stays available.
CarveStaysAvailable(p, size) ==
    LET c  == TailOf(p, tx)
        lo == p.chunk[c].available - size
    IN  /\ pool' = p
        /\ thead' = [thead EXCEPT ![tx] = IF @ = NoChunk THEN c ELSE @]
        /\ fresh' = fresh \cup {[chunk |-> c, lo |-> lo, hi |-> lo + size]}
        /\ UNCHANGED <<tx, staged, launched, gpu>>

\* The bump allocation at the end of allocate(), from the tail of p's list.
Carve(p, size) ==
    LET c  == TailOf(p, tx)
        lo == p.chunk[c].available - size
    IN  /\ pool' = [p EXCEPT !.chunk[c].available = lo]
        /\ thead' = [thead EXCEPT ![tx] = IF @ = NoChunk THEN c ELSE @]
        /\ fresh' = fresh \cup {[chunk |-> c, lo |-> lo, hi |-> lo + size]}
        /\ UNCHANGED <<tx, staged, launched, gpu>>

MayAllocate == tx # NoTx /\ ~launched /\ Cardinality(fresh \cup staged) < MaxAllocations

Unallocatable(size) == size >= SizeMax - Alignment

AllocateFromTail(size) ==
    /\ MayAllocate
    /\ ~Unallocatable(size)
    /\ HasRoom(pool, tx, AlignUp(size))
    /\ Carve(pool, AlignUp(size))

\* A mistake: only looks at the free list.
SearchedFreeOnly == pool

\* The pool after the attempt to find a free chunk of the current capacity.
Searched == IF pool.free = {} THEN Reclaim(pool) ELSE pool

NeedsChunk(size) ==
    /\ MayAllocate
    /\ ~Unallocatable(size)
    /\ ~HasRoom(pool, tx, AlignUp(size))

AllocateFromFreelist(size) ==
    /\ NeedsChunk(size)
    /\ Roomy(pool.capacity, AlignUp(size))
    /\ \E c \in Searched.free :
          Carve(Link(Searched, tx, c), AlignUp(size))

AllocateNew(size) ==
    /\ NeedsChunk(size)
    /\ Roomy(pool.capacity, AlignUp(size))
    /\ Searched.free = {}
    /\ \E c \in Chunks \ Live(Searched) :
          Carve(Link(Searched, tx, c), AlignUp(size))

AllocateGrown(size) ==
    /\ NeedsChunk(size)
    /\ ~Roomy(pool.capacity, AlignUp(size))
    /\ \E capacity \in Grown(pool.capacity, AlignUp(size)) :
          LET p == Grow(pool, capacity) IN
          \E c \in Chunks \ Live(p) : Carve(Link(p, tx, c), AlignUp(size))

\* A mistake: records the event of the tail only.
RecordsOfTail(p, s) == IF thead[s] = NoChunk THEN <<>> ELSE <<Record(TailOf(p, s))>>

\* ~StreamBufferTransaction: record the event of every chunk from the
\* transaction head to the tail, in list order.
RecordsOf(p, s) ==
    LET l == p.list[s]
        first == CHOOSE i \in DOMAIN l : l[i] = thead[s]
    IN  IF thead[s] = NoChunk THEN <<>>
        ELSE [i \in 1..(Len(l) - first + 1) |-> Record(l[first + i - 1])]

\* close(), with the pool as the launch leaves it.
CloseWith(p) ==
    /\ gpu' = [gpu EXCEPT ![tx] = @ \o RecordsOf(p, tx)]
    /\ thead' = [thead EXCEPT ![tx] = NoChunk]
    /\ tx' = NoTx
    /\ fresh' = {}
    /\ staged' = {}
    /\ launched' = FALSE
    /\ pool' = p

\* The launch returns, or raises after a failed copy or launch.
Close == tx # NoTx /\ CloseWith(pool)

\* new_chunk fails, after the pool has been searched or its capacity raised, or
\* the request is too large: the launch raises and its transaction closes.
AllocationFails(size) ==
    \/ MayAllocate /\ Unallocatable(size) /\ CloseWith(pool)
    \/ /\ NeedsChunk(size)
       /\ Roomy(pool.capacity, AlignUp(size))
       /\ Searched.free = {}
       /\ CloseWith(Searched)
    \/ /\ NeedsChunk(size)
       /\ ~Roomy(pool.capacity, AlignUp(size))
       /\ \/ Grown(pool.capacity, AlignUp(size)) = {} /\ CloseWith(pool)
          \/ \E capacity \in Grown(pool.capacity, AlignUp(size)) :
                CloseWith(Grow(pool, capacity))

(***************************************************************************)
(* Transactions.                                                           *)
(***************************************************************************)

\* stream_buffer_transaction_open: find the stream's buffer or register one.
Open(s) ==
    /\ tx = NoTx
    /\ Len(gpu[s]) < MaxQueued
    /\ tx' = s
    /\ pool' = [pool EXCEPT !.known = @ \cup {s},
                            !.list[s] = IF s \in pool.known THEN @ ELSE <<>>]
    /\ thead' = [thead EXCEPT ![s] = NoChunk]
    /\ UNCHANGED <<fresh, staged, launched, gpu>>

\* cuMemcpyHtoDAsync of the regions allocated since the last copy.
Copy ==
    /\ tx # NoTx
    /\ fresh # {}
    /\ gpu' = [gpu EXCEPT ![tx] = Append(@, Work(fresh))]
    /\ staged' = staged \cup fresh
    /\ fresh' = {}
    /\ UNCHANGED <<pool, thead, tx, launched>>

\* cuLaunchKernelEx with pointers into the staged regions.
Launch ==
    /\ tx # NoTx
    /\ staged # {} /\ fresh = {} /\ ~launched
    /\ launched' = TRUE
    /\ gpu' = [gpu EXCEPT ![tx] = Append(@, Work(staged))]
    /\ UNCHANGED <<pool, thead, tx, fresh, staged>>

\* The GPU completes the oldest operation of a stream.
GpuStep(s) ==
    /\ gpu[s] # <<>>
    /\ gpu' = [gpu EXCEPT ![s] = Tail(@)]
    /\ UNCHANGED <<pool, thead, tx, fresh, staged, launched>>

Next ==
    \/ \E s \in Streams : Open(s) \/ GpuStep(s)
    \/ \E size \in Sizes : \/ AllocateFromTail(size) \/ AllocateFromFreelist(size)
                           \/ AllocateNew(size) \/ AllocateGrown(size)
                           \/ AllocationFails(size)
    \/ Copy \/ Launch \/ Close

Spec == Init /\ [][Next]_vars

(***************************************************************************)
(* Properties.                                                             *)
(***************************************************************************)
\* Every list, region and GPU operation is about chunks.
TypeOK ==
    /\ pool \in PoolType
    /\ thead \in [Streams -> Chunks \cup {NoChunk}]
    /\ tx \in Streams \cup {NoTx}
    /\ fresh \subseteq Region /\ staged \subseteq Region
    /\ launched \in BOOLEAN
    /\ gpu \in [Streams -> Seq([regions : SUBSET Region, event : Chunks \cup {NoChunk}])]

\* A chunk is in one place only: once in the list of one stream, or free, and
\* then its memory exists; only a registered stream has a list.
InOnePlace(p) ==
    /\ \A s \in Streams : p.list[s] # <<>> => s \in p.known
    /\ \A s \in Streams : \A i \in DOMAIN p.list[s] : p.list[s][i] \in Live(p) \ p.free
    /\ \A s, u \in Streams : \A i \in DOMAIN p.list[s] : \A j \in DOMAIN p.list[u] :
          p.list[s][i] = p.list[u][j] => s = u /\ i = j
    /\ p.free \subseteq Live(p)

\* Through every reclaim, growth and reuse (stream_buffer.cpp) a chunk is in one
\* place: never in two lists, twice in one, or both in use and on the free list.
ChunksInOnePlace == InOnePlace(pool)

\* While the GPU still has to run a copy or a kernel, the staging memory it
\* uses stays with its stream: the chunk is neither freed, nor on the free
\* list, nor in use by another stream.
PendingWorkKeepsItsChunks ==
    \A s \in Streams : \A i \in DOMAIN gpu[s] : \A r \in gpu[s][i].regions :
        r.chunk \in Members(pool.list[s])

\* The host writes list data into a region before the copy is enqueued: no
\* operation still waiting on any stream uses a byte of it.
FreshRegionsAreIdle ==
    \A r \in fresh : \A s \in Streams : \A i \in DOMAIN gpu[s] : \A q \in gpu[s][i].regions :
        q.chunk = r.chunk => (q.hi <= r.lo \/ r.hi <= q.lo)

FreeIsCurrent(p) == \A c \in p.free : p.chunk[c].capacity = p.capacity

\* CHECK(ret->capacity == chunk_capacity): the free list only holds chunks of
\* the current capacity, however often the capacity has grown.
FreeChunksHaveCurrentCapacity == FreeIsCurrent(pool)

\* The chunks are where the pool's lists say and can be used as they are: what
\* StreamBufferPool takes for granted from one call to the next.
PlacementInv == ChunksInOnePlace /\ FreeChunksHaveCurrentCapacity

\* Memory is only requested from the driver when no completed chunk is left:
\* polling each list from its head misses none.
NewChunkOnlyWhenBusy ==
    [][\A c \in Live(pool') \ Live(pool) :
        pool'.capacity = pool.capacity =>
            /\ pool.free = {}
            /\ \A s \in Streams : \A i \in DOMAIN pool'.list[s] :
                  \/ pool'.list[s][i] = c
                  \/ ~EventDone(pool'.list[s][i])
                  \/ s = tx /\ \E j \in 1..i : pool'.list[s][j] = thead[s]]_vars

(***************************************************************************)
(* The inductive invariant behind them.                                    *)
(***************************************************************************)

\* The chunk belongs to the open transaction: it is the head or behind it.
InTransaction(p, s, c) ==
    \E m, n \in DOMAIN p.list[s] : m <= n /\ p.list[s][m] = thead[s] /\ p.list[s][n] = c

\* A later record of its event is pending, or close() will still make one.
EventIsComing(p, s, i, c) ==
    \/ \E j \in DOMAIN gpu[s] : i < j /\ gpu[s][j].event = c
    \/ InTransaction(p, s, c)

PendingIsGuarded(p) ==
    \A s \in Streams : \A i \in DOMAIN gpu[s] : \A r \in gpu[s][i].regions :
        r.chunk \in Members(p.list[s]) /\ EventIsComing(p, s, i, r.chunk)

TransactionIsOpen(p) ==
    /\ \A s \in Streams : s # tx => thead[s] = NoChunk
    /\ tx \in Streams => tx \in p.known
    /\ tx \in Streams /\ thead[tx] # NoChunk => InTransaction(p, tx, thead[tx])
    /\ \A r \in fresh \cup staged : tx \in Streams /\ InTransaction(p, tx, r.chunk)

\* Chunks are carved from the top down.
CarvedAbove(p) ==
    /\ \A r \in fresh \cup staged : p.chunk[r.chunk].available <= r.lo
    /\ \A s \in Streams : \A i \in DOMAIN gpu[s] : \A r \in gpu[s][i].regions :
          p.chunk[r.chunk].available <= r.lo

PoolInv(p) ==
    /\ p \in PoolType
    /\ InOnePlace(p)
    /\ PendingIsGuarded(p)
    /\ TransactionIsOpen(p)
    /\ CarvedAbove(p)
    /\ FreeIsCurrent(p)

IInv == TypeOK /\ PoolInv(pool) /\ FreshRegionsAreIdle
====
