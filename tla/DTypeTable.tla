----------------------------- MODULE DTypeTable -----------------------------
(***************************************************************************)
(* The table of derived data types (cext/dtype.cpp) on the paged tables of *)
(* cext/paged_table.h, used by threads without a global interpreter lock.  *)
(* pointer_dtype and foreign_pointer_dtype give a type, a kind of pointer  *)
(* and the type it points to, a number; dtype_name names a type, after all *)
(* the types with smaller numbers.                                         *)
(*                                                                         *)
(* A step is one access to memory that other threads change.  Accesses     *)
(* whose outcome no other thread can change any more belong to the step    *)
(* that follows them: a page, an element or a name that is there stays.    *)
(* What a thread reads from another has been published by a release store  *)
(* or exchange and is read by an acquire load, so that the accesses appear *)
(* in one order; the elements of the table of types are plain memory,      *)
(* written under a mutex before the number is published.                   *)
(***************************************************************************)
EXTENDS Integers, Sequences

CONSTANTS
  Threads,
  Kinds,         \* the kinds of pointers, each with a table of numbers of its own
  FirstDerived,  \* kFirstDerivedDTypeId: smaller numbers are basic types, 0 the invalid one
  BasicName,     \* their names, a function
  FirstPageLog2, \* kFirstPageLog2
  MaxRequests,   \* bound on the calls that ask for a number
  None

MaxId == FirstDerived + MaxRequests - 1
Ids == 0..MaxId

\* A type as pointer_dtype is asked for it: <<kind, pointee>>.
Types == Kinds \X Ids

Tables == Kinds \cup {"derived", "names"}

ASSUME DTypeAssumption ==
  /\ FirstDerived \in Nat \ {0}
  /\ FirstPageLog2 \in Nat
  /\ MaxRequests \in Nat
  /\ None \notin Threads
  /\ Kinds \cap {"derived", "names"} = {}

\* What ^ means, as far as the sizes of pages need it: TLC computes it, the provers take it
\* from here.
ASSUME PowersOfTwo ==
  2^0 = 1 /\ \A k \in 0..(FirstPageLog2 + MaxId) : 2^(k + 1) = 2 * 2^k

VARIABLES
  pages,     \* the pages that have been allocated: <<table, page>>
  mem,       \* the elements that have been set, by table, page and offset
  mutex,     \* the mutex of get_or_create_derived_dtype
  count,     \* num_derived_dtypes
  named,     \* g_num_named_dtypes
  known,     \* the numbers that have been returned, and may be used by any thread
  requests,  \* how many calls have asked for a number
  at,        \* where each thread is
  want,      \* the type it asks for
  target,    \* the number it wants the name of
  next,      \* next_id
  reply      \* the last type it asked for, and the number it got

shared == <<pages, mem, mutex, count, named, known, requests>>
vars == <<shared, at, want, target, next, reply>>

-----------------------------------------------------------------------------
(* PagedTable.                                                             *)

FirstPageSize == 2^FirstPageLog2
FloorLog2(x) == CHOOSE k \in 0..x : 2^k =< x /\ x < 2^(k + 1)

\* index_to_page_and_offset.
PageOf(i) == IF i < FirstPageSize THEN 0 ELSE FloorLog2(i) - FirstPageLog2 + 1

Offset(i) == IF i < FirstPageSize THEN i ELSE i - 2^FloorLog2(i)

Cell(table, i) == <<table, PageOf(i), Offset(i)>>
HasPage(table, i) == <<table, PageOf(i)>> \in pages

IsSet(cell) == cell \in DOMAIN mem
Store(cell, v) == mem' = [c \in DOMAIN mem \cup {cell} |-> IF c = cell THEN v ELSE mem[c]]

\* A mistake: the fresh page is stored without a look at what is there.
AllocateOver(table, i) ==
  /\ pages' = pages \cup {<<table, PageOf(i)>>}
  /\ mem' = [c \in {d \in DOMAIN mem : <<d[1], d[2]>> # <<table, PageOf(i)>>} |-> mem[c]]

\* allocate_page: the thread that comes first publishes its page, the others use that one
\* and what it holds.
Allocate(table, i) ==
  /\ pages' = pages \cup {<<table, PageOf(i)>>}
  /\ UNCHANGED mem

-----------------------------------------------------------------------------
(* Where a thread goes.                                                    *)

NoType == <<None, 0>>

Goes(t, place) == at' = [at EXCEPT ![t] = place]

\* A call is over; what it was about is forgotten.
Leave(t) ==
  /\ Goes(t, "idle")
  /\ want' = [want EXCEPT ![t] = NoType]
  /\ target' = [target EXCEPT ![t] = 0]
  /\ next' = [next EXCEPT ![t] = 0]

Stay == UNCHANGED <<want, target, next>>

Returns(t, id) ==
  /\ Leave(t)
  /\ known' = known \cup {id}
  /\ reply' = [reply EXCEPT ![t] = <<want[t], id>>]

-----------------------------------------------------------------------------
(* get_or_create_derived_dtype.                                            *)

Slot(t) == Cell(want[t][1], want[t][2])

Request(t, ty) ==
  /\ at[t] = "idle"
  /\ ty[2] \in known
  /\ requests < MaxRequests
  /\ requests' = requests + 1
  /\ want' = [want EXCEPT ![t] = ty]
  /\ Goes(t, "slot")
  /\ UNCHANGED <<pages, mem, mutex, count, named, known, target, next, reply>>

\* operator[] and the first look: the number is there, or the mutex has to be taken.
Look(t) ==
  /\ at[t] = "slot"
  /\ IF IsSet(Slot(t)) THEN Returns(t, mem[Slot(t)])
     ELSE /\ Goes(t, IF HasPage(want[t][1], want[t][2]) THEN "lock" ELSE "slotAlloc")
          /\ Stay /\ UNCHANGED <<known, reply>>
  /\ UNCHANGED <<pages, mem, mutex, count, named, requests>>

SlotAlloc(t) ==
  /\ at[t] = "slotAlloc"
  /\ Allocate(want[t][1], want[t][2])
  /\ Goes(t, "slot")
  /\ Stay /\ UNCHANGED <<mutex, count, named, known, requests, reply>>

Lock(t) ==
  /\ at[t] = "lock"
  /\ mutex = None
  /\ mutex' = t
  /\ Goes(t, "again")
  /\ Stay /\ UNCHANGED <<pages, mem, count, named, known, requests, reply>>

\* A mistake: no second look under the mutex.
LookNotAgain(t) ==
  /\ at[t] = "again"
  /\ Goes(t, "write")
  /\ Stay /\ UNCHANGED <<shared, reply>>

\* A mistake: the early return keeps the mutex.
LookAgainHolds(t) ==
  /\ at[t] = "again"
  /\ IF IsSet(Slot(t)) THEN Returns(t, mem[Slot(t)])
     ELSE Goes(t, "write") /\ Stay /\ UNCHANGED <<known, reply>>
  /\ UNCHANGED <<pages, mem, mutex, count, named, requests>>

\* A mistake: the number is published before the element is written.
LookAgainPublishes(t) ==
  /\ at[t] = "again"
  /\ IF IsSet(Slot(t)) THEN Returns(t, mem[Slot(t)]) /\ mutex' = None /\ UNCHANGED mem
     ELSE /\ Goes(t, "write") /\ Stay /\ Store(Slot(t), FirstDerived + count)
          /\ UNCHANGED <<mutex, known, reply>>
  /\ UNCHANGED <<pages, count, named, requests>>

\* Another thread may have created it while this one was waiting.
LookAgain(t) ==
  /\ at[t] = "again"
  /\ IF IsSet(Slot(t)) THEN Returns(t, mem[Slot(t)]) /\ mutex' = None
     ELSE Goes(t, "write") /\ Stay /\ UNCHANGED <<mutex, known, reply>>
  /\ UNCHANGED <<pages, mem, count, named, requests>>

\* The element is written, in a page that only the thread with the mutex can allocate.
Write(t) ==
  /\ at[t] = "write"
  /\ count' = count + 1
  /\ pages' = pages \cup {<<"derived", PageOf(count)>>}
  /\ Store(Cell("derived", count), want[t])
  /\ Goes(t, "publish")
  /\ Stay /\ UNCHANGED <<mutex, named, known, requests, reply>>

Publish(t) ==
  /\ at[t] = "publish"
  /\ Store(Slot(t), FirstDerived + count - 1)
  /\ mutex' = None
  /\ Returns(t, FirstDerived + count - 1)
  /\ UNCHANGED <<pages, count, named, requests>>

-----------------------------------------------------------------------------
(* dtype_name.                                                             *)

AskName(t, id) ==
  /\ at[t] = "idle"
  /\ id \in known
  /\ target' = [target EXCEPT ![t] = id]
  /\ Goes(t, "name")
  /\ UNCHANGED <<shared, want, next, reply>>

\* operator[] and the first look: the name is returned if it is there.
Cached(t) ==
  /\ at[t] = "name"
  /\ IF IsSet(Cell("names", target[t])) THEN Leave(t)
     ELSE /\ Goes(t, IF HasPage("names", target[t]) THEN "count" ELSE "nameAlloc")
          /\ Stay
  /\ UNCHANGED <<shared, reply>>

NameAlloc(t) ==
  /\ at[t] = "nameAlloc"
  /\ Allocate("names", target[t])
  /\ Goes(t, "name")
  /\ Stay /\ UNCHANGED <<mutex, count, named, known, requests, reply>>

\* The head of the loop over the names that are missing.
Loop(t, id) ==
  /\ next' = [next EXCEPT ![t] = id]
  /\ Goes(t, IF id > target[t] THEN "result" ELSE "fill")

\* A mistake: only the name that is wanted is made.
CountFromTarget(t) ==
  /\ at[t] = "count"
  /\ Loop(t, target[t])
  /\ UNCHANGED <<shared, want, target, reply>>

Count(t) ==
  /\ at[t] = "count"
  /\ Loop(t, named)
  /\ UNCHANGED <<shared, want, target, reply>>

\* operator[] and the look at the name of next_id.
Fill(t) ==
  /\ at[t] = "fill"
  /\ Goes(t, IF IsSet(Cell("names", next[t])) THEN "advance"
             ELSE IF HasPage("names", next[t]) THEN "make" ELSE "nextAlloc")
  /\ Stay /\ UNCHANGED <<shared, reply>>

NextAlloc(t) ==
  /\ at[t] = "nextAlloc"
  /\ Allocate("names", next[t])
  /\ Goes(t, "fill")
  /\ Stay /\ UNCHANGED <<mutex, count, named, known, requests, reply>>

Element(id) == Cell("derived", id - FirstDerived)
Kind(id) == mem[Element(id)][1]
Pointee(id) == mem[Element(id)][2]

\* Pointers to the invalid type are opaque; the other names contain the pointee's.
Opaque(id) == Kind(id) # "foreign" /\ Pointee(id) = 0

\* The CHECKs of expect and of the pointee hold, and dtype_name finds the pointee's name.
CanMake(id) ==
  id >= FirstDerived =>
    /\ IsSet(Element(id))
    /\ ~Opaque(id) => Pointee(id) < id /\ IsSet(Cell("names", Pointee(id)))

MakeName(id) ==
  IF id < FirstDerived THEN <<BasicName[id]>>
  ELSE IF Opaque(id) THEN <<Kind(id)>>
  ELSE Append(mem[Cell("names", Pointee(id))], Kind(id))

\* make_dtype_name and OncePointer::set: the first name stays.  A CHECK that fails ends
\* the program; a pointee without a name would need the recursion the loop is to avoid.
Make(t) ==
  /\ at[t] = "make"
  /\ IF CanMake(next[t]) /\ ~IsSet(Cell("names", next[t]))
     THEN Store(Cell("names", next[t]), MakeName(next[t]))
     ELSE UNCHANGED mem
  /\ Goes(t, IF CanMake(next[t]) THEN "advance" ELSE "aborted")
  /\ Stay /\ UNCHANGED <<pages, mutex, count, named, known, requests, reply>>

\* Without memory there is no name, and the caller gets an exception.
MakeFails(t) ==
  /\ at[t] = "make"
  /\ Leave(t)
  /\ UNCHANGED <<shared, reply>>

\* A mistake: the counter is incremented, whatever it is.
AdvanceBlindly(t) ==
  /\ at[t] = "advance"
  /\ named' = named + 1
  /\ Loop(t, named + 1)
  /\ UNCHANGED <<pages, mem, mutex, count, known, requests, want, target, reply>>

\* A mistake: next_id stays when another thread has advanced the counter.
AdvanceStale(t) ==
  /\ at[t] = "advance"
  /\ named' = IF named = next[t] THEN named + 1 ELSE named
  /\ Loop(t, IF named = next[t] THEN named + 1 ELSE next[t])
  /\ UNCHANGED <<pages, mem, mutex, count, known, requests, want, target, reply>>

\* The compare and exchange of the counter.
Advance(t) ==
  /\ at[t] = "advance"
  /\ named' = IF named = next[t] THEN named + 1 ELSE named
  /\ Loop(t, named')
  /\ UNCHANGED <<pages, mem, mutex, count, known, requests, want, target, reply>>

\* The name is looked up once more, and has to be there.
Result(t) ==
  /\ at[t] = "result"
  /\ IF IsSet(Cell("names", target[t])) THEN Leave(t) ELSE Goes(t, "aborted") /\ Stay
  /\ UNCHANGED <<shared, reply>>

-----------------------------------------------------------------------------
Init ==
  /\ pages = {}
  /\ mem = <<>>
  /\ mutex = None
  /\ count = 0
  /\ named = 0
  /\ known = 0..(FirstDerived - 1)
  /\ requests = 0
  /\ at = [t \in Threads |-> "idle"]
  /\ want = [t \in Threads |-> NoType]
  /\ target = [t \in Threads |-> 0]
  /\ next = [t \in Threads |-> 0]
  /\ reply = [t \in Threads |-> <<NoType, 0>>]

\* A thread that is in a call.
Step(t) ==
  \/ Look(t)
  \/ SlotAlloc(t)
  \/ Lock(t)
  \/ LookAgain(t)
  \/ Write(t)
  \/ Publish(t)
  \/ Cached(t)
  \/ NameAlloc(t)
  \/ Count(t)
  \/ Fill(t)
  \/ NextAlloc(t)
  \/ Make(t)
  \/ MakeFails(t)
  \/ Advance(t)
  \/ Result(t)

Next ==
  \E t \in Threads :
    \/ \E ty \in Types : Request(t, ty)
    \/ \E id \in Ids : AskName(t, id)
    \/ Step(t)

\* A thread in a call goes on; the mutex is free again soon after it was taken.
Fairness == \A t \in Threads : WF_vars(Step(t))

Spec == Init /\ [][Next]_vars /\ Fairness

-----------------------------------------------------------------------------
(* Properties.                                                             *)

Places ==
  {"idle", "slot", "slotAlloc", "lock", "again", "write", "publish", "name", "nameAlloc",
   "count", "fill", "nextAlloc", "make", "advance", "result", "aborted"}

\* Every variable has its type, and the mutex belongs to the thread that creates a type.
TypeOK ==
  /\ pages \subseteq Tables \X (0..PageOf(MaxId))
  /\ \A c \in DOMAIN mem : <<c[1], c[2]>> \in pages
  /\ mutex \in Threads \cup {None}
  /\ count \in 0..MaxRequests
  /\ named \in 0..(MaxId + 1)
  /\ known \subseteq Ids
  /\ requests \in 0..MaxRequests
  /\ at \in [Threads -> Places]
  /\ want \in [Threads -> Types \cup {NoType}]
  /\ target \in [Threads -> Ids]
  /\ next \in [Threads -> 0..(MaxId + 1)]
  /\ reply \in [Threads -> (Types \cup {NoType}) \X Ids]
  /\ \A t \in Threads : mutex = t <=> at[t] \in {"again", "write", "publish"}

\* The number of a type, 0 if it has none.
Number(ty) == IF IsSet(Cell(ty[1], ty[2])) THEN mem[Cell(ty[1], ty[2])] ELSE 0

\* A number that a thread can see leads back to the type it was given to, and to a pointee
\* with a smaller number: get_or_create_derived_dtype writes the element first, and no two
\* indices of a PagedTable share an element.
NumbersDescribeTheirTypes ==
  \A ty \in Types : Number(ty) # 0 =>
    /\ IsSet(Element(Number(ty)))
    /\ mem[Element(Number(ty))] = ty
    /\ ty[2] < Number(ty)

\* "All dtypes with lower IDs have their names set", and each is named after its pointee:
\* the sequential filling of dtype_name by several threads.
NamesAreComplete ==
  \A id \in Ids :
    /\ id < named => IsSet(Cell("names", id))
    /\ IsSet(Cell("names", id)) => id < FirstDerived + count /\ mem[Cell("names", id)] = MakeName(id)

\* No CHECK fails in expect() or make_dtype_name, naming a type needs no recursion, and a
\* dtype_name that comes to its end has a name to return.
NoCheckFails == \A t \in Threads : at[t] # "aborted"

\* The table is consistent for a thread that looks at it at any time, without the mutex.
TableInv == TypeOK /\ NumbersDescribeTheirTypes /\ NamesAreComplete /\ NoCheckFails

\* Every call returns: the filling of names makes progress although other threads move the
\* counter, and the mutex is released on every path.
EveryCallReturns == \A t \in Threads : (at[t] # "idle") ~> (at[t] = "idle")

Intern == INSTANCE InternTable
  WITH Callers <- Threads, number <- [ty \in Types |-> Number(ty)]

\* Every type has one number, the same for every thread, for ever: the second look under the
\* mutex, and the page of the thread that allocated first.
ImplementsInternTable == Intern!InternSpec
=============================================================================
