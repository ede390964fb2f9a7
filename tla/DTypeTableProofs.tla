---- MODULE DTypeTableProofs ----
(***************************************************************************)
(* Proofs about DTypeTable: the table of derived types is consistent at    *)
(* every access of every thread, and implements InternTable, for any       *)
(* number of threads, kinds, basic types and requests and any size of the  *)
(* first page.                                                             *)
(***************************************************************************)
EXTENDS DTypeTable, FiniteSetTheorems, WellFoundedInduction, TLAPS

-----------------------------------------------------------------------------
(* The arithmetic of pages.                                                *)

\* A non-empty set of natural numbers has a least element.
LEMMA LeastNat ==
    ASSUME NEW S \in SUBSET Nat, S # {}
    PROVE  \E m \in S : \A n \in S : m <= n
<1> DEFINE R == {ss \in Nat \X Nat : ss[1] < ss[2]}
<1>1. IsWellFoundedOn(R, Nat)
  BY NatLessThanWellFounded, Zenon DEF OpToRel
<1>2. PICK m \in S : \A n \in S : ~ (<<n, m>> \in R)
  <2> HIDE DEF R
  <2> QED BY <1>1, WFMin, Zenon
<1>3. ASSUME NEW n \in S PROVE m <= n
  <2>1. <<n, m>>[1] = n /\ <<n, m>>[2] = m /\ <<n, m>> \in Nat \X Nat
    OBVIOUS
  <2> QED BY <1>2, <2>1, n \in Nat, m \in Nat
<1> QED BY <1>3

\* The exponents that the pages of the modelled indices need.
Exponents == 0..(FirstPageLog2 + MaxId + 1)

\* The ranges are ranges of naturals, and an index of the table of elements is one of Ids.
LEMMA Ranges ==
    /\ FirstDerived \in Nat /\ FirstDerived > 0 /\ FirstPageLog2 \in Nat /\ MaxRequests \in Nat
    /\ MaxId \in Nat /\ MaxId + 1 = FirstDerived + MaxRequests
    /\ 0..(MaxRequests - 1) \subseteq Ids /\ Ids \subseteq Nat /\ 0 \in Ids
BY DTypeAssumption DEF MaxId, Ids

\* Powers of two are positive, and exceed their exponents.
LEMMA PowerExceeds == \A k \in Exponents : 2^k \in Nat /\ k < 2^k
<1> DEFINE Fails == {k \in Exponents : ~(2^k \in Nat /\ k < 2^k)}
<1> SUFFICES ASSUME Fails # {} PROVE FALSE
  OBVIOUS
<1>1. Fails \in SUBSET Nat
  BY Ranges DEF Exponents
<1>2. PICK m \in Fails : \A n \in Fails : m <= n
  BY <1>1, LeastNat
<1>3. m # 0
  <2>1. 2^0 \in Nat /\ 0 < 2^0
    BY PowersOfTwo
  <2>2. 0 \in Fails => ~(2^0 \in Nat /\ 0 < 2^0)
    BY Zenon
  <2> QED BY <1>2, <2>1, <2>2, Zenon
<1>4. /\ m - 1 \in 0..(FirstPageLog2 + MaxId) /\ (m - 1) + 1 = m
      /\ m - 1 \in Exponents /\ m - 1 \notin Fails
  BY <1>1, <1>2, <1>3, Ranges DEF Exponents
<1>5. 2^m = 2 * 2^(m - 1)
  BY <1>4, PowersOfTwo
<1>6. 2^(m - 1) \in Nat /\ m - 1 < 2^(m - 1)
  BY <1>4
<1> QED BY <1>1, <1>2, <1>4, <1>5, <1>6

\* Powers of two grow with their exponents.
LEMMA PowerMonotone ==
    ASSUME NEW j \in Exponents, NEW k \in Exponents, j <= k
    PROVE  2^j <= 2^k
<1> DEFINE Fails == {n \in Exponents : j <= n /\ ~(2^j <= 2^n)}
<1> SUFFICES ASSUME Fails # {} PROVE FALSE
  OBVIOUS
<1>0. j \in Nat /\ Exponents \in SUBSET Nat
  BY Ranges DEF Exponents
<1>1. Fails \in SUBSET Nat
  BY <1>0
<1>2. PICK m \in Fails : \A n \in Fails : m <= n
  BY <1>1, LeastNat
<1>3. 2^j \in Nat /\ 2^m \in Nat
  BY <1>2, PowerExceeds
<1>4. m # j
  BY <1>2, <1>3
<1>5. /\ m - 1 \in 0..(FirstPageLog2 + MaxId) /\ (m - 1) + 1 = m
      /\ m - 1 \in Exponents /\ m - 1 \notin Fails /\ j <= m - 1
  BY <1>0, <1>1, <1>2, <1>4, Ranges DEF Exponents
<1>6. 2^m = 2 * 2^(m - 1) /\ 2^(m - 1) \in Nat
  BY <1>5, PowersOfTwo, PowerExceeds
<1>7. 2^j <= 2^(m - 1)
  BY <1>5
<1> QED BY <1>2, <1>3, <1>6, <1>7

\* FloorLog2 is what its name says: the CHOOSE has a witness.
LEMMA FloorLog2Correct ==
    ASSUME NEW x \in Ids, x > 0
    PROVE  /\ FloorLog2(x) \in 0..x
           /\ FloorLog2(x) \in Exponents /\ FloorLog2(x) + 1 \in Exponents
           /\ 2^FloorLog2(x) <= x /\ x < 2^(FloorLog2(x) + 1)
<1>0. x \in Nat /\ x \in 1..MaxId /\ \A k \in 0..x : k \in Nat /\ k \in Exponents /\ k + 1 \in Exponents
  BY Ranges DEF Ids, Exponents
<1> DEFINE Above == {k \in 0..x : x < 2^(k + 1)}
<1>1. x \in Above
  <2>1. 2^(x + 1) \in Nat /\ x + 1 < 2^(x + 1)
    BY <1>0, PowerExceeds
  <2> QED BY <1>0, <2>1
<1>2. Above \in SUBSET Nat
  BY <1>0
<1>3. PICK m \in Above : \A n \in Above : m <= n
  BY <1>1, <1>2, LeastNat
<1>4. m \in 0..x /\ x < 2^(m + 1) /\ m \in Nat
  BY <1>3
<1>5. 2^m <= x
  <2>1. CASE m = 0
    <3>1. 2^0 <= x
      BY <1>0, PowersOfTwo
    <3> QED BY <2>1, <3>1, Zenon
  <2>2. CASE m # 0
    <3>1. m - 1 \in 0..x /\ (m - 1) + 1 = m /\ ~(m <= m - 1)
      BY <1>4, <2>2, <1>0
    <3>2. ~(x < 2^((m - 1) + 1))
      BY <1>3, <3>1
    <3>3. 2^m \in Nat
      BY <1>0, <1>4, PowerExceeds
    <3> QED BY <3>1, <3>2, <3>3, <1>0
  <2> QED BY <2>1, <2>2
<1>6. FloorLog2(x) \in 0..x /\ 2^FloorLog2(x) <= x /\ x < 2^(FloorLog2(x) + 1)
  BY <1>4, <1>5, Zenon DEF FloorLog2
<1> QED BY <1>6, <1>0

\* An index beyond the first page is in a page with a number of its own above 0.
LEMMA LaterPage ==
    ASSUME NEW i \in Ids, ~(i < FirstPageSize)
    PROVE  /\ i > 0 /\ FloorLog2(i) \in Nat /\ FirstPageLog2 <= FloorLog2(i)
           /\ PageOf(i) = FloorLog2(i) - FirstPageLog2 + 1 /\ PageOf(i) \in Nat /\ PageOf(i) > 0
           /\ Offset(i) = i - 2^FloorLog2(i)
<1>0. i \in Nat /\ FirstPageLog2 \in Nat /\ FirstPageLog2 \in Exponents
  BY Ranges DEF Ids, Exponents
<1>1. FirstPageSize \in Nat /\ FirstPageSize > 0 /\ i > 0
  BY <1>0, PowerExceeds DEF FirstPageSize
<1>2. /\ FloorLog2(i) \in Nat /\ FloorLog2(i) + 1 \in Exponents
      /\ i < 2^(FloorLog2(i) + 1) /\ 2^(FloorLog2(i) + 1) \in Nat
  BY <1>0, <1>1, FloorLog2Correct, PowerExceeds
<1>3. FirstPageLog2 <= FloorLog2(i)
  <2> SUFFICES ASSUME FloorLog2(i) + 1 <= FirstPageLog2 PROVE FALSE
    BY <1>0, <1>2
  <2>1. 2^(FloorLog2(i) + 1) <= FirstPageSize
    BY <1>0, <1>2, PowerMonotone DEF FirstPageSize
  <2> QED BY <1>0, <1>1, <1>2, <2>1
<1> QED BY <1>0, <1>1, <1>2, <1>3 DEF PageOf, Offset

\* Pages are numbered in the order of their indices.
LEMMA PageInRange == \A i \in Ids : PageOf(i) \in 0..PageOf(MaxId)
<1> SUFFICES ASSUME NEW i \in Ids PROVE PageOf(i) \in 0..PageOf(MaxId)
  OBVIOUS
<1>0. i \in Nat /\ MaxId \in Nat /\ i <= MaxId /\ MaxId \in Ids /\ FirstPageLog2 \in Nat
  BY Ranges DEF Ids
<1>1. FirstPageSize \in Nat
  BY PowerExceeds, Ranges DEF FirstPageSize, Exponents
<1>2. CASE i < FirstPageSize
  <2>1. PageOf(i) = 0
    BY <1>2 DEF PageOf
  <2>2. PageOf(MaxId) \in Nat
    <3>1. CASE MaxId < FirstPageSize
      BY <3>1 DEF PageOf
    <3>2. CASE ~(MaxId < FirstPageSize)
      BY <3>2, <1>0, LaterPage
    <3> QED BY <3>1, <3>2
  <2> QED BY <2>1, <2>2
<1>3. CASE ~(i < FirstPageSize)
  <2>1. ~(MaxId < FirstPageSize)
    BY <1>0, <1>1, <1>3
  <2>2. FloorLog2(i) <= FloorLog2(MaxId)
    <3>1. /\ FloorLog2(i) \in Nat /\ FloorLog2(MaxId) \in Nat /\ i > 0 /\ MaxId > 0
      BY <1>0, <1>3, <2>1, LaterPage
    <3>2. /\ FloorLog2(i) \in Exponents /\ 2^FloorLog2(i) <= i /\ 2^FloorLog2(i) \in Nat
          /\ FloorLog2(MaxId) + 1 \in Exponents /\ MaxId < 2^(FloorLog2(MaxId) + 1)
          /\ 2^(FloorLog2(MaxId) + 1) \in Nat
      BY <1>0, <3>1, FloorLog2Correct, PowerExceeds
    <3> SUFFICES ASSUME FloorLog2(MaxId) + 1 <= FloorLog2(i) PROVE FALSE
      BY <3>1
    <3>3. 2^(FloorLog2(MaxId) + 1) <= 2^FloorLog2(i)
      BY <3>2, PowerMonotone
    <3> QED BY <1>0, <3>2, <3>3
  <2> QED BY <1>0, <1>3, <2>1, <2>2, LaterPage
<1> QED BY <1>2, <1>3

\* index_to_page_and_offset gives every index of every table an element of its own.
LEMMA CellInjective ==
    ASSUME NEW a, NEW b, NEW i \in Ids, NEW j \in Ids, Cell(a, i) = Cell(b, j)
    PROVE  a = b /\ i = j
<1>0. a = b /\ PageOf(i) = PageOf(j) /\ Offset(i) = Offset(j) /\ i \in Nat /\ j \in Nat
  BY Ranges DEF Cell
<1>1. CASE i < FirstPageSize /\ j < FirstPageSize
  BY <1>0, <1>1 DEF Offset
<1>2. CASE i < FirstPageSize /\ ~(j < FirstPageSize)
  BY <1>0, <1>2, LaterPage DEF PageOf
<1>3. CASE ~(i < FirstPageSize) /\ j < FirstPageSize
  BY <1>0, <1>3, LaterPage DEF PageOf
<1>4. CASE ~(i < FirstPageSize) /\ ~(j < FirstPageSize)
  <2>1. /\ FloorLog2(i) - FirstPageLog2 + 1 = FloorLog2(j) - FirstPageLog2 + 1
        /\ FloorLog2(i) \in Nat /\ FloorLog2(j) \in Nat
        /\ i - 2^FloorLog2(i) = j - 2^FloorLog2(j)
    BY <1>0, <1>4, LaterPage
  <2>2. FloorLog2(i) = FloorLog2(j)
    BY <2>1, Ranges
  <2>3. 2^FloorLog2(i) \in Nat
    BY <1>4, LaterPage, FloorLog2Correct, PowerExceeds
  <2>4. i - 2^FloorLog2(i) = j - 2^FloorLog2(i)
    BY <2>1, <2>2
  <2> QED BY <1>0, <2>3, <2>4
<1> QED BY <1>0, <1>1, <1>2, <1>3, <1>4

-----------------------------------------------------------------------------
(* The inductive invariant.                                                *)

\* The places of a call that may still create a type.
Pending == {t \in Threads : at[t] \in {"slot", "slotAlloc", "lock", "again", "write"}}

\* Every type was created by a request of its own, so that numbers stay in bounds.
CountInv ==
  /\ IsFiniteSet(Pending)
  /\ count + Cardinality(Pending) =< requests
  /\ known \subseteq 0..(FirstDerived + count - 1)
  /\ named =< FirstDerived + count

\* The elements below count, and no others, are written; pointees have smaller numbers.
ElementInv ==
  \A i \in 0..(MaxRequests - 1) :
    /\ IsSet(Cell("derived", i)) <=> i < count
    /\ i < count => /\ mem[Cell("derived", i)] \in Types
                    /\ mem[Cell("derived", i)][2] < FirstDerived + i

\* A slot that is set holds the number of an element that describes the slot's type.
SlotInv ==
  \A ty \in Types : IsSet(Cell(ty[1], ty[2])) =>
    /\ mem[Cell(ty[1], ty[2])] \in FirstDerived..(FirstDerived + count - 1)
    /\ mem[Element(mem[Cell(ty[1], ty[2])])] = ty

\* A name was made from the name of the pointee, which stays.
NameInv ==
  /\ NamesAreComplete
  /\ \A id \in Ids : IsSet(Cell("names", id)) /\ id >= FirstDerived /\ ~Opaque(id) =>
       IsSet(Cell("names", Pointee(id)))

\* What a thread may rely on at each place, whatever the others do.
ThreadInv(t) ==
  /\ at[t] \in {"slot", "slotAlloc", "lock", "again", "write", "publish"} =>
       want[t] \in Types /\ want[t][2] \in known
  /\ at[t] \in {"lock", "again", "write", "publish"} => HasPage(want[t][1], want[t][2])
  /\ at[t] \in {"write", "publish"} => ~IsSet(Slot(t))
  /\ at[t] = "publish" => count > 0 /\ mem[Cell("derived", count - 1)] = want[t]
  /\ at[t] \in {"name", "nameAlloc", "count", "fill", "nextAlloc", "make", "advance", "result"} =>
       target[t] \in known
  /\ at[t] \in {"fill", "nextAlloc", "make", "advance"} => next[t] =< target[t] /\ next[t] =< named
  /\ at[t] = "make" => HasPage("names", next[t])
  /\ at[t] = "advance" => IsSet(Cell("names", next[t]))
  /\ at[t] = "result" => target[t] < named

IInv ==
  /\ TypeOK
  /\ CountInv
  /\ ElementInv
  /\ SlotInv
  /\ NameInv
  /\ NoCheckFails
  /\ \A t \in Threads : ThreadInv(t)

-----------------------------------------------------------------------------
(* What every step has in common.                                          *)

\* Pages, elements, numbers and names that are there stay as they are.
Grows ==
  /\ pages \subseteq pages'
  /\ DOMAIN mem \subseteq DOMAIN mem'
  /\ \A c \in DOMAIN mem : mem'[c] = mem[c]
  /\ count =< count'
  /\ known \subseteq known'
  /\ named =< named'

\* The other threads are where they were.
OthersStay(t) ==
  \A u \in Threads \ {t} :
    at'[u] = at[u] /\ want'[u] = want[u] /\ target'[u] = target[u] /\ next'[u] = next[u]

\* Only the thread with the mutex counts a type or gives one a number.
UnderMutex(t) ==
  \/ mutex = t
  \/ count' = count /\ \A ty \in Types : IsSet(Cell(ty[1], ty[2]))' => IsSet(Cell(ty[1], ty[2]))

LEMMA StoreEffect ==
    ASSUME NEW c, NEW v, Store(c, v)
    PROVE  /\ DOMAIN mem' = DOMAIN mem \cup {c} /\ mem'[c] = v
           /\ \A d \in DOMAIN mem : d # c => mem'[d] = mem[d]
BY DEF Store

\* The cells of one table are not those of another.
LEMMA CellsApart ==
    ASSUME NEW ty \in Types, NEW i \in Ids, NEW j \in Ids
    PROVE  /\ ty[1] \in Kinds /\ ty[2] \in Ids
           /\ Cell(ty[1], ty[2]) # Cell("derived", i) /\ Cell(ty[1], ty[2]) # Cell("names", i)
           /\ Cell("derived", i) # Cell("names", j)
<1>1. ty[1] \in Kinds /\ ty[2] \in Ids
  BY DEF Types
<1>2. ty[1] # "derived" /\ ty[1] # "names" /\ "derived" # "names"
  BY <1>1, DTypeAssumption
<1> QED BY <1>1, <1>2, CellInjective

\* Two types do not share a slot.
LEMMA SlotsApart ==
    ASSUME NEW ty \in Types, NEW other \in Types, Cell(ty[1], ty[2]) = Cell(other[1], other[2])
    PROVE  ty = other
<1>1. ty[2] \in Ids /\ other[2] \in Ids /\ ty = <<ty[1], ty[2]>> /\ other = <<other[1], other[2]>>
  BY DEF Types
<1> QED BY <1>1, CellInjective

\* The element of a number that has been given out.
LEMMA ElementOf ==
    ASSUME TypeOK, ElementInv, NEW id \in FirstDerived..(FirstDerived + count - 1)
    PROVE  /\ id \in Ids /\ id - FirstDerived \in 0..(MaxRequests - 1) /\ id - FirstDerived \in Ids
           /\ id - FirstDerived < count
           /\ Element(id) = Cell("derived", id - FirstDerived)
           /\ IsSet(Element(id)) /\ mem[Element(id)] \in Types
           /\ Pointee(id) \in Ids /\ Pointee(id) < id
<1>1. /\ id \in Ids /\ id - FirstDerived \in 0..(MaxRequests - 1) /\ id - FirstDerived \in Ids
      /\ id - FirstDerived < count /\ FirstDerived + (id - FirstDerived) = id
  BY Ranges DEF TypeOK, Ids
<1>2. IsSet(Element(id)) /\ mem[Element(id)] \in Types /\ mem[Element(id)][2] < id
  BY <1>1 DEF ElementInv, Element
<1> QED BY <1>1, <1>2 DEF Types, Element, Pointee

\* What the other threads rely on is not disturbed.
LEMMA Frame ==
    ASSUME IInv, TypeOK', NEW t \in Threads, Grows, OthersStay(t), UnderMutex(t),
           NEW u \in Threads \ {t}
    PROVE  ThreadInv(u)'
<1>0. ThreadInv(u) /\ u \in Threads
  BY DEF IInv
<1>1. at'[u] = at[u] /\ want'[u] = want[u] /\ target'[u] = target[u] /\ next'[u] = next[u]
  BY DEF OthersStay
<1>2. /\ named \in Int /\ named' \in Int /\ next[u] \in Int /\ target[u] \in Int
  BY <1>0, Ranges DEF IInv, TypeOK, Ids
<1>3. ASSUME at[u] \in {"write", "publish"} PROVE count' = count /\ (IsSet(Slot(u))' => IsSet(Slot(u)))
  <2>1. mutex = u /\ u # t
    BY <1>3 DEF IInv, TypeOK
  <2>2. want[u] \in Types
    BY <1>0, <1>3 DEF ThreadInv
  <2> QED BY <2>1, <2>2, <1>1 DEF UnderMutex, Slot, IsSet
<1>4. ASSUME at[u] = "publish"
      PROVE  Cell("derived", count - 1) \in DOMAIN mem
  <2>1. count - 1 \in 0..(MaxRequests - 1) /\ count - 1 < count
    BY <1>0, <1>4, Ranges DEF ThreadInv, IInv, TypeOK
  <2> QED BY <2>1 DEF IInv, ElementInv, IsSet
<1>5. /\ at[u] \in {"slot", "slotAlloc", "lock", "again", "write", "publish"} =>
           want'[u] \in Types /\ want'[u][2] \in known'
      /\ at[u] \in {"lock", "again", "write", "publish"} => HasPage(want[u][1], want[u][2])'
      /\ at[u] = "make" => HasPage("names", next[u])'
      /\ at[u] = "advance" => IsSet(Cell("names", next[u]))'
      /\ at[u] \in {"name", "nameAlloc", "count", "fill", "nextAlloc", "make", "advance", "result"} =>
           target'[u] \in known'
  BY <1>0, <1>1 DEF ThreadInv, Grows, HasPage, IsSet
<1>6. /\ at[u] \in {"write", "publish"} => ~IsSet(Slot(u))'
      /\ at[u] = "publish" => count' > 0 /\ mem'[Cell("derived", count' - 1)] = want'[u]
  BY <1>0, <1>1, <1>3, <1>4 DEF ThreadInv, Grows
<1>7. /\ at[u] \in {"fill", "nextAlloc", "make", "advance"} => next'[u] =< target'[u] /\ next'[u] =< named'
      /\ at[u] = "result" => target'[u] < named'
  BY <1>0, <1>1, <1>2 DEF ThreadInv, Grows
<1> QED BY <1>1, <1>5, <1>6, <1>7 DEF ThreadInv

LEMMA Assemble ==
    ASSUME IInv, NEW t \in Threads, Grows, OthersStay(t), UnderMutex(t),
           TypeOK', CountInv', ElementInv', SlotInv', NameInv', ThreadInv(t)', at'[t] # "aborted"
    PROVE  IInv'
<1>1. \A u \in Threads : ThreadInv(u)'
  BY Frame
<1>2. NoCheckFails'
  BY DEF NoCheckFails, OthersStay, IInv
<1> QED BY <1>1, <1>2 DEF IInv

\* A step that writes no element and leaves the counters alone.
LEMMA TableKept ==
    ASSUME IInv, mem' = mem, count' = count, named' = named
    PROVE  ElementInv' /\ SlotInv' /\ NameInv'
<1>1. ElementInv'
  BY DEF IInv, ElementInv, IsSet
<1>2. SlotInv'
  BY DEF IInv, SlotInv, IsSet, Element
<1>3. NamesAreComplete'
  BY DEF IInv, NameInv, NamesAreComplete, MakeName, Opaque, Kind, Pointee, IsSet, Element
<1>4. NameInv'
  BY <1>3 DEF IInv, NameInv, Opaque, Kind, Pointee, IsSet, Element
<1> QED BY <1>1, <1>2, <1>4

\* How a step of one thread changes the number of calls that may create a type.
LEMMA PendingMoves ==
    ASSUME IInv, NEW t \in Threads, NEW place, Goes(t, place)
    PROVE  /\ IsFiniteSet(Pending') /\ Cardinality(Pending) \in Nat /\ Cardinality(Pending') \in Nat
           /\ place \notin {"slot", "slotAlloc", "lock", "again", "write"} =>
                 Cardinality(Pending') = Cardinality(Pending) - (IF t \in Pending THEN 1 ELSE 0)
           /\ t \in Pending => Cardinality(Pending') =< Cardinality(Pending) /\ Cardinality(Pending) > 0
           /\ Cardinality(Pending') =< Cardinality(Pending) + 1
<1>1. IsFiniteSet(Pending) /\ Cardinality(Pending) \in Nat
  BY FS_CardinalityType DEF IInv, CountInv
<1>2. Pending' = Pending \cup {t} \/ Pending' = Pending \ {t}
  BY DEF Pending, Goes, IInv, TypeOK
<1>3. place \notin {"slot", "slotAlloc", "lock", "again", "write"} => Pending' = Pending \ {t}
  BY DEF Pending, Goes, IInv, TypeOK
<1>4. /\ IsFiniteSet(Pending \cup {t}) 
      /\ Cardinality(Pending \cup {t}) = IF t \in Pending THEN Cardinality(Pending) ELSE Cardinality(Pending) + 1
  BY <1>1, FS_AddElement
<1>5. /\ IsFiniteSet(Pending \ {t}) 
      /\ Cardinality(Pending \ {t}) = IF t \in Pending THEN Cardinality(Pending) - 1 ELSE Cardinality(Pending)
  BY <1>1, FS_RemoveElement
<1>6. t \in Pending => Cardinality(Pending) > 0
  BY <1>1, FS_EmptySet
<1>7. Cardinality(Pending') \in Nat
  BY <1>2, <1>4, <1>5, <1>1, <1>6
<1>8. place \notin {"slot", "slotAlloc", "lock", "again", "write"} =>
        Cardinality(Pending') = Cardinality(Pending) - (IF t \in Pending THEN 1 ELSE 0)
  <2>1. CASE t \in Pending
    BY <1>3, <1>5, <2>1
  <2>2. CASE t \notin Pending
    BY <1>1, <1>3, <1>5, <2>2
  <2> QED BY <2>1, <2>2
<1>9. /\ IsFiniteSet(Pending')
      /\ t \in Pending => Cardinality(Pending') =< Cardinality(Pending)
      /\ Cardinality(Pending') =< Cardinality(Pending) + 1
  <2>1. CASE Pending' = Pending \cup {t}
    <3>1. CASE t \in Pending
      BY <1>1, <1>4, <2>1, <3>1
    <3>2. CASE t \notin Pending
      BY <1>1, <1>4, <2>1, <3>2
    <3> QED BY <3>1, <3>2
  <2>2. CASE Pending' = Pending \ {t}
    <3>1. CASE t \in Pending
      BY <1>1, <1>5, <2>2, <3>1
    <3>2. CASE t \notin Pending
      BY <1>1, <1>5, <2>2, <3>2
    <3> QED BY <3>1, <3>2
  <2> QED BY <1>2, <2>1, <2>2
<1> QED BY <1>1, <1>6, <1>7, <1>8, <1>9

\* A step that writes no element and leaves the counters of types and names alone.
LEMMA QuietStep ==
    ASSUME IInv, NEW t \in Threads, NEW place \in Places \ {"aborted"}, Goes(t, place), OthersStay(t),
           UNCHANGED <<mem, count, named>>,
           pages \subseteq pages', pages' \subseteq Tables \X (0..PageOf(MaxId)),
           known \subseteq known', known' \subseteq 0..(FirstDerived + count - 1),
           mutex' \in Threads \cup {None}, mutex' = t <=> place \in {"again", "write", "publish"},
           \A u \in Threads \ {t} : mutex' = u <=> mutex = u,
           requests' \in 0..MaxRequests, requests =< requests',
           \/ t \in Pending
           \/ place \notin {"slot", "slotAlloc", "lock", "again", "write"}
           \/ requests' = requests + 1,
           want' \in [Threads -> Types \cup {NoType}], target' \in [Threads -> Ids],
           next' \in [Threads -> 0..(MaxId + 1)], reply' \in [Threads -> (Types \cup {NoType}) \X Ids],
           ThreadInv(t)'
    PROVE  IInv'
<1>1. Grows
  BY DEF Grows, IInv, TypeOK
<1>2. UnderMutex(t)
  BY DEF UnderMutex, IsSet
<1>3. TypeOK'
  <2>1. at' \in [Threads -> Places] /\ at'[t] = place
    BY DEF Goes, IInv, TypeOK
  <2>2. \A u \in Threads : mutex' = u <=> at'[u] \in {"again", "write", "publish"}
    BY <2>1 DEF OthersStay, IInv, TypeOK
  <2>3. known' \subseteq Ids
    BY Ranges DEF IInv, TypeOK, Ids
  <2>4. \A c \in DOMAIN mem' : <<c[1], c[2]>> \in pages'
    BY DEF IInv, TypeOK
  <2> QED BY <2>1, <2>2, <2>3, <2>4 DEF IInv, TypeOK
<1>4. CountInv'
  <2>1. /\ IsFiniteSet(Pending') /\ Cardinality(Pending) \in Nat /\ Cardinality(Pending') \in Nat
        /\ Cardinality(Pending') =< Cardinality(Pending) + (requests' - requests)
    <3>1. CASE requests' = requests + 1
      BY <3>1, PendingMoves DEF IInv, TypeOK
    <3>2. CASE requests' # requests + 1
      <4>1. /\ IsFiniteSet(Pending') /\ Cardinality(Pending) \in Nat /\ Cardinality(Pending') \in Nat
            /\ Cardinality(Pending') =< Cardinality(Pending)
        BY <3>2, PendingMoves
      <4> QED BY <4>1 DEF IInv, TypeOK
    <3> QED BY <3>1, <3>2
  <2> QED BY <2>1 DEF IInv, CountInv, TypeOK
<1>5. at'[t] # "aborted"
  BY DEF Goes, IInv, TypeOK
<1> QED BY <1>1, <1>2, <1>3, <1>4, <1>5, TableKept, Assemble

\* The page of an index of one of the tables.
LEMMA PageInTables ==
    ASSUME NEW table \in Tables, NEW i \in Ids
    PROVE  <<table, PageOf(i)>> \in Tables \X (0..PageOf(MaxId))
BY PageInRange

\* A call that ends leaves the thread with nothing to keep to.
LEMMA LeftThread ==
    ASSUME IInv, NEW t \in Threads, Leave(t)
    PROVE  /\ ThreadInv(t)' /\ OthersStay(t) /\ at'[t] = "idle"
           /\ want' \in [Threads -> Types \cup {NoType}] /\ target' \in [Threads -> Ids]
           /\ next' \in [Threads -> 0..(MaxId + 1)]
<1>1. at'[t] = "idle"
  BY DEF Leave, Goes, IInv, TypeOK
<1>2. OthersStay(t)
  BY DEF OthersStay, Leave, Goes, IInv, TypeOK
<1>3. ThreadInv(t)'
  BY <1>1 DEF ThreadInv
<1>4. /\ want' \in [Threads -> Types \cup {NoType}] /\ target' \in [Threads -> Ids]
      /\ next' \in [Threads -> 0..(MaxId + 1)]
  BY Ranges DEF Leave, IInv, TypeOK
<1> QED BY <1>1, <1>2, <1>3, <1>4

\* A step that only moves the thread on.
LEMMA MovedThread ==
    ASSUME IInv, NEW t \in Threads, NEW place, Goes(t, place), Stay
    PROVE  /\ OthersStay(t) /\ at'[t] = place
           /\ want' \in [Threads -> Types \cup {NoType}] /\ target' \in [Threads -> Ids]
           /\ next' \in [Threads -> 0..(MaxId + 1)]
BY DEF Goes, Stay, OthersStay, IInv, TypeOK

-----------------------------------------------------------------------------
(* The steps of get_or_create_derived_dtype.                               *)

LEMMA RequestStep ==
    ASSUME IInv, NEW t \in Threads, NEW ty \in Types, Request(t, ty) PROVE IInv'
<1> USE DEF Request
<1>1. OthersStay(t) /\ at'[t] = "slot" /\ want'[t] = ty
  BY DEF OthersStay, Goes, IInv, TypeOK
<1>2. ThreadInv(t)'
  BY <1>1 DEF ThreadInv
<1>3. /\ "slot" \in Places \ {"aborted"} /\ want' \in [Threads -> Types \cup {NoType}]
      /\ requests' \in 0..MaxRequests /\ requests =< requests'
  BY Ranges DEF Places, IInv, TypeOK
<1>4. at[t] = "idle" /\ mutex # t /\ mutex \in Threads \cup {None}
  BY DEF IInv, TypeOK
<1> QED BY <1>1, <1>2, <1>3, <1>4, QuietStep DEF IInv, TypeOK, CountInv

\* The number in the slot of the type that is asked for.
LEMMA SlotNumber ==
    ASSUME IInv, NEW t \in Threads, want[t] \in Types, IsSet(Slot(t))
    PROVE  /\ mem[Slot(t)] \in FirstDerived..(FirstDerived + count - 1) /\ mem[Slot(t)] \in Ids
           /\ mem[Slot(t)] # 0
<1>1. mem[Slot(t)] \in FirstDerived..(FirstDerived + count - 1)
  BY DEF IInv, SlotInv, Slot
<1> QED BY <1>1, Ranges DEF IInv, TypeOK, Ids

\* The slot is found set: the call returns the number, and leaves the mutex.
LEMMA ReturnStep ==
    ASSUME IInv, NEW t \in Threads, want[t] \in Types, IsSet(Slot(t)), Returns(t, mem[Slot(t)]),
           mutex' \in Threads \cup {None}, mutex' # t, \A u \in Threads \ {t} : mutex' = u <=> mutex = u,
           UNCHANGED <<pages, mem, count, named, requests>>
    PROVE  IInv'
<1>1. /\ mem[Slot(t)] \in FirstDerived..(FirstDerived + count - 1) /\ mem[Slot(t)] \in Ids
  BY SlotNumber
<1>2. known \subseteq known' /\ known' \subseteq 0..(FirstDerived + count - 1)
  <2>1. mem[Slot(t)] \in 0..(FirstDerived + count - 1)
    BY <1>1, Ranges DEF IInv, TypeOK
  <2>2. known' = known \cup {mem[Slot(t)]} /\ known \subseteq 0..(FirstDerived + count - 1)
    BY DEF Returns, IInv, CountInv
  <2> QED BY <2>1, <2>2
<1>3. reply' \in [Threads -> (Types \cup {NoType}) \X Ids]
  BY <1>1 DEF Returns, IInv, TypeOK
<1>4. Leave(t) /\ Goes(t, "idle") /\ "idle" \in Places \ {"aborted"}
  BY DEF Returns, Leave, Places
<1>5. requests' \in 0..MaxRequests /\ requests =< requests' /\ pages' \subseteq Tables \X (0..PageOf(MaxId))
  BY DEF IInv, TypeOK
<1> QED BY <1>2, <1>3, <1>4, <1>5, LeftThread, QuietStep

\* A step that moves the thread on and changes at most pages and mutex.
LEMMA MoveStep ==
    ASSUME IInv, NEW t \in Threads, NEW place \in Places \ {"aborted"}, Goes(t, place), Stay,
           UNCHANGED <<mem, count, named, known, requests, reply>>,
           pages \subseteq pages', pages' \subseteq Tables \X (0..PageOf(MaxId)),
           mutex' \in Threads \cup {None}, mutex' = t <=> place \in {"again", "write", "publish"},
           \A u \in Threads \ {t} : mutex' = u <=> mutex = u,
           t \in Pending \/ place \notin {"slot", "slotAlloc", "lock", "again", "write"},
           ThreadInv(t)'
    PROVE  IInv'
<1>1. known \subseteq known' /\ known' \subseteq 0..(FirstDerived + count - 1)
  BY DEF IInv, CountInv
<1>2. /\ requests' \in 0..MaxRequests /\ requests =< requests'
      /\ reply' \in [Threads -> (Types \cup {NoType}) \X Ids]
  BY DEF IInv, TypeOK
<1> QED BY <1>1, <1>2, MovedThread, QuietStep

LEMMA LookStep ==
    ASSUME IInv, NEW t \in Threads, Look(t) PROVE IInv'
<1>1. /\ at[t] = "slot" /\ mutex # t /\ mutex \in Threads \cup {None} /\ want[t] \in Types
      /\ want[t][2] \in known /\ t \in Pending /\ pages \subseteq Tables \X (0..PageOf(MaxId))
  BY DEF Look, IInv, TypeOK, ThreadInv, Pending
<1>2. CASE IsSet(Slot(t))
  BY <1>1, <1>2, ReturnStep DEF Look
<1>3. CASE ~IsSet(Slot(t))
  <2> DEFINE place == IF HasPage(want[t][1], want[t][2]) THEN "lock" ELSE "slotAlloc"
  <2>1. Goes(t, place) /\ Stay /\ UNCHANGED <<known, reply>>
    BY <1>3 DEF Look
  <2>2. UNCHANGED <<pages, mem, mutex, count, named, requests>>
    BY DEF Look
  <2>3. /\ place \in Places \ {"aborted"} /\ place \notin {"again", "write", "publish"}
        /\ place \in {"lock", "slotAlloc"}
        /\ place = "lock" => HasPage(want[t][1], want[t][2])
    BY DEF Places
  <2> HIDE DEF place
  <2>4. at'[t] = place /\ want'[t] = want[t]
    BY <2>1, MovedThread DEF Stay
  <2>5. ThreadInv(t)'
    BY <1>1, <2>1, <2>2, <2>3, <2>4 DEF ThreadInv, HasPage
  <2> QED BY <1>1, <2>1, <2>2, <2>3, <2>5, MoveStep
<1> QED BY <1>2, <1>3

LEMMA SlotAllocStep ==
    ASSUME IInv, NEW t \in Threads, SlotAlloc(t) PROVE IInv'
<1>1. /\ at[t] = "slotAlloc" /\ mutex # t /\ mutex \in Threads \cup {None} /\ want[t] \in Types
      /\ want[t][2] \in known /\ t \in Pending /\ pages \subseteq Tables \X (0..PageOf(MaxId))
  BY DEF SlotAlloc, IInv, TypeOK, ThreadInv, Pending
<1>2. /\ Goes(t, "slot") /\ Stay /\ UNCHANGED <<mem, mutex, count, named, known, requests, reply>>
      /\ pages' = pages \cup {<<want[t][1], PageOf(want[t][2])>>}
  BY DEF SlotAlloc, Allocate
<1>3. pages \subseteq pages' /\ pages' \subseteq Tables \X (0..PageOf(MaxId))
  <2>1. want[t][1] \in Tables /\ want[t][2] \in Ids
    BY <1>1 DEF Types, Tables
  <2> QED BY <1>1, <1>2, <2>1, PageInTables
<1>4. at'[t] = "slot" /\ want'[t] = want[t]
  BY <1>2, MovedThread DEF Stay
<1>5. ThreadInv(t)' /\ "slot" \in Places \ {"aborted"}
  BY <1>1, <1>2, <1>4 DEF ThreadInv, Places
<1> QED BY <1>1, <1>2, <1>3, <1>5, MoveStep

LEMMA LockStep ==
    ASSUME IInv, NEW t \in Threads, Lock(t) PROVE IInv'
<1>1. /\ at[t] = "lock" /\ want[t] \in Types /\ want[t][2] \in known /\ HasPage(want[t][1], want[t][2])
      /\ t \in Pending /\ pages \subseteq Tables \X (0..PageOf(MaxId)) /\ None \notin Threads
  BY DTypeAssumption DEF Lock, IInv, TypeOK, ThreadInv, Pending
<1>2. /\ Goes(t, "again") /\ Stay /\ UNCHANGED <<pages, mem, count, named, known, requests, reply>>
      /\ mutex = None /\ mutex' = t
  BY DEF Lock
<1>3. at'[t] = "again" /\ want'[t] = want[t]
  BY <1>2, MovedThread DEF Stay
<1>4. ThreadInv(t)' /\ "again" \in Places \ {"aborted"}
  BY <1>1, <1>2, <1>3 DEF ThreadInv, Places, HasPage
<1> QED BY <1>1, <1>2, <1>4, MoveStep

LEMMA LookAgainStep ==
    ASSUME IInv, NEW t \in Threads, LookAgain(t) PROVE IInv'
<1>1. /\ at[t] = "again" /\ mutex = t /\ None \notin Threads /\ want[t] \in Types /\ want[t][2] \in known
      /\ HasPage(want[t][1], want[t][2]) /\ t \in Pending /\ pages \subseteq Tables \X (0..PageOf(MaxId))
  BY DTypeAssumption DEF LookAgain, IInv, TypeOK, ThreadInv, Pending
<1>2. UNCHANGED <<pages, mem, count, named, requests>>
  BY DEF LookAgain
<1>3. CASE IsSet(Slot(t))
  <2>1. Returns(t, mem[Slot(t)]) /\ mutex' = None
    BY <1>3 DEF LookAgain
  <2> QED BY <1>1, <1>2, <1>3, <2>1, ReturnStep
<1>4. CASE ~IsSet(Slot(t))
  <2>1. Goes(t, "write") /\ Stay /\ UNCHANGED <<mutex, known, reply>>
    BY <1>4 DEF LookAgain
  <2>2. at'[t] = "write" /\ want'[t] = want[t]
    BY <2>1, MovedThread DEF Stay
  <2>3. ThreadInv(t)' /\ "write" \in Places \ {"aborted"}
    BY <1>1, <1>2, <1>4, <2>1, <2>2 DEF ThreadInv, Places, HasPage, IsSet, Slot
  <2> QED BY <1>1, <1>2, <2>1, <2>3, MoveStep
<1> QED BY <1>3, <1>4

-----------------------------------------------------------------------------
(* The steps of dtype_name that write nothing.                             *)

\* A step of dtype_name is of a thread without the mutex.
LEMMA NamingThread ==
    ASSUME IInv, NEW t \in Threads,
           at[t] \in {"name", "nameAlloc", "count", "fill", "nextAlloc", "make", "advance", "result"}
    PROVE  /\ mutex # t /\ mutex \in Threads \cup {None} /\ pages \subseteq Tables \X (0..PageOf(MaxId))
           /\ target[t] \in known /\ target[t] \in Ids /\ next[t] \in 0..(MaxId + 1) /\ named \in Nat
           /\ "names" \in Tables
BY Ranges DEF IInv, TypeOK, ThreadInv, Tables

LEMMA AskNameStep ==
    ASSUME IInv, NEW t \in Threads, NEW id \in Ids, AskName(t, id) PROVE IInv'
<1> USE DEF AskName
<1>1. OthersStay(t) /\ at'[t] = "name" /\ target'[t] = id
  BY DEF OthersStay, Goes, IInv, TypeOK
<1>2. ThreadInv(t)'
  BY <1>1 DEF ThreadInv, shared
<1>3. "name" \in Places \ {"aborted"} /\ target' \in [Threads -> Ids]
  BY DEF Places, IInv, TypeOK
<1>4. at[t] = "idle" /\ mutex # t /\ mutex \in Threads \cup {None}
  BY DEF IInv, TypeOK
<1>5. UNCHANGED <<pages, mem, mutex, count, named, known, requests, want, next, reply>>
  BY DEF shared
<1>6. known' \subseteq 0..(FirstDerived + count - 1) /\ requests' \in 0..MaxRequests /\ requests =< requests'
  BY <1>5 DEF IInv, CountInv, TypeOK
<1> QED BY <1>1, <1>2, <1>3, <1>4, <1>5, <1>6, QuietStep DEF IInv, TypeOK

\* A call to dtype_name ends.
LEMMA LeaveStep ==
    ASSUME IInv, NEW t \in Threads, Leave(t), UNCHANGED <<shared, reply>>, mutex # t
    PROVE  IInv'
<1>1. UNCHANGED <<pages, mem, mutex, count, named, known, requests, reply>>
  BY DEF shared
<1>2. Goes(t, "idle") /\ "idle" \in Places \ {"aborted"}
  BY DEF Leave, Places
<1>3. known' \subseteq 0..(FirstDerived + count - 1) /\ requests' \in 0..MaxRequests /\ requests =< requests'
  BY <1>1 DEF IInv, CountInv, TypeOK
<1> QED BY <1>1, <1>2, <1>3, LeftThread, QuietStep DEF IInv, TypeOK

LEMMA CachedStep ==
    ASSUME IInv, NEW t \in Threads, Cached(t) PROVE IInv'
<1>1. at[t] = "name"
  BY DEF Cached
<1>2. CASE IsSet(Cell("names", target[t]))
  BY <1>1, <1>2, NamingThread, LeaveStep DEF Cached
<1>3. CASE ~IsSet(Cell("names", target[t]))
  <2> DEFINE place == IF HasPage("names", target[t]) THEN "count" ELSE "nameAlloc"
  <2>1. Goes(t, place) /\ Stay /\ UNCHANGED <<pages, mem, mutex, count, named, known, requests, reply>>
    BY <1>3 DEF Cached, shared
  <2>2. place \in Places \ {"aborted"} /\ place \in {"count", "nameAlloc"}
    BY DEF Places
  <2> HIDE DEF place
  <2>3. at'[t] = place /\ target'[t] = target[t]
    BY <2>1, MovedThread DEF Stay
  <2>4. ThreadInv(t)'
    BY <1>1, <2>1, <2>2, <2>3, NamingThread DEF ThreadInv
  <2> QED BY <1>1, <2>1, <2>2, <2>4, NamingThread, MoveStep
<1> QED BY <1>2, <1>3

LEMMA NameAllocStep ==
    ASSUME IInv, NEW t \in Threads, NameAlloc(t) PROVE IInv'
<1>1. /\ at[t] = "nameAlloc" /\ Goes(t, "name") /\ Stay
      /\ UNCHANGED <<mem, mutex, count, named, known, requests, reply>>
      /\ pages' = pages \cup {<<"names", PageOf(target[t])>>}
  BY DEF NameAlloc, Allocate
<1>2. pages \subseteq pages' /\ pages' \subseteq Tables \X (0..PageOf(MaxId))
  BY <1>1, NamingThread, PageInTables
<1>3. at'[t] = "name" /\ target'[t] = target[t]
  BY <1>1, MovedThread DEF Stay
<1>4. ThreadInv(t)' /\ "name" \in Places \ {"aborted"}
  BY <1>1, <1>3, NamingThread DEF ThreadInv, Places
<1> QED BY <1>1, <1>2, <1>4, NamingThread, MoveStep

\* The head of the loop: next_id is the counter that was read or exchanged.
LEMMA LoopThread ==
    ASSUME IInv, NEW t \in Threads, target[t] \in known, NEW id \in 0..(MaxId + 1), named' \in Int,
           id =< named', Loop(t, id), UNCHANGED <<known, want, target>>
    PROVE  /\ OthersStay(t) /\ ThreadInv(t)' /\ next' \in [Threads -> 0..(MaxId + 1)]
           /\ \E place \in {"result", "fill"} : Goes(t, place)
<1> DEFINE place == IF id > target[t] THEN "result" ELSE "fill"
<1>1. Goes(t, place) /\ next' = [next EXCEPT ![t] = id]
  BY DEF Loop
<1>2. OthersStay(t) /\ at'[t] = place /\ next'[t] = id /\ next' \in [Threads -> 0..(MaxId + 1)]
  BY <1>1 DEF Goes, OthersStay, IInv, TypeOK
<1>3. target[t] \in Int /\ id \in Int
  BY Ranges DEF IInv, TypeOK, Ids
<1>4. ThreadInv(t)'
  <2>1. CASE id > target[t]
    <3>1. at'[t] = "result" /\ target'[t] = target[t] /\ target[t] < named'
      BY <1>2, <1>3, <2>1
    <3> QED BY <3>1 DEF ThreadInv
  <2>2. CASE ~(id > target[t])
    <3>1. at'[t] = "fill" /\ target'[t] = target[t] /\ next'[t] =< target'[t] /\ next'[t] =< named'
      BY <1>2, <1>3, <2>2
    <3> QED BY <3>1 DEF ThreadInv
  <2> QED BY <2>1, <2>2
<1> QED BY <1>1, <1>2, <1>4

LEMMA CountStep ==
    ASSUME IInv, NEW t \in Threads, Count(t) PROVE IInv'
<1>1. /\ at[t] = "count" /\ Loop(t, named)
      /\ UNCHANGED <<pages, mem, mutex, count, named, known, requests, want, target, reply>>
  BY DEF Count, shared
<1>2. named \in 0..(MaxId + 1) /\ named =< named'
  BY <1>1, Ranges DEF IInv, TypeOK
<1>3. /\ OthersStay(t) /\ ThreadInv(t)' /\ next' \in [Threads -> 0..(MaxId + 1)]
      /\ \E place \in {"result", "fill"} : Goes(t, place)
  BY <1>1, <1>2, NamingThread, LoopThread
<1>4. PICK place \in {"result", "fill"} : Goes(t, place)
  BY <1>3
<1>5. place \in Places \ {"aborted"}
  BY DEF Places
<1>6. known' \subseteq 0..(FirstDerived + count - 1) /\ requests' \in 0..MaxRequests /\ requests =< requests'
  BY <1>1 DEF IInv, CountInv, TypeOK
<1> QED BY <1>1, <1>3, <1>4, <1>5, <1>6, NamingThread, QuietStep DEF IInv, TypeOK

LEMMA FillStep ==
    ASSUME IInv, NEW t \in Threads, Fill(t) PROVE IInv'
<1> DEFINE place == IF IsSet(Cell("names", next[t])) THEN "advance"
                    ELSE IF HasPage("names", next[t]) THEN "make" ELSE "nextAlloc"
<1>1. /\ at[t] = "fill" /\ Goes(t, place) /\ Stay
      /\ UNCHANGED <<pages, mem, mutex, count, named, known, requests, reply>>
  BY DEF Fill, shared
<1>2. /\ place \in Places \ {"aborted"}
      /\ place \in {"advance", "make", "nextAlloc"}
      /\ place = "advance" => IsSet(Cell("names", next[t]))
      /\ place = "make" => HasPage("names", next[t])
  BY DEF Places
<1> HIDE DEF place
<1>3. at'[t] = place /\ target'[t] = target[t] /\ next'[t] = next[t]
  BY <1>1, MovedThread DEF Stay
<1>4. next[t] =< target[t] /\ next[t] =< named
  BY <1>1 DEF IInv, ThreadInv
<1>5. ThreadInv(t)'
  BY <1>1, <1>2, <1>3, <1>4, NamingThread DEF ThreadInv, HasPage, IsSet
<1> QED BY <1>1, <1>2, <1>5, NamingThread, MoveStep

LEMMA NextAllocStep ==
    ASSUME IInv, NEW t \in Threads, NextAlloc(t) PROVE IInv'
<1>1. /\ at[t] = "nextAlloc" /\ Goes(t, "fill") /\ Stay
      /\ UNCHANGED <<mem, mutex, count, named, known, requests, reply>>
      /\ pages' = pages \cup {<<"names", PageOf(next[t])>>}
  BY DEF NextAlloc, Allocate
<1>2. next[t] =< target[t] /\ next[t] =< named
  BY <1>1 DEF IInv, ThreadInv
<1>3. next[t] \in Ids
  BY <1>1, <1>2, NamingThread, Ranges DEF Ids
<1>4. pages \subseteq pages' /\ pages' \subseteq Tables \X (0..PageOf(MaxId))
  BY <1>1, <1>3, NamingThread, PageInTables
<1>5. at'[t] = "fill" /\ target'[t] = target[t] /\ next'[t] = next[t]
  BY <1>1, MovedThread DEF Stay
<1>6. ThreadInv(t)' /\ "fill" \in Places \ {"aborted"}
  BY <1>1, <1>2, <1>5, NamingThread DEF ThreadInv, Places
<1> QED BY <1>1, <1>4, <1>6, NamingThread, MoveStep

LEMMA MakeFailsStep ==
    ASSUME IInv, NEW t \in Threads, MakeFails(t) PROVE IInv'
BY NamingThread, LeaveStep DEF MakeFails

\* The name that dtype_name looks up at its end is there.
LEMMA ResultStep ==
    ASSUME IInv, NEW t \in Threads, Result(t) PROVE IInv'
<1>1. at[t] = "result"
  BY DEF Result
<1>2. target[t] < named /\ target[t] \in Ids
  BY <1>1, NamingThread DEF IInv, ThreadInv
<1>3. IsSet(Cell("names", target[t]))
  BY <1>2 DEF IInv, NameInv, NamesAreComplete
<1> QED BY <1>1, <1>3, NamingThread, LeaveStep DEF Result

-----------------------------------------------------------------------------
(* The steps that write.                                                   *)

\* What a name is made of stays.
LEMMA NameMade ==
    ASSUME IInv, Grows, NEW id \in Ids, id < FirstDerived + count,
           id >= FirstDerived /\ ~Opaque(id) => IsSet(Cell("names", Pointee(id)))
    PROVE  /\ MakeName(id)' = MakeName(id)
           /\ id >= FirstDerived => Opaque(id)' = Opaque(id) /\ Pointee(id)' = Pointee(id)
<1>1. CASE id < FirstDerived
  <2>1. ~(id >= FirstDerived)
    BY <1>1, Ranges DEF Ids
  <2> QED BY <1>1, <2>1 DEF MakeName
<1>2. CASE ~(id < FirstDerived)
  <2>1. id >= FirstDerived /\ id \in FirstDerived..(FirstDerived + count - 1)
    BY <1>2, Ranges DEF Ids, IInv, TypeOK
  <2>2. Element(id) \in DOMAIN mem
    BY <2>1, ElementOf DEF IInv, IsSet
  <2>3. mem'[Element(id)] = mem[Element(id)]
    BY <2>2 DEF Grows
  <2>4. Kind(id)' = Kind(id) /\ Pointee(id)' = Pointee(id)
    BY <2>3 DEF Kind, Pointee, Element
  <2>5. Opaque(id)' = Opaque(id)
    BY <2>4 DEF Opaque
  <2>6. ~Opaque(id) => mem'[Cell("names", Pointee(id))] = mem[Cell("names", Pointee(id))]
    BY <2>1 DEF Grows, IsSet
  <2> QED BY <1>2, <2>4, <2>5, <2>6 DEF MakeName
<1> QED BY <1>1, <1>2

LEMMA NamesKept ==
    ASSUME IInv, Grows, TypeOK', named' = named,
           \A id \in Ids : IsSet(Cell("names", id))' => IsSet(Cell("names", id))
    PROVE  NameInv'
<1> SUFFICES ASSUME NEW id \in Ids
             PROVE  /\ id < named' => IsSet(Cell("names", id))'
                    /\ IsSet(Cell("names", id))' =>
                         /\ id < FirstDerived + count' /\ mem'[Cell("names", id)] = MakeName(id)'
                         /\ id >= FirstDerived /\ ~Opaque(id)' => IsSet(Cell("names", Pointee(id)))'
  BY DEF NameInv, NamesAreComplete
<1>1. id < named => IsSet(Cell("names", id))'
  BY DEF IInv, NameInv, NamesAreComplete, Grows, IsSet
<1>2. ASSUME IsSet(Cell("names", id))
      PROVE  /\ id < FirstDerived + count' /\ mem'[Cell("names", id)] = MakeName(id)'
             /\ id >= FirstDerived /\ ~Opaque(id)' => IsSet(Cell("names", Pointee(id)))'
  <2>1. /\ id < FirstDerived + count /\ mem[Cell("names", id)] = MakeName(id)
        /\ id >= FirstDerived /\ ~Opaque(id) => IsSet(Cell("names", Pointee(id)))
    BY <1>2 DEF IInv, NameInv, NamesAreComplete
  <2>2. /\ MakeName(id)' = MakeName(id)
        /\ id >= FirstDerived => Opaque(id)' = Opaque(id) /\ Pointee(id)' = Pointee(id)
    BY <2>1, NameMade
  <2>3. id < FirstDerived + count'
    <3>1. id \in Nat /\ FirstDerived \in Nat /\ count \in Nat /\ count' \in Nat /\ count =< count'
      BY Ranges DEF Grows, IInv, TypeOK
    <3>2. id < FirstDerived + count
      BY <2>1
    <3>3. \A a, b \in Nat : a =< b /\ id < FirstDerived + a => id < FirstDerived + b
      BY <3>1
    <3> QED BY <3>1, <3>2, <3>3
  <2>4. mem'[Cell("names", id)] = mem[Cell("names", id)]
    BY <1>2 DEF Grows, IsSet
  <2>5. id >= FirstDerived /\ ~Opaque(id)' => IsSet(Cell("names", Pointee(id)))'
    BY <2>1, <2>2 DEF Grows, IsSet
  <2> QED BY <2>1, <2>2, <2>3, <2>4, <2>5
<1> QED BY <1>1, <1>2

LEMMA SlotsKept ==
    ASSUME IInv, Grows, TypeOK', \A ty \in Types : IsSet(Cell(ty[1], ty[2]))' => IsSet(Cell(ty[1], ty[2]))
    PROVE  SlotInv'
<1> SUFFICES ASSUME NEW ty \in Types, IsSet(Cell(ty[1], ty[2]))
             PROVE  /\ mem'[Cell(ty[1], ty[2])] \in FirstDerived..(FirstDerived + count' - 1)
                    /\ mem'[Element(mem'[Cell(ty[1], ty[2])])] = ty
  BY DEF SlotInv, Element
<1> DEFINE num == mem[Cell(ty[1], ty[2])]
<1>1. num \in FirstDerived..(FirstDerived + count - 1) /\ mem[Element(num)] = ty
  BY DEF IInv, SlotInv
<1>2. mem'[Cell(ty[1], ty[2])] = num
  BY DEF Grows, IsSet
<1> HIDE DEF num
<1>3. num \in FirstDerived..(FirstDerived + count' - 1)
  <2>1. count \in Nat /\ count' \in Nat /\ count =< count' /\ FirstDerived \in Nat
    BY Ranges DEF Grows, IInv, TypeOK
  <2>2. \A a, b \in Nat : a =< b =>
          FirstDerived..(FirstDerived + a - 1) \subseteq FirstDerived..(FirstDerived + b - 1)
    BY <2>1
  <2> QED BY <1>1, <2>1, <2>2
<1>4. mem'[Element(num)] = ty
  BY <1>1, ElementOf DEF Grows, IInv, IsSet
<1> QED BY <1>2, <1>3, <1>4

LEMMA ElementsKept ==
    ASSUME IInv, Grows, count' = count,
           \A i \in Ids : IsSet(Cell("derived", i))' => IsSet(Cell("derived", i))
    PROVE  ElementInv'
<1> SUFFICES ASSUME NEW i \in 0..(MaxRequests - 1)
             PROVE  /\ IsSet(Cell("derived", i))' <=> i < count'
                    /\ i < count' => /\ mem'[Cell("derived", i)] \in Types
                                     /\ mem'[Cell("derived", i)][2] < FirstDerived + i
  BY DEF ElementInv
<1>1. i \in Ids
  BY Ranges
<1>2. IsSet(Cell("derived", i))' <=> IsSet(Cell("derived", i))
  BY <1>1 DEF Grows, IsSet
<1>3. IsSet(Cell("derived", i)) => mem'[Cell("derived", i)] = mem[Cell("derived", i)]
  BY DEF Grows, IsSet
<1> QED BY <1>2, <1>3 DEF IInv, ElementInv

\* A store to an element that is not set keeps the others.
LEMMA StoreGrows ==
    ASSUME NEW c, NEW v, ~IsSet(c), Store(c, v), pages \subseteq pages', count =< count',
           known \subseteq known', named =< named'
    PROVE  Grows /\ \A d : IsSet(d)' <=> IsSet(d) \/ d = c
<1>1. DOMAIN mem' = DOMAIN mem \cup {c} /\ \A d \in DOMAIN mem : mem'[d] = mem[d]
  BY StoreEffect DEF IsSet
<1> QED BY <1>1, Zenon DEF Grows, IsSet

LEMMA MakeStep ==
    ASSUME IInv, NEW t \in Threads, Make(t) PROVE IInv'
<1> DEFINE n == next[t]
<1>0. /\ at[t] = "make" /\ Stay
      /\ UNCHANGED <<pages, mutex, count, named, known, requests, reply>>
  BY DEF Make
<1>1. /\ n =< target[t] /\ n =< named /\ HasPage("names", n) /\ n \in Ids
      /\ target[t] \in 0..(FirstDerived + count - 1)
  <2>1. n =< target[t] /\ n =< named /\ HasPage("names", n)
    BY <1>0 DEF IInv, ThreadInv
  <2>2. target[t] \in known /\ target[t] \in Ids /\ next[t] \in 0..(MaxId + 1)
    BY <1>0, NamingThread
  <2>3. n \in Ids
    BY <2>1, <2>2, Ranges DEF Ids
  <2> QED BY <2>1, <2>2, <2>3 DEF IInv, CountInv
<1>2. n < FirstDerived + count /\ (n >= FirstDerived => n \in FirstDerived..(FirstDerived + count - 1))
  BY <1>1, Ranges DEF Ids, IInv, TypeOK
<1>3. n >= FirstDerived => IsSet(Element(n)) /\ Pointee(n) \in Ids /\ Pointee(n) < n /\ IsSet(Cell("names", Pointee(n)))
  <2> SUFFICES ASSUME n >= FirstDerived
               PROVE  IsSet(Element(n)) /\ Pointee(n) \in Ids /\ Pointee(n) < n /\ IsSet(Cell("names", Pointee(n)))
    OBVIOUS
  <2>1. IsSet(Element(n)) /\ Pointee(n) \in Ids /\ Pointee(n) < n
    BY <1>2, ElementOf DEF IInv
  <2>2. Pointee(n) < named
    BY <1>1, <2>1, Ranges DEF IInv, TypeOK, Ids
  <2> QED BY <2>1, <2>2 DEF IInv, NameInv, NamesAreComplete
<1>4. CanMake(n)
  BY <1>3 DEF CanMake
<1>5. Goes(t, "advance") /\ "advance" \in Places \ {"aborted"}
  BY <1>4 DEF Make, Places
<1>6. at'[t] = "advance" /\ target'[t] = target[t] /\ next'[t] = n /\ OthersStay(t)
  BY <1>0, <1>5, MovedThread DEF Stay
<1>7. IsSet(Cell("names", n))' => ThreadInv(t)'
  BY <1>0, <1>1, <1>6, NamingThread DEF ThreadInv
<1>8. CASE IsSet(Cell("names", n))
  <2>1. mem' = mem
    BY <1>8 DEF Make
  <2>2. ThreadInv(t)'
    BY <2>1, <1>6, <1>7, <1>8 DEF IsSet
  <2> QED BY <1>0, <1>5, <2>1, <2>2, NamingThread, MoveStep
<1>9. CASE ~IsSet(Cell("names", n))
  <2>1. Store(Cell("names", n), MakeName(n))
    BY <1>4, <1>9 DEF Make
  <2>2. Grows /\ \A d : IsSet(d)' <=> IsSet(d) \/ d = Cell("names", n)
    BY <1>0, <1>9, <2>1, StoreGrows DEF IInv, TypeOK
  <2>3. mem'[Cell("names", n)] = MakeName(n)
    BY <2>1, StoreEffect
  <2>4. TypeOK'
    <3>1. at' \in [Threads -> Places]
      BY <1>5 DEF Goes, IInv, TypeOK
    <3>2. \A u \in Threads : mutex' = u <=> at'[u] \in {"again", "write", "publish"}
      BY <1>0, <1>6, NamingThread DEF OthersStay, IInv, TypeOK
    <3>3. \A c \in DOMAIN mem' : <<c[1], c[2]>> \in pages'
      <4> SUFFICES ASSUME NEW c \in DOMAIN mem' PROVE <<c[1], c[2]>> \in pages
        BY <1>0
      <4>1. c \in DOMAIN mem \/ c = Cell("names", n)
        BY <2>1, StoreEffect
      <4>2. c \in DOMAIN mem => <<c[1], c[2]>> \in pages
        BY DEF IInv, TypeOK
      <4> QED BY <1>1, <4>1, <4>2 DEF HasPage, Cell
    <3> QED BY <1>0, <3>1, <3>2, <3>3, MovedThread, <1>5 DEF IInv, TypeOK
  <2>5. CountInv'
    <3>1. /\ IsFiniteSet(Pending') /\ Cardinality(Pending) \in Nat /\ Cardinality(Pending') \in Nat
          /\ Cardinality(Pending') =< Cardinality(Pending)
      BY <1>5, PendingMoves
    <3> QED BY <1>0, <3>1 DEF IInv, CountInv, TypeOK
  <2>6. ElementInv' /\ SlotInv'
    <3>1. \A i \in Ids : IsSet(Cell("derived", i))' => IsSet(Cell("derived", i))
      BY <1>1, <2>2, CellInjective
    <3>2. \A ty \in Types : IsSet(Cell(ty[1], ty[2]))' => IsSet(Cell(ty[1], ty[2]))
      BY <1>1, <2>2, CellsApart
    <3> QED BY <1>0, <2>2, <2>4, <3>1, <3>2, ElementsKept, SlotsKept
  <2>7. NameInv'
    <3> SUFFICES ASSUME NEW id \in Ids
                 PROVE  /\ id < named' => IsSet(Cell("names", id))'
                        /\ IsSet(Cell("names", id))' =>
                             /\ id < FirstDerived + count' /\ mem'[Cell("names", id)] = MakeName(id)'
                             /\ id >= FirstDerived /\ ~Opaque(id)' => IsSet(Cell("names", Pointee(id)))'
      BY DEF NameInv, NamesAreComplete
    <3>1. id < named' => IsSet(Cell("names", id))'
      BY <1>0, <2>2 DEF IInv, NameInv, NamesAreComplete
    <3>2. ASSUME IsSet(Cell("names", id))'
          PROVE  /\ id < FirstDerived + count /\ mem'[Cell("names", id)] = MakeName(id)
                 /\ id >= FirstDerived /\ ~Opaque(id) => IsSet(Cell("names", Pointee(id)))
      <4>1. CASE id = n
        BY <1>2, <1>3, <2>3, <4>1
      <4>2. CASE id # n
        <5>1. IsSet(Cell("names", id))
          BY <1>1, <2>2, <3>2, <4>2, CellInjective
        <5>2. mem'[Cell("names", id)] = mem[Cell("names", id)]
          BY <2>2, <5>1 DEF Grows, IsSet
        <5> QED BY <5>1, <5>2 DEF IInv, NameInv, NamesAreComplete
      <4> QED BY <4>1, <4>2
    <3>3. ASSUME IsSet(Cell("names", id))'
          PROVE  /\ MakeName(id)' = MakeName(id)
                 /\ id >= FirstDerived => Opaque(id)' = Opaque(id) /\ Pointee(id)' = Pointee(id)
      BY <2>2, <3>2, <3>3, NameMade
    <3>4. \A d : IsSet(d) => IsSet(d)'
      BY <2>2
    <3> QED BY <1>0, <3>1, <3>2, <3>3, <3>4
  <2>8. UnderMutex(t)
    BY <1>0, <1>1, <2>2, CellsApart DEF UnderMutex
  <2>9. ThreadInv(t)'
    BY <1>6, <1>7, <2>2
  <2> QED BY <1>6, <2>2, <2>4, <2>5, <2>6, <2>7, <2>8, <2>9, Assemble
<1> QED BY <1>8, <1>9

LEMMA AdvanceStep ==
    ASSUME IInv, NEW t \in Threads, Advance(t) PROVE IInv'
<1>0. /\ at[t] = "advance" /\ Loop(t, named')
      /\ named' = IF named = next[t] THEN named + 1 ELSE named
      /\ UNCHANGED <<pages, mem, mutex, count, known, requests, want, target, reply>>
  BY DEF Advance
<1>1. next[t] \in Ids /\ IsSet(Cell("names", next[t])) /\ next[t] =< target[t] /\ next[t] =< named
  <2>1. next[t] =< target[t] /\ next[t] =< named /\ IsSet(Cell("names", next[t]))
    BY <1>0 DEF IInv, ThreadInv
  <2>2. target[t] \in Ids /\ next[t] \in 0..(MaxId + 1)
    BY <1>0, NamingThread
  <2> QED BY <2>1, <2>2, Ranges DEF Ids
<1>2. next[t] < FirstDerived + count
  BY <1>1 DEF IInv, NameInv, NamesAreComplete
<1>3. /\ named \in Nat /\ named' \in Nat /\ named =< named' /\ named' =< FirstDerived + count
      /\ named' \in 0..(MaxId + 1)
  BY <1>0, <1>1, <1>2, Ranges DEF IInv, TypeOK, CountInv, Ids
<1>4. Grows /\ UnderMutex(t)
  BY <1>0, <1>3 DEF Grows, UnderMutex, IsSet, IInv, TypeOK
<1>5. /\ OthersStay(t) /\ ThreadInv(t)' /\ next' \in [Threads -> 0..(MaxId + 1)]
      /\ \E place \in {"result", "fill"} : Goes(t, place)
  BY <1>0, <1>3, NamingThread, LoopThread
<1>6. PICK place \in {"result", "fill"} : Goes(t, place)
  BY <1>5
<1>7. TypeOK' /\ at'[t] # "aborted"
  <2>1. at' \in [Threads -> Places] /\ at'[t] = place
    BY <1>6 DEF Goes, IInv, TypeOK, Places
  <2>2. \A u \in Threads : mutex' = u <=> at'[u] \in {"again", "write", "publish"}
    BY <1>0, <1>5, <2>1, NamingThread DEF OthersStay, IInv, TypeOK
  <2> QED BY <1>0, <1>3, <1>5, <2>1, <2>2 DEF IInv, TypeOK
<1>8. CountInv'
  <2>1. /\ IsFiniteSet(Pending') /\ Cardinality(Pending) \in Nat /\ Cardinality(Pending') \in Nat
        /\ Cardinality(Pending') =< Cardinality(Pending)
    BY <1>6, PendingMoves
  <2> QED BY <1>0, <1>3, <2>1 DEF IInv, CountInv, TypeOK
<1>9. ElementInv' /\ SlotInv'
  BY <1>0 DEF IInv, ElementInv, SlotInv, IsSet, Element
<1>10. NameInv'
  <2>1. \A id \in Ids : id < named' => IsSet(Cell("names", id))'
    <3> SUFFICES ASSUME NEW id \in Ids, id < named' PROVE IsSet(Cell("names", id))
      BY <1>0 DEF IsSet
    <3>1. id < named \/ id = next[t]
      BY <1>0, <1>3, Ranges
    <3> QED BY <1>1, <3>1 DEF IInv, NameInv, NamesAreComplete
  <2>2. NamesAreComplete'
    BY <1>0, <2>1 DEF IInv, NameInv, NamesAreComplete, MakeName, Opaque, Kind, Pointee, IsSet, Element
  <2> QED BY <1>0, <2>2 DEF IInv, NameInv, Opaque, Kind, Pointee, IsSet, Element
<1> QED BY <1>4, <1>5, <1>7, <1>8, <1>9, <1>10, Assemble

\* The thread with the mutex writes the element at the end of the table.
LEMMA WriteStep ==
    ASSUME IInv, NEW t \in Threads, Write(t) PROVE IInv'
<1>0. /\ at[t] = "write" /\ Goes(t, "publish") /\ Stay /\ count' = count + 1
      /\ pages' = pages \cup {<<"derived", PageOf(count)>>} /\ Store(Cell("derived", count), want[t])
      /\ UNCHANGED <<mutex, named, known, requests, reply>>
  BY DEF Write
<1>1. /\ mutex = t /\ t \in Pending /\ want[t] \in Types /\ want[t][2] \in known
      /\ HasPage(want[t][1], want[t][2]) /\ ~IsSet(Slot(t))
  BY <1>0 DEF IInv, TypeOK, ThreadInv, Pending
<1>2. /\ IsFiniteSet(Pending') /\ Cardinality(Pending') \in Nat /\ Cardinality(Pending) \in Nat
      /\ Cardinality(Pending') = Cardinality(Pending) - 1
  BY <1>0, <1>1, PendingMoves
<1>3. /\ count \in Nat /\ count \in 0..(MaxRequests - 1) /\ count \in Ids
      /\ count' \in 0..MaxRequests /\ count =< count'
  <2>1. /\ count \in Nat /\ requests \in Nat /\ requests =< MaxRequests /\ MaxRequests \in Nat
        /\ count + Cardinality(Pending) =< requests
    BY Ranges DEF IInv, CountInv, TypeOK
  <2>2. count \in 0..(MaxRequests - 1)
    BY <1>2, <2>1
  <2> QED BY <1>0, <2>1, <2>2, Ranges
<1>4. ~IsSet(Cell("derived", count))
  BY <1>3 DEF IInv, ElementInv
<1>5. /\ Grows
      /\ \A d : IsSet(d)' <=> IsSet(d) \/ d = Cell("derived", count)
  BY <1>0, <1>3, <1>4, StoreGrows DEF IInv, TypeOK
<1>6. mem'[Cell("derived", count)] = want[t]
  BY <1>0, StoreEffect
<1>7. at'[t] = "publish" /\ want'[t] = want[t] /\ OthersStay(t)
  BY <1>0, MovedThread DEF Stay
<1>8. TypeOK'
  <2>1. at' \in [Threads -> Places]
    BY <1>0 DEF Goes, Places, IInv, TypeOK
  <2>2. \A u \in Threads : mutex' = u <=> at'[u] \in {"again", "write", "publish"}
    BY <1>0, <1>1, <1>7 DEF OthersStay, IInv, TypeOK
  <2>3. \A c \in DOMAIN mem' : <<c[1], c[2]>> \in pages'
    <3> SUFFICES ASSUME NEW c \in DOMAIN mem' PROVE <<c[1], c[2]>> \in pages'
      OBVIOUS
    <3>1. c \in DOMAIN mem \/ c = Cell("derived", count)
      BY <1>0, StoreEffect
    <3>2. c \in DOMAIN mem => <<c[1], c[2]>> \in pages
      BY DEF IInv, TypeOK
    <3> QED BY <1>0, <3>1, <3>2 DEF Cell
  <2>4. pages' \subseteq Tables \X (0..PageOf(MaxId))
    <3>1. <<"derived", PageOf(count)>> \in Tables \X (0..PageOf(MaxId))
      BY <1>3, PageInTables DEF Tables
    <3> QED BY <1>0, <3>1 DEF IInv, TypeOK
  <2> QED BY <1>0, <1>3, <2>1, <2>2, <2>3, <2>4, MovedThread DEF IInv, TypeOK
<1>9. CountInv'
  <2>1. known' \subseteq 0..(FirstDerived + count' - 1) /\ named' =< FirstDerived + count'
    <3>1. named \in Nat /\ FirstDerived \in Nat /\ named =< FirstDerived + count
      BY Ranges DEF IInv, TypeOK, CountInv
    <3>2. \A k \in known : k \in 0..(FirstDerived + count' - 1)
      BY <1>0, <1>3, Ranges DEF IInv, CountInv
    <3> QED BY <1>0, <1>3, <3>1, <3>2
  <2>2. count' + Cardinality(Pending') =< requests'
    BY <1>0, <1>2, <1>3 DEF IInv, CountInv, TypeOK
  <2> QED BY <1>2, <2>1, <2>2 DEF CountInv
<1>10. ElementInv'
  <2> SUFFICES ASSUME NEW i \in 0..(MaxRequests - 1)
               PROVE  /\ IsSet(Cell("derived", i))' <=> i < count'
                      /\ i < count' => /\ mem'[Cell("derived", i)] \in Types
                                       /\ mem'[Cell("derived", i)][2] < FirstDerived + i
    BY DEF ElementInv
  <2>1. i \in Ids /\ i \in Nat
    BY Ranges
  <2>2. CASE i = count
    <3>1. want[t][2] < FirstDerived + count
      <4>1. want[t][2] \in 0..(FirstDerived + count - 1)
        BY <1>1 DEF IInv, CountInv
      <4> QED BY <1>3, <4>1, Ranges
    <3> QED BY <1>0, <1>1, <1>3, <1>5, <1>6, <2>2, <3>1
  <2>3. CASE i # count
    <3>1. IsSet(Cell("derived", i))' <=> IsSet(Cell("derived", i))
      BY <1>3, <1>5, <2>1, <2>3, CellInjective
    <3>2. IsSet(Cell("derived", i)) => mem'[Cell("derived", i)] = mem[Cell("derived", i)]
      BY <1>5 DEF Grows, IsSet
    <3>3. i < count' <=> i < count
      BY <1>0, <1>3, <2>1, <2>3
    <3> QED BY <3>1, <3>2, <3>3 DEF IInv, ElementInv
  <2> QED BY <2>2, <2>3
<1>11. SlotInv' /\ NameInv'
  <2>1. \A ty \in Types : IsSet(Cell(ty[1], ty[2]))' => IsSet(Cell(ty[1], ty[2]))
    BY <1>3, <1>5, CellsApart
  <2>2. \A id \in Ids : IsSet(Cell("names", id))' => IsSet(Cell("names", id))
    BY <1>3, <1>5, CellInjective
  <2> QED BY <1>0, <1>5, <1>8, <2>1, <2>2, SlotsKept, NamesKept
<1>12. ThreadInv(t)'
  <2>1. ~IsSet(Slot(t))'
    BY <1>1, <1>3, <1>5, <1>7, CellsApart DEF Slot
  <2>2. count' > 0 /\ mem'[Cell("derived", count' - 1)] = want'[t]
    <3>1. count' - 1 = count /\ count' > 0
      BY <1>0, <1>3
    <3> QED BY <3>1, <1>6, <1>7
  <2>3. HasPage(want[t][1], want[t][2])'
    BY <1>1, <1>7, <1>5 DEF HasPage, Grows
  <2> QED BY <1>0, <1>1, <1>7, <2>1, <2>2, <2>3 DEF ThreadInv
<1> QED BY <1>1, <1>5, <1>7, <1>8, <1>9, <1>10, <1>11, <1>12, Assemble DEF UnderMutex

\* What holds when the number is published: the last element describes the type.
LEMMA PublishedNumber ==
    ASSUME IInv, NEW t \in Threads, Publish(t)
    PROVE  /\ want[t] \in Types /\ ~IsSet(Slot(t)) /\ HasPage(want[t][1], want[t][2]) /\ mutex = t
           /\ FirstDerived + count - 1 \in FirstDerived..(FirstDerived + count - 1)
           /\ FirstDerived + count - 1 \in Ids /\ FirstDerived + count - 1 # 0
           /\ mem[Element(FirstDerived + count - 1)] = want[t]
           /\ Grows /\ \A d : IsSet(d)' <=> IsSet(d) \/ d = Slot(t)
           /\ mem'[Slot(t)] = FirstDerived + count - 1
<1>0. /\ at[t] = "publish" /\ Store(Slot(t), FirstDerived + count - 1)
      /\ UNCHANGED <<pages, count, named, requests>> /\ known \subseteq known'
  BY DEF Publish, Returns
<1>1. /\ want[t] \in Types /\ ~IsSet(Slot(t)) /\ HasPage(want[t][1], want[t][2]) /\ mutex = t
      /\ count > 0 /\ mem[Cell("derived", count - 1)] = want[t]
  BY <1>0 DEF IInv, TypeOK, ThreadInv
<1>2. count \in Nat /\ count =< MaxRequests /\ named \in Nat
  BY Ranges DEF IInv, TypeOK
<1>3. /\ FirstDerived + count - 1 \in FirstDerived..(FirstDerived + count - 1)
      /\ FirstDerived + count - 1 \in Ids /\ FirstDerived + count - 1 # 0
      /\ (FirstDerived + count - 1) - FirstDerived = count - 1
  BY <1>1, <1>2, Ranges DEF Ids
<1>4. mem[Element(FirstDerived + count - 1)] = want[t]
  BY <1>1, <1>3 DEF Element
<1>5. Grows /\ \A d : IsSet(d)' <=> IsSet(d) \/ d = Slot(t)
  BY <1>0, <1>1, <1>2, StoreGrows
<1>6. mem'[Slot(t)] = FirstDerived + count - 1
  BY <1>0, StoreEffect
<1> QED BY <1>1, <1>3, <1>4, <1>5, <1>6

LEMMA PublishStep ==
    ASSUME IInv, NEW t \in Threads, Publish(t) PROVE IInv'
<1> DEFINE num == FirstDerived + count - 1
<1>0. /\ at[t] = "publish" /\ mutex' = None /\ Returns(t, num) /\ Leave(t) /\ Goes(t, "idle")
      /\ UNCHANGED <<pages, count, named, requests>> /\ Store(Slot(t), num)
  BY DEF Publish, Returns, Leave
<1>1. /\ want[t] \in Types /\ ~IsSet(Slot(t)) /\ HasPage(want[t][1], want[t][2]) /\ mutex = t
      /\ num \in FirstDerived..num /\ num \in Ids /\ mem[Element(num)] = want[t]
      /\ Grows /\ (\A d : IsSet(d)' <=> IsSet(d) \/ d = Slot(t)) /\ mem'[Slot(t)] = num
  BY PublishedNumber
<1>2. None \notin Threads
  BY DTypeAssumption
<1>3. TypeOK'
  <2>1. at' \in [Threads -> Places] /\ at'[t] = "idle"
    BY <1>0 DEF Goes, Places, IInv, TypeOK
  <2>2. \A u \in Threads : mutex' = u <=> at'[u] \in {"again", "write", "publish"}
    BY <1>0, <1>1, <1>2, <2>1, LeftThread DEF OthersStay, IInv, TypeOK
  <2>3. \A c \in DOMAIN mem' : <<c[1], c[2]>> \in pages'
    <3> SUFFICES ASSUME NEW c \in DOMAIN mem' PROVE <<c[1], c[2]>> \in pages
      BY <1>0
    <3>1. c \in DOMAIN mem \/ c = Slot(t)
      BY <1>0, StoreEffect
    <3>2. c \in DOMAIN mem => <<c[1], c[2]>> \in pages
      BY DEF IInv, TypeOK
    <3> QED BY <1>1, <3>1, <3>2 DEF HasPage, Slot, Cell
  <2>4. known' \subseteq Ids
    BY <1>0, <1>1 DEF Returns, IInv, TypeOK
  <2>5. reply' \in [Threads -> (Types \cup {NoType}) \X Ids]
    BY <1>0, <1>1 DEF Returns, IInv, TypeOK
  <2> QED BY <1>0, <2>1, <2>2, <2>3, <2>4, <2>5, LeftThread DEF IInv, TypeOK
<1>4. CountInv'
  <2>1. /\ IsFiniteSet(Pending') /\ Cardinality(Pending) \in Nat /\ Cardinality(Pending') \in Nat
        /\ Cardinality(Pending') =< Cardinality(Pending)
    <3>1. t \notin Pending
      BY <1>0 DEF Pending
    <3> QED BY <1>0, <3>1, PendingMoves
  <2>2. known' \subseteq 0..(FirstDerived + count - 1)
    <3>1. num \in 0..(FirstDerived + count - 1)
      BY <1>1, Ranges DEF Ids
    <3>2. known' = known \cup {num} /\ known \subseteq 0..(FirstDerived + count - 1)
      BY <1>0 DEF Returns, IInv, CountInv
    <3> QED BY <3>1, <3>2
  <2> QED BY <1>0, <2>1, <2>2 DEF IInv, CountInv, TypeOK
<1>5. ElementInv' /\ NameInv'
  <2>1. \A i \in Ids : IsSet(Cell("derived", i))' => IsSet(Cell("derived", i))
    BY <1>1, CellsApart DEF Slot
  <2>2. \A id \in Ids : IsSet(Cell("names", id))' => IsSet(Cell("names", id))
    BY <1>1, CellsApart DEF Slot
  <2> QED BY <1>0, <1>1, <1>3, <2>1, <2>2, ElementsKept, NamesKept
<1>6. SlotInv'
  <2> SUFFICES ASSUME NEW ty \in Types, IsSet(Cell(ty[1], ty[2]))'
               PROVE  /\ mem'[Cell(ty[1], ty[2])] \in FirstDerived..(FirstDerived + count' - 1)
                      /\ mem'[Element(mem'[Cell(ty[1], ty[2])])] = ty
    BY DEF SlotInv, Element
  <2>1. \A id \in FirstDerived..(FirstDerived + count - 1) : mem'[Element(id)] = mem[Element(id)]
    BY <1>1, ElementOf DEF Grows, IInv, IsSet
  <2>2. CASE ty = want[t]
    <3>1. mem'[Cell(ty[1], ty[2])] = num
      BY <1>1, <2>2 DEF Slot
    <3> QED BY <1>0, <1>1, <2>1, <2>2, <3>1
  <2>3. CASE ty # want[t]
    <3>1. IsSet(Cell(ty[1], ty[2]))
      BY <1>1, <2>3, SlotsApart DEF Slot
    <3>2. mem'[Cell(ty[1], ty[2])] = mem[Cell(ty[1], ty[2])]
      BY <1>1, <3>1 DEF Grows, IsSet
    <3> QED BY <1>0, <2>1, <3>1, <3>2 DEF IInv, SlotInv
  <2> QED BY <2>2, <2>3
<1>7. UnderMutex(t)
  BY <1>1 DEF UnderMutex
<1>8. ThreadInv(t)' /\ OthersStay(t) /\ at'[t] # "aborted"
  BY <1>0, LeftThread
<1> QED BY <1>1, <1>3, <1>4, <1>5, <1>6, <1>7, <1>8, Assemble

-----------------------------------------------------------------------------
(* The theorems.                                                           *)

LEMMA InitInv == Init => IInv
<1> SUFFICES ASSUME Init PROVE IInv
  OBVIOUS
<1> USE DEF Init
<1>1. DOMAIN mem = {}
  OBVIOUS
<1>2. TypeOK
  <2>1. /\ count \in 0..MaxRequests /\ named \in 0..(MaxId + 1) /\ known \subseteq Ids
        /\ requests \in 0..MaxRequests
    BY Ranges DEF Ids
  <2>2. /\ at \in [Threads -> Places] /\ want \in [Threads -> Types \cup {NoType}]
        /\ target \in [Threads -> Ids] /\ next \in [Threads -> 0..(MaxId + 1)]
        /\ reply \in [Threads -> (Types \cup {NoType}) \X Ids]
    BY Ranges DEF Places
  <2>3. \A t \in Threads : mutex = t <=> at[t] \in {"again", "write", "publish"}
    BY DTypeAssumption
  <2> QED BY <1>1, <2>1, <2>2, <2>3 DEF TypeOK
<1>3. CountInv
  <2>1. Pending = {}
    BY DEF Pending
  <2>2. IsFiniteSet(Pending) /\ Cardinality(Pending) = 0
    BY <2>1, FS_EmptySet
  <2> QED BY <2>2, Ranges DEF CountInv
<1>4. ElementInv /\ SlotInv
  BY <1>1, Ranges DEF ElementInv, SlotInv, IsSet
<1>5. NameInv
  BY <1>1, Ranges DEF NameInv, NamesAreComplete, IsSet
<1>6. NoCheckFails /\ \A t \in Threads : ThreadInv(t)
  BY DEF NoCheckFails, ThreadInv
<1> QED BY <1>2, <1>3, <1>4, <1>5, <1>6 DEF IInv

\* A step that changes nothing keeps the invariant.
LEMMA Stutters ==
    ASSUME IInv, UNCHANGED vars PROVE IInv'
<1> USE DEF vars, shared
<1>1. TypeOK' /\ NoCheckFails'
  BY DEF IInv, TypeOK, NoCheckFails
<1>2. CountInv'
  <2>1. Pending' = Pending
    BY DEF Pending
  <2> QED BY <2>1 DEF IInv, CountInv
<1>3. \A t \in Threads : ThreadInv(t)'
  BY DEF IInv, ThreadInv, HasPage, IsSet, Slot
<1> QED BY <1>1, <1>2, <1>3, TableKept DEF IInv

LEMMA NextInv == IInv /\ [Next]_vars => IInv'
<1> SUFFICES ASSUME IInv, [Next]_vars PROVE IInv'
  OBVIOUS
<1>1. CASE UNCHANGED vars
  BY <1>1, Stutters
<1>2. ASSUME NEW t \in Threads, NEW ty \in Types, Request(t, ty) PROVE IInv'
  BY <1>2, RequestStep
<1>3. ASSUME NEW t \in Threads, NEW id \in Ids, AskName(t, id) PROVE IInv'
  BY <1>3, AskNameStep
<1>4. ASSUME NEW t \in Threads, Step(t) PROVE IInv'
  BY <1>4, LookStep, SlotAllocStep, LockStep, LookAgainStep, WriteStep, PublishStep, CachedStep,
     NameAllocStep, CountStep, FillStep, NextAllocStep, MakeStep, MakeFailsStep, AdvanceStep,
     ResultStep DEF Step
<1> QED BY <1>1, <1>2, <1>3, <1>4 DEF Next

\* What the inductive invariant says of the numbers.
LEMMA NumbersInv == IInv => NumbersDescribeTheirTypes
<1> SUFFICES ASSUME IInv, NEW ty \in Types, Number(ty) # 0
             PROVE  /\ IsSet(Element(Number(ty))) /\ mem[Element(Number(ty))] = ty
                    /\ ty[2] < Number(ty)
  BY DEF NumbersDescribeTheirTypes
<1>1. IsSet(Cell(ty[1], ty[2])) /\ Number(ty) = mem[Cell(ty[1], ty[2])]
  BY DEF Number
<1>2. Number(ty) \in FirstDerived..(FirstDerived + count - 1) /\ mem[Element(Number(ty))] = ty
  BY <1>1 DEF IInv, SlotInv
<1>3. IsSet(Element(Number(ty))) /\ Pointee(Number(ty)) < Number(ty)
  BY <1>2, ElementOf DEF IInv
<1> QED BY <1>2, <1>3 DEF Pointee

\* The table is consistent at every access of every thread: numbers lead back to their
\* types and to pointees with smaller numbers, the names below the counter are all there
\* and are made from the names of their pointees, and no CHECK of dtype.cpp fails, however
\* many threads create and name types at once.
THEOREM TableIsConsistent == Spec => []TableInv
<1>1. IInv => TableInv
  BY NumbersInv DEF IInv, TableInv, NameInv
<1> QED BY <1>1, InitInv, NextInv, PTL DEF Spec

\* The numbers of types stay when a cell of another table is written.
LEMMA NumbersApart ==
    ASSUME NEW c, NEW v, Store(c, v), \A ty \in Types : Cell(ty[1], ty[2]) # c
    PROVE  \A ty \in Types : Number(ty)' = Number(ty)
BY StoreEffect DEF Number, IsSet

\* A call that finds the number of its type is a step of the abstract table.
LEMMA FoundRefines ==
    ASSUME IInv, NEW t \in Threads, want[t] \in Types, IsSet(Slot(t)), Returns(t, mem[Slot(t)]), mem' = mem
    PROVE  Intern!InternNext
<1> DEFINE number == [ty \in Types |-> Number(ty)]
<1>1. number[want[t]] = mem[Slot(t)] /\ mem[Slot(t)] # 0
  BY SlotNumber DEF Number, Slot
<1>2. number' = number
  BY DEF Number, IsSet
<1>3. reply' = [reply EXCEPT ![t] = <<want[t], mem[Slot(t)]>>]
  BY DEF Returns
<1> QED BY <1>1, <1>2, <1>3 DEF Intern!InternNext, Intern!Known

\* The release store of the number is the abstract creation of the type.
LEMMA PublishRefines ==
    ASSUME IInv, NEW t \in Threads, Publish(t)
    PROVE  Intern!InternNext
<1> DEFINE number == [ty \in Types |-> Number(ty)]
           num == FirstDerived + count - 1
<1>1. /\ want[t] \in Types /\ ~IsSet(Slot(t)) /\ num \in Ids /\ num # 0 /\ mem[Element(num)] = want[t]
      /\ Grows /\ (\A d : IsSet(d)' <=> IsSet(d) \/ d = Slot(t)) /\ mem'[Slot(t)] = num
  BY PublishedNumber
<1>2. reply' = [reply EXCEPT ![t] = <<want[t], num>>]
  BY DEF Publish, Returns
<1> HIDE DEF num
<1>3. number[want[t]] = 0 /\ number'[want[t]] = num
  BY <1>1 DEF Number, Slot
<1>4. ASSUME NEW other \in Types, other # want[t]
      PROVE  number'[other] = number[other] /\ number[other] # num
  <2>1. Cell(other[1], other[2]) # Slot(t)
    BY <1>1, <1>4, SlotsApart DEF Slot
  <2>2. IsSet(Cell(other[1], other[2]))' <=> IsSet(Cell(other[1], other[2]))
    BY <1>1, <2>1
  <2>3. IsSet(Cell(other[1], other[2])) =>
          mem'[Cell(other[1], other[2])] = mem[Cell(other[1], other[2])]
    BY <1>1 DEF Grows, IsSet
  <2>4. Number(other)' = Number(other)
    BY <2>2, <2>3 DEF Number
  <2>5. Number(other) # num
    BY <1>1, <1>4, NumbersInv DEF NumbersDescribeTheirTypes
  <2> QED BY <2>4, <2>5
<1> HIDE DEF number
<1>5. Intern!New(t, want[t])
  BY <1>1, <1>2, <1>3, <1>4 DEF Intern!New, number
<1> QED BY <1>1, <1>5 DEF Intern!InternNext

LEMMA StepRefines == IInv /\ [Next]_vars => [Intern!InternNext]_(Intern!internVars)
<1> SUFFICES ASSUME IInv, [Next]_vars PROVE Intern!InternNext \/ UNCHANGED Intern!internVars
  OBVIOUS
<1>1. ASSUME \A ty \in Types : Number(ty)' = Number(ty), reply' = reply
      PROVE  UNCHANGED Intern!internVars
  BY <1>1 DEF Intern!internVars
<1>2. mem' = mem => \A ty \in Types : Number(ty)' = Number(ty)
  BY DEF Number, IsSet
<1>3. CASE UNCHANGED vars
  BY <1>1, <1>2, <1>3 DEF vars, shared
<1>4. ASSUME NEW t \in Threads, NEW ty \in Types, Request(t, ty) PROVE UNCHANGED Intern!internVars
  BY <1>1, <1>2, <1>4 DEF Request
<1>5. ASSUME NEW t \in Threads, NEW id \in Ids, AskName(t, id) PROVE UNCHANGED Intern!internVars
  BY <1>1, <1>2, <1>5 DEF AskName, shared
<1>6. ASSUME NEW t \in Threads, Step(t) PROVE Intern!InternNext \/ UNCHANGED Intern!internVars
  <2>1. CASE Look(t)
    <3>1. mem' = mem /\ want[t] \in Types
      BY <2>1 DEF Look, IInv, ThreadInv
    <3>2. CASE IsSet(Slot(t))
      BY <2>1, <3>1, <3>2, FoundRefines DEF Look
    <3>3. CASE ~IsSet(Slot(t))
      BY <1>1, <1>2, <2>1, <3>1, <3>3 DEF Look
    <3> QED BY <3>2, <3>3
  <2>2. CASE LookAgain(t)
    <3>1. mem' = mem /\ want[t] \in Types
      BY <2>2 DEF LookAgain, IInv, ThreadInv
    <3>2. CASE IsSet(Slot(t))
      BY <2>2, <3>1, <3>2, FoundRefines DEF LookAgain
    <3>3. CASE ~IsSet(Slot(t))
      BY <1>1, <1>2, <2>2, <3>1, <3>3 DEF LookAgain
    <3> QED BY <3>2, <3>3
  <2>3. CASE Write(t)
    <3>1. count \in Ids
      BY Ranges DEF IInv, TypeOK, Ids
    <3>2. reply' = reply /\ Store(Cell("derived", count), want[t])
      BY <2>3 DEF Write
    <3> QED BY <1>1, <3>1, <3>2, CellsApart, NumbersApart
  <2>4. CASE Publish(t)
    BY <2>4, PublishRefines
  <2>5. CASE Make(t)
    <3>1. reply' = reply
      BY <2>5 DEF Make
    <3>2. CASE mem' = mem
      BY <1>1, <1>2, <3>1, <3>2
    <3>3. CASE Store(Cell("names", next[t]), MakeName(next[t]))
      <4>1. next[t] \in Ids
        <5>1. next[t] =< target[t]
          BY <2>5 DEF Make, IInv, ThreadInv
        <5> QED BY <5>1, Ranges DEF IInv, TypeOK, Ids
      <4> QED BY <1>1, <3>1, <3>3, <4>1, CellsApart, NumbersApart
    <3> QED BY <2>5, <3>2, <3>3 DEF Make
  <2>6. CASE SlotAlloc(t) \/ Lock(t) \/ Cached(t) \/ NameAlloc(t) \/ Count(t) \/ Fill(t)
             \/ NextAlloc(t) \/ MakeFails(t) \/ Advance(t) \/ Result(t)
    <3>1. mem' = mem /\ reply' = reply
      BY <2>6 DEF SlotAlloc, Lock, Cached, NameAlloc, Count, Fill, NextAlloc, MakeFails, Advance,
                  Result, Allocate, shared
    <3> QED BY <1>1, <1>2, <3>1
  <2> QED BY <1>6, <2>1, <2>2, <2>3, <2>4, <2>5, <2>6 DEF Step
<1> QED BY <1>3, <1>4, <1>5, <1>6 DEF Next

\* Every type has one number, the same for every thread that asks for it, for ever: the
\* lookups, the mutex and the paged tables of dtype.cpp implement InternTable.
THEOREM TableInterns == Spec => ImplementsInternTable
<1>1. Init => Intern!InternInit
  <2> SUFFICES ASSUME Init PROVE Intern!InternInit
    OBVIOUS
  <2>1. DOMAIN mem = {}
    BY DEF Init
  <2>2. \A ty \in Types : Number(ty) = 0
    BY <2>1 DEF Number, IsSet
  <2>3. \A t \in Threads : reply[t][2] = 0
    BY DEF Init
  <2> QED BY <2>2, <2>3 DEF Intern!InternInit
<1> QED BY <1>1, InitInv, NextInv, StepRefines, PTL DEF Spec, ImplementsInternTable, Intern!InternSpec
====
