------------------------ MODULE KernelDispatchProofs ------------------------
(***************************************************************************)
(* Proofs about HashMap and KernelDispatch, for any number of threads,     *)
(* argument types, families and keys and for any hash function: lookups in *)
(* the maps of kernels are exact after any insertions and growths, helpers *)
(* are not shared, freed memory is read only by a launch that held a       *)
(* pointer while Python ran, and dispatch keeps one kernel for a key.      *)
(***************************************************************************)
EXTENDS KernelDispatch, FiniteSetTheorems, SequenceTheorems, TLAPS

-----------------------------------------------------------------------------
(* The inductive invariant.                                                *)

\* A map that is exact.  The number of arrays it has been through is bounded by its
\* items, so the size of its array is a number that PowersOfTwo knows.
IsArray(m, n) ==
  /\ n \in Nat \ {0}
  /\ m.buckets \in [0..(n - 1) -> Items \cup {Free}]
  /\ m = [array |-> m.array, buckets |-> m.buckets]

GoodMap(m) ==
  /\ m.array \in Nat /\ 2^m.array \in Nat
  /\ IsArray(m, InitialBuckets * 2^m.array)
  /\ m.array < 2^m.array
  /\ m.array <= Size(m)
  /\ LookupsAreExact(m)

\* What a thread holds at each point where Python runs.
ThreadInv(t) ==
  /\ pc[t] = "idle" <=> helper[t] = None
  /\ pc[t] = "classify" => path[t] \in Paths /\ level[t] \in 1..Len(path[t])
  /\ pc[t] # "classify" => path[t] = <<>> /\ level[t] = 0
  /\ pc[t] \in {"idle", "classify", "extract"} => key[t] = None
  /\ pc[t] \in {"extract", "compile", "finalize"} => family[t] \in Families
  /\ pc[t] \in {"compile", "finalize"} => key[t] \in Constants

MapsInv ==
  maps = [f \in Families |-> maps[f]] /\ \A f \in Families : GoodMap(maps[f])

ThreadTypes ==
  /\ known \subseteq UNION {{Prefix(p, n) : n \in 1..Len(p)} : p \in Paths}
  /\ pc \in [Threads -> {"idle", "classify", "extract", "compile", "finalize"}]
  /\ path \in [Threads -> Paths \cup {<<>>}]
  /\ level \in [Threads -> Nat]
  /\ capture \in [Threads -> BOOLEAN]
  /\ family \in [Threads -> Families \cup {None}]
  /\ key \in [Threads -> Constants \cup {None}]

\* Nobody holds the helper of another, nor one that is free.
Owned ==
  /\ helper \in [Threads -> Helpers \cup {None}]
  /\ freelist \in Seq(Helpers)
  /\ contents \in [Helpers -> Constants \cup {None}]
  /\ \A t, u \in Threads : helper[t] = helper[u] /\ helper[t] # None => t = u
  /\ \A i \in DOMAIN freelist :
       /\ \A t \in Threads : helper[t] # freelist[i]
       /\ \A j \in DOMAIN freelist : freelist[i] = freelist[j] => i = j

ThreadsInv ==
  /\ ThreadTypes /\ Owned
  /\ \A t \in Threads : ThreadInv(t)
  /\ \A t \in Threads : pc[t] = "compile" => contents[helper[t]] = key[t]

IInv == MapsInv /\ ThreadsInv

-----------------------------------------------------------------------------
(* Numbers and sets of them.                                               *)

\* A non-empty set of natural numbers has a least element.
LEMMA LeastNat ==
    ASSUME NEW S \in SUBSET Nat, S # {}
    PROVE  \E m \in S : \A n \in S : m <= n
<1> DEFINE R == {ss \in Nat \X Nat : ss[1] < ss[2]}
<1>1. IsWellFoundedOn(R, Nat)
  BY NatLessThanWellFounded, Zenon DEF OpToRel
<1>2. PICK m \in S : \A n \in S : ~ (<<n, m>> \in R)
  <2> HIDE DEF R
  <2> QED BY <1>1, WFMin, Zenon
<1>3. ASSUME NEW n \in S PROVE m <= n
  <2>1. <<n, m>>[1] = n /\ <<n, m>>[2] = m /\ <<n, m>> \in Nat \X Nat
    OBVIOUS
  <2> QED BY <1>2, <2>1, n \in Nat, m \in Nat
<1> QED BY <1>3

LEMMA MinIsLeast ==
    ASSUME NEW S \in SUBSET Nat, S # {}
    PROVE  Min(S) \in S /\ \A x \in S : Min(S) <= x
<1>1. \E m \in S : \A n \in S : m <= n
  BY LeastNat
<1> QED BY <1>1 DEF Min

LEMMA MinIs ==
    ASSUME NEW S \in SUBSET Nat, NEW a \in S, \A x \in S : a <= x
    PROVE  Min(S) = a
<1>1. Min(S) \in S /\ \A x \in S : Min(S) <= x
  BY MinIsLeast
<1>2. Min(S) \in Nat /\ a \in Nat /\ Min(S) <= a /\ a <= Min(S)
  BY <1>1
<1> QED BY <1>2

\* A probe of n buckets stays among them and, in n steps, reaches each of them.
LEMMA ProbeInRange ==
    ASSUME NEW n \in Nat \ {0}, NEW h \in Nat, NEW i \in Nat
    PROVE  Probe(n, h, i) \in 0..(n - 1)
<1>1. \A a \in Nat : a % n \in 0..(n - 1)
  OBVIOUS
<1>2. h + i \in Nat
  OBVIOUS
<1> QED BY <1>1, <1>2 DEF Probe

LEMMA Remainder ==
    ASSUME NEW n \in Nat \ {0}, NEW r \in 0..(n - 1), NEW q \in Nat
    PROVE  (n * q + r) % n = r
OBVIOUS

LEMMA ProbeReaches ==
    ASSUME NEW n \in Nat \ {0}, NEW h \in Nat, NEW b \in 0..(n - 1)
    PROVE  \E i \in 0..(n - 1) : Probe(n, h, i) = b
<1> DEFINE r == h % n
<1>1. PICK q \in Nat : h = n * q + r
  <2>1. h = n * (h \div n) + (h % n) /\ h \div n \in Nat
    OBVIOUS
  <2> QED BY <2>1
<1>2. r \in 0..(n - 1)
  OBVIOUS
<1> HIDE DEF r
<1>3. CASE r <= b
  <2>1. b - r \in 0..(n - 1) /\ h + (b - r) = n * q + b
    BY <1>1, <1>2, <1>3 DEF r
  <2>2. (n * q + b) % n = b
    BY Remainder
  <2> QED BY <2>1, <2>2 DEF Probe
<1>4. CASE r > b
  <2>1. (b + n) - r \in 0..(n - 1) /\ h + ((b + n) - r) = n * (q + 1) + b
    BY <1>1, <1>2, <1>4 DEF r
  <2>2. (n * (q + 1) + b) % n = b
    BY Remainder
  <2> QED BY <2>1, <2>2 DEF Probe
<1> QED BY <1>2, <1>3, <1>4

\* Fewer than n buckets do not fill an array of n.
LEMMA SomeIsLeft ==
    ASSUME NEW n \in Nat \ {0}, NEW S, IsFiniteSet(S), Cardinality(S) < n
    PROVE  \E b \in 0..(n - 1) : b \notin S
<1> SUFFICES ASSUME 0..(n - 1) \subseteq S PROVE FALSE
  OBVIOUS
<1>1. Cardinality(0..(n - 1)) = n
  BY FS_Interval
<1>2. Cardinality(0..(n - 1)) <= Cardinality(S) /\ Cardinality(S) \in Nat
  BY FS_Subset, FS_CardinalityType
<1> QED BY <1>1, <1>2

-----------------------------------------------------------------------------
(* Lookups.                                                                *)

\* Where the probe for a key ends.
StopsAt(m, k, i) ==
  LET b == m.buckets[Probe(NBuckets(m), Hash[k], i)] IN b = Free \/ b.key = k

FirstStop(m, n, k, i) ==
  i \in 0..(n - 1) /\ StopsAt(m, k, i) /\ \A j \in 0..(n - 1) : j < i => ~StopsAt(m, k, j)

LEMMA ArraySize ==
    ASSUME NEW m, NEW n, IsArray(m, n)
    PROVE  /\ NBuckets(m) = n
           /\ DOMAIN m.buckets = 0..(n - 1)
           /\ Occupied(m) \subseteq 0..(n - 1)
           /\ IsFiniteSet(Occupied(m)) /\ Size(m) \in Nat
           /\ \A i \in Occupied(m) : m.buckets[i] \in Items
<1>1. DOMAIN m.buckets = 0..(n - 1)
  BY DEF IsArray
<1>2. IsFiniteSet(0..(n - 1)) /\ Cardinality(0..(n - 1)) = n
  <2>1. n \in Nat \ {0}
    BY DEF IsArray
  <2> QED BY <2>1, FS_Interval
<1>3. Occupied(m) \subseteq 0..(n - 1)
  BY <1>1 DEF Occupied
<1>4. IsFiniteSet(Occupied(m)) /\ Size(m) \in Nat
  BY <1>2, <1>3, FS_Subset, FS_CardinalityType DEF Size
<1>5. \A i \in Occupied(m) : m.buckets[i] \in Items
  BY DEF IsArray, Occupied
<1> QED BY <1>1, <1>2, <1>3, <1>4, <1>5 DEF NBuckets

LEMMA ProbesOfKeys ==
    ASSUME NEW m, NEW n, IsArray(m, n), NEW k \in Keys
    PROVE  /\ \A i \in 0..(n - 1) : Probe(n, Hash[k], i) \in 0..(n - 1)
           /\ \A b \in 0..(n - 1) : \E i \in 0..(n - 1) : Probe(n, Hash[k], i) = b
<1>1. Hash[k] \in Nat /\ n \in Nat \ {0}
  BY HashMapAssumption DEF IsArray
<1>2. \A i \in 0..(n - 1) : Probe(n, Hash[k], i) \in 0..(n - 1)
  <2> SUFFICES ASSUME NEW i \in 0..(n - 1) PROVE Probe(n, Hash[k], i) \in 0..(n - 1)
    OBVIOUS
  <2>1. i \in Nat
    BY <1>1
  <2> QED BY <1>1, <2>1, ProbeInRange
<1> QED BY <1>1, <1>2, ProbeReaches

\* A lookup ends at the first bucket that stops it.
LEMMA PositionIs ==
    ASSUME NEW m, NEW n, IsArray(m, n), NEW k \in Keys, NEW i, FirstStop(m, n, k, i)
    PROVE  Position(m, k) = Probe(n, Hash[k], i)
<1> DEFINE S == {j \in 0..(n - 1) : StopsAt(m, k, j)}
<1>1. n \in Nat /\ NBuckets(m) = n
  BY ArraySize DEF IsArray
<1>2. S \in SUBSET Nat /\ i \in S
  BY <1>1 DEF FirstStop
<1>3. \A x \in S : i <= x
  BY <1>1 DEF FirstStop
<1>4. Min(S) = i
  <2> HIDE DEF S
  <2> QED BY <1>2, <1>3, MinIs
<1>5. Position(m, k) = Probe(n, Hash[k], Min(S))
  BY <1>1 DEF Position, StopsAt
<1> QED BY <1>4, <1>5

\* An array with a free bucket ends every lookup.
LEMMA LookupEnds ==
    ASSUME NEW m, NEW n, IsArray(m, n), NEW k \in Keys, Size(m) < n
    PROVE  \E i \in 0..(n - 1) : FirstStop(m, n, k, i)
<1> DEFINE S == {j \in 0..(n - 1) : StopsAt(m, k, j)}
<1>1. n \in Nat \ {0} /\ NBuckets(m) = n
  BY ArraySize DEF IsArray
<1>2. PICK b \in 0..(n - 1) : b \notin Occupied(m)
  BY <1>1, ArraySize, SomeIsLeft DEF Size
<1>3. m.buckets[b] = Free
  BY <1>2, ArraySize DEF Occupied
<1>4. PICK i \in 0..(n - 1) : Probe(n, Hash[k], i) = b
  BY ProbesOfKeys
<1>5. i \in S /\ S \in SUBSET Nat
  BY <1>1, <1>3, <1>4 DEF StopsAt
<1>6. Min(S) \in S /\ \A x \in S : Min(S) <= x
  <2> HIDE DEF S
  <2> QED BY <1>5, MinIsLeast
<1>7. ASSUME NEW j \in 0..(n - 1), j < Min(S) PROVE ~StopsAt(m, k, j)
  BY <1>1, <1>6, <1>7
<1> QED BY <1>6, <1>7 DEF FirstStop

\* What a lookup returns.
LEMMA PositionFacts ==
    ASSUME NEW m, NEW n, IsArray(m, n), NEW k \in Keys, Size(m) < n
    PROVE  /\ Position(m, k) \in 0..(n - 1)
           /\ m.buckets[Position(m, k)] = Free \/ m.buckets[Position(m, k)].key = k
           /\ \E i \in 0..(n - 1) : FirstStop(m, n, k, i) /\ Position(m, k) = Probe(n, Hash[k], i)
<1>1. PICK i \in 0..(n - 1) : FirstStop(m, n, k, i)
  BY LookupEnds
<1>2. Position(m, k) = Probe(n, Hash[k], i)
  BY <1>1, PositionIs
<1>3. Probe(n, Hash[k], i) \in 0..(n - 1)
  BY ProbesOfKeys
<1>4. NBuckets(m) = n
  BY ArraySize
<1>5. m.buckets[Probe(n, Hash[k], i)] = Free \/ m.buckets[Probe(n, Hash[k], i)].key = k
  BY <1>1, <1>4 DEF FirstStop, StopsAt
<1> QED BY <1>1, <1>2, <1>3, <1>5

\* Every item is where a lookup of its key ends.
Placed(m) == \A i \in Occupied(m) : Position(m, m.buckets[i].key) = i

LEMMA KeysAreUnique ==
    ASSUME NEW m, Placed(m), NEW i \in Occupied(m), NEW j \in Occupied(m),
           m.buckets[i].key = m.buckets[j].key
    PROVE  i = j
BY DEF Placed

LEMMA HasMeansStored ==
    ASSUME NEW m, NEW n, IsArray(m, n), Placed(m), Size(m) < n, NEW k \in Keys
    PROVE  Has(m, k) <=> \E i \in Occupied(m) : m.buckets[i].key = k
<1>1. ASSUME Has(m, k) PROVE \E i \in Occupied(m) : m.buckets[i].key = k
  BY <1>1, PositionFacts, ArraySize DEF Has, Occupied
<1>2. ASSUME NEW i \in Occupied(m), m.buckets[i].key = k PROVE Has(m, k)
  BY <1>2 DEF Placed, Has, Occupied
<1> QED BY <1>1, <1>2

\* No more items than keys.
LEMMA SizeIsBounded ==
    ASSUME NEW m, NEW n, IsArray(m, n), Placed(m)
    PROVE  Size(m) <= Cardinality(Keys)
<1> DEFINE f == [i \in Occupied(m) |-> m.buckets[i].key]
<1>1. \A i \in Occupied(m) : m.buckets[i].key \in Keys
  BY ArraySize DEF Items
<1>2. f \in [Occupied(m) -> Keys]
  BY <1>1
<1>3. ASSUME NEW i \in Occupied(m), NEW j \in Occupied(m), f[i] = f[j] PROVE i = j
  BY <1>3, KeysAreUnique
<1>4. f \in Injection(Occupied(m), Keys)
  <2> HIDE DEF f
  <2> QED BY <1>2, <1>3 DEF Injection, IsInjective
<1> QED BY <1>4, FS_Injection, HashMapAssumption DEF Size

-----------------------------------------------------------------------------
(* Insertions.                                                             *)

Entry(k, v) == [key |-> k, value |-> v]

Put(m, k, v) ==
  [m EXCEPT !.buckets[Position(m, k)] = Entry(k, v)]

\* Storing an item in the free bucket where the lookup of its key ends leaves every
\* other item where its own lookup ends.
LEMMA PutKeepsPlaces ==
    ASSUME NEW m, NEW n, IsArray(m, n), Placed(m), Size(m) < n,
           NEW k \in Keys, NEW v \in Values, ~Has(m, k)
    PROVE  /\ IsArray(Put(m, k, v), n)
           /\ Put(m, k, v).array = m.array
           /\ Placed(Put(m, k, v))
           /\ Size(Put(m, k, v)) = Size(m) + 1
           /\ Stored(Put(m, k, v)) = Stored(m) \cup {Entry(k, v)}
           /\ Position(m, k) \in Occupied(Put(m, k, v))
           /\ Put(m, k, v).buckets[Position(m, k)] = Entry(k, v)
<1> DEFINE p == Position(m, k)
           x == Entry(k, v)
           w == Put(m, k, v)
<1>1. p \in 0..(n - 1) /\ m.buckets[p] = Free /\ p \notin Occupied(m)
  BY PositionFacts DEF Has, Occupied
<1>2. x \in Items /\ x # Free /\ x.key = k
  BY HashMapAssumption DEF Items, Entry
<1>3. /\ w.array = m.array
      /\ w.buckets = [m.buckets EXCEPT ![p] = x]
      /\ w = [array |-> w.array, buckets |-> w.buckets]
  BY DEF Put, IsArray
<1>4. IsArray(w, n)
  BY <1>1, <1>2, <1>3 DEF IsArray
<1>5. w.buckets[p] = x /\ \A i \in 0..(n - 1) : i # p => w.buckets[i] = m.buckets[i]
  BY <1>1, <1>3 DEF IsArray
<1>6. DOMAIN w.buckets = 0..(n - 1) /\ DOMAIN m.buckets = 0..(n - 1)
      /\ NBuckets(w) = n /\ NBuckets(m) = n
  BY <1>4, ArraySize
<1> HIDE DEF w, x
<1>7. Occupied(w) = Occupied(m) \cup {p}
  BY <1>1, <1>2, <1>5, <1>6 DEF Occupied
<1>8. Size(w) = Size(m) + 1
  BY <1>1, <1>7, ArraySize, FS_AddElement DEF Size
<1>9. Stored(w) = Stored(m) \cup {x}
  <2>1. \A i \in Occupied(m) : w.buckets[i] = m.buckets[i]
    BY <1>1, <1>5, ArraySize
  <2> QED BY <1>5, <1>7, <2>1 DEF Stored
<1>10. ASSUME NEW i \in Occupied(w) PROVE Position(w, w.buckets[i].key) = i
  <2>1. CASE i = p
    <3>1. PICK a \in 0..(n - 1) : FirstStop(m, n, k, a) /\ p = Probe(n, Hash[k], a)
      BY PositionFacts
    <3>2. ASSUME NEW j \in 0..(n - 1), j < a PROVE ~StopsAt(w, k, j)
      <4>1. ~StopsAt(m, k, j)
        BY <3>1, <3>2 DEF FirstStop
      <4>2. Probe(n, Hash[k], j) \in 0..(n - 1)
        BY ProbesOfKeys
      <4>3. Probe(n, Hash[k], j) # p
        BY <1>1, <1>6, <4>1 DEF StopsAt
      <4> QED BY <1>5, <1>6, <4>1, <4>2, <4>3 DEF StopsAt
    <3>3. StopsAt(w, k, a)
      BY <1>2, <1>5, <1>6, <3>1 DEF StopsAt
    <3>4. FirstStop(w, n, k, a)
      BY <3>2, <3>3 DEF FirstStop
    <3>5. Position(w, k) = p
      BY <1>4, <3>1, <3>4, PositionIs
    <3> QED BY <1>2, <1>5, <2>1, <3>5
  <2>2. CASE i # p
    <3> DEFINE l == m.buckets[i].key
    <3>1. i \in Occupied(m) /\ w.buckets[i] = m.buckets[i] /\ i \in 0..(n - 1)
      BY <1>5, <1>7, <2>2, ArraySize
    <3>2. l \in Keys /\ Position(m, l) = i
      BY <3>1, ArraySize DEF Items, Placed
    <3> HIDE DEF l
    <3>3. PICK a \in 0..(n - 1) : FirstStop(m, n, l, a) /\ i = Probe(n, Hash[l], a)
      BY <3>2, PositionFacts
    <3>4. ASSUME NEW j \in 0..(n - 1), j < a PROVE ~StopsAt(w, l, j)
      <4>1. ~StopsAt(m, l, j)
        BY <3>3, <3>4 DEF FirstStop
      <4>2. Probe(n, Hash[l], j) \in 0..(n - 1)
        BY <3>2, ProbesOfKeys
      <4>3. Probe(n, Hash[l], j) # p
        BY <1>1, <1>6, <4>1 DEF StopsAt
      <4> QED BY <1>5, <1>6, <4>1, <4>2, <4>3 DEF StopsAt
    <3>5. StopsAt(w, l, a)
      BY <1>6, <3>1, <3>3 DEF StopsAt, l
    <3>6. FirstStop(w, n, l, a)
      BY <3>4, <3>5 DEF FirstStop
    <3>7. Position(w, l) = i
      BY <1>4, <3>2, <3>3, <3>6, PositionIs
    <3> QED BY <3>1, <3>7 DEF l
  <2> QED BY <2>1, <2>2
<1>11. Placed(w)
  BY <1>10 DEF Placed
<1> QED BY <1>3, <1>4, <1>5, <1>7, <1>8, <1>9, <1>11 DEF w, x

-----------------------------------------------------------------------------
(* Growing.                                                                *)

\* The buckets that are taken when the item of bucket i moves.
TakenBefore(m, f, i) == {f[j] : j \in {k \in Occupied(m) : k < i}}

Moves(m, n, f) ==
  f = [i \in Occupied(m) |-> FirstFree(n, m.buckets[i], TakenBefore(m, f, i))]

Moved(m, n) == CHOOSE f : Moves(m, n, f)

\* The array that moves by f lead to.
RehashedBy(m, n, f) ==
  [array |-> m.array + 1,
   buckets |-> [b \in 0..(n - 1) |->
     LET from == {i \in Occupied(m) : f[i] = b}
     IN IF from = {} THEN Free ELSE m.buckets[CHOOSE i \in from : TRUE]]]

LEMMA RehashedIs ==
    ASSUME NEW m
    PROVE  Rehashed(m) = RehashedBy(m, 2 * NBuckets(m), Moved(m, 2 * NBuckets(m)))
BY DEF Rehashed, RehashedBy, Moved, Moves, TakenBefore

\* The equation of the moves has a solution, built bucket by bucket.
LEMMA MovesExist ==
    ASSUME NEW m, NEW c, IsArray(m, c), NEW n
    PROVE  \E f : Moves(m, n, f)
<1> DEFINE Level(a) == {i \in Occupied(m) : i < a}
           Val(f, i) == FirstFree(n, m.buckets[i], TakenBefore(m, f, i))
           Solves(f, a) == f = [i \in Level(a) |-> Val(f, i)]
           Unsolved == {a \in Nat : ~\E f : Solves(f, a)}
<1>1. Occupied(m) \subseteq Nat /\ c \in Nat
  <2>1. c \in Nat /\ 0..(c - 1) \subseteq Nat
    BY DEF IsArray
  <2> QED BY <2>1, ArraySize
<1>2. ASSUME Unsolved # {} PROVE FALSE
  <2>1. PICK a \in Unsolved : \A b \in Unsolved : a <= b
    <3>1. Unsolved \in SUBSET Nat
      OBVIOUS
    <3> HIDE DEF Unsolved
    <3> QED BY <1>2, <3>1, LeastNat
  <2>2. CASE a = 0
    <3>1. Level(0) = {}
      BY <1>1
    <3> DEFINE g == [i \in {} |-> 0]
    <3>2. [i \in Level(0) |-> Val(g, i)] = g
      <4> HIDE DEF Level, Val
      <4> QED BY <3>1
    <3>3. Solves(g, 0)
      BY <3>2
    <3> HIDE DEF Solves, g
    <3> QED BY <2>1, <2>2, <3>3
  <2>3. CASE a # 0
    <3>1. a \in Nat /\ a - 1 \in Nat /\ ~(a <= a - 1)
      <4>1. a \in Nat
        OBVIOUS
      <4> QED BY <2>3, <4>1
    <3>2. a - 1 \notin Unsolved
      <4> HIDE DEF Unsolved
      <4> QED BY <2>1, <3>1
    <3>3. PICK f : Solves(f, a - 1)
      <4> HIDE DEF Solves
      <4> QED BY <3>1, <3>2
    <3> DEFINE g == [i \in Level(a) |-> Val(f, i)]
    <3>4. Level(a - 1) \subseteq Level(a)
      BY <1>1, <3>1
    <3>5. \A i \in Level(a - 1) : g[i] = f[i]
      <4> HIDE DEF Level, Val
      <4> QED BY <3>3, <3>4
    <3>6. ASSUME NEW i \in Level(a) PROVE Val(g, i) = Val(f, i)
      <4>1. {k \in Occupied(m) : k < i} \subseteq Level(a - 1)
        BY <1>1, <3>1
      <4>2. TakenBefore(m, g, i) = TakenBefore(m, f, i)
        <5> HIDE DEF Level, g
        <5> QED BY <3>5, <4>1 DEF TakenBefore
      <4> QED BY <4>2
    <3>7. Solves(g, a)
      <4>1. g = [i \in Level(a) |-> Val(g, i)]
        <5> HIDE DEF Level, Val
        <5> QED BY <3>6 DEF g
      <4> QED BY <4>1
    <3> HIDE DEF Solves, g
    <3> QED BY <3>7
  <2> QED BY <2>2, <2>3
<1>3. c \notin Unsolved
  <2> HIDE DEF Unsolved
  <2> QED BY <1>2
<1>4. PICK f : Solves(f, c)
  <2> HIDE DEF Solves
  <2> QED BY <1>1, <1>3
<1>5. Level(c) = Occupied(m)
  BY <1>1, ArraySize
<1>6. Moves(m, n, f)
  BY <1>4, <1>5 DEF Moves
<1> QED BY <1>6

\* Every item moves to the first bucket of its probe that is not taken yet.
LEMMA MovedFacts ==
    ASSUME NEW m, NEW c, IsArray(m, c), NEW n \in Nat \ {0}, Size(m) < n,
           NEW f, f = Moved(m, n), NEW i \in Occupied(m)
    PROVE  \E a \in 0..(n - 1) :
             /\ f[i] = Probe(n, Hash[m.buckets[i].key], a)
             /\ f[i] \in 0..(n - 1)
             /\ f[i] \notin TakenBefore(m, f, i)
             /\ \A j \in 0..(n - 1) : j < a =>
                  Probe(n, Hash[m.buckets[i].key], j) \in TakenBefore(m, f, i)
<1> DEFINE h == Hash[m.buckets[i].key]
           T == TakenBefore(m, f, i)
           S == {j \in 0..(n - 1) : Probe(n, h, j) \notin T}
           before == {k \in Occupied(m) : k < i}
<1>1. Moves(m, n, f)
  BY MovesExist DEF Moved
<1>2. f[i] = FirstFree(n, m.buckets[i], T)
  BY <1>1 DEF Moves
<1>3. h \in Nat
  BY ArraySize, HashMapAssumption DEF Items
<1>4. IsFiniteSet(before) /\ Cardinality(before) <= Size(m) /\ Cardinality(before) \in Nat
  BY ArraySize, FS_Subset, FS_CardinalityType DEF Size
<1>5. IsFiniteSet(T) /\ Cardinality(T) <= Cardinality(before) /\ Cardinality(T) \in Nat
  <2> DEFINE g == [j \in before |-> f[j]]
  <2>1. T = {f[j] : j \in before}
    BY DEF TakenBefore
  <2> HIDE DEF before, T
  <2>2. g \in Surjection(before, T)
    BY <2>1 DEF Surjection
  <2> HIDE DEF g
  <2>3. IsFiniteSet(T) /\ Cardinality(T) <= Cardinality(before)
    BY <1>4, <2>2, FS_Surjection
  <2> QED BY <2>3, FS_CardinalityType
<1>6. Cardinality(T) < n
  BY <1>4, <1>5, ArraySize
<1>7. PICK b \in 0..(n - 1) : b \notin T
  <2> HIDE DEF T
  <2> QED BY <1>5, <1>6, SomeIsLeft
<1> HIDE DEF h, T, before
<1>8. PICK q \in 0..(n - 1) : Probe(n, h, q) = b
  BY <1>3, ProbeReaches
<1>9. S \in SUBSET Nat /\ S # {}
  BY <1>7, <1>8
<1>10. Min(S) \in S /\ \A x \in S : Min(S) <= x
  <2> HIDE DEF S
  <2> QED BY <1>9, MinIsLeast
<1>11. f[i] = Probe(n, h, Min(S))
  BY <1>2 DEF FirstFree, h
<1>12. Min(S) \in 0..(n - 1) /\ Probe(n, h, Min(S)) \notin T
  BY <1>10
<1>13. Probe(n, h, Min(S)) \in 0..(n - 1)
  <2>1. Min(S) \in Nat
    BY <1>12
  <2> QED BY <1>3, <2>1, ProbeInRange
<1>14. ASSUME NEW j \in 0..(n - 1), j < Min(S) PROVE Probe(n, h, j) \in T
  <2>1. j \in Nat /\ Min(S) \in Nat /\ ~(Min(S) <= j)
    BY <1>12, <1>14
  <2> QED BY <1>10, <2>1
<1> HIDE DEF S
<1> QED BY <1>11, <1>12, <1>13, <1>14 DEF h, T

\* The new array holds the same items, each where its lookup ends.
LEMMA RehashedFacts ==
    ASSUME NEW m, NEW c, IsArray(m, c), Placed(m), Size(m) < c
    PROVE  /\ IsArray(Rehashed(m), 2 * c)
           /\ Rehashed(m).array = m.array + 1
           /\ Placed(Rehashed(m))
           /\ Size(Rehashed(m)) = Size(m)
           /\ Stored(Rehashed(m)) = Stored(m)
<1> DEFINE n == 2 * c
           f == Moved(m, n)
           w == Rehashed(m)
           From(b) == {i \in Occupied(m) : f[i] = b}
<1>1. NBuckets(m) = c /\ c \in Nat \ {0} /\ n \in Nat \ {0}
  BY ArraySize DEF IsArray
<1>2. w = [array |-> m.array + 1,
           buckets |-> [b \in 0..(n - 1) |->
             IF From(b) = {} THEN Free ELSE m.buckets[CHOOSE i \in From(b) : TRUE]]]
  <2>1. w = RehashedBy(m, n, f)
    BY <1>1, RehashedIs
  <2> QED BY <2>1 DEF RehashedBy
<1>3. Size(m) < n
  BY <1>1, ArraySize
<1> HIDE DEF w
<1>4. \A i \in Occupied(m) :
        \E a \in 0..(n - 1) :
          /\ f[i] = Probe(n, Hash[m.buckets[i].key], a)
          /\ f[i] \in 0..(n - 1)
          /\ f[i] \notin TakenBefore(m, f, i)
          /\ \A j \in 0..(n - 1) : j < a =>
               Probe(n, Hash[m.buckets[i].key], j) \in TakenBefore(m, f, i)
  <2> HIDE DEF n
  <2> QED BY <1>1, <1>3, MovedFacts
<1> HIDE DEF f
<1>5. \A i \in Occupied(m) : f[i] \in 0..(n - 1)
  <2> HIDE DEF n
  <2> QED BY <1>4
<1>6. ASSUME NEW i \in Occupied(m), NEW j \in Occupied(m), f[i] = f[j] PROVE i = j
  <2>1. i \in Int /\ j \in Int
    BY ArraySize
  <2>2. \A x, y \in Occupied(m) : x < y => f[x] # f[y]
    <3> HIDE DEF n
    <3> QED BY <1>4 DEF TakenBefore
  <2> QED BY <1>6, <2>1, <2>2
<1>7. w.array = m.array + 1
      /\ w.buckets = [b \in 0..(n - 1) |->
           IF From(b) = {} THEN Free ELSE m.buckets[CHOOSE i \in From(b) : TRUE]]
      /\ w = [array |-> w.array, buckets |-> w.buckets]
  BY <1>2
<1>8. ASSUME NEW i \in Occupied(m) PROVE w.buckets[f[i]] = m.buckets[i]
  <2>1. From(f[i]) = {i}
    BY <1>6
  <2>2. (CHOOSE j \in {i} : TRUE) = i
    OBVIOUS
  <2>3. f[i] \in 0..(n - 1) /\ From(f[i]) # {}
    BY <1>5, <2>1
  <2> HIDE DEF From, n
  <2> QED BY <1>7, <2>1, <2>2, <2>3
<1>9. ASSUME NEW b \in 0..(n - 1) PROVE w.buckets[b] = Free \/ \E i \in Occupied(m) : b = f[i]
  <2>1. CASE From(b) = {}
    <3> HIDE DEF From, n
    <3> QED BY <1>7, <2>1
  <2>2. CASE From(b) # {}
    BY <2>2
  <2> QED BY <2>1, <2>2
<1>10. IsArray(w, n)
  <2>1. ASSUME NEW b \in 0..(n - 1) PROVE w.buckets[b] \in Items \cup {Free}
    BY <1>8, <1>9, ArraySize
  <2>2. w.buckets = [b \in 0..(n - 1) |-> w.buckets[b]]
    <3> HIDE DEF From, n
    <3> QED BY <1>7
  <2>3. w.buckets \in [0..(n - 1) -> Items \cup {Free}]
    <3> HIDE DEF n
    <3> QED BY <2>1, <2>2
  <2> QED BY <1>1, <1>7, <2>3 DEF IsArray
<1>11. DOMAIN w.buckets = 0..(n - 1) /\ NBuckets(w) = n
  <2> HIDE DEF n
  <2> QED BY <1>10, ArraySize
<1>12. \A i \in Occupied(m) : m.buckets[i] # Free
  BY DEF Occupied
<1>13. Occupied(w) = {f[i] : i \in Occupied(m)}
  <2> HIDE DEF n
  <2>1. \A i \in Occupied(m) : f[i] \in Occupied(w)
    BY <1>5, <1>8, <1>11, <1>12 DEF Occupied
  <2>2. \A b \in Occupied(w) : \E i \in Occupied(m) : b = f[i]
    BY <1>9, <1>11 DEF Occupied
  <2> QED BY <2>1, <2>2
<1>14. Size(w) = Size(m)
  <2> DEFINE g == [i \in Occupied(m) |-> f[i]]
  <2>1. g \in [Occupied(m) -> Occupied(w)]
    BY <1>13
  <2>2. \A i, j \in Occupied(m) : g[i] = g[j] => i = j
    BY <1>6
  <2>3. \A b \in Occupied(w) : \E i \in Occupied(m) : g[i] = b
    BY <1>13
  <2> HIDE DEF g
  <2>4. g \in Bijection(Occupied(m), Occupied(w))
    BY <2>1, <2>2, <2>3 DEF Bijection, Injection, Surjection, IsInjective
  <2>5. ExistsBijection(Occupied(m), Occupied(w))
    BY <2>4 DEF ExistsBijection
  <2> QED BY <2>5, ArraySize, FS_Bijection DEF Size
<1>15. Stored(w) = Stored(m)
  <2>1. \A x : x \in Stored(w) <=> \E i \in Occupied(m) : x = w.buckets[f[i]]
    BY <1>13 DEF Stored
  <2> QED BY <1>8, <2>1 DEF Stored
<1>16. ASSUME NEW b \in Occupied(w) PROVE Position(w, w.buckets[b].key) = b
  <2>1. PICK i \in Occupied(m) : b = f[i]
    BY <1>13
  <2> DEFINE l == m.buckets[i].key
  <2>2. w.buckets[b] = m.buckets[i] /\ l \in Keys
    BY <1>8, <2>1, ArraySize DEF Items
  <2>3. PICK a \in 0..(n - 1) :
          /\ f[i] = Probe(n, Hash[l], a)
          /\ \A j \in 0..(n - 1) : j < a => Probe(n, Hash[l], j) \in TakenBefore(m, f, i)
    <3> HIDE DEF n
    <3> QED BY <1>4
  <2>4. ASSUME NEW j \in 0..(n - 1), j < a PROVE ~StopsAt(w, l, j)
    <3>1. PICK k \in Occupied(m) : k < i /\ Probe(n, Hash[l], j) = f[k]
      <4> HIDE DEF n, l
      <4> QED BY <2>3, <2>4 DEF TakenBefore
    <3>2. i \in Int /\ k \in Int
      BY ArraySize
    <3>3. m.buckets[k].key # l
      BY <3>1, <3>2, KeysAreUnique
    <3>4. w.buckets[f[k]] = m.buckets[k] /\ m.buckets[k] # Free
      BY <1>8, <1>12
    <3> HIDE DEF n, l
    <3> QED BY <1>11, <3>1, <3>3, <3>4 DEF StopsAt
  <2>5. StopsAt(w, l, a)
    <3> HIDE DEF n
    <3> QED BY <1>11, <2>1, <2>2, <2>3 DEF StopsAt
  <2> HIDE DEF n, l
  <2>6. FirstStop(w, n, l, a)
    BY <2>4, <2>5 DEF FirstStop
  <2>7. Position(w, l) = b
    BY <1>10, <2>1, <2>2, <2>3, <2>6, PositionIs
  <2> QED BY <2>2, <2>7 DEF l
<1>17. Placed(w)
  BY <1>16 DEF Placed
<1> QED BY <1>7, <1>10, <1>14, <1>15, <1>17 DEF w

-----------------------------------------------------------------------------
(* Maps.                                                                   *)

LEMMA GoodMapFacts ==
    ASSUME NEW m, GoodMap(m)
    PROVE  /\ IsMap(m) /\ LookupsAreExact(m)
           /\ IsArray(m, NBuckets(m)) /\ Placed(m) /\ Size(m) < NBuckets(m)
           /\ NBuckets(m) = 4 * 2^m.array
           /\ 2 * Size(m) <= NBuckets(m)
           /\ \A i \in Occupied(m) : m.buckets[i] \in Items
<1>1. NBuckets(m) = 4 * 2^m.array
  BY ArraySize DEF GoodMap, InitialBuckets
<1>2. IsArray(m, NBuckets(m))
  BY <1>1 DEF GoodMap, InitialBuckets
<1>3. Size(m) \in Nat /\ NBuckets(m) \in Nat \ {0} /\ 2 * Size(m) <= NBuckets(m)
  BY <1>2, ArraySize DEF GoodMap, LookupsAreExact, IsArray
<1>4. IsMap(m)
  BY DEF GoodMap, IsArray, IsMap
<1>5. LookupsAreExact(m) /\ Placed(m)
  BY DEF GoodMap, LookupsAreExact, Placed
<1> QED BY <1>1, <1>2, <1>3, <1>4, <1>5, ArraySize

LEMMA EmptyMapIsGood == GoodMap(EmptyMap) /\ Stored(EmptyMap) = {}
<1>1. EmptyMap.array = 0 /\ EmptyMap.buckets = [i \in 0..3 |-> Free]
      /\ EmptyMap = [array |-> EmptyMap.array, buckets |-> EmptyMap.buckets]
  BY DEF EmptyMap, EmptyBuckets, InitialBuckets
<1>2. 2^EmptyMap.array = 1
  <2>1. 2^0 = 1
    BY PowersOfTwo
  <2> QED BY <1>1, <2>1, Zenon
<1>3. IsArray(EmptyMap, 4)
  BY <1>1 DEF IsArray
<1>4. InitialBuckets * 2^EmptyMap.array = 4
  BY <1>2 DEF InitialBuckets
<1>5. Occupied(EmptyMap) = {}
  BY <1>1 DEF Occupied
<1>6. Size(EmptyMap) = 0
  BY <1>5, FS_EmptySet DEF Size
<1>7. NBuckets(EmptyMap) = 4
  BY <1>3, ArraySize
<1>8. LookupsAreExact(EmptyMap)
  BY <1>5, <1>6, <1>7 DEF LookupsAreExact
<1>9. Stored(EmptyMap) = {}
  BY <1>5 DEF Stored
<1> QED BY <1>1, <1>2, <1>3, <1>4, <1>6, <1>8, <1>9 DEF GoodMap

LEMMA HasMeansStoredGood ==
    ASSUME NEW m, GoodMap(m), NEW k \in Keys
    PROVE  Has(m, k) <=> \E x \in Stored(m) : x.key = k
<1>1. Has(m, k) <=> \E i \in Occupied(m) : m.buckets[i].key = k
  BY GoodMapFacts, HasMeansStored
<1> QED BY <1>1 DEF Stored

\* Growing keeps a map exact and leaves room for one more item.
LEMMA RoomyFacts ==
    ASSUME NEW m, GoodMap(m)
    PROVE  /\ GoodMap(Roomy(m))
           /\ Stored(Roomy(m)) = Stored(m)
           /\ 2 * (Size(Roomy(m)) + 1) <= NBuckets(Roomy(m))
<1> DEFINE n == NBuckets(m)
           s == Size(m)
           p == 2^m.array
           a == m.array
<1>1. /\ a \in Nat /\ p \in Nat /\ a < p /\ n = 4 * p /\ s \in Nat /\ n \in Nat \ {0}
      /\ 2 * s <= n /\ s < n /\ a <= s
      /\ IsArray(m, n) /\ Placed(m)
  BY GoodMapFacts, ArraySize DEF GoodMap, IsArray
<1>2. CASE s < n \div 2
  <2>1. Roomy(m) = m
    <3>1. n \div 2 \in Nat
      BY <1>1
    <3> QED BY <1>1, <1>2, <3>1 DEF Roomy
  <2>2. \A x, y \in Nat : x < (4 * y) \div 2 => 2 * (x + 1) <= 4 * y
    OBVIOUS
  <2>3. 2 * (s + 1) <= n
    <3> HIDE DEF n, s, p
    <3> QED BY <1>1, <1>2, <2>2
  <2> QED BY <2>1, <2>3
<1>3. CASE s >= n \div 2
  <2> DEFINE w == Rehashed(m)
  <2>1. Roomy(m) = w
    BY <1>3 DEF Roomy
  <2>2. /\ IsArray(w, 2 * n) /\ w.array = a + 1 /\ Placed(w)
        /\ Size(w) = s /\ Stored(w) = Stored(m)
    BY <1>1, RehashedFacts
  <2>3. a \in 0..Cardinality(Keys)
    <3>1. s <= Cardinality(Keys) /\ Cardinality(Keys) \in Nat
      BY <1>1, SizeIsBounded, FS_CardinalityType, HashMapAssumption
    <3> HIDE DEF s
    <3> QED BY <1>1, <3>1
  <2>4. 2^(a + 1) = 2 * p
    BY <2>3, PowersOfTwo
  <2>5. 2^w.array = 2 * p
    BY <2>2, <2>4, Zenon
  <2> HIDE DEF w, p, n, s
  <2>6. 2 * n = InitialBuckets * 2^w.array
    BY <1>1, <2>5 DEF InitialBuckets
  <2>7. IsArray(w, InitialBuckets * 2^w.array)
    BY <2>2, <2>6
  <2>8. NBuckets(w) = 2 * n
    BY <2>2, ArraySize
  <2>9. \A x, y, z \in Nat : x < y /\ z >= (4 * y) \div 2 => x + 1 < 2 * y /\ x + 1 <= z
    OBVIOUS
  <2>10. a + 1 < 2 * p /\ a + 1 <= s
    BY <1>1, <1>3, <2>9
  <2>11. 2 * (s + 1) <= 2 * n /\ 2 * s <= 2 * n
    BY <1>1
  <2>12. LookupsAreExact(w)
    BY <2>2, <2>8, <2>11 DEF LookupsAreExact, Placed
  <2>13. GoodMap(w)
    BY <1>1, <2>2, <2>5, <2>7, <2>10, <2>12 DEF GoodMap
  <2> QED BY <2>1, <2>2, <2>8, <2>11, <2>13
<1>4. n \div 2 \in Nat
  <2> HIDE DEF n
  <2> QED BY <1>1
<1> HIDE DEF n, s
<1> QED BY <1>1, <1>2, <1>3, <1>4

\* Storing an item in a map with room for it keeps the map exact.
LEMMA PutIsGood ==
    ASSUME NEW r, GoodMap(r), 2 * (Size(r) + 1) <= NBuckets(r),
           NEW k \in Keys, NEW v \in Values, ~Has(r, k)
    PROVE  /\ GoodMap(Put(r, k, v))
           /\ Stored(Put(r, k, v)) = Stored(r) \cup {Entry(k, v)}
<1> DEFINE w == Put(r, k, v)
           n == NBuckets(r)
<1>1. IsArray(r, NBuckets(r)) /\ Placed(r) /\ Size(r) < NBuckets(r)
  BY GoodMapFacts
<1>2. Size(r) \in Nat /\ n \in Nat /\ n = 4 * 2^r.array
  BY <1>1, GoodMapFacts, ArraySize DEF IsArray
<1>3. /\ IsArray(w, n) /\ w.array = r.array /\ Placed(w) /\ Size(w) = Size(r) + 1
      /\ Stored(w) = Stored(r) \cup {Entry(k, v)}
  BY <1>1, PutKeepsPlaces
<1> HIDE DEF w
<1>4. NBuckets(w) = n
  BY <1>3, ArraySize
<1>5. LookupsAreExact(w)
  BY <1>2, <1>3, <1>4 DEF LookupsAreExact, Placed
<1>6. r.array \in Nat /\ 2^r.array \in Nat /\ r.array < 2^r.array /\ r.array <= Size(r)
  BY DEF GoodMap
<1>7. 2^w.array = 2^r.array
  BY <1>3
<1>8. IsArray(w, InitialBuckets * 2^w.array)
  BY <1>2, <1>3, <1>7 DEF InitialBuckets
<1>9. w.array <= Size(w)
  BY <1>2, <1>3, <1>6
<1>10. GoodMap(w)
  BY <1>3, <1>5, <1>6, <1>7, <1>8, <1>9 DEF GoodMap
<1> QED BY <1>3, <1>10 DEF w

\* insert keeps a map exact, adds the item of a key that had none and changes no other.
LEMMA InsertedFacts ==
    ASSUME NEW m, GoodMap(m), NEW k \in Keys, NEW v \in Values
    PROVE  /\ GoodMap(Inserted(m, k, v))
           /\ Has(Inserted(m, k, v), k)
           /\ Has(m, k) => Inserted(m, k, v) = m
           /\ ~Has(m, k) =>
                Stored(Inserted(m, k, v)) = Stored(m) \cup {Entry(k, v)}
<1>1. CASE Has(m, k)
  BY <1>1 DEF Inserted
<1>2. CASE ~Has(m, k)
  <2> DEFINE r == Roomy(m)
             w == Put(r, k, v)
  <2>1. Inserted(m, k, v) = w
    BY <1>2 DEF Inserted, Put, Entry
  <2>2. GoodMap(r) /\ Stored(r) = Stored(m) /\ 2 * (Size(r) + 1) <= NBuckets(r)
    BY RoomyFacts
  <2> HIDE DEF r
  <2>3. ~Has(r, k)
    BY <1>2, <2>2, HasMeansStoredGood
  <2>4. GoodMap(w) /\ Stored(w) = Stored(r) \cup {Entry(k, v)}
    BY <2>2, <2>3, PutIsGood
  <2>5. Has(w, k)
    BY <2>4, HasMeansStoredGood DEF Entry
  <2> QED BY <1>2, <2>1, <2>2, <2>4, <2>5
<1> QED BY <1>1, <1>2

\* A key has at most one kernel, and exactly one if a lookup finds it.
LEMMA OneKernel ==
    ASSUME NEW m, GoodMap(m), NEW k \in Keys
    PROVE  /\ KernelsFor(m, k) \subseteq Values
           /\ Has(m, k) <=> KernelsFor(m, k) # {}
           /\ \A x, y \in KernelsFor(m, k) : x = y
           /\ Find(m, k) # Nowhere <=> Has(m, k)
           /\ Has(m, k) => Live(m, Find(m, k))
<1>1. \A x \in Stored(m) : x.value \in Values
  BY GoodMapFacts DEF Stored, Items
<1>2. KernelsFor(m, k) \subseteq Values
  BY <1>1 DEF KernelsFor
<1>3. Has(m, k) <=> KernelsFor(m, k) # {}
  BY HasMeansStoredGood DEF KernelsFor
<1>4. \A x, y \in Stored(m) : x.key = k /\ y.key = k => x = y
  BY GoodMapFacts, KeysAreUnique DEF Stored
<1>5. \A x, y \in KernelsFor(m, k) : x = y
  BY <1>4 DEF KernelsFor
<1>6. m.array # -1
  BY DEF GoodMap
<1>7. Find(m, k) # Nowhere <=> Has(m, k)
  <2>1. Address(m, Position(m, k)) # Nowhere
    BY <1>6 DEF Address, Nowhere
  <2> QED BY <2>1 DEF Find
<1>8. Has(m, k) => Live(m, Find(m, k))
  BY DEF Find, Address, Live
<1> QED BY <1>2, <1>3, <1>5, <1>7, <1>8

\* What an insertion changes of the kernels kept.
LEMMA KernelsInserted ==
    ASSUME NEW m, GoodMap(m), NEW k \in Keys, NEW v \in Values, NEW c \in Keys
    PROVE  KernelsFor(Inserted(m, k, v), c) =
             IF c = k /\ ~Has(m, k) THEN {v} ELSE KernelsFor(m, c)
<1>1. CASE Has(m, k)
  BY <1>1, InsertedFacts
<1>2. CASE ~Has(m, k)
  <2>1. Stored(Inserted(m, k, v)) = Stored(m) \cup {Entry(k, v)}
    BY <1>2, InsertedFacts
  <2>2. \A x \in Stored(m) : x.key # k
    BY <1>2, HasMeansStoredGood
  <2> DEFINE x == Entry(k, v)
             At(S) == {j \in S : j.key = c}
  <2>3. x.key = k /\ x.value = v
    BY DEF Entry
  <2> HIDE DEF x
  <2>4. CASE c = k
    <3>1. At(Stored(m) \cup {x}) = {x}
      BY <2>2, <2>3, <2>4
    <3> QED BY <1>2, <2>1, <2>3, <2>4, <3>1 DEF KernelsFor, x
  <2>5. CASE c # k
    <3>1. At(Stored(m) \cup {x}) = At(Stored(m))
      BY <2>3, <2>5
    <3> QED BY <2>1, <2>5, <3>1 DEF KernelsFor, x
  <2> QED BY <2>4, <2>5
<1> QED BY <1>1, <1>2

-----------------------------------------------------------------------------
(* Helpers and threads.                                                    *)

LEMMA IInvImplies == IInv => DispatchInv
<1> SUFFICES ASSUME IInv PROVE DispatchInv
  OBVIOUS
<1> USE DEF IInv, ThreadsInv
<1>1. \A f \in Families : IsMap(maps[f]) /\ LookupsAreExact(maps[f])
  BY GoodMapFacts DEF MapsInv
<1>2. ASSUME NEW t \in Threads PROVE level[t] \in 0..Len(path[t])
  <2>1. ThreadInv(t) /\ level[t] \in Nat
    BY DEF ThreadTypes
  <2>2. CASE pc[t] = "classify"
    <3>1. Len(path[t]) \in Nat /\ level[t] \in 1..Len(path[t])
      BY <2>1, <2>2, DispatchAssumption DEF ThreadInv
    <3> QED BY <3>1
  <2>3. CASE pc[t] # "classify"
    BY <2>1, <2>3 DEF ThreadInv
  <2> QED BY <2>2, <2>3
<1>3. TypeOK
  BY <1>1, <1>2 DEF ThreadTypes, Owned, TypeOK
<1> QED BY <1>1, <1>3 DEF DispatchInv, TablesAreExact, HelpersAreOwn, Owned

LEMMA HelperFacts ==
    /\ None \notin Helpers
    /\ IsFiniteSet(Helpers) /\ Cardinality(Helpers) = Cardinality(Threads)
    /\ Cardinality(Threads) \in Nat
<1>1. Cardinality(Threads) \in Nat
  BY DispatchAssumption, FS_CardinalityType
<1>2. IsFiniteSet(1..Cardinality(Threads))
      /\ Cardinality(1..Cardinality(Threads)) = Cardinality(Threads)
  <2>1. \A n \in Nat : IsFiniteSet(1..n) /\ Cardinality(1..n) = n
    BY FS_Interval
  <2> QED BY <1>1, <2>1
<1>3. None \notin Helpers
  BY DispatchAssumption DEF Helpers
<1> QED BY <1>1, <1>2, <1>3 DEF Helpers

\* While a thread has no helper, there is one that no thread has.
LEMMA HelperIsLeft ==
    ASSUME Owned, NEW t \in Threads, helper[t] = None
    PROVE  \E h \in Helpers : \A u \in Threads : helper[u] # h
<1> SUFFICES ASSUME \A h \in Helpers : \E u \in Threads : helper[u] = h PROVE FALSE
  OBVIOUS
<1> DEFINE owner == [h \in Helpers |-> CHOOSE u \in Threads : helper[u] = h]
           Rest == Threads \ {t}
<1>1. \A h \in Helpers : owner[h] \in Threads /\ helper[owner[h]] = h
  OBVIOUS
<1> HIDE DEF owner
<1>2. \A h \in Helpers : owner[h] \in Rest
  BY <1>1, HelperFacts
<1>3. owner = [h \in Helpers |-> owner[h]]
  BY DEF owner
<1>4. \A h, g \in Helpers : owner[h] = owner[g] => h = g
  BY <1>1
<1>5. owner \in Injection(Helpers, Rest)
  BY <1>2, <1>3, <1>4 DEF Injection, IsInjective
<1>6. IsFiniteSet(Rest) /\ Cardinality(Rest) = Cardinality(Threads) - 1
  BY DispatchAssumption, FS_RemoveElement
<1>7. Cardinality(Helpers) <= Cardinality(Rest)
  BY <1>5, <1>6, FS_Injection
<1> QED BY <1>6, <1>7, HelperFacts

LEMMA HelperGetFacts ==
    ASSUME Owned, NEW t \in Threads, helper[t] = None, HelperGet(t)
    PROVE  /\ Owned' /\ contents' = contents
           /\ helper'[t] # None
           /\ \A u \in Threads \ {t} : helper'[u] = helper[u]
<1> USE DEF Owned
<1>1. CASE freelist # <<>>
  <2> DEFINE h == Head(freelist)
  <2>1. helper' = [helper EXCEPT ![t] = h] /\ freelist' = Tail(freelist) /\ contents' = contents
    BY <1>1 DEF HelperGet
  <2>2. /\ Len(freelist) \in Nat /\ Len(freelist) # 0 /\ DOMAIN freelist = 1..Len(freelist)
        /\ h = freelist[1] /\ h \in Helpers /\ Tail(freelist) \in Seq(Helpers)
        /\ DOMAIN Tail(freelist) = 1..(Len(freelist) - 1)
        /\ \A i \in 1..(Len(freelist) - 1) : Tail(freelist)[i] = freelist[i + 1]
    BY <1>1
  <2> HIDE DEF h
  <2>3. 1 \in DOMAIN freelist
        /\ \A i \in DOMAIN Tail(freelist) : i + 1 \in DOMAIN freelist /\ i + 1 # 1
    BY <2>2
  <2>4. helper' \in [Threads -> Helpers \cup {None}] /\ helper'[t] = h
        /\ \A u \in Threads \ {t} : helper'[u] = helper[u]
    BY <2>1, <2>2
  <2>5. \A u \in Threads : helper[u] # h
    BY <2>2, <2>3
  <2>6. \A u, v \in Threads : helper'[u] = helper'[v] /\ helper'[u] # None => u = v
    BY <2>4, <2>5
  <2>7. ASSUME NEW i \in DOMAIN Tail(freelist)
        PROVE  /\ \A u \in Threads : helper'[u] # Tail(freelist)[i]
               /\ \A j \in DOMAIN Tail(freelist) :
                    Tail(freelist)[i] = Tail(freelist)[j] => i = j
    <3>1. Tail(freelist)[i] = freelist[i + 1] /\ i + 1 \in DOMAIN freelist
          /\ freelist[i + 1] # freelist[1] /\ i \in Int
      BY <2>2, <2>3
    <3>2. \A u \in Threads : helper'[u] # Tail(freelist)[i]
      BY <2>2, <2>4, <3>1
    <3>3. ASSUME NEW j \in DOMAIN Tail(freelist), Tail(freelist)[i] = Tail(freelist)[j]
          PROVE  i = j
      <4>1. Tail(freelist)[j] = freelist[j + 1] /\ j + 1 \in DOMAIN freelist /\ j \in Int
        BY <2>2, <2>3
      <4>2. i + 1 = j + 1
        BY <3>1, <3>3, <4>1
      <4> QED BY <3>1, <4>1, <4>2
    <3> QED BY <3>2, <3>3
  <2>8. h # None
    BY <2>2, HelperFacts
  <2> QED BY <2>1, <2>2, <2>4, <2>6, <2>7, <2>8
<1>2. CASE freelist = <<>>
  <2> DEFINE h == CHOOSE g \in Helpers : \A u \in Threads : helper[u] # g
  <2>1. helper' = [helper EXCEPT ![t] = h] /\ freelist' = freelist /\ contents' = contents
    BY <1>2 DEF HelperGet
  <2>2. h \in Helpers /\ \A u \in Threads : helper[u] # h
    BY HelperIsLeft
  <2> HIDE DEF h
  <2>3. h # None
    BY <2>2, HelperFacts
  <2>4. helper' \in [Threads -> Helpers \cup {None}] /\ helper'[t] = h
        /\ \A u \in Threads \ {t} : helper'[u] = helper[u]
    BY <2>1, <2>2
  <2>5. \A u, v \in Threads : helper'[u] = helper'[v] /\ helper'[u] # None => u = v
    BY <2>2, <2>4
  <2>6. DOMAIN freelist = {}
    BY <1>2
  <2> QED BY <2>1, <2>3, <2>4, <2>5, <2>6
<1> QED BY <1>1, <1>2

LEMMA HelperPutFacts ==
    ASSUME Owned, NEW t \in Threads, helper[t] # None, HelperPut(t)
    PROVE  /\ Owned'
           /\ helper'[t] = None
           /\ \A u \in Threads \ {t} :
                /\ helper'[u] = helper[u]
                /\ helper[u] # None => contents'[helper[u]] = contents[helper[u]]
<1> USE DEF Owned
<1> DEFINE h == helper[t]
<1>1. /\ helper' = [helper EXCEPT ![t] = None] /\ freelist' = <<h>> \o freelist
      /\ contents' = [contents EXCEPT ![h] = None]
  BY DEF HelperPut
<1>2. h \in Helpers /\ Len(freelist) \in Nat /\ DOMAIN freelist = 1..Len(freelist)
  OBVIOUS
<1>3. \A u \in Threads \ {t} : helper[u] # h
  OBVIOUS
<1>4. \A i \in DOMAIN freelist : freelist[i] # h
  OBVIOUS
<1> HIDE DEF h
<1>5. /\ freelist' \in Seq(Helpers) /\ DOMAIN freelist' = 1..(Len(freelist) + 1)
      /\ freelist'[1] = h
      /\ \A i \in 2..(Len(freelist) + 1) : freelist'[i] = freelist[i - 1]
  BY <1>1, <1>2
<1>6. /\ helper' \in [Threads -> Helpers \cup {None}] /\ helper'[t] = None
      /\ \A u \in Threads \ {t} : helper'[u] = helper[u]
  BY <1>1
<1>7. contents' \in [Helpers -> Constants \cup {None}]
      /\ \A g \in Helpers : g # h => contents'[g] = contents[g]
  BY <1>1
<1>8. \A u, v \in Threads : helper'[u] = helper'[v] /\ helper'[u] # None => u = v
  BY <1>6
<1>9. ASSUME NEW i \in DOMAIN freelist'
      PROVE  /\ \A u \in Threads : helper'[u] # freelist'[i]
             /\ \A j \in DOMAIN freelist' : freelist'[i] = freelist'[j] => i = j
  <2>1. \A j \in DOMAIN freelist' :
          \/ j = 1 /\ freelist'[j] = h
          \/ j - 1 \in DOMAIN freelist /\ freelist'[j] = freelist[j - 1]
    BY <1>2, <1>5
  <2>2. \A j \in DOMAIN freelist' : freelist'[j] \in Helpers /\ j \in Int
    BY <1>2, <1>5, <2>1
  <2>3. \A u \in Threads : helper'[u] # freelist'[i]
    BY <1>3, <1>6, <2>1, <2>2, HelperFacts
  <2>4. ASSUME NEW j \in DOMAIN freelist', freelist'[i] = freelist'[j] PROVE i = j
    <3>1. CASE i = 1
      BY <1>4, <2>1, <2>4, <3>1
    <3>2. CASE i # 1
      <4>1. i - 1 \in DOMAIN freelist /\ freelist'[i] = freelist[i - 1]
        BY <2>1, <3>2
      <4>2. j - 1 \in DOMAIN freelist /\ freelist'[j] = freelist[j - 1]
        BY <1>4, <2>1, <2>4, <4>1
      <4>3. i - 1 = j - 1
        BY <2>4, <4>1, <4>2
      <4> QED BY <2>2, <4>3
    <3> QED BY <3>1, <3>2
  <2> QED BY <2>3, <2>4
<1>10. ASSUME NEW u \in Threads \ {t}, helper[u] # None
       PROVE  contents'[helper[u]] = contents[helper[u]]
  BY <1>3, <1>7, <1>10
<1> QED BY <1>5, <1>6, <1>7, <1>8, <1>9, <1>10

-----------------------------------------------------------------------------
(* Steps.                                                                  *)

\* A step leaves what another thread holds as it is.
SameThread(u) ==
  /\ pc'[u] = pc[u] /\ path'[u] = path[u] /\ level'[u] = level[u]
  /\ family'[u] = family[u] /\ key'[u] = key[u] /\ helper'[u] = helper[u]

LEMMA StepOfOne ==
    ASSUME ThreadsInv, NEW t \in Threads, ThreadTypes', Owned',
           \A u \in Threads \ {t} :
             /\ SameThread(u)
             /\ helper[u] # None => contents'[helper[u]] = contents[helper[u]],
           ThreadInv(t)',
           pc'[t] = "compile" => contents'[helper'[t]] = key'[t]
    PROVE  ThreadsInv'
<1>1. ASSUME NEW u \in Threads PROVE ThreadInv(u)'
  <2>1. CASE u = t
    BY <2>1
  <2>2. CASE u # t
    <3>1. SameThread(u) /\ ThreadInv(u)
      BY <2>2 DEF ThreadsInv
    <3> QED BY <3>1 DEF SameThread, ThreadInv
  <2> QED BY <2>1, <2>2
<1>2. ASSUME NEW u \in Threads, pc'[u] = "compile" PROVE contents'[helper'[u]] = key'[u]
  <2>1. CASE u = t
    BY <1>2, <2>1
  <2>2. CASE u # t
    <3>1. SameThread(u) /\ ThreadInv(u) /\ pc[u] = "compile"
      BY <1>2, <2>2 DEF ThreadsInv, SameThread
    <3>2. helper[u] # None
      BY <3>1 DEF ThreadInv
    <3>3. contents'[helper[u]] = contents[helper[u]]
      BY <2>2, <3>2
    <3> QED BY <3>1, <3>3 DEF SameThread, ThreadsInv
  <2> QED BY <2>1, <2>2
<1> QED BY <1>1, <1>2 DEF ThreadsInv

LEMMA EndKeeps ==
    ASSUME ThreadsInv, NEW t \in Threads, pc[t] # "idle", NEW c, NEW r, End(t, c, r),
           known' = known
    PROVE  ThreadsInv'
<1>1. helper[t] # None /\ Owned /\ ThreadTypes
  BY DEF ThreadsInv, ThreadInv
<1>2. /\ Owned' /\ helper'[t] = None
      /\ \A u \in Threads \ {t} :
           /\ helper'[u] = helper[u]
           /\ helper[u] # None => contents'[helper[u]] = contents[helper[u]]
  BY <1>1, HelperPutFacts DEF End
<1>3. ThreadTypes'
  BY <1>1 DEF End, ThreadTypes
<1>4. \A u \in Threads \ {t} : SameThread(u)
  BY <1>1, <1>2 DEF End, ThreadTypes, SameThread
<1>5. pc'[t] = "idle" /\ path'[t] = <<>> /\ level'[t] = 0 /\ key'[t] = None
  BY <1>1 DEF End, ThreadTypes
<1>6. ThreadInv(t)'
  BY <1>2, <1>5 DEF ThreadInv
<1> QED BY <1>2, <1>3, <1>4, <1>5, <1>6, StepOfOne

LEMMA UseKeeps ==
    ASSUME ThreadsInv, NEW t \in Threads, pc[t] # "idle", NEW m, NEW a, NEW c, Use(t, m, a, c),
           known' = known
    PROVE  ThreadsInv'
BY EndKeeps DEF Use

\* A descent ends at a level of the path or with the family of the path.
LEMMA DescendFacts ==
    ASSUME ThreadTypes, NEW t \in Threads, NEW p \in Paths, NEW from \in 1..Len(p),
           NEW stops \in SUBSET (1..Len(p)), Descend(t, p, from, stops)
    PROVE  /\ known' \subseteq UNION {{Prefix(q, n) : n \in 1..Len(q)} : q \in Paths}
           /\ pc' \in [Threads -> {"idle", "classify", "extract", "compile", "finalize"}]
           /\ path' \in [Threads -> Paths \cup {<<>>}]
           /\ level' \in [Threads -> Nat]
           /\ family' \in [Threads -> Families \cup {None}]
           /\ pc'[t] \in {"classify", "extract"}
           /\ pc'[t] = "classify" => path'[t] \in Paths /\ level'[t] \in 1..Len(path'[t])
           /\ pc'[t] = "extract" => path'[t] = <<>> /\ level'[t] = 0 /\ family'[t] \in Families
           /\ \A u \in Threads \ {t} :
                /\ pc'[u] = pc[u] /\ path'[u] = path[u] /\ level'[u] = level[u]
                /\ family'[u] = family[u]
<1> DEFINE last == IF stops = {} THEN Len(p) ELSE Min(stops) - 1
<1>1. Len(p) \in Nat /\ stops \in SUBSET Nat
  BY DispatchAssumption
<1>2. ASSUME stops # {} PROVE Min(stops) \in 1..Len(p)
  BY <1>1, <1>2, MinIsLeast
<1>3. from..last \subseteq 1..Len(p)
  <2>1. CASE stops = {}
    BY <1>1, <2>1
  <2>2. CASE stops # {}
    <3>1. Min(stops) \in 1..Len(p)
      BY <1>2, <2>2
    <3>2. \A x \in 1..Len(p) : from..(x - 1) \subseteq 1..Len(p)
      BY <1>1
    <3>3. last = Min(stops) - 1
      BY <2>2
    <3> HIDE DEF last
    <3> QED BY <3>1, <3>2, <3>3
  <2> QED BY <2>1, <2>2
<1>4. known' = known \cup {Prefix(p, n) : n \in from..last}
  BY DEF Descend
<1> HIDE DEF last
<1>5. known' \subseteq UNION {{Prefix(q, n) : n \in 1..Len(q)} : q \in Paths}
  <2>1. {Prefix(p, n) : n \in from..last} \subseteq {Prefix(p, n) : n \in 1..Len(p)}
    BY <1>3
  <2>2. {Prefix(p, n) : n \in 1..Len(p)}
          \subseteq UNION {{Prefix(q, n) : n \in 1..Len(q)} : q \in Paths}
    OBVIOUS
  <2> QED BY <1>4, <2>1, <2>2 DEF ThreadTypes
<1>6. CASE stops = {}
  <2>1. /\ pc' = [pc EXCEPT ![t] = "extract"] /\ path' = [path EXCEPT ![t] = <<>>]
        /\ level' = [level EXCEPT ![t] = 0] /\ family' = [family EXCEPT ![t] = FamilyOf[p]]
    BY <1>6 DEF Descend
  <2>2. FamilyOf[p] \in Families
    BY DispatchAssumption
  <2> QED BY <1>5, <2>1, <2>2 DEF ThreadTypes
<1>7. CASE stops # {}
  <2> DEFINE l == Min(stops)
  <2>1. /\ pc' = [pc EXCEPT ![t] = "classify"] /\ path' = [path EXCEPT ![t] = p]
        /\ level' = [level EXCEPT ![t] = l] /\ family' = family
    BY <1>7 DEF Descend
  <2>2. l \in Nat /\ l \in 1..Len(p)
    BY <1>1, <1>2, <1>7
  <2> HIDE DEF l
  <2> QED BY <1>5, <2>1, <2>2 DEF ThreadTypes
<1> QED BY <1>6, <1>7

LEMMA UnclassifiedLevels ==
    ASSUME NEW p \in Paths, NEW from \in 1..(Len(p) + 1)
    PROVE  Unclassified(p, from) \in SUBSET (1..Len(p))
<1>1. Len(p) \in Nat
  BY DispatchAssumption
<1>2. from..Len(p) \subseteq 1..Len(p)
  BY <1>1
<1> QED BY <1>2 DEF Unclassified

LEMMA BeginKeeps ==
    ASSUME ThreadsInv, NEW t \in Threads, NEW p \in Paths, NEW b \in BOOLEAN, Begin(t, p, b)
    PROVE  ThreadsInv' /\ maps' = maps /\ ended' = <<>>
<1>1. helper[t] = None /\ Owned /\ ThreadTypes
  BY DEF ThreadsInv, ThreadInv, Begin
<1>2. /\ Owned' /\ contents' = contents /\ helper'[t] # None
      /\ \A u \in Threads \ {t} : helper'[u] = helper[u]
  BY <1>1, HelperGetFacts DEF Begin
<1>3. Len(p) \in Nat \ {0}
  BY DispatchAssumption
<1>4. 1 \in 1..Len(p) /\ 1 \in 1..(Len(p) + 1)
  BY <1>3
<1>5. Unclassified(p, 1) \in SUBSET (1..Len(p))
  BY <1>4, UnclassifiedLevels
<1>6. Descend(t, p, 1, Unclassified(p, 1))
  BY DEF Begin
<1>7. /\ known' \subseteq UNION {{Prefix(q, n) : n \in 1..Len(q)} : q \in Paths}
      /\ pc' \in [Threads -> {"idle", "classify", "extract", "compile", "finalize"}]
      /\ path' \in [Threads -> Paths \cup {<<>>}]
      /\ level' \in [Threads -> Nat]
      /\ family' \in [Threads -> Families \cup {None}]
      /\ pc'[t] \in {"classify", "extract"}
      /\ pc'[t] = "classify" => path'[t] \in Paths /\ level'[t] \in 1..Len(path'[t])
      /\ pc'[t] = "extract" => path'[t] = <<>> /\ level'[t] = 0 /\ family'[t] \in Families
      /\ \A u \in Threads \ {t} :
           /\ pc'[u] = pc[u] /\ path'[u] = path[u] /\ level'[u] = level[u]
           /\ family'[u] = family[u]
  BY <1>1, <1>4, <1>5, <1>6, DescendFacts
<1>8. key' = key /\ maps' = maps /\ capture' = [capture EXCEPT ![t] = b] /\ ended' = <<>>
  BY DEF Begin, Descend
<1>9. ThreadTypes'
  BY <1>1, <1>7, <1>8 DEF ThreadTypes
<1>10. key[t] = None
  BY DEF ThreadsInv, ThreadInv, Begin
<1>11. ThreadInv(t)'
  BY <1>2, <1>7, <1>8, <1>10 DEF ThreadInv
<1>12. \A u \in Threads \ {t} : SameThread(u)
  BY <1>2, <1>7, <1>8 DEF SameThread
<1>13. pc'[t] # "compile"
  BY <1>7
<1> QED BY <1>2, <1>8, <1>9, <1>11, <1>12, <1>13, StepOfOne

LEMMA BeginNativeKeeps ==
    ASSUME ThreadsInv, NEW t \in Threads, NEW f \in Families, BeginNative(t, f)
    PROVE  ThreadsInv' /\ maps' = maps /\ ended' = <<>>
<1>1. helper[t] = None /\ Owned /\ ThreadTypes /\ pc[t] = "idle" /\ ThreadInv(t)
  BY DEF ThreadsInv, ThreadInv, BeginNative
<1>2. /\ Owned' /\ contents' = contents /\ helper'[t] # None
      /\ \A u \in Threads \ {t} : helper'[u] = helper[u]
  BY <1>1, HelperGetFacts DEF BeginNative
<1>3. /\ pc' = [pc EXCEPT ![t] = "extract"] /\ family' = [family EXCEPT ![t] = f]
      /\ known' = known /\ path' = path /\ level' = level /\ capture' = capture
      /\ key' = key /\ maps' = maps /\ ended' = <<>>
  BY DEF BeginNative, lookup
<1>4. ThreadTypes'
  BY <1>1, <1>3 DEF ThreadTypes
<1>5. pc'[t] = "extract" /\ family'[t] = f
  BY <1>1, <1>3 DEF ThreadTypes
<1>6. ThreadInv(t)'
  BY <1>1, <1>2, <1>3, <1>5 DEF ThreadInv
<1>7. \A u \in Threads \ {t} : SameThread(u)
  BY <1>1, <1>2, <1>3 DEF SameThread, ThreadTypes
<1> QED BY <1>2, <1>3, <1>4, <1>5, <1>6, <1>7, StepOfOne

LEMMA ClassifiedKeeps ==
    ASSUME ThreadsInv, NEW t \in Threads, Classified(t)
    PROVE  ThreadsInv' /\ maps' = maps /\ ended' = <<>>
<1> DEFINE p == path[t]
           l == level[t]
<1>1. Owned /\ ThreadTypes /\ ThreadInv(t) /\ pc[t] = "classify"
  BY DEF ThreadsInv, Classified
<1>2. p \in Paths /\ l \in 1..Len(p) /\ key[t] = None /\ helper[t] # None
  BY <1>1 DEF ThreadInv
<1>3. Descend(t, p, l, Unclassified(p, l + 1))
  BY DEF Classified
<1>4. helper' = helper /\ freelist' = freelist /\ contents' = contents /\ maps' = maps
      /\ capture' = capture /\ key' = key /\ ended' = <<>>
  BY DEF Classified, helpers, Descend
<1> HIDE DEF p, l
<1>5. Unclassified(p, l + 1) \in SUBSET (1..Len(p))
  <2>1. l + 1 \in 1..(Len(p) + 1)
    <3>1. Len(p) \in Nat
      BY <1>2, DispatchAssumption
    <3> QED BY <1>2, <3>1
  <2> QED BY <1>2, <2>1, UnclassifiedLevels
<1>7. /\ known' \subseteq UNION {{Prefix(q, n) : n \in 1..Len(q)} : q \in Paths}
      /\ pc' \in [Threads -> {"idle", "classify", "extract", "compile", "finalize"}]
      /\ path' \in [Threads -> Paths \cup {<<>>}]
      /\ level' \in [Threads -> Nat]
      /\ family' \in [Threads -> Families \cup {None}]
      /\ pc'[t] \in {"classify", "extract"}
      /\ pc'[t] = "classify" => path'[t] \in Paths /\ level'[t] \in 1..Len(path'[t])
      /\ pc'[t] = "extract" => path'[t] = <<>> /\ level'[t] = 0 /\ family'[t] \in Families
      /\ \A u \in Threads \ {t} :
           /\ pc'[u] = pc[u] /\ path'[u] = path[u] /\ level'[u] = level[u]
           /\ family'[u] = family[u]
  BY <1>1, <1>2, <1>3, <1>5, DescendFacts
<1>8. ThreadTypes'
  BY <1>1, <1>4, <1>7 DEF ThreadTypes
<1>9. ThreadInv(t)'
  BY <1>2, <1>4, <1>7 DEF ThreadInv
<1>10. \A u \in Threads \ {t} : SameThread(u)
  BY <1>4, <1>7 DEF SameThread
<1>11. Owned'
  BY <1>1, <1>4 DEF Owned
<1>12. pc'[t] # "compile"
  BY <1>7
<1> QED BY <1>4, <1>8, <1>9, <1>10, <1>11, <1>12, StepOfOne

LEMMA ClassifiedLateKeeps ==
    ASSUME ThreadsInv, NEW t \in Threads, ClassifiedLate(t)
    PROVE  ThreadsInv' /\ maps' = maps
           /\ (ended' = <<>> \/ ended' = <<t, None, Undefined>>)
<1>1. /\ Owned /\ ThreadTypes /\ ThreadInv(t) /\ pc[t] = "classify"
      /\ known' = known /\ maps' = maps
  BY DEF ThreadsInv, ClassifiedLate
<1>2. CASE End(t, None, Undefined)
  BY <1>1, <1>2, EndKeeps DEF End
<1>3. CASE ~End(t, None, Undefined)
  <2>1. /\ pc' = [pc EXCEPT ![t] = "extract"] /\ path' = [path EXCEPT ![t] = <<>>]
        /\ level' = [level EXCEPT ![t] = 0]
        /\ family' = [family EXCEPT ![t] = FamilyOf[path[t]]]
        /\ ended' = <<>> /\ capture' = capture /\ key' = key
        /\ helper' = helper /\ freelist' = freelist /\ contents' = contents
    BY <1>3 DEF ClassifiedLate, helpers
  <2>2. FamilyOf[path[t]] \in Families /\ helper[t] # None /\ key[t] = None
    BY <1>1, DispatchAssumption DEF ThreadInv
  <2>3. ThreadTypes'
    BY <1>1, <2>1, <2>2 DEF ThreadTypes
  <2>4. /\ pc'[t] = "extract" /\ path'[t] = <<>> /\ level'[t] = 0
        /\ family'[t] = FamilyOf[path[t]]
        /\ \A u \in Threads \ {t} : SameThread(u)
    BY <1>1, <2>1 DEF ThreadTypes, SameThread
  <2>5. ThreadInv(t)'
    BY <2>1, <2>2, <2>4 DEF ThreadInv
  <2>6. Owned'
    BY <1>1, <2>1 DEF Owned
  <2> QED BY <1>1, <2>1, <2>3, <2>4, <2>5, <2>6, StepOfOne
<1> QED BY <1>2, <1>3

LEMMA ExtractedKeeps ==
    ASSUME ThreadsInv, NEW t \in Threads, NEW c \in Constants, Extracted(t, c)
    PROVE  ThreadsInv'
<1> DEFINE found == Find(Map(t), c)
<1>1. /\ Owned /\ ThreadTypes /\ ThreadInv(t) /\ pc[t] = "extract" /\ known' = known
  BY DEF ThreadsInv, Extracted
<1>2. CASE found # Nowhere /\ ~capture[t]
  BY <1>1, <1>2, UseKeeps DEF Extracted
<1>3. CASE ~(found # Nowhere /\ ~capture[t])
  <2>1. /\ contents' = [contents EXCEPT ![helper[t]] = c] /\ key' = [key EXCEPT ![t] = c]
        /\ pc' = [pc EXCEPT ![t] = "compile"]
        /\ path' = path /\ level' = level /\ capture' = capture /\ family' = family
        /\ helper' = helper /\ freelist' = freelist
    BY <1>3 DEF Extracted
  <2>2. helper[t] # None /\ helper[t] \in Helpers
    BY <1>1 DEF ThreadInv, Owned
  <2>3. ThreadTypes'
    BY <1>1, <2>1 DEF ThreadTypes
  <2>4. /\ pc'[t] = "compile" /\ key'[t] = c /\ contents'[helper[t]] = c
        /\ \A u \in Threads \ {t} : SameThread(u)
    BY <1>1, <2>1, <2>2 DEF ThreadTypes, Owned, SameThread
  <2>5. contents' \in [Helpers -> Constants \cup {None}]
    BY <1>1, <2>1 DEF Owned
  <2>6. Owned'
    BY <1>1, <2>1, <2>5 DEF Owned
  <2>7. ThreadInv(t)'
    BY <1>1, <2>1, <2>4 DEF ThreadInv
  <2>8. \A u \in Threads \ {t} : contents'[helper[u]] = contents[helper[u]] \/ helper[u] = None
    BY <1>1, <2>1, <2>2 DEF Owned
  <2> QED BY <2>1, <2>3, <2>4, <2>6, <2>7, <2>8, StepOfOne
<1> QED BY <1>2, <1>3

LEMMA DropKeeps ==
    ASSUME ThreadsInv, NEW t \in Threads, pc[t] = "compile", NEW m, NEW a, NEW c,
           Drop(t, m, a, c), known' = known
    PROVE  ThreadsInv'
<1>1. Owned /\ ThreadTypes /\ ThreadInv(t)
  BY DEF ThreadsInv
<1>2. CASE ~Finalizers
  BY <1>2, UseKeeps DEF Drop
<1>3. CASE Finalizers
  <2>1. /\ pc' = [pc EXCEPT ![t] = "finalize"]
        /\ contents' = [contents EXCEPT ![helper[t]] = None]
        /\ path' = path /\ level' = level /\ capture' = capture /\ family' = family
        /\ key' = key /\ helper' = helper /\ freelist' = freelist
    BY <1>3 DEF Drop
  <2>2. helper[t] # None /\ helper[t] \in Helpers
    BY <1>1 DEF ThreadInv, Owned
  <2>3. ThreadTypes'
    BY <1>1, <2>1 DEF ThreadTypes
  <2>4. pc'[t] = "finalize" /\ \A u \in Threads \ {t} : SameThread(u)
    BY <1>1, <2>1 DEF ThreadTypes, SameThread
  <2>5. contents' \in [Helpers -> Constants \cup {None}]
    BY <1>1, <2>1 DEF Owned
  <2>6. Owned'
    BY <1>1, <2>1, <2>5 DEF Owned
  <2>7. ThreadInv(t)'
    BY <1>1, <2>1, <2>4 DEF ThreadInv
  <2>8. \A u \in Threads \ {t} : contents'[helper[u]] = contents[helper[u]] \/ helper[u] = None
    BY <1>1, <2>1, <2>2 DEF Owned
  <2> QED BY <2>1, <2>3, <2>4, <2>6, <2>7, <2>8, StepOfOne
<1> QED BY <1>2, <1>3

\* What the launch of a thread that has compiled inserts, and where.
LEMMA CompiledNewFacts ==
    ASSUME IInv, NEW t \in Threads, CompiledNew(t)
    PROVE  /\ family[t] \in Families /\ key[t] \in Constants
           /\ contents[helper[t]] = key[t] /\ CompiledBy(t, key[t]) \in Values
           /\ GoodMap(Map(t))
           /\ maps' = [maps EXCEPT ![family[t]] =
                         Inserted(Map(t), key[t], CompiledBy(t, key[t]))]
           /\ maps'[family[t]] = Inserted(Map(t), key[t], CompiledBy(t, key[t]))
           /\ MapsInv'
<1> DEFINE f == family[t]
           c == key[t]
           v == CompiledBy(t, c)
           w == Inserted(Map(t), c, v)
<1>1. pc[t] = "compile" /\ ThreadInv(t) /\ contents[helper[t]] = c
  BY DEF IInv, ThreadsInv, CompiledNew
<1>2. f \in Families /\ c \in Constants
  BY <1>1 DEF ThreadInv
<1>3. v \in Values
  BY <1>2, DispatchAssumption DEF CompiledBy
<1>4. GoodMap(Map(t))
  BY <1>2 DEF IInv, MapsInv, Map
<1>5. maps' = [maps EXCEPT ![f] = w]
  BY <1>1 DEF CompiledNew, Map
<1>6. GoodMap(w)
  BY <1>2, <1>3, <1>4, InsertedFacts DEF Constants
<1> HIDE DEF w
<1>7. maps'[f] = w /\ MapsInv'
  <2>1. maps = [g \in Families |-> maps[g]] /\ \A g \in Families : GoodMap(maps[g])
    BY DEF IInv, MapsInv
  <2> HIDE DEF f
  <2>2. maps' = [g \in Families |-> IF g = f THEN w ELSE maps[g]]
    BY <1>5, <2>1
  <2>3. maps'[f] = w /\ \A g \in Families \ {f} : maps'[g] = maps[g]
    BY <1>2, <2>2
  <2>4. maps' = [g \in Families |-> maps'[g]]
    BY <2>2
  <2>5. \A g \in Families : GoodMap(maps'[g])
    BY <1>6, <2>1, <2>3
  <2>6. \A g \in Families : GoodMap(maps[g])'
    BY <2>5 DEF GoodMap, IsArray, InitialBuckets, Items, Size, Occupied, LookupsAreExact, Position, NBuckets, Probe
  <2> QED BY <2>3, <2>4, <2>6 DEF MapsInv
<1> QED BY <1>1, <1>2, <1>3, <1>4, <1>5, <1>7 DEF w

LEMMA CompiledNewKeeps ==
    ASSUME IInv, NEW t \in Threads, CompiledNew(t)
    PROVE  ThreadsInv'
<1>1. ThreadsInv /\ pc[t] = "compile" /\ known' = known
  BY DEF IInv, CompiledNew
<1>2. CASE Has(Map(t), contents[helper[t]])
  BY <1>1, <1>2, DropKeeps DEF CompiledNew
<1>3. CASE ~Has(Map(t), contents[helper[t]])
  BY <1>1, <1>3, UseKeeps DEF CompiledNew
<1> QED BY <1>2, <1>3

LEMMA InitIInv == Init => IInv
<1> SUFFICES ASSUME Init PROVE IInv
  OBVIOUS
<1>1. MapsInv
  BY EmptyMapIsGood DEF Init, MapsInv
<1>2. ThreadTypes
  BY DEF Init, ThreadTypes
<1>3. Owned
  BY HelperFacts DEF Init, Owned
<1>4. \A t \in Threads : ThreadInv(t) /\ pc[t] = "idle"
  BY DEF Init, ThreadInv
<1> QED BY <1>1, <1>2, <1>3, <1>4 DEF IInv, ThreadsInv

LEMMA NextIInv == IInv /\ [Next]_vars => IInv'
<1> SUFFICES ASSUME IInv, [Next]_vars PROVE IInv'
  OBVIOUS
<1>0. MapsInv /\ ThreadsInv
  BY DEF IInv
<1>a. maps' = maps => MapsInv'
  BY <1>0 DEF MapsInv
<1>1. CASE UNCHANGED vars
  <2>1. ThreadsInv'
    BY <1>0, <1>1 DEF vars, lookup, launch, helpers, ThreadsInv, ThreadTypes, Owned, ThreadInv
  <2>2. maps' = maps
    BY <1>1 DEF vars
  <2> QED BY <1>a, <2>1, <2>2 DEF IInv
<1>2. ASSUME NEW t \in Threads, NEW p \in Paths, NEW b \in BOOLEAN, Begin(t, p, b) PROVE IInv'
  BY <1>0, <1>a, <1>2, BeginKeeps DEF IInv
<1>3. ASSUME NEW t \in Threads, NEW f \in Families, BeginNative(t, f) PROVE IInv'
  BY <1>0, <1>a, <1>3, BeginNativeKeeps DEF IInv
<1>4. ASSUME NEW t \in Threads, Classified(t) PROVE IInv'
  BY <1>0, <1>a, <1>4, ClassifiedKeeps DEF IInv
<1>5. ASSUME NEW t \in Threads, ClassifiedLate(t) PROVE IInv'
  BY <1>0, <1>a, <1>5, ClassifiedLateKeeps DEF IInv
<1>6. ASSUME NEW t \in Threads, NEW c \in Constants, Extracted(t, c) PROVE IInv'
  <2>1. maps' = maps
    BY <1>6 DEF Extracted
  <2> QED BY <1>0, <1>a, <1>6, <2>1, ExtractedKeeps DEF IInv
<1>7. ASSUME NEW t \in Threads, CompiledNew(t) PROVE IInv'
  BY <1>7, CompiledNewFacts, CompiledNewKeeps DEF IInv
<1>8. ASSUME NEW t \in Threads, CompiledAgain(t) PROVE IInv'
  <2>1. maps' = maps /\ known' = known /\ pc[t] = "compile"
        /\ Drop(t, Map(t), item[t], key[t])
    BY <1>8 DEF CompiledAgain
  <2> QED BY <1>0, <1>a, <2>1, DropKeeps DEF IInv
<1>9. ASSUME NEW t \in Threads, Finalized(t) PROVE IInv'
  <2>1. maps' = maps /\ known' = known /\ pc[t] # "idle" /\ Use(t, Map(t), item[t], key[t])
    BY <1>9 DEF Finalized
  <2> QED BY <1>0, <1>a, <2>1, UseKeeps DEF IInv
<1>10. ASSUME NEW t \in Threads, Fails(t) PROVE IInv'
  <2>1. maps' = maps /\ known' = known /\ pc[t] # "idle" /\ End(t, key[t], Error)
    BY <1>10 DEF Fails
  <2> QED BY <1>0, <1>a, <2>1, EndKeeps DEF IInv
<1> QED BY <1>1, <1>2, <1>3, <1>4, <1>5, <1>6, <1>7, <1>8, <1>9, <1>10 DEF Next, Continue

LEMMA IInvHolds == Spec => []IInv
BY InitIInv, NextIInv, PTL DEF Spec

\* Whenever Python code runs, and another launch may begin, the maps of kernels answer every
\* lookup exactly and no helper is shared (prepare_launch, hash_map.h), for any number
\* of threads and keys and any hash function.
THEOREM DispatchIsConsistent == Spec => []DispatchInv
BY IInvHolds, IInvImplies, PTL

-----------------------------------------------------------------------------
(* Results of launches.                                                    *)

LEMMA ResultsDiffer ==
    /\ Error # Undefined
    /\ \A v \in Values : v # Error /\ v # Undefined /\ v # None
<1>1. Error # Undefined
  BY DEF Error, Undefined
<1>2. \A a, b : <<a, b>> # Error /\ <<a, b>> # Undefined
  BY DEF Error, Undefined
<1>3. \A v \in Values : \E a \in Constants, b \in Threads : v = <<a, b>>
  BY DispatchAssumption
<1>4. \A v \in Values : v # None
  BY DispatchAssumption
<1> QED BY <1>1, <1>2, <1>3, <1>4

\* A launch that uses an item ends with a kernel of its constants or an error, or, if the
\* array of the item has been freed, with an undefined result.
LEMMA UseFacts ==
    ASSUME NEW t \in Threads, NEW m, NEW a, NEW c \in Constants, Use(t, m, a, c)
    PROVE  \E r : /\ ended' = <<t, <<family[t], c>>, r>>
                  /\ r \in KernelsFor(m, c) \/ r = Error \/ (r = Undefined /\ ~Live(m, a))
<1>1. PICK r \in KernelsFor(m, c) \cup {Error} \cup (IF Live(m, a) THEN {} ELSE {Undefined}) :
        End(t, c, r)
  BY DEF Use
<1>2. c # None
  BY DispatchAssumption
<1>3. ended' = <<t, <<family[t], c>>, r>>
  BY <1>1, <1>2 DEF End
<1> QED BY <1>1, <1>3

-----------------------------------------------------------------------------
(* The service.                                                            *)

kept == [k \in Families \X Constants |-> KeptKernel(k)]

LEMMA KeptIs ==
    ASSUME MapsInv, NEW f \in Families, NEW c \in Constants
    PROVE  /\ <<f, c>> \in Families \X Constants
           /\ KernelsFor(maps[f], c) = {} => kept[<<f, c>>] = None
           /\ \A v \in KernelsFor(maps[f], c) : kept[<<f, c>>] = v /\ v # None
<1>1. kept[<<f, c>>] = KeptKernel(<<f, c>>) /\ <<f, c>>[1] = f /\ <<f, c>>[2] = c
  BY DEF kept
<1> DEFINE S == KernelsFor(maps[f], c)
<1>2. KeptKernel(<<f, c>>) = IF S = {} THEN None ELSE CHOOSE kernel \in S : TRUE
  BY DEF KeptKernel
<1>3. S \subseteq Values /\ \A x, y \in S : x = y
  BY OneKernel DEF MapsInv, Constants
<1> HIDE DEF S
<1>4. \A v \in S : KeptKernel(<<f, c>>) = v
  <2> SUFFICES ASSUME NEW v \in S PROVE KeptKernel(<<f, c>>) = v
    OBVIOUS
  <2>1. (CHOOSE kernel \in S : TRUE) \in S
    OBVIOUS
  <2> QED BY <1>2, <1>3, <2>1
<1> QED BY <1>1, <1>2, <1>3, <1>4, ResultsDiffer DEF S

LEMMA SameMapsKeep ==
    ASSUME maps' = maps
    PROVE  kept' = kept
BY DEF kept, KeptKernel

LEMMA UseServes ==
    ASSUME IInv, NEW t \in Threads, NEW a, family[t] \in Families, NEW c \in Constants,
           Use(t, Map(t), a, c), maps' = maps
    PROVE  Service!ServiceNext
<1> DEFINE k == <<family[t], c>>
<1>1. PICK r : /\ ended' = <<t, k, r>>
               /\ r \in KernelsFor(Map(t), c) \/ r = Error \/ r = Undefined
  BY UseFacts
<1>2. kept' = kept
  BY SameMapsKeep
<1>3. /\ k \in Families \X Constants
      /\ \A v \in KernelsFor(Map(t), c) : kept[k] = v /\ v # None
  BY KeptIs DEF IInv, Map
<1> HIDE DEF k
<1>4. CASE r \in KernelsFor(Map(t), c)
  <2>1. kept[k] # None /\ ended' = <<t, k, kept[k]>>
    BY <1>1, <1>3, <1>4
  <2>2. Service!Run(t, k)
    BY <1>2, <2>1 DEF Service!Run, kept
  <2> QED BY <1>3, <2>2 DEF Service!ServiceNext
<1>5. CASE r = Error \/ r = Undefined
  <2>1. Service!FailOrLapse(t, k)
    BY <1>1, <1>2, <1>5 DEF Service!FailOrLapse, Service!Error, Service!Undefined,
                            Error, Undefined, kept
  <2> QED BY <1>3, <2>1 DEF Service!ServiceNext
<1> QED BY <1>1, <1>4, <1>5

LEMMA QuietServes ==
    ASSUME maps' = maps, ended' = <<>>
    PROVE  Service!ServiceNext
BY SameMapsKeep DEF Service!ServiceNext, Service!InProgress, kept

LEMMA DropServes ==
    ASSUME IInv, NEW t \in Threads, NEW a, family[t] \in Families, NEW c \in Constants,
           Drop(t, Map(t), a, c), maps' = maps
    PROVE  Service!ServiceNext
BY UseServes, QuietServes DEF Drop

LEMMA CompiledNewServes ==
    ASSUME IInv, NEW t \in Threads, CompiledNew(t)
    PROVE  Service!ServiceNext
<1> DEFINE c == key[t]
           f == family[t]
           v == CompiledBy(t, c)
           m == maps'[f]
           k == <<f, c>>
<1>1. /\ f \in Families /\ c \in Constants /\ contents[helper[t]] = c /\ GoodMap(Map(t))
      /\ v \in Values
      /\ m = Inserted(Map(t), c, v) /\ maps' = [maps EXCEPT ![f] = Inserted(Map(t), c, v)]
      /\ MapsInv'
  BY CompiledNewFacts
<1>2. MapsInv
  BY DEF IInv
<1>3. CASE Has(Map(t), c)
  <2>1. m = Map(t)
    BY <1>1, <1>3, InsertedFacts DEF Constants
  <2>2. maps' = maps
    BY <1>1, <1>2, <2>1 DEF MapsInv, Map
  <2>3. Drop(t, Map(t), Find(m, c), c)
    BY <1>1, <1>3, <2>1 DEF CompiledNew
  <2> QED BY <1>1, <2>2, <2>3, DropServes
<1>4. CASE ~Has(Map(t), c)
  <2>1. Use(t, m, Find(m, c), c)
    BY <1>1, <1>4 DEF CompiledNew
  <2>2. \A d \in Constants : KernelsFor(m, d) = IF d = c THEN {v} ELSE KernelsFor(Map(t), d)
    BY <1>1, <1>4, KernelsInserted DEF Constants
  <2>3. Has(m, c) /\ GoodMap(m)
    BY <1>1, InsertedFacts DEF Constants
  <2>4. Live(m, Find(m, c))
    BY <1>1, <2>3, OneKernel DEF Constants
  <2>5. PICK r : ended' = <<t, k, r>> /\ (r = v \/ r = Error)
    BY <1>1, <2>1, <2>2, <2>4, UseFacts
  <2>6. kept[k] = None /\ k \in Families \X Constants
    <3>1. KernelsFor(Map(t), c) = {}
      BY <1>1, <1>4, OneKernel DEF Constants
    <3> QED BY <1>1, <1>2, <3>1, KeptIs DEF Map
  <2> HIDE DEF m
  <2>7. kept' = [kept EXCEPT ![k] = v]
    <3>1. ASSUME NEW g \in Families, NEW d \in Constants
          PROVE  KeptKernel(<<g, d>>)' = IF <<g, d>> = k THEN v ELSE KeptKernel(<<g, d>>)
      <4>1. KeptKernel(<<g, d>>)' =
              IF KernelsFor(maps'[g], d) = {} THEN None
              ELSE CHOOSE kernel \in KernelsFor(maps'[g], d) : TRUE
        BY DEF KeptKernel, KernelsFor, Stored, Occupied
      <4>2. CASE g = f /\ d = c
        <5>1. KernelsFor(maps'[g], d) = {v}
          BY <1>1, <2>2, <4>2 DEF m
        <5> QED BY <4>1, <4>2, <5>1
      <4>3. CASE ~(g = f /\ d = c)
        <5>1. KernelsFor(maps'[g], d) = KernelsFor(maps[g], d)
          <6>1. CASE g = f
            BY <1>1, <2>2, <4>3, <6>1 DEF m, Map
          <6>2. CASE g # f
            BY <1>1, <1>2, <6>2 DEF MapsInv
          <6> QED BY <6>1, <6>2
        <5>2. <<g, d>> # k
          BY <4>3
        <5> QED BY <4>1, <5>1, <5>2 DEF KeptKernel
      <4> QED BY <4>2, <4>3
    <3>2. \A x \in Families \X Constants : KeptKernel(x)' = IF x = k THEN v ELSE KeptKernel(x)
      BY <3>1
    <3> HIDE DEF k, v
    <3>3. kept' = [x \in Families \X Constants |-> KeptKernel(x)']
      BY DEF kept
    <3> QED BY <2>6, <3>2, <3>3 DEF kept
  <2>8. Service!KeepAndRun(t, k, v)
    <3> HIDE DEF k, v
    <3> QED BY <2>5, <2>6, <2>7 DEF Service!KeepAndRun, Service!Error, Error, kept
  <2> QED BY <1>1, <2>6, <2>8 DEF Service!ServiceNext
<1> QED BY <1>3, <1>4

LEMMA FailsServes ==
    ASSUME IInv, NEW t \in Threads, Fails(t)
    PROVE  Service!ServiceNext
<1> DEFINE k == IF key[t] = None THEN None ELSE <<family[t], key[t]>>
<1>1. pc[t] \in {"classify", "extract", "compile"} /\ End(t, key[t], Error) /\ maps' = maps
      /\ ThreadInv(t)
  BY DEF IInv, ThreadsInv, Fails
<1>2. ended' = <<t, k, Error>>
  BY <1>1 DEF End
<1>3. k \in (Families \X Constants) \cup {None}
  BY <1>1 DEF ThreadInv
<1> HIDE DEF k
<1>4. Service!FailOrLapse(t, k)
  BY <1>1, <1>2, SameMapsKeep DEF Service!FailOrLapse, Service!Error, Error, kept
<1> QED BY <1>3, <1>4 DEF Service!ServiceNext

LEMMA StepServes == IInv /\ [Next]_vars => [Service!ServiceNext]_(Service!serviceVars)
<1> SUFFICES ASSUME IInv, [Next]_vars
             PROVE  Service!ServiceNext \/ UNCHANGED Service!serviceVars
  OBVIOUS
<1>0. MapsInv /\ ThreadsInv
  BY DEF IInv
<1>1. CASE UNCHANGED vars
  <2>1. maps' = maps /\ ended' = ended
    BY <1>1 DEF vars
  <2> QED BY <2>1, SameMapsKeep DEF Service!serviceVars, kept
<1>2. ASSUME NEW t \in Threads, NEW p \in Paths, NEW b \in BOOLEAN, Begin(t, p, b)
      PROVE  Service!ServiceNext
  BY <1>0, <1>2, BeginKeeps, QuietServes
<1>3. ASSUME NEW t \in Threads, NEW f \in Families, BeginNative(t, f)
      PROVE  Service!ServiceNext
  BY <1>0, <1>3, BeginNativeKeeps, QuietServes
<1>4. ASSUME NEW t \in Threads, Classified(t) PROVE Service!ServiceNext
  BY <1>0, <1>4, ClassifiedKeeps, QuietServes
<1>5. ASSUME NEW t \in Threads, ClassifiedLate(t) PROVE Service!ServiceNext
  <2>1. maps' = maps /\ (ended' = <<>> \/ ended' = <<t, None, Undefined>>)
    BY <1>0, <1>5, ClassifiedLateKeeps
  <2>2. CASE ended' = <<>>
    BY <2>1, <2>2, QuietServes
  <2>3. CASE ended' = <<t, None, Undefined>>
    <3>1. Service!FailOrLapse(t, None)
      BY <2>1, <2>3, SameMapsKeep DEF Service!FailOrLapse, Service!Undefined, Undefined, kept
    <3> QED BY <3>1 DEF Service!ServiceNext
  <2> QED BY <2>1, <2>2, <2>3
<1>6. ASSUME NEW t \in Threads, NEW c \in Constants, Extracted(t, c) PROVE Service!ServiceNext
  <2> DEFINE found == Find(Map(t), c)
  <2>1. maps' = maps /\ family[t] \in Families
    BY <1>0, <1>6 DEF Extracted, ThreadsInv, ThreadInv
  <2>2. CASE found # Nowhere /\ ~capture[t]
    BY <1>6, <2>1, <2>2, UseServes DEF Extracted
  <2>3. CASE ~(found # Nowhere /\ ~capture[t])
    BY <1>6, <2>1, <2>3, QuietServes DEF Extracted
  <2> QED BY <2>2, <2>3
<1>7. ASSUME NEW t \in Threads, CompiledNew(t) PROVE Service!ServiceNext
  BY <1>7, CompiledNewServes
<1>8. ASSUME NEW t \in Threads, CompiledAgain(t) PROVE Service!ServiceNext
  <2>1. maps' = maps /\ pc[t] = "compile" /\ Drop(t, Map(t), item[t], key[t]) /\ ThreadInv(t)
    BY <1>0, <1>8 DEF CompiledAgain, ThreadsInv
  <2>2. family[t] \in Families /\ key[t] \in Constants
    BY <2>1 DEF ThreadInv
  <2> QED BY <2>1, <2>2, DropServes
<1>9. ASSUME NEW t \in Threads, Finalized(t) PROVE Service!ServiceNext
  <2>1. maps' = maps /\ pc[t] = "finalize" /\ Use(t, Map(t), item[t], key[t]) /\ ThreadInv(t)
    BY <1>0, <1>9 DEF Finalized, ThreadsInv
  <2>2. family[t] \in Families /\ key[t] \in Constants
    BY <2>1 DEF ThreadInv
  <2> QED BY <2>1, <2>2, UseServes
<1>10. ASSUME NEW t \in Threads, Fails(t) PROVE Service!ServiceNext
  BY <1>10, FailsServes
<1> QED BY <1>1, <1>2, <1>3, <1>4, <1>5, <1>6, <1>7, <1>8, <1>9, <1>10 DEF Next, Continue

LEMMA InitServes == Init => Service!ServiceInit
<1> SUFFICES ASSUME Init PROVE Service!ServiceInit
  OBVIOUS
<1>1. ASSUME NEW k \in Families \X Constants PROVE KeptKernel(k) = None
  <2>1. maps[k[1]] = EmptyMap
    BY DEF Init
  <2>2. KernelsFor(EmptyMap, k[2]) = {}
    BY EmptyMapIsGood DEF KernelsFor
  <2> QED BY <2>1, <2>2 DEF KeptKernel
<1> QED BY <1>1 DEF Init, Service!ServiceInit

\* Kernel dispatch implements KernelService: at most one kernel is kept for the constants of a
\* family, it is never replaced, and a launch that runs a kernel runs the one kept, however
\* the launches of threads interleave (prepare_launch_with_extracted_args).
THEOREM DispatchServes == Spec => ImplementsService
<1>1. Init => Service!ServiceInit
  BY InitServes
<1>2. IInv /\ [Next]_vars => [Service!ServiceNext]_(Service!serviceVars)
  BY StepServes
<1> QED BY <1>1, <1>2, IInvHolds, PTL DEF Spec, ImplementsService, Service!ServiceSpec
=============================================================================
