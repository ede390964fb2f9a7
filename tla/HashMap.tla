------------------------------ MODULE HashMap ------------------------------
(***************************************************************************)
(* HashMap (cext/hash_map.h): open addressing with linear probing.  Items  *)
(* live in the bucket array itself, so an insertion that grows the array   *)
(* moves every item and frees the old array.  A map is a record: `buckets` *)
(* is the array (hashes_ and items_), `array` counts the arrays allocated  *)
(* before it and names the current one in an item's address.               *)
(***************************************************************************)
EXTENDS Integers, FiniteSets, FiniteSetsExt

CONSTANTS
  Keys,
  Hash,    \* compute_hash, a number for each key
  Values,  \* what is stored under a key
  Free     \* a bucket without kOccupiedBit

ASSUME HashMapAssumption ==
  /\ IsFiniteSet(Keys)
  /\ Hash \in [Keys -> Nat]
  /\ Free \notin [key : Keys, value : Values]

\* What 2^k is, for provers that know no exponentiation.
ASSUME PowersOfTwo ==
  2^0 = 1 /\ \A k \in 0..Cardinality(Keys) : 2^(k + 1) = 2 * 2^k

InitialBuckets == 4
Items == [key : Keys, value : Values]

EmptyBuckets(n) == [i \in 0..(n - 1) |-> Free]
EmptyMap == [array |-> 0, buckets |-> EmptyBuckets(InitialBuckets)]

NBuckets(m) == Cardinality(DOMAIN m.buckets)
Occupied(m) == {i \in DOMAIN m.buckets : m.buckets[i] # Free}
Size(m) == Cardinality(Occupied(m))

\* The i-th bucket a probe for the hash h looks at.
Probe(n, h, i) == (h + i) % n

\* lookup: the first bucket of the probe that is free or holds the key.
Position(m, key) ==
  LET n == NBuckets(m)
      Stops(i) == LET b == m.buckets[Probe(n, Hash[key], i)] IN b = Free \/ b.key = key
  IN Probe(n, Hash[key], Min({i \in 0..(n - 1) : Stops(i)}))

Address(m, position) == [array |-> m.array, at |-> position]
Nowhere == [array |-> -1, at |-> -1]

Has(m, key) == m.buckets[Position(m, key)] # Free

\* find: the address of the item, or Nowhere.
Find(m, key) == IF Has(m, key) THEN Address(m, Position(m, key)) ELSE Nowhere

\* rehash: the bucket of an array of n buckets that takes an item, if the buckets
\* in `taken` are occupied already.
FirstFree(n, item, taken) ==
  Probe(n, Hash[item.key],
        Min({i \in 0..(n - 1) : Probe(n, Hash[item.key], i) \notin taken}))

\* The items move to an array twice as large, in the order of their buckets.
Rehashed(m) ==
  LET n == 2 * NBuckets(m)
      moved[i \in Occupied(m)] ==
        FirstFree(n, m.buckets[i], {moved[j] : j \in {k \in Occupied(m) : k < i}})
  IN [array |-> m.array + 1,
      buckets |-> [b \in 0..(n - 1) |->
                     LET from == {i \in Occupied(m) : moved[i] = b}
                     IN IF from = {} THEN Free ELSE m.buckets[CHOOSE i \in from : TRUE]]]

\* A mistake: the array grows one item late.
RoomyLate(m) == IF Size(m) > NBuckets(m) \div 2 THEN Rehashed(m) ELSE m

\* Growing before the array is half full keeps a free bucket to end every probe.
Roomy(m) == IF Size(m) >= NBuckets(m) \div 2 THEN Rehashed(m) ELSE m

\* A mistake: an existing item is replaced.
InsertedOver(m, key, value) ==
  LET room == IF Has(m, key) THEN m ELSE Roomy(m)
  IN [room EXCEPT !.buckets[Position(room, key)] = [key |-> key, value |-> value]]

\* insert: an existing item stays as it is.
Inserted(m, key, value) ==
  IF Has(m, key) THEN m
  ELSE LET room == Roomy(m)
       IN [room EXCEPT !.buckets[Position(room, key)] = [key |-> key, value |-> value]]

\* An address is good until the map grows: items of an array that has been freed are gone.
Live(m, address) == address.array = m.array

Stored(m) == {m.buckets[i] : i \in Occupied(m)}

-----------------------------------------------------------------------------
IsMap(m) ==
  /\ m.array \in Nat
  /\ DOMAIN m.buckets = 0..(InitialBuckets * 2^m.array - 1)
  /\ \A i \in DOMAIN m.buckets : m.buckets[i] \in Items \cup {Free}

\* Every key is where a lookup ends, no key is stored twice, and a lookup of an
\* absent key ends: the probes of find() and insert() depend on all three after
\* any number of insertions and growths.
LookupsAreExact(m) ==
  /\ \A i \in Occupied(m) : Position(m, m.buckets[i].key) = i
  /\ 2 * Size(m) <= NBuckets(m)
=============================================================================
