---- MODULE CompilationCacheProofs ----
(***************************************************************************)
(* Proofs about CompilationCache: what the transactions of concurrent      *)
(* processes commit, what an eviction removes and keeps, and that a        *)
(* listing is in order and complete, for any number of processes, keys,    *)
(* sizes and limits.                                                       *)
(***************************************************************************)
EXTENDS CompilationCache, FiniteSetTheorems, SequenceTheorems, TLAPS

-----------------------------------------------------------------------------
(* The inductive invariant.                                                *)

\* What an eviction in progress has done: it took the oldest rows and not too many.
Evicting(old, new) ==
  /\ \A g \in Entries(old) \ Entries(new), k \in Entries(new) : Older(old, g, k)
  /\ Entries(old) \ Entries(new) # {} => Bytes(Entries(new)) >= SizeLimit

\* What an eviction that is complete has done: it took enough.
EvictedEnough(old, new) ==
  \A k \in Entries(new) :
    (\A j \in Entries(new) : j = k \/ Older(old, k, j)) => Bytes(Entries(new) \ {k}) < SizeLimit

\* The rows of an open transaction against those of the file, which nobody else can change.
TxnInv(r) ==
  /\ Confined(r.op, r.key, files[r.conn], r.txn)
  /\ r.op = "evict" => /\ Evicting(files[r.conn], r.txn)
                       /\ r.pc = "commit" => EvictedEnough(files[r.conn], r.txn)

\* What holds of each process, the lister among them.
LocalInv(p, r) ==
  /\ r \in Process
  /\ r.pc \in {"select", "write", "commit", "page"} => r.conn \in 1..MaxFiles
  /\ r.pc = "commit" => r.locked
  /\ r.locked => r.pc \in {"write", "commit"}
  /\ r.pc = "write" /\ r.locked => r.op = "evict"
  /\ r.locked => TxnInv(r)
  /\ r.op = "list" => /\ p = Lister /\ r.pc \in {"connect", "recreate", "reconnect", "page"}
                      /\ r.pc # "page" => r.conn = 0
  /\ r.pc = "page" => r.op = "list"
  /\ r.pc = "listed" => r.op = "none"

\* One transaction at a time on a file.
OneWriter == \A p, q \in Procs :
  proc[p].locked /\ proc[q].locked /\ proc[p].conn = proc[q].conn => p = q

\* A listing that has no connection yet.
Opening(r) == r.op = "list" /\ r.pc # "page"

\* The cursor is the last row listed, and the rows watched are still in the file.
CursorInv ==
  /\ listing.last = <<>> <=> listing.listed = <<>>
  /\ listing.listed # <<>> => listing.last = listing.listed[Len(listing.listed)]
  /\ listing.bounded => Len(listing.listed) + listing.remaining = listing.max
  /\ Opening(proc[Lister]) => listing.listed = <<>>
  /\ proc[Lister].pc = "page" => listing.watched \subseteq Entries(files[proc[Lister].conn])

CacheInv == TypeOK /\ (\A p \in Procs : LocalInv(p, proc[p])) /\ OneWriter

IInv == CacheInv /\ CursorInv /\ ListingInOrder /\ ListingSkipsNothing

-----------------------------------------------------------------------------
(* Sums of sizes.                                                          *)

\* A non-empty set of natural numbers has a least element.
LEMMA LeastNat ==
    ASSUME NEW S \in SUBSET Nat, S # {}
    PROVE  \E m \in S : \A n \in S : m <= n
<1> DEFINE R == {ss \in Nat \X Nat : ss[1] < ss[2]}
<1>1. IsWellFoundedOn(R, Nat)
  BY NatLessThanWellFounded, Zenon DEF OpToRel
<1>2. PICK m \in S : \A n \in S : ~ (<<n, m>> \in R)
  <2> HIDE DEF R
  <2> QED BY <1>1, WFMin, Zenon
<1>3. ASSUME NEW n \in S PROVE m <= n
  <2>1. <<n, m>>[1] = n /\ <<n, m>>[2] = m /\ <<n, m>> \in Nat \X Nat
    OBVIOUS
  <2> QED BY <1>2, <2>1, n \in Nat, m \in Nat
<1> QED BY <1>3

\* A set of sets of keys that is not empty has a member with fewest elements.
LEMMA SmallestSet ==
    ASSUME NEW F \in SUBSET (SUBSET Keys), F # {}
    PROVE  \E T \in F : \A U \in F : Cardinality(T) <= Cardinality(U)
<1> DEFINE sizes == {Cardinality(T) : T \in F}
<1>1. \A T \in F : Cardinality(T) \in Nat
  BY CacheAssumption, FS_Subset, FS_CardinalityType
<1>2. sizes # {} /\ sizes \in SUBSET Nat
  BY <1>1
<1>3. PICK m \in sizes : \A n \in sizes : m <= n
  BY <1>2, LeastNat
<1>4. PICK T \in F : Cardinality(T) = m
  BY <1>3
<1> QED BY <1>3, <1>4

LEMMA KeySets ==
    ASSUME NEW S \in SUBSET Keys
    PROVE  /\ IsFiniteSet(S) /\ Cardinality(S) \in Nat
           /\ \A x \in S : Cardinality(S \ {x}) = Cardinality(S) - 1
           /\ \A T \in SUBSET S : IsFiniteSet(T) /\ Cardinality(T) \in Nat
                                  /\ Cardinality(T) <= Cardinality(S)
                                  /\ (Cardinality(T) = Cardinality(S) => T = S)
           /\ Cardinality(S) = 0 <=> S = {}
<1>1. IsFiniteSet(S) /\ Cardinality(S) \in Nat
  BY CacheAssumption, FS_Subset, FS_CardinalityType
<1>2. \A x \in S : Cardinality(S \ {x}) = Cardinality(S) - 1
  BY <1>1, FS_RemoveElement
<1>3. ASSUME NEW T \in SUBSET S
      PROVE  IsFiniteSet(T) /\ Cardinality(T) \in Nat
             /\ Cardinality(T) <= Cardinality(S)
             /\ (Cardinality(T) = Cardinality(S) => T = S)
  BY <1>1, FS_Subset, FS_CardinalityType
<1> QED BY <1>1, <1>2, <1>3, FS_EmptySet

Pick(s) == CHOOSE x \in s : TRUE

\* The equation of the fold in Bytes.
IsSum(g, S) == g = [s \in SUBSET S |-> IF s = {} THEN 0 ELSE Size[Pick(s)] + g[s \ {Pick(s)}]]

LEMMA BytesIsSum ==
    ASSUME NEW S
    PROVE  Bytes(S) = (CHOOSE g : IsSum(g, S))[S]
BY DEF Bytes, FoldFunctionOnSet, MapThenFoldSet, IsSum, Pick

LEMMA PickInSet ==
    ASSUME NEW S, S # {}
    PROVE  Pick(S) \in S
BY DEF Pick

\* The equation has a solution: extend it from the sets of up to n keys to those of n + 1.
LEMMA SumExists == \E g \in [SUBSET Keys -> Nat] : IsSum(g, Keys)
<1> DEFINE Level(n) == {s \in SUBSET Keys : Cardinality(s) <= n}
           Val(g, s) == IF s = {} THEN 0 ELSE Size[Pick(s)] + g[s \ {Pick(s)}]
           Solves(g, n) == \A s \in Level(n) : g[s] = Val(g, s)
           Solved(n) == \E g \in [Level(n) -> Nat] : Solves(g, n)
           Fails == {n \in Nat : ~Solved(n)}
<1>1. ASSUME Fails # {} PROVE FALSE
  <2>1. Fails \in SUBSET Nat
    OBVIOUS
  <2>2. PICK m \in Fails : \A n \in Fails : m <= n
    <3> HIDE DEF Fails
    <3> QED BY <1>1, <2>1, LeastNat
  <2>3. CASE m = 0
    <3>1. \A s \in Level(0) : s = {}
      <4> SUFFICES ASSUME NEW s \in Level(0) PROVE s = {}
        OBVIOUS
      <4> QED BY KeySets
    <3> DEFINE g == [s \in Level(0) |-> 0]
    <3>2. g \in [Level(0) -> Nat] /\ Solves(g, 0)
      BY <3>1
    <3> HIDE DEF g, Solves, Level
    <3> QED BY <2>2, <2>3, <3>2
  <2>4. CASE m # 0
    <3>1. m \in Nat /\ m - 1 \in Nat /\ ~(m <= m - 1) /\ ~Solved(m)
      <4> HIDE DEF Solved
      <4>1. m \in Nat /\ ~Solved(m)
        OBVIOUS
      <4> QED BY <2>4, <4>1
    <3>2. Solved(m - 1)
      <4> HIDE DEF Solved
      <4> QED BY <2>2, <3>1
    <3>3. PICK g \in [Level(m - 1) -> Nat] : Solves(g, m - 1)
      BY <3>2
    <3> DEFINE h == [s \in Level(m) |-> Val(g, s)]
    <3>4. ASSUME NEW s \in Level(m), s # {}
          PROVE  Pick(s) \in Keys /\ Size[Pick(s)] \in Nat /\ s \ {Pick(s)} \in Level(m - 1)
      <4>1. Pick(s) \in s /\ Cardinality(s \ {Pick(s)}) = Cardinality(s) - 1
            /\ Cardinality(s) \in Nat
        BY <3>4, PickInSet, KeySets
      <4>2. Cardinality(s \ {Pick(s)}) <= m - 1
        BY <3>1, <4>1
      <4>3. Pick(s) \in Keys /\ s \ {Pick(s)} \in SUBSET Keys
        BY <4>1
      <4>4. Size[Pick(s)] \in Nat
        BY <4>3, CacheAssumption
      <4> QED BY <4>2, <4>3, <4>4
    <3>5. h \in [Level(m) -> Nat]
      <4>1. ASSUME NEW s \in Level(m) PROVE Val(g, s) \in Nat
        <5>1. CASE s = {}
          BY <5>1
        <5>2. CASE s # {}
          <6>1. Size[Pick(s)] \in Nat /\ s \ {Pick(s)} \in Level(m - 1)
            BY <3>4, <5>2
          <6>2. g[s \ {Pick(s)}] \in Nat
            <7> HIDE DEF Level
            <7> QED BY <3>3, <6>1
          <6> QED BY <5>2, <6>1, <6>2
        <5> QED BY <5>1, <5>2
      <4> HIDE DEF Val, Level
      <4> QED BY <4>1
    <3>6. Level(m - 1) \subseteq Level(m)
      <4> SUFFICES ASSUME NEW s \in Level(m - 1) PROVE s \in Level(m)
        OBVIOUS
      <4>1. Cardinality(s) \in Nat
        BY KeySets
      <4> QED BY <3>1, <4>1
    <3>7. \A s \in Level(m - 1) : h[s] = g[s]
      <4> HIDE DEF Level, Val
      <4> QED BY <3>3, <3>6
    <3>8. Solves(h, m)
      <4> SUFFICES ASSUME NEW s \in Level(m) PROVE h[s] = Val(h, s)
        OBVIOUS
      <4>1. CASE s = {}
        BY <4>1
      <4>2. CASE s # {}
        <5>1. h[s \ {Pick(s)}] = g[s \ {Pick(s)}]
          <6> HIDE DEF h, Level
          <6> QED BY <3>4, <3>7, <4>2
        <5>2. h[s] = Val(g, s)
          <6> HIDE DEF Level, Val
          <6> QED OBVIOUS
        <5> HIDE DEF h, Level
        <5> QED BY <4>2, <5>1, <5>2
      <4> QED BY <4>1, <4>2
    <3> HIDE DEF h, Solves, Level
    <3> QED BY <3>1, <3>5, <3>8
  <2> QED BY <2>3, <2>4
<1>2. Solved(Cardinality(Keys))
  <2>1. Cardinality(Keys) \in Nat
    BY KeySets
  <2> HIDE DEF Solved
  <2> QED BY <1>1, <2>1
<1>3. Level(Cardinality(Keys)) = SUBSET Keys
  BY KeySets
<1>4. PICK g \in [SUBSET Keys -> Nat] : \A s \in SUBSET Keys : g[s] = Val(g, s)
  BY <1>2, <1>3
<1>5. IsSum(g, Keys)
  BY <1>4 DEF IsSum
<1> QED BY <1>5

\* Its solutions agree, so Bytes adds the size of the element it picks.
LEMMA BytesUnfold ==
    /\ \A S \in SUBSET Keys : Bytes(S) \in Nat
    /\ Bytes({}) = 0
    /\ \A S \in SUBSET Keys : S # {} => Bytes(S) = Size[Pick(S)] + Bytes(S \ {Pick(S)})
<1>1. PICK g \in [SUBSET Keys -> Nat] : IsSum(g, Keys)
  BY SumExists
<1>2. \A s \in SUBSET Keys : g[s] = IF s = {} THEN 0 ELSE Size[Pick(s)] + g[s \ {Pick(s)}]
  BY <1>1, Zenon DEF IsSum
<1>3. ASSUME NEW S \in SUBSET Keys PROVE Bytes(S) = g[S]
  <2> DEFINE r == [s \in SUBSET S |-> g[s]]
             h == CHOOSE f : IsSum(f, S)
  <2>1. \A s \in SUBSET S : s \in SUBSET Keys /\ s \ {Pick(s)} \in SUBSET S
    OBVIOUS
  <2>2. IsSum(r, S)
    <3>1. \A s \in SUBSET S : r[s] = IF s = {} THEN 0 ELSE Size[Pick(s)] + r[s \ {Pick(s)}]
      BY <1>2, <2>1
    <3>2. r = [s \in SUBSET S |-> r[s]]
      OBVIOUS
    <3> HIDE DEF r
    <3> QED BY <3>1, <3>2 DEF IsSum
  <2>3. IsSum(h, S)
    <3> HIDE DEF r
    <3> QED BY <2>2
  <2>4. \A s \in SUBSET S : h[s] = IF s = {} THEN 0 ELSE Size[Pick(s)] + h[s \ {Pick(s)}]
    <3> HIDE DEF h
    <3> QED BY <2>3, Zenon DEF IsSum
  <2> DEFINE Differ == {s \in SUBSET S : h[s] # g[s]}
  <2>5. ASSUME Differ # {} PROVE FALSE
    <3> HIDE DEF h
    <3>1. Differ \in SUBSET (SUBSET Keys)
      OBVIOUS
    <3>2. PICK T \in Differ : \A U \in Differ : Cardinality(T) <= Cardinality(U)
      <4> HIDE DEF Differ
      <4> QED BY <2>5, <3>1, SmallestSet
    <3>3. T \in SUBSET S /\ T \in SUBSET Keys /\ h[T] # g[T]
      BY <2>1
    <3>4. T # {}
      BY <1>2, <2>4, <3>3
    <3>5. /\ Pick(T) \in T /\ T \ {Pick(T)} \in SUBSET S
          /\ Cardinality(T \ {Pick(T)}) = Cardinality(T) - 1 /\ Cardinality(T) \in Nat
      BY <3>3, <3>4, PickInSet, KeySets
    <3>6. T \ {Pick(T)} \notin Differ
      <4> HIDE DEF Differ
      <4> QED BY <3>2, <3>5
    <3>7. h[T \ {Pick(T)}] = g[T \ {Pick(T)}]
      BY <3>5, <3>6
    <3> QED BY <1>2, <2>4, <3>3, <3>4, <3>7
  <2>6. h[S] = g[S]
    <3> HIDE DEF h
    <3> QED BY <2>5
  <2> HIDE DEF h
  <2> QED BY <2>6, BytesIsSum DEF h
<1>4. \A S \in SUBSET Keys : S \ {Pick(S)} \in SUBSET Keys
  OBVIOUS
<1> QED BY <1>1, <1>2, <1>3, <1>4

\* Whichever element it picks.
LEMMA BytesRemove ==
    ASSUME NEW S \in SUBSET Keys, NEW x \in S
    PROVE  Bytes(S) = Size[x] + Bytes(S \ {x})
<1> DEFINE Wrong == {T \in SUBSET Keys : \E y \in T : Bytes(T) # Size[y] + Bytes(T \ {y})}
<1>0. \A k \in Keys : Size[k] \in Nat
  BY CacheAssumption
<1>1. ASSUME Wrong # {} PROVE FALSE
  <2>1. Wrong \in SUBSET (SUBSET Keys)
    OBVIOUS
  <2>2. PICK T \in Wrong : \A U \in Wrong : Cardinality(T) <= Cardinality(U)
    <3> HIDE DEF Wrong
    <3> QED BY <1>1, <2>1, SmallestSet
  <2>3. PICK y \in T : Bytes(T) # Size[y] + Bytes(T \ {y})
    OBVIOUS
  <2> DEFINE z == Pick(T)
  <2>4. T \in SUBSET Keys /\ T # {} /\ z \in T /\ y \in Keys /\ z \in Keys
    BY <2>3, PickInSet
  <2>5. Bytes(T) = Size[z] + Bytes(T \ {z})
    BY <2>4, BytesUnfold
  <2> HIDE DEF z
  <2>6. y # z
    BY <2>3, <2>5
  <2>7. ASSUME NEW u \in T, NEW v \in T \ {u}
        PROVE  Bytes(T \ {u}) = Size[v] + Bytes((T \ {u}) \ {v})
    <3>1. /\ T \ {u} \in SUBSET Keys
          /\ Cardinality(T \ {u}) = Cardinality(T) - 1 /\ Cardinality(T) \in Nat
      BY <2>4, KeySets
    <3>2. T \ {u} \notin Wrong
      <4> HIDE DEF Wrong
      <4> QED BY <2>2, <3>1
    <3> QED BY <3>1, <3>2
  <2>8. Bytes(T \ {z}) = Size[y] + Bytes((T \ {z}) \ {y})
    BY <2>3, <2>4, <2>6, <2>7
  <2>9. Bytes(T \ {y}) = Size[z] + Bytes((T \ {y}) \ {z})
    BY <2>3, <2>4, <2>6, <2>7
  <2>10. (T \ {z}) \ {y} = (T \ {y}) \ {z} /\ (T \ {z}) \ {y} \in SUBSET Keys
    BY <2>4
  <2>11. Bytes((T \ {z}) \ {y}) \in Nat
    BY <2>10, BytesUnfold
  <2>12. Size[y] \in Nat /\ Size[z] \in Nat
    BY <1>0, <2>4
  <2>13. Bytes(T) = Size[z] + (Size[y] + Bytes((T \ {z}) \ {y}))
         /\ Bytes(T \ {y}) = Size[z] + Bytes((T \ {z}) \ {y})
    BY <2>5, <2>8, <2>9, <2>10
  <2>14. \A a, b, c \in Nat : b + (a + c) = a + (b + c)
    OBVIOUS
  <2>15. Bytes(T) = Size[y] + Bytes(T \ {y})
    BY <2>11, <2>12, <2>13, <2>14
  <2> QED BY <2>3, <2>15
<1> QED BY <1>1

\* A part and the rest add up.
LEMMA BytesSplit ==
    ASSUME NEW S \in SUBSET Keys, NEW T \in SUBSET S
    PROVE  /\ Bytes(S) = Bytes(T) + Bytes(S \ T)
           /\ Bytes(S) \in Nat /\ Bytes(T) \in Nat /\ Bytes(S \ T) \in Nat
<1> DEFINE Wrong == {U \in SUBSET S : Bytes(S) # Bytes(U) + Bytes(S \ U)}
<1>0. \A U \in SUBSET S : Bytes(U) \in Nat /\ Bytes(S \ U) \in Nat /\ U \in SUBSET Keys
  BY BytesUnfold
<1>1. ASSUME Wrong # {} PROVE FALSE
  <2>1. Wrong \in SUBSET (SUBSET Keys)
    OBVIOUS
  <2>2. PICK U \in Wrong : \A V \in Wrong : Cardinality(U) <= Cardinality(V)
    <3> HIDE DEF Wrong
    <3> QED BY <1>1, <2>1, SmallestSet
  <2>3. CASE U = {}
    <3>1. S \ U = S /\ Bytes(U) = 0 /\ Bytes(S) \in Nat
      BY <2>3, BytesUnfold
    <3> QED BY <3>1
  <2>4. CASE U # {}
    <3>1. PICK x \in U : TRUE
      BY <2>4
    <3>2. /\ U \ {x} \in SUBSET S /\ U \in SUBSET Keys
          /\ Cardinality(U \ {x}) = Cardinality(U) - 1 /\ Cardinality(U) \in Nat
      BY KeySets, <3>1
    <3>3. U \ {x} \notin Wrong
      <4> HIDE DEF Wrong
      <4> QED BY <2>2, <3>2
    <3>4. Bytes(S) = Bytes(U \ {x}) + Bytes(S \ (U \ {x}))
      BY <3>2, <3>3
    <3>5. (S \ (U \ {x})) \ {x} = S \ U /\ x \in S \ (U \ {x})
      BY <3>1
    <3>6. Bytes(S \ (U \ {x})) = Size[x] + Bytes(S \ U)
      <4>1. S \ (U \ {x}) \in SUBSET Keys
        OBVIOUS
      <4> QED BY <3>5, <4>1, BytesRemove
    <3>7. Bytes(U) = Size[x] + Bytes(U \ {x})
      BY <3>1, <3>2, BytesRemove
    <3>8. Size[x] \in Nat /\ Bytes(S \ U) \in Nat /\ Bytes(U \ {x}) \in Nat
      BY <1>0, <3>1, <3>2, CacheAssumption
    <3>9. Bytes(S) # Bytes(U) + Bytes(S \ U)
      BY <2>2
    <3> QED BY <3>4, <3>6, <3>7, <3>8, <3>9
  <2> QED BY <2>3, <2>4
<1>2. Bytes(S) = Bytes(T) + Bytes(S \ T)
  BY <1>1
<1> QED BY <1>0, <1>2, BytesUnfold

-----------------------------------------------------------------------------
(* The order on (atime, key), evictions and batches.                       *)

LEMMA RowsTyped ==
    ASSUME NEW c \in Rows, NEW k \in Keys
    PROVE  /\ c[k] \in Int /\ k \in Nat
           /\ k \in Entries(c) => c[k] \in 0..MaxClock
<1>1. c[k] \in 0..MaxClock \cup {Absent}
  BY DEF Rows
<1> QED BY <1>1, CacheAssumption DEF Absent, Entries

\* Older is a strict total order.
LEMMA OlderIsTotal ==
    ASSUME NEW c \in Rows
    PROVE  /\ \A k \in Keys : ~Older(c, k, k)
           /\ \A j, k, l \in Keys : Older(c, j, k) /\ Older(c, k, l) => Older(c, j, l)
           /\ \A j, k \in Keys : j = k \/ Older(c, j, k) \/ Older(c, k, j)
<1>1. \A k \in Keys : c[k] \in Int /\ k \in Nat
  BY RowsTyped
<1> QED BY <1>1 DEF Older

\* What is in front of a key is less than what is in front of an older one.
LEMMA InFrontShrinks ==
    ASSUME NEW c \in Rows, NEW S \in SUBSET Keys, NEW j \in S, NEW k \in S, Older(c, j, k)
    PROVE  Cardinality({l \in S : Older(c, k, l)}) < Cardinality({l \in S : Older(c, j, l)})
<1> DEFINE A == {l \in S : Older(c, k, l)}
           B == {l \in S : Older(c, j, l)}
<1>1. A \in SUBSET B /\ A # B /\ B \in SUBSET Keys
  <2>1. k \in B /\ k \notin A
    BY OlderIsTotal
  <2>2. A \subseteq B
    BY OlderIsTotal
  <2> QED BY <2>1, <2>2
<1> HIDE DEF A, B
<1>2. Cardinality(A) \in Nat /\ Cardinality(B) \in Nat
      /\ Cardinality(A) <= Cardinality(B) /\ Cardinality(A) # Cardinality(B)
  BY <1>1, KeySets
<1>3. Cardinality(A) < Cardinality(B)
  BY <1>2
<1> QED BY <1>3 DEF A, B

\* A set of keys has a newest one.
LEMMA NewestExists ==
    ASSUME NEW c \in Rows, NEW S \in SUBSET Keys, S # {}
    PROVE  \E k \in S : \A j \in S : j = k \/ Older(c, j, k)
<1> DEFINE Front(k) == {l \in S : Older(c, k, l)}
           counts == {Cardinality(Front(k)) : k \in S}
<1>1. \A k \in S : Cardinality(Front(k)) \in Nat
  <2> SUFFICES ASSUME NEW k \in S PROVE Cardinality(Front(k)) \in Nat
    OBVIOUS
  <2>1. Front(k) \in SUBSET Keys
    OBVIOUS
  <2> HIDE DEF Front
  <2> QED BY <2>1, KeySets
<1>2. counts # {} /\ counts \in SUBSET Nat
  <2> HIDE DEF Front
  <2> QED BY <1>1
<1>3. PICK m \in counts : \A n \in counts : m <= n
  <2> HIDE DEF counts
  <2> QED BY <1>2, LeastNat
<1>4. PICK k \in S : Cardinality(Front(k)) = m
  <2> HIDE DEF Front
  <2> QED BY <1>3
<1>5. ASSUME NEW j \in S PROVE j = k \/ Older(c, j, k)
  <2> SUFFICES ASSUME Older(c, k, j) PROVE FALSE
    BY OlderIsTotal
  <2>1. Cardinality(Front(j)) < Cardinality(Front(k))
    BY <1>4, InFrontShrinks
  <2> HIDE DEF Front
  <2>2. Cardinality(Front(j)) \in counts /\ Cardinality(Front(j)) \in Nat /\ m \in Nat
    BY <1>1, <1>4
  <2>3. m <= Cardinality(Front(j))
    BY <1>3, <2>2
  <2> QED BY <1>4, <2>1, <2>2, <2>3
<1> QED BY <1>5

\* One DELETE of evict_lru takes the oldest rows, leaves at least the limit if it takes
\* any, and when it takes fewer than it may, one more row would have gone below the limit.
LEMMA EvictableCorrect ==
    ASSUME NEW c \in Rows, NEW limit \in Nat
    PROVE  /\ Evictable(c, limit) \subseteq Entries(c) /\ Entries(c) \subseteq Keys
           /\ \A g \in Evictable(c, limit), k \in Entries(c) \ Evictable(c, limit) : Older(c, g, k)
           /\ Evictable(c, limit) # {} => Bytes(Entries(c) \ Evictable(c, limit)) >= SizeLimit
           /\ Cardinality(Evictable(c, limit)) < limit =>
                \A k \in Entries(c) \ Evictable(c, limit) :
                  (\A j \in Entries(c) \ Evictable(c, limit) : j = k \/ Older(c, k, j))
                      => Bytes((Entries(c) \ Evictable(c, limit)) \ {k}) < SizeLimit
<1> DEFINE E == Entries(c)
           G == Evictable(c, limit)
<1>0. E \in SUBSET Keys /\ G \in SUBSET E /\ G \in SUBSET Keys /\ SizeLimit \in Nat
  BY CacheAssumption DEF Evictable, Entries
<1>1. \A k \in E : /\ UpTo(c, k) \in SUBSET E /\ k \in UpTo(c, k)
                   /\ \A j \in E : j \in UpTo(c, k) <=> j = k \/ Older(c, j, k)
  BY DEF UpTo
<1>2. \A k \in E : k \in G <=> /\ Cardinality(UpTo(c, k)) <= limit
                               /\ Bytes(UpTo(c, k)) <= Bytes(E) - SizeLimit
  BY DEF Evictable, Cumulative, Total
<1>3. \A k \in E : Cardinality(UpTo(c, k)) \in Nat /\ Bytes(UpTo(c, k)) \in Nat
  BY <1>0, <1>1, KeySets, BytesSplit
<1>4. Bytes(E) \in Nat
  BY <1>0, BytesUnfold
<1> HIDE DEF E, G
<1>5. ASSUME NEW g \in G, NEW j \in E, Older(c, j, g) PROVE j \in G
  <2>1. g \in E /\ g \in Keys /\ j \in Keys
    BY <1>0
  <2>2. UpTo(c, j) \in SUBSET UpTo(c, g)
    BY <1>0, <1>1, <1>5, <2>1, OlderIsTotal
  <2>3. UpTo(c, g) \in SUBSET Keys
    BY <1>0, <1>1, <2>1
  <2>4. Cardinality(UpTo(c, j)) <= Cardinality(UpTo(c, g))
    BY <2>2, <2>3, KeySets
  <2>5. /\ Bytes(UpTo(c, g)) = Bytes(UpTo(c, j)) + Bytes(UpTo(c, g) \ UpTo(c, j))
        /\ Bytes(UpTo(c, g) \ UpTo(c, j)) \in Nat
    BY <2>2, <2>3, BytesSplit
  <2>6. Cardinality(UpTo(c, g)) <= limit /\ Bytes(UpTo(c, g)) <= Bytes(E) - SizeLimit
    BY <1>2, <2>1
  <2>7. Cardinality(UpTo(c, j)) <= limit
    BY <1>3, <2>1, <2>4, <2>6
  <2>8. Bytes(UpTo(c, j)) <= Bytes(UpTo(c, g))
    BY <1>3, <2>1, <2>5
  <2>9. Bytes(UpTo(c, j)) <= Bytes(E) - SizeLimit
    BY <1>0, <1>3, <1>4, <2>1, <2>6, <2>8
  <2> QED BY <1>2, <2>7, <2>9
<1>6. ASSUME NEW g \in G, NEW k \in E \ G PROVE Older(c, g, k)
  BY <1>0, <1>5, OlderIsTotal
<1>7. ASSUME G # {} PROVE Bytes(E \ G) >= SizeLimit
  <2>1. PICK g \in G : \A j \in G : j = g \/ Older(c, j, g)
    BY <1>0, <1>7, NewestExists
  <2>2. UpTo(c, g) = G
    BY <1>0, <1>1, <1>5, <2>1
  <2>3. Bytes(G) <= Bytes(E) - SizeLimit
    BY <1>0, <1>2, <2>1, <2>2
  <2>4. Bytes(E) = Bytes(G) + Bytes(E \ G) /\ Bytes(G) \in Nat /\ Bytes(E \ G) \in Nat
    BY <1>0, BytesSplit
  <2> QED BY <1>0, <1>4, <2>3, <2>4
<1>8. ASSUME Cardinality(G) < limit, NEW k \in E \ G, \A j \in E \ G : j = k \/ Older(c, k, j)
      PROVE  Bytes((E \ G) \ {k}) < SizeLimit
  <2>1. UpTo(c, k) = G \cup {k}
    <3>1. ASSUME NEW j \in E, Older(c, j, k) PROVE j \in G
      <4> SUFFICES ASSUME j \notin G PROVE FALSE
        OBVIOUS
      <4>1. j = k \/ Older(c, k, j)
        BY <1>8
      <4> QED BY <1>0, <3>1, <4>1, OlderIsTotal
    <3>2. \A g \in G : Older(c, g, k)
      BY <1>6
    <3> QED BY <1>0, <1>1, <3>1, <3>2
  <2>2. Cardinality(UpTo(c, k)) <= limit
    <3>1. IsFiniteSet(G) /\ Cardinality(G) \in Nat
      BY <1>0, KeySets
    <3>2. Cardinality(G \cup {k}) = Cardinality(G) + 1
      BY <3>1, FS_AddElement
    <3> QED BY <1>8, <2>1, <3>1, <3>2
  <2>3. Bytes(UpTo(c, k)) > Bytes(E) - SizeLimit
    BY <1>0, <1>2, <1>3, <1>4, <2>2
  <2>4. Bytes(E) = Bytes(UpTo(c, k)) + Bytes(E \ UpTo(c, k)) /\ Bytes(E \ UpTo(c, k)) \in Nat
    BY <1>0, <1>1, BytesSplit
  <2>5. E \ UpTo(c, k) = (E \ G) \ {k}
    BY <2>1
  <2> QED BY <1>0, <1>3, <1>4, <2>3, <2>4, <2>5
<1> QED BY <1>0, <1>6, <1>7, <1>8 DEF E, G

\* The rows a query selects from.
Candidates(c, last) == {k \in Entries(c) : last # <<>> => BeforeCursor(c, k, last)}

\* A query returns the newest of its rows, newest first, and only if it is full does it
\* leave any.
LEMMA BatchCorrect ==
    ASSUME NEW c \in Rows, NEW last, NEW n \in Nat
    PROVE  LET B == Batch(c, last, n)
           IN  /\ B \in Seq((0..MaxClock) \X Keys) /\ Len(B) \in Nat /\ Len(B) <= n
               /\ \A i \in 1..Len(B) : B[i][2] \in Candidates(c, last) /\ B[i][1] = c[B[i][2]]
               /\ \A i, j \in 1..Len(B) : i < j => Older(c, B[j][2], B[i][2])
               /\ \A k \in Candidates(c, last) :
                    \/ \E i \in 1..Len(B) : B[i][2] = k
                    \/ Len(B) = n /\ \A i \in 1..Len(B) : Older(c, k, B[i][2])
<1> DEFINE C == Candidates(c, last)
           Front(k) == {j \in C : Older(c, k, j)}
           rank == [k \in C |-> Cardinality(Front(k))]
           row(i) == CHOOSE k \in C : Cardinality(Front(k)) = i - 1
           count == Cardinality(C)
           len == IF n < count THEN n ELSE count
           B == Batch(c, last, n)
<1>0. C \in SUBSET Keys /\ C \subseteq Entries(c)
  BY DEF Candidates, Entries
<1>1. count \in Nat /\ IsFiniteSet(C) /\ len \in Nat /\ len <= n /\ len <= count
  BY <1>0, KeySets
<1>2. B = [i \in 1..len |-> <<c[row(i)], row(i)>>]
  BY DEF Batch, Candidates
<1> HIDE DEF C, B
<1>3. ASSUME NEW k \in C PROVE rank[k] \in 0..(count - 1) /\ rank[k] = Cardinality(Front(k))
  <2>1. Front(k) \in SUBSET C /\ k \notin Front(k)
    BY <1>0, OlderIsTotal
  <2>2. rank[k] = Cardinality(Front(k))
    OBVIOUS
  <2> HIDE DEF Front
  <2>3. /\ Cardinality(Front(k)) \in Nat /\ Cardinality(Front(k)) <= count
        /\ Cardinality(Front(k)) # count
    BY <1>0, <2>1, KeySets
  <2> QED BY <1>1, <2>2, <2>3
<1>4. ASSUME NEW j \in C, NEW k \in C, Older(c, j, k) PROVE rank[k] < rank[j]
  BY <1>0, <1>4, InFrontShrinks
<1> HIDE DEF rank, count
<1>5. \A j, k \in C : rank[j] = rank[k] => j = k
  <2> SUFFICES ASSUME NEW j \in C, NEW k \in C, rank[j] = rank[k], j # k PROVE FALSE
    OBVIOUS
  <2>1. Older(c, j, k) \/ Older(c, k, j)
    BY <1>0, OlderIsTotal
  <2>2. rank[j] \in 0..(count - 1) /\ rank[k] \in 0..(count - 1)
    BY <1>3
  <2>3. rank[k] < rank[j] \/ rank[j] < rank[k]
    BY <1>4, <2>1
  <2> QED BY <1>1, <2>2, <2>3
<1>6. \A i \in 1..count : \E k \in C : rank[k] = i - 1
  <2>1. rank \in Injection(C, 0..(count - 1))
    <3>1. rank \in [C -> 0..(count - 1)]
      BY <1>3 DEF rank
    <3> QED BY <1>5, <3>1 DEF Injection, IsInjective
  <2>2. IsFiniteSet(0..(count - 1)) /\ Cardinality(0..(count - 1)) = count
    BY <1>1, FS_Interval
  <2>3. rank \in Surjection(C, 0..(count - 1))
    <3>1. Cardinality(C) = Cardinality(0..(count - 1))
      BY <2>2 DEF count
    <3> QED BY <2>1, <2>2, <3>1, FS_Injection
  <2>4. \A m \in 0..(count - 1) : \E k \in C : rank[k] = m
    BY <2>3 DEF Surjection
  <2> QED BY <1>1, <2>4
<1>7. \A i \in 1..len : row(i) \in C /\ rank[row(i)] = i - 1
  <2> SUFFICES ASSUME NEW i \in 1..len PROVE row(i) \in C /\ rank[row(i)] = i - 1
    OBVIOUS
  <2>1. PICK k \in C : rank[k] = i - 1
    BY <1>1, <1>6
  <2> HIDE DEF Front
  <2>2. \E l \in C : Cardinality(Front(l)) = i - 1
    BY <1>3, <2>1
  <2>3. row(i) \in C /\ Cardinality(Front(row(i))) = i - 1
    BY <2>2
  <2> QED BY <1>3, <2>3
<1> HIDE DEF row, len
<1>8. Len(B) = len /\ \A i \in 1..len : B[i] = <<c[row(i)], row(i)>>
  BY <1>1, <1>2
<1>9. \A i \in 1..len : B[i][1] = c[row(i)] /\ B[i][2] = row(i)
  BY <1>8
<1>10. B \in Seq((0..MaxClock) \X Keys)
  <2>1. \A i \in 1..len : <<c[row(i)], row(i)>> \in (0..MaxClock) \X Keys
    BY <1>0, <1>7, RowsTyped
  <2> QED BY <1>1, <1>2, <2>1
<1>11. ASSUME NEW i \in 1..len, NEW j \in 1..len, i < j PROVE Older(c, row(j), row(i))
  <2>1. row(i) \in C /\ row(j) \in C /\ rank[row(i)] = i - 1 /\ rank[row(j)] = j - 1
    BY <1>7
  <2>2. ~Older(c, row(i), row(j)) /\ row(i) # row(j)
    BY <1>1, <1>4, <1>11, <2>1
  <2> QED BY <1>0, <2>1, <2>2, OlderIsTotal
<1>12. ASSUME NEW k \in C
       PROVE  \/ \E i \in 1..len : row(i) = k
              \/ len = n /\ \A i \in 1..len : Older(c, k, row(i))
  <2>0. rank[k] \in 0..(count - 1)
    BY <1>3
  <2>1. CASE rank[k] < len
    <3>1. rank[k] + 1 \in 1..len /\ (rank[k] + 1) - 1 = rank[k]
      BY <1>1, <2>0, <2>1
    <3>2. row(rank[k] + 1) \in C /\ rank[row(rank[k] + 1)] = rank[k]
      BY <1>7, <3>1
    <3> QED BY <1>5, <3>1, <3>2
  <2>2. CASE ~(rank[k] < len)
    <3>1. len = n
      BY <1>1, <2>0, <2>2 DEF len
    <3>2. ASSUME NEW i \in 1..len PROVE Older(c, k, row(i))
      <4>1. row(i) \in C /\ rank[row(i)] = i - 1 /\ i - 1 < rank[k]
        BY <1>1, <1>7, <2>0, <2>2
      <4>2. ~Older(c, row(i), k) /\ row(i) # k
        BY <1>1, <1>4, <2>0, <4>1
      <4> QED BY <1>0, <4>1, <4>2, OlderIsTotal
    <3> QED BY <3>1, <3>2
  <2> QED BY <2>1, <2>2
<1> QED BY <1>1, <1>7, <1>8, <1>9, <1>10, <1>11, <1>12 DEF B, C

-----------------------------------------------------------------------------
(* A step of one process.                                                  *)

LEMMA NoRowsTyped == NoRows \in Rows /\ Entries(NoRows) = {}
BY DEF NoRows, Rows, Entries

LEMMA IdleLocal ==
    ASSUME NEW p
    PROVE  LocalInv(p, Idle) /\ ~Idle.locked /\ Idle.pc = "idle" /\ Idle.conn = 0
<1>1. Idle \in Process
  BY NoRowsTyped, CacheAssumption DEF Idle, Process
<1> QED BY <1>1 DEF LocalInv, Idle

LEMMA ClosedTyped ==
    ASSUME NEW r \in Process
    PROVE  /\ Closed(r) \in Process /\ Closed(r).conn = 0 /\ ~Closed(r).locked
           /\ Closed(r).op = r.op /\ Closed(r).pc = r.pc
<1>1. NoRows \in Rows /\ 0 \in 0..MaxFiles /\ 0 \in 0..MaxClock
  BY NoRowsTyped, CacheAssumption
<1> QED BY <1>1 DEF Closed, Process

\* After an operation a process has no connection and no transaction; a listing is over.
LEMMA ContinueLocal ==
    ASSUME NEW p, NEW r, LocalInv(p, r)
    PROVE  /\ LocalInv(p, Continue(r)) /\ ~Continue(r).locked
           /\ Continue(r).pc \in {"idle", "compile", "connect"} /\ Continue(r).op # "list"
           /\ r.op = "list" => Continue(r) = Idle
<1>0. r \in Process
  BY DEF LocalInv
<1>1. CASE r.op = "lookup"
  <2>1. Continue(r) = [Closed(r) EXCEPT !.pc = "compile"]
    BY <1>1 DEF Continue
  <2>2. /\ Continue(r) \in Process /\ ~Continue(r).locked /\ Continue(r).pc = "compile"
        /\ Continue(r).op = "lookup"
    BY <1>0, <1>1, <2>1, ClosedTyped DEF Process
  <2> QED BY <1>1, <2>2 DEF LocalInv
<1>2. CASE r.op = "store"
  <2>1. Continue(r) = [Closed(r) EXCEPT !.pc = "connect", !.op = "evict"]
    BY <1>2 DEF Continue
  <2>2. /\ Continue(r) \in Process /\ ~Continue(r).locked /\ Continue(r).pc = "connect"
        /\ Continue(r).op = "evict"
    BY <1>0, <2>1, ClosedTyped DEF Process
  <2> QED BY <1>2, <2>2 DEF LocalInv
<1>3. CASE r.op \notin {"lookup", "store"}
  <2>1. Continue(r) = Idle
    BY <1>3 DEF Continue
  <2>2. Idle.pc = "idle" /\ Idle.op # "list"
    BY DEF Idle
  <2> QED BY <2>1, <2>2, IdleLocal
<1> QED BY <1>1, <1>2, <1>3

LEMMA ProcessStep ==
    ASSUME CacheInv, NEW p \in Procs, NEW r, LocalInv(p, r),
           r.locked => ~LockedByOther(p, r.conn),
           proc' = [proc EXCEPT ![p] = r], files' = files
    PROVE  /\ proc' \in [Procs -> Process]
           /\ \A q \in Procs : LocalInv(q, proc[q])'
           /\ OneWriter'
<1>1. proc \in [Procs -> Process] /\ r \in Process
  BY DEF CacheInv, TypeOK, LocalInv
<1>2. proc' \in [Procs -> Process] /\ proc'[p] = r /\ \A q \in Procs \ {p} : proc'[q] = proc[q]
  BY <1>1
<1>3. ASSUME NEW q \in Procs PROVE LocalInv(q, proc[q])'
  <2>1. LocalInv(q, proc'[q])
    BY <1>2 DEF CacheInv
  <2> QED BY <2>1 DEF LocalInv, TxnInv
<1>4. OneWriter'
  <2> SUFFICES ASSUME NEW q \in Procs, NEW s \in Procs, proc'[q].locked, proc'[s].locked,
                      proc'[q].conn = proc'[s].conn, q # s
               PROVE  FALSE
    BY DEF OneWriter
  <2>1. CASE q # p /\ s # p
    BY <1>2, <2>1 DEF CacheInv, OneWriter
  <2>2. CASE q = p
    BY <1>2, <2>2 DEF LockedByOther
  <2>3. CASE s = p
    BY <1>2, <2>3 DEF LockedByOther
  <2> QED BY <2>1, <2>2, <2>3
<1> QED BY <1>2, <1>3, <1>4

\* The listing is as it was, and the lister is as it was or not in its pages.
LEMMA ListingStays ==
    ASSUME IInv, files' = files, listing' = listing,
           \/ proc'[Lister] = proc[Lister]
           \/ /\ proc'[Lister].pc \notin {"page", "listed"}
              /\ Opening(proc'[Lister]) => listing.listed = <<>>
    PROVE  CursorInv' /\ ListingInOrder' /\ ListingSkipsNothing'
<1>1. ListingInOrder' /\ (\A k : Listed(k)' <=> Listed(k)) /\ (Exhausted' <=> Exhausted)
  BY DEF IInv, ListingInOrder, Listed, Exhausted
<1>2. CASE proc'[Lister] = proc[Lister]
  <2>1. CursorInv'
    BY <1>2 DEF IInv, CursorInv, Opening
  <2>2. ListingSkipsNothing'
    BY <1>1, <1>2 DEF IInv, ListingSkipsNothing
  <2> QED BY <1>1, <2>1, <2>2
<1>3. CASE /\ proc'[Lister].pc \notin {"page", "listed"}
           /\ Opening(proc'[Lister]) => listing.listed = <<>>
  <2>1. CursorInv'
    BY <1>3 DEF IInv, CursorInv, Opening
  <2>2. ListingSkipsNothing'
    BY <1>3 DEF ListingSkipsNothing
  <2> QED BY <1>1, <2>1, <2>2
<1> QED BY <1>2, <1>3

\* There is no listing.
LEMMA NoListingTyped == NoListing \in Listing
<1>1. 0 \in Nat /\ <<>> \in Seq(Int) /\ <<>> \in Seq((0..MaxClock) \X Keys)
  OBVIOUS
<1> QED BY <1>1 DEF NoListing, Listing

LEMMA ListingGone ==
    ASSUME listing' = NoListing, proc'[Lister].pc \notin {"page", "listed"}
    PROVE  CursorInv' /\ ListingInOrder' /\ ListingSkipsNothing'
<1>1. /\ listing'.listed = <<>> /\ listing'.last = <<>> /\ ~listing'.bounded
      /\ Len(listing'.listed) = 0
  BY DEF NoListing
<1> QED BY <1>1 DEF CursorInv, ListingInOrder, ListingSkipsNothing

\* The frame of most actions: the process is now r.
LEMMA StepTo ==
    ASSUME IInv, NEW p \in Procs, NEW r, LocalInv(p, r),
           r.locked => ~LockedByOther(p, r.conn),
           proc' = [proc EXCEPT ![p] = r], files' = files,
           listing' = listing \/ (listing' = NoListing /\ p = Lister),
           path' \in 0..MaxFiles, made' \in 0..MaxFiles, corrupt' \subseteq 1..MaxFiles,
           clock' \in 0..MaxClock,
           r.pc \notin {"page", "listed"}, Opening(r) => listing.listed = <<>>
    PROVE  IInv'
<1>1. proc \in [Procs -> Process] /\ Lister \in Procs
  BY DEF IInv, CacheInv, TypeOK, Procs
<1>2. /\ proc' \in [Procs -> Process]
      /\ \A q \in Procs : LocalInv(q, proc[q])'
      /\ OneWriter'
  BY ProcessStep DEF IInv
<1>3. TypeOK'
  BY <1>2, NoListingTyped DEF IInv, CacheInv, TypeOK
<1>4. \/ listing' = listing /\ proc'[Lister] = proc[Lister]
      \/ /\ proc'[Lister].pc \notin {"page", "listed"}
         /\ Opening(proc'[Lister]) => listing.listed = <<>>
  <2>1. CASE p = Lister
    BY <1>1, <2>1
  <2>2. CASE p # Lister
    BY <1>1, <2>2
  <2> QED BY <2>1, <2>2
<1>5. CursorInv' /\ ListingInOrder' /\ ListingSkipsNothing'
  BY <1>1, <1>4, ListingStays, ListingGone
<1> QED BY <1>2, <1>3, <1>5 DEF IInv, CacheInv

LEMMA SharedTyped ==
    ASSUME IInv
    PROVE  /\ path \in 0..MaxFiles /\ made \in 0..MaxFiles /\ corrupt \subseteq 1..MaxFiles
           /\ clock \in 0..MaxClock /\ files \in [1..MaxFiles -> Rows] /\ MaxFiles \in Nat
           /\ \A p \in Procs : LocalInv(p, proc[p]) /\ proc[p] \in Process
           /\ Lister \in Procs
BY CacheAssumption DEF IInv, CacheInv, TypeOK, Procs

LEMMA ConnectFailsKeeps == ASSUME IInv, NEW p \in Procs, ConnectFails(p) PROVE IInv'
<1> DEFINE r == [proc[p] EXCEPT !.pc = "recreate"]
<1>1. /\ proc[p].pc = "connect" /\ proc' = [proc EXCEPT ![p] = r]
      /\ files' = files /\ path' = path /\ made' = made /\ corrupt' = corrupt /\ clock' = clock
      /\ listing' = listing
  BY DEF ConnectFails
<1>2. LocalInv(p, r) /\ ~r.locked /\ r.pc \notin {"page", "listed"}
  BY <1>1, SharedTyped DEF LocalInv, Process
<1>3. Opening(r) => listing.listed = <<>>
  BY <1>1, SharedTyped DEF IInv, CursorInv, Opening, LocalInv, Process
<1> HIDE DEF r
<1> QED BY <1>1, <1>2, <1>3, SharedTyped, StepTo

LEMMA UnlinkKeeps == ASSUME IInv, NEW p \in Procs, Unlink(p) \/ UnlinkFails(p) PROVE IInv'
<1> DEFINE r == [proc[p] EXCEPT !.pc = "reconnect"]
<1>1. /\ proc[p].pc = "recreate" /\ proc' = [proc EXCEPT ![p] = r]
      /\ files' = files /\ path' \in {0, path} /\ made' = made /\ corrupt' = corrupt
      /\ clock' = clock /\ listing' = listing
  BY DEF Unlink, UnlinkFails
<1>2. LocalInv(p, r) /\ ~r.locked /\ r.pc \notin {"page", "listed"}
  BY <1>1, SharedTyped DEF LocalInv, Process
<1>3. Opening(r) => listing.listed = <<>>
  BY <1>1, SharedTyped DEF IInv, CursorInv, Opening, LocalInv, Process
<1>4. path' \in 0..MaxFiles
  BY <1>1, SharedTyped
<1> HIDE DEF r
<1> QED BY <1>1, <1>2, <1>3, <1>4, SharedTyped, StepTo

LEMMA FailKeeps == ASSUME IInv, NEW p \in Procs, Fail(p) \/ MakedirsFails(p) PROVE IInv'
<1>1. /\ proc' = [proc EXCEPT ![p] = Continue(proc[p])]
      /\ files' = files /\ path' = path /\ made' = made /\ corrupt' = corrupt
      /\ clock' = clock /\ Abandoned(p)
  BY DEF Fail, MakedirsFails
<1>2. /\ LocalInv(p, Continue(proc[p])) /\ ~Continue(proc[p]).locked
      /\ Continue(proc[p]).pc \notin {"page", "listed"} /\ ~Opening(Continue(proc[p]))
  BY SharedTyped, ContinueLocal DEF Opening
<1>3. listing' = listing \/ (listing' = NoListing /\ p = Lister)
  BY <1>1, SharedTyped DEF Abandoned, LocalInv
<1> QED BY <1>1, <1>2, <1>3, SharedTyped, StepTo

LEMMA IdleKeeps ==
    ASSUME IInv, NEW p \in Procs, proc' = [proc EXCEPT ![p] = Idle],
           UNCHANGED <<files, path, made, corrupt, clock>>, listing' = listing \/ Abandoned(p)
    PROVE  IInv'
<1>1. LocalInv(p, Idle) /\ ~Idle.locked /\ Idle.pc \notin {"page", "listed"} /\ ~Opening(Idle)
  BY IdleLocal DEF Idle, Opening
<1>2. listing' = listing \/ (listing' = NoListing /\ p = Lister)
  BY SharedTyped DEF Abandoned, LocalInv
<1> QED BY <1>1, <1>2, SharedTyped, StepTo

LEMMA RequestKeeps == ASSUME IInv, NEW p \in Compilers, NEW k \in Keys, Request(p, k) PROVE IInv'
<1> DEFINE r == [Idle EXCEPT !.pc = "connect", !.op = "lookup", !.key = k]
<1>1. /\ proc' = [proc EXCEPT ![p] = r] /\ p \in Procs
      /\ files' = files /\ path' = path /\ made' = made /\ corrupt' = corrupt
      /\ clock' = clock /\ listing' = listing
  BY CacheAssumption DEF Request, Procs
<1>2. LocalInv(p, r) /\ ~r.locked /\ r.pc = "connect" /\ ~Opening(r)
  <2>1. Idle \in Process
    BY IdleLocal DEF LocalInv
  <2>2. r \in Process /\ r.pc = "connect" /\ ~r.locked /\ r.op = "lookup"
    BY <2>1, IdleLocal DEF Process
  <2> HIDE DEF r
  <2> QED BY <1>1, <2>2 DEF LocalInv, Opening
<1> HIDE DEF r
<1> QED BY <1>1, <1>2, SharedTyped, StepTo

LEMMA SelectKeeps == ASSUME IInv, NEW p \in Procs, Select(p) PROVE IInv'
<1> DEFINE r == [proc[p] EXCEPT !.pc = "write", !.stamp = clock]
<1>1. /\ proc[p].pc = "select"
      /\ \/ proc' = [proc EXCEPT ![p] = r]
         \/ proc' = [proc EXCEPT ![p] = Continue(proc[p])]
      /\ files' = files /\ path' = path /\ made' = made /\ corrupt' = corrupt
      /\ clock' = clock /\ listing' = listing
  BY SharedTyped DEF Select, LocalInv
<1>2. LocalInv(p, r) /\ ~r.locked /\ r.pc = "write" /\ ~Opening(r)
  BY <1>1, SharedTyped DEF LocalInv, Process, Opening
<1>3. /\ LocalInv(p, Continue(proc[p])) /\ ~Continue(proc[p]).locked
      /\ Continue(proc[p]).pc \notin {"page", "listed"} /\ ~Opening(Continue(proc[p]))
  BY SharedTyped, ContinueLocal DEF Opening
<1> HIDE DEF r
<1> QED BY <1>1, <1>2, <1>3, SharedTyped, StepTo

LEMMA CompileKeeps == ASSUME IInv, NEW p \in Procs, Compile(p) PROVE IInv'
<1> DEFINE r == [proc[p] EXCEPT !.pc = "connect", !.op = "store"]
<1>1. /\ proc[p].pc = "compile" /\ proc' = [proc EXCEPT ![p] = r]
      /\ files' = files /\ path' = path /\ made' = made /\ corrupt' = corrupt
      /\ clock' = clock /\ listing' = listing
  BY DEF Compile
<1>2. LocalInv(p, r) /\ ~r.locked /\ r.pc = "connect" /\ ~Opening(r)
  BY <1>1, SharedTyped DEF LocalInv, Process, Opening
<1> HIDE DEF r
<1> QED BY <1>1, <1>2, SharedTyped, StepTo

-----------------------------------------------------------------------------
(* Transactions.                                                           *)

\* A process that may write has the file to itself.
LEMMA WriterIsAlone ==
    ASSUME IInv, NEW p \in Procs, MayWrite(p)
    PROVE  ~LockedByOther(p, proc[p].conn)
<1>1. CASE proc[p].locked
  BY <1>1 DEF IInv, CacheInv, OneWriter, LockedByOther
<1>2. CASE ~proc[p].locked
  BY <1>2 DEF MayWrite
<1> QED BY <1>1, <1>2

LEMMA TouchedConfined ==
    ASSUME NEW c \in Rows, NEW k, NEW t \in 0..MaxClock
    PROVE  Touched(c, k, t) \in Rows /\ Confined("lookup", k, c, Touched(c, k, t))
<1>1. t # Absent
  BY CacheAssumption DEF Absent
<1>2. CASE k \in Entries(c)
  <2>1. Touched(c, k, t) = [c EXCEPT ![k] = t] /\ k \in Keys
    BY <1>2 DEF Touched, Entries
  <2>2. Touched(c, k, t) \in Rows
    BY <2>1 DEF Rows
  <2>3. \A j \in Keys : Touched(c, k, t)[j] = IF j = k THEN t ELSE c[j]
    BY <2>1 DEF Rows
  <2>4. Entries(Touched(c, k, t)) = Entries(c)
    BY <1>1, <1>2, <2>3 DEF Entries
  <2> QED BY <2>2, <2>3, <2>4 DEF Confined
<1>3. CASE k \notin Entries(c)
  BY <1>3 DEF Touched, Confined
<1> QED BY <1>2, <1>3

LEMMA InsertedConfined ==
    ASSUME NEW c \in Rows, NEW k, NEW t \in 0..MaxClock
    PROVE  Inserted(c, k, t) \in Rows /\ Confined("store", k, c, Inserted(c, k, t))
<1>1. CASE k \in Keys /\ k \notin Entries(c)
  <2>1. Inserted(c, k, t) = [c EXCEPT ![k] = t] /\ c[k] = Absent
    BY <1>1 DEF Inserted, Entries
  <2>2. Inserted(c, k, t) \in Rows
    BY <1>1, <2>1 DEF Rows
  <2>3. \A j \in Keys : Inserted(c, k, t)[j] = IF j = k THEN t ELSE c[j]
    BY <2>1 DEF Rows
  <2> QED BY <2>1, <2>2, <2>3 DEF Confined
<1>2. CASE k \in Entries(c)
  BY <1>2 DEF Inserted, Confined
<1>3. CASE k \notin Keys
  <2>1. Inserted(c, k, t) = c
    BY <1>3 DEF Inserted, Entries, Rows
  <2> QED BY <2>1 DEF Confined
<1> QED BY <1>1, <1>2, <1>3

LEMMA UpdateOrInsertKeeps == ASSUME IInv, NEW p \in Procs, UpdateOrInsert(p) PROVE IInv'
<1> DEFINE txn == IF proc[p].op = "lookup"
                  THEN Touched(Table(proc[p]), proc[p].key, proc[p].stamp)
                  ELSE Inserted(Table(proc[p]), proc[p].key, proc[p].stamp)
           r == [proc[p] EXCEPT !.pc = "commit", !.locked = TRUE, !.txn = txn]
<1>0. proc \in [Procs -> Process]
  BY DEF IInv, CacheInv, TypeOK
<1>1. /\ proc[p].pc = "write" /\ proc[p].op \in {"lookup", "store"} /\ MayWrite(p)
      /\ files' = files /\ path' = path /\ made' = made /\ corrupt' = corrupt
      /\ clock' = clock /\ listing' = listing
  BY SharedTyped DEF UpdateOrInsert, LocalInv
<1>2. proc' = [proc EXCEPT ![p] = r]
  <2>1. proc' = [proc EXCEPT ![p].pc = "commit", ![p].locked = TRUE, ![p].txn = txn]
    BY DEF UpdateOrInsert
  <2> HIDE DEF txn
  <2> QED BY <1>0, <2>1
<1>3. ~proc[p].locked /\ Table(proc[p]) = files[proc[p].conn] /\ Table(proc[p]) \in Rows
      /\ proc[p].stamp \in 0..MaxClock /\ proc[p].conn \in 1..MaxFiles
  BY <1>1, SharedTyped DEF LocalInv, Table, Process
<1>4. txn \in Rows /\ Confined(proc[p].op, proc[p].key, files[proc[p].conn], txn)
  <2>1. CASE proc[p].op = "lookup"
    BY <1>3, <2>1, TouchedConfined
  <2>2. CASE proc[p].op = "store"
    BY <1>3, <2>2, InsertedConfined
  <2> QED BY <1>1, <2>1, <2>2
<1> HIDE DEF txn
<1>5. /\ r \in Process /\ r.pc = "commit" /\ r.locked /\ r.conn = proc[p].conn
      /\ r.op = proc[p].op /\ r.key = proc[p].key /\ r.txn = txn
  BY <1>4, SharedTyped DEF Process
<1> HIDE DEF r
<1>6. LocalInv(p, r) /\ r.pc \notin {"page", "listed"} /\ ~Opening(r)
  BY <1>1, <1>3, <1>4, <1>5 DEF LocalInv, TxnInv, Opening
<1>7. ~LockedByOther(p, r.conn)
  BY <1>1, <1>5, WriterIsAlone
<1> QED BY <1>1, <1>2, <1>6, <1>7, SharedTyped, StepTo

\* One more DELETE in a transaction that has already removed some rows.
LEMMA DeleteStep ==
    ASSUME NEW old \in Rows, NEW c \in Rows, NEW limit \in Nat,
           \A k \in Keys : c[k] = old[k] \/ c[k] = Absent, Evicting(old, c)
    PROVE  LET new == Without(c, Evictable(c, limit))
           IN  /\ new \in Rows /\ \A k \in Keys : new[k] = old[k] \/ new[k] = Absent
               /\ Evicting(old, new)
               /\ LastDelete(Evictable(c, limit), limit) => EvictedEnough(old, new)
<1> DEFINE G == Evictable(c, limit)
           new == Without(c, G)
<1>1. /\ G \subseteq Entries(c) /\ Entries(c) \subseteq Keys
      /\ \A g \in G, k \in Entries(c) \ G : Older(c, g, k)
      /\ G # {} => Bytes(Entries(c) \ G) >= SizeLimit
      /\ Cardinality(G) < limit =>
           \A k \in Entries(c) \ G :
             (\A j \in Entries(c) \ G : j = k \/ Older(c, k, j)) => Bytes((Entries(c) \ G) \ {k}) < SizeLimit
  BY EvictableCorrect
<1> HIDE DEF G
<1>2. \A k \in Keys : new[k] = IF k \in G THEN Absent ELSE c[k]
  BY DEF Without
<1>3. new \in Rows
  BY DEF Without, Rows
<1> HIDE DEF new
<1>4. Entries(new) = Entries(c) \ G
  BY <1>1, <1>2 DEF Entries
<1>5. Entries(c) \subseteq Entries(old) /\ Entries(old) \subseteq Keys
      /\ \A k \in Entries(c) : c[k] = old[k]
  BY DEF Entries
<1>6. \A j, k \in Entries(c) : Older(c, j, k) <=> Older(old, j, k)
  BY <1>5 DEF Older
<1>7. Evicting(old, new)
  <2>1. ASSUME NEW g \in Entries(old) \ Entries(new), NEW k \in Entries(new) PROVE Older(old, g, k)
    <3>1. CASE g \in G
      <4>1. g \in Entries(c) /\ k \in Entries(c) \ G
        BY <1>1, <1>4, <3>1
      <4> QED BY <1>1, <1>6, <3>1, <4>1
    <3>2. CASE g \notin G
      BY <1>4, <2>1, <3>2 DEF Evicting
    <3> QED BY <3>1, <3>2
  <2>2. ASSUME Entries(old) \ Entries(new) # {} PROVE Bytes(Entries(new)) >= SizeLimit
    <3>1. CASE G # {}
      BY <1>1, <1>4, <3>1
    <3>2. CASE G = {}
      <4>1. Entries(new) = Entries(c)
        BY <1>4, <3>2
      <4> QED BY <2>2, <4>1 DEF Evicting
    <3> QED BY <3>1, <3>2
  <2> QED BY <2>1, <2>2 DEF Evicting
<1>8. ASSUME LastDelete(G, limit) PROVE EvictedEnough(old, new)
  <2> SUFFICES ASSUME NEW k \in Entries(new), \A j \in Entries(new) : j = k \/ Older(old, k, j)
               PROVE  Bytes(Entries(new) \ {k}) < SizeLimit
    BY DEF EvictedEnough
  <2>1. \A j \in Entries(c) \ G : j = k \/ Older(c, k, j)
    BY <1>4, <1>6
  <2>2. Cardinality(G) < limit
    BY <1>8 DEF LastDelete
  <2>3. Bytes((Entries(c) \ G) \ {k}) < SizeLimit
    BY <1>1, <1>4, <2>1, <2>2
  <2> QED BY <1>4, <2>3
<1>9. \A k \in Keys : new[k] = old[k] \/ new[k] = Absent
  BY <1>2
<1> QED BY <1>3, <1>7, <1>8, <1>9 DEF G, new

LEMMA DeleteKeeps == ASSUME IInv, NEW p \in Procs, Delete(p) PROVE IInv'
<1> DEFINE c == Table(proc[p])
           limit == proc[p].rows
           gone == Evictable(c, limit)
           last == LastDelete(gone, limit)
           old == files[proc[p].conn]
           r == [proc[p] EXCEPT !.pc = IF last THEN "commit" ELSE "write", !.locked = TRUE,
                                !.txn = Without(c, gone),
                                !.rows = IF last THEN 0 ELSE limit * RowFactor]
<1>0. proc \in [Procs -> Process]
  BY DEF IInv, CacheInv, TypeOK
<1>1. /\ proc[p].pc = "write" /\ proc[p].op = "evict" /\ MayWrite(p)
      /\ files' = files /\ path' = path /\ made' = made /\ corrupt' = corrupt
      /\ clock' = clock /\ listing' = listing
  BY SharedTyped DEF Delete, LocalInv
<1>2. proc' = [proc EXCEPT ![p] = r]
  <2>1. proc' = [proc EXCEPT ![p].pc = IF last THEN "commit" ELSE "write", ![p].locked = TRUE,
                             ![p].txn = Without(c, gone),
                             ![p].rows = IF last THEN 0 ELSE limit * RowFactor]
    BY DEF Delete
  <2> HIDE DEF last, c, gone, limit
  <2> QED BY <1>0, <2>1 DEF limit
<1>3. limit \in Nat /\ proc[p].conn \in 1..MaxFiles /\ old \in Rows /\ c \in Rows
  BY <1>1, SharedTyped DEF LocalInv, Table, Process
<1>4. (\A k \in Keys : c[k] = old[k] \/ c[k] = Absent) /\ Evicting(old, c)
  <2>1. CASE proc[p].locked
    <3>1. c = proc[p].txn /\ TxnInv(proc[p])
      BY <2>1, SharedTyped DEF Table, LocalInv
    <3> QED BY <1>1, <3>1 DEF TxnInv, Confined
  <2>2. CASE ~proc[p].locked
    <3>1. c = old
      BY <2>2 DEF Table
    <3> QED BY <3>1 DEF Evicting
  <2> QED BY <2>1, <2>2
<1>5. /\ Without(c, gone) \in Rows
      /\ \A k \in Keys : Without(c, gone)[k] = old[k] \/ Without(c, gone)[k] = Absent
      /\ Evicting(old, Without(c, gone))
      /\ last => EvictedEnough(old, Without(c, gone))
  <2> HIDE DEF c, old, limit
  <2> QED BY <1>3, <1>4, DeleteStep
<1>6. (IF last THEN 0 ELSE limit * RowFactor) \in Nat /\ last \in BOOLEAN
  <2>1. RowFactor \in Nat
    BY CacheAssumption
  <2> QED BY <1>3, <2>1 DEF LastDelete
<1>7. /\ r \in Process /\ r.pc \in {"write", "commit"} /\ r.locked /\ r.conn = proc[p].conn
      /\ r.op = "evict" /\ r.txn = Without(c, gone) /\ r.key = proc[p].key
      /\ r.pc = "commit" => last
  <2> HIDE DEF last, c, gone, limit
  <2> QED BY <1>1, <1>5, <1>6, SharedTyped DEF Process
<1>8. TxnInv(r)
  <2> HIDE DEF r, last, c, gone, limit
  <2> QED BY <1>5, <1>7 DEF TxnInv, Confined
<1> HIDE DEF r
<1>9. LocalInv(p, r) /\ r.pc \notin {"page", "listed"} /\ ~Opening(r)
  BY <1>1, <1>3, <1>7, <1>8 DEF LocalInv, Opening
<1>10. ~LockedByOther(p, r.conn)
  BY <1>1, <1>7, WriterIsAlone
<1> QED BY <1>1, <1>2, <1>9, <1>10, SharedTyped, StepTo

\* A commit is one of a compiler that has the file to itself, with the rows of its
\* transaction.
LEMMA CommitFacts ==
    ASSUME IInv, NEW p \in Procs, Commit(p)
    PROVE  /\ proc[p].op # "list" /\ proc[p].locked /\ proc[p].conn \in 1..MaxFiles
           /\ TxnInv(proc[p]) /\ proc[p].pc = "commit" /\ proc[p].txn \in Rows
           /\ files' = [files EXCEPT ![proc[p].conn] = proc[p].txn]
           /\ files'[proc[p].conn] = proc[p].txn
           /\ \A f \in 1..MaxFiles \ {proc[p].conn} : files'[f] = files[f]
           /\ files' \in [1..MaxFiles -> Rows]
<1>1. /\ proc[p].pc = "commit" /\ files' = [files EXCEPT ![proc[p].conn] = proc[p].txn]
  BY DEF Commit
<1>2. /\ proc[p].op # "list" /\ proc[p].locked /\ proc[p].conn \in 1..MaxFiles /\ TxnInv(proc[p])
      /\ proc[p].txn \in Rows
  BY <1>1, SharedTyped DEF LocalInv, Process
<1>3. files \in [1..MaxFiles -> Rows]
  BY SharedTyped
<1> QED BY <1>1, <1>2, <1>3

LEMMA CommitKeepsCache == ASSUME IInv, NEW p \in Procs, Commit(p) PROVE CacheInv'
<1> DEFINE f == proc[p].conn
           r == IF proc[p].op = "lookup" THEN Idle ELSE Continue(proc[p])
<1>1. /\ proc' = [proc EXCEPT ![p] = r] /\ path' = path /\ made' = made
      /\ corrupt' = corrupt /\ clock' = clock
  BY DEF Commit
<1>2. LocalInv(p, r) /\ ~r.locked /\ r \in Process
  <2>1. LocalInv(p, Idle) /\ ~Idle.locked
    BY IdleLocal
  <2>2. LocalInv(p, Continue(proc[p])) /\ ~Continue(proc[p]).locked
    BY CommitFacts, SharedTyped, ContinueLocal
  <2> QED BY <2>1, <2>2 DEF LocalInv
<1> HIDE DEF r
<1>3. proc \in [Procs -> Process]
  BY DEF IInv, CacheInv, TypeOK
<1>4. proc' \in [Procs -> Process] /\ proc'[p] = r /\ \A q \in Procs \ {p} : proc'[q] = proc[q]
  BY <1>1, <1>2, <1>3
<1>5. ASSUME NEW q \in Procs PROVE LocalInv(q, proc[q])'
  <2>1. CASE q = p
    BY <1>2, <1>4, <2>1 DEF LocalInv
  <2>2. CASE q # p
    <3>1. proc'[q] = proc[q] /\ LocalInv(q, proc[q])
      BY <1>4, <2>2, SharedTyped
    <3>2. CASE proc[q].locked
      <4>1. proc[q].conn # f
        BY <2>2, <3>2, CommitFacts DEF IInv, CacheInv, OneWriter
      <4>2. proc[q].conn \in 1..MaxFiles
        BY <3>1, <3>2 DEF LocalInv
      <4>3. files'[proc[q].conn] = files[proc[q].conn]
        BY <4>1, <4>2, CommitFacts
      <4> QED BY <3>1, <4>3 DEF LocalInv, TxnInv
    <3>3. CASE ~proc[q].locked
      BY <3>1, <3>3 DEF LocalInv
    <3> QED BY <3>2, <3>3
  <2> QED BY <2>1, <2>2
<1>6. OneWriter'
  BY <1>2, <1>4 DEF OneWriter, IInv, CacheInv
<1>7. listing' \in Listing
  <2>1. \/ listing' = listing
        \/ listing' = [listing EXCEPT !.watched = {k \in @ : files[f][k] = proc[p].txn[k]}]
    BY DEF Commit
  <2> QED BY <2>1 DEF IInv, CacheInv, TypeOK, Listing
<1>8. TypeOK'
  BY <1>1, <1>4, <1>7, SharedTyped, CommitFacts DEF TypeOK
<1> QED BY <1>5, <1>6, <1>8 DEF CacheInv

LEMMA CommitKeeps == ASSUME IInv, NEW p \in Procs, Commit(p) PROVE IInv'
<1> DEFINE f == proc[p].conn
<1>1. /\ proc[p].op # "list" /\ Lister \in Procs
      /\ p # Lister => proc'[Lister] = proc[Lister]
      /\ p = Lister => /\ proc'[Lister].pc \notin {"page", "listed"}
                       /\ ~Opening(proc'[Lister])
  <2>1. proc \in [Procs -> Process] /\ Lister \in Procs
    BY SharedTyped DEF IInv, CacheInv, TypeOK
  <2> DEFINE r == IF proc[p].op = "lookup" THEN Idle ELSE Continue(proc[p])
  <2>2. proc' = [proc EXCEPT ![p] = r]
    BY DEF Commit
  <2>3. r.pc \notin {"page", "listed"} /\ ~Opening(r)
    <3>1. Idle.pc = "idle" /\ ~Opening(Idle)
      BY DEF Idle, Opening
    <3>2. Continue(proc[p]).pc \notin {"page", "listed"} /\ ~Opening(Continue(proc[p]))
      BY SharedTyped, ContinueLocal DEF Opening
    <3> QED BY <3>1, <3>2
  <2> HIDE DEF r
  <2> QED BY <2>1, <2>2, <2>3, CommitFacts
<1>2. CASE ~(proc[Lister].op = "list" /\ proc[Lister].conn = f)
  <2>1. listing' = listing
    BY <1>2 DEF Commit
  <2>2. ListingInOrder' /\ (\A k : Listed(k)' <=> Listed(k)) /\ (Exhausted' <=> Exhausted)
    BY <2>1 DEF IInv, ListingInOrder, Listed, Exhausted
  <2>3. CASE p # Lister
    <3>1. proc[Lister].pc = "page" => files'[proc[Lister].conn] = files[proc[Lister].conn]
      BY <1>1, <1>2, CommitFacts, SharedTyped DEF LocalInv
    <3>2. CursorInv'
      BY <1>1, <2>1, <2>3, <3>1 DEF IInv, CursorInv, Opening
    <3>3. ListingSkipsNothing'
      BY <1>1, <2>1, <2>2, <2>3, <3>1 DEF IInv, ListingSkipsNothing
    <3> QED BY <2>2, <3>2, <3>3, CommitKeepsCache DEF IInv
  <2>4. CASE p = Lister
    <3>1. CursorInv'
      BY <1>1, <2>1, <2>4 DEF IInv, CursorInv
    <3>2. ListingSkipsNothing'
      BY <1>1, <2>4 DEF ListingSkipsNothing
    <3> QED BY <2>2, <3>1, <3>2, CommitKeepsCache DEF IInv
  <2> QED BY <2>3, <2>4
<1>3. CASE proc[Lister].op = "list" /\ proc[Lister].conn = f
  <2>1. proc[Lister].pc = "page" /\ proc'[Lister] = proc[Lister]
    BY <1>1, <1>3, CommitFacts, SharedTyped DEF LocalInv
  <2>2. listing' = [listing EXCEPT !.watched = {k \in listing.watched : files[f][k] = files'[f][k]}]
    BY <1>3, CommitFacts DEF Commit
  <2>3. /\ listing'.bounded = listing.bounded /\ listing'.max = listing.max
        /\ listing'.remaining = listing.remaining /\ listing'.last = listing.last
        /\ listing'.listed = listing.listed
        /\ listing'.watched = {k \in listing.watched : files[f][k] = files'[f][k]}
    BY <2>2 DEF IInv, CacheInv, TypeOK, Listing
  <2>4. listing'.watched \subseteq Entries(files'[f])
    BY <1>3, <2>1, <2>3 DEF IInv, CursorInv, Entries
  <2>5. CursorInv'
    BY <1>3, <2>1, <2>3, <2>4 DEF IInv, CursorInv, Opening
  <2>6. ListingInOrder' /\ (\A k : Listed(k)' <=> Listed(k)) /\ (Exhausted' <=> Exhausted)
    BY <2>3 DEF IInv, ListingInOrder, Listed, Exhausted
  <2>7. ListingSkipsNothing'
    BY <1>3, <2>1, <2>3, <2>6 DEF IInv, ListingSkipsNothing
  <2> QED BY <2>5, <2>6, <2>7, CommitKeepsCache DEF IInv
<1> QED BY <1>2, <1>3

-----------------------------------------------------------------------------
(* The listing.                                                            *)

\* Row b comes after row a in the order of the listing.
Follows(a, b) == b[1] < a[1] \/ (b[1] = a[1] /\ b[2] < a[2])

LEMMA FollowsIsTransitive ==
    ASSUME NEW a \in (0..MaxClock) \X Keys, NEW b \in (0..MaxClock) \X Keys,
           NEW d \in (0..MaxClock) \X Keys, Follows(a, b), Follows(b, d)
    PROVE  Follows(a, d)
<1>1. /\ a[1] \in Nat /\ a[2] \in Nat /\ b[1] \in Nat /\ b[2] \in Nat
      /\ d[1] \in Nat /\ d[2] \in Nat
  <2>1. ASSUME NEW x \in (0..MaxClock) \X Keys PROVE x[1] \in Nat /\ x[2] \in Nat
    <3>1. x[1] \in 0..MaxClock /\ x[2] \in Keys
      OBVIOUS
    <3>2. Keys \subseteq Nat /\ 0..MaxClock \subseteq Nat
      BY CacheAssumption
    <3> QED BY <3>1, <3>2
  <2> QED BY <2>1
<1> QED BY <1>1 DEF Follows

LEMMA ListingTyped ==
    ASSUME IInv
    PROVE  /\ listing \in Listing
           /\ listing.listed \in Seq((0..MaxClock) \X Keys) /\ Len(listing.listed) \in Nat
           /\ listing.remaining \in Nat /\ listing.max \in Nat /\ listing.bounded \in BOOLEAN
           /\ BatchLimit \in Nat
           /\ listing.bounded => BatchLimit <= listing.remaining
           /\ ~Exhausted => BatchLimit > 0
           /\ proc[Lister].pc = "page" => files[proc[Lister].conn] \in Rows
<1>1. listing \in Listing
  BY DEF IInv, CacheInv, TypeOK
<1>2. /\ listing.listed \in Seq((0..MaxClock) \X Keys) /\ listing.remaining \in Nat
      /\ listing.max \in Nat /\ listing.bounded \in BOOLEAN
  BY <1>1 DEF Listing
<1>3. Len(listing.listed) \in Nat
  BY <1>2
<1>4. /\ BatchLimit \in Nat
      /\ listing.bounded => BatchLimit <= listing.remaining
      /\ ~Exhausted => BatchLimit > 0
  BY <1>2, CacheAssumption DEF BatchLimit, Exhausted
<1>5. proc[Lister].pc = "page" => files[proc[Lister].conn] \in Rows
  BY SharedTyped DEF LocalInv
<1> QED BY <1>1, <1>2, <1>3, <1>4, <1>5

\* One batch more.
LEMMA PageKeepsListing ==
    ASSUME IInv, Page
    PROVE  listing' \in Listing /\ CursorInv' /\ ListingInOrder' /\ ListingSkipsNothing'
<1> DEFINE c == files[proc[Lister].conn]
           B == Batch(c, listing.last, BatchLimit)
           n == Len(listing.listed)
           m == Len(B)
<1>1. /\ proc[Lister].pc = "page" /\ ~Exhausted /\ B # <<>> /\ files' = files /\ proc' = proc
      /\ listing' = [listing EXCEPT !.listed = @ \o B, !.last = B[m],
                                    !.remaining = IF listing.bounded THEN @ - m ELSE @]
  BY DEF Page
<1>2. /\ c \in Rows /\ BatchLimit \in Nat /\ n \in Nat
      /\ listing.listed \in Seq((0..MaxClock) \X Keys)
  BY <1>1, ListingTyped
<1>3. /\ B \in Seq((0..MaxClock) \X Keys) /\ m \in Nat /\ m <= BatchLimit
      /\ \A i \in 1..m : B[i][2] \in Candidates(c, listing.last) /\ B[i][1] = c[B[i][2]]
      /\ \A i, j \in 1..m : i < j => Older(c, B[j][2], B[i][2])
      /\ \A k \in Candidates(c, listing.last) :
           \/ \E i \in 1..m : B[i][2] = k
           \/ m = BatchLimit /\ \A i \in 1..m : Older(c, k, B[i][2])
  <2> HIDE DEF c
  <2> QED BY <1>2, BatchCorrect
<1>4. /\ listing'.listed = listing.listed \o B /\ listing'.last = B[m]
      /\ listing'.remaining = IF listing.bounded THEN listing.remaining - m ELSE listing.remaining
      /\ listing'.bounded = listing.bounded /\ listing'.max = listing.max
      /\ listing'.watched = listing.watched
  <2> HIDE DEF B, m
  <2> QED BY <1>1, ListingTyped DEF Listing
<1> HIDE DEF c, B, m, n
<1>5. m >= 1
  BY <1>1, <1>3 DEF m
<1>6. /\ listing'.listed \in Seq((0..MaxClock) \X Keys) /\ Len(listing'.listed) = n + m
      /\ \A i \in 1..n : listing'.listed[i] = listing.listed[i]
      /\ \A i \in 1..m : listing'.listed[n + i] = B[i]
  BY <1>2, <1>3, <1>4, ConcatProperties DEF n, m
<1>7. listing'.listed # <<>>
  BY <1>2, <1>3, <1>5, <1>6
<1>8. \A i \in 1..n : listing.listed[i] \in (0..MaxClock) \X Keys
  BY <1>2 DEF n
<1>9. \A i \in 1..m : B[i] \in (0..MaxClock) \X Keys
  BY <1>3 DEF m
<1>10. listing' \in Listing
  <2>1. m <= listing.remaining \/ ~listing.bounded
    BY <1>2, <1>3, ListingTyped
  <2>2. listing'.remaining \in Nat
    BY <1>3, <1>4, <2>1, ListingTyped
  <2>3. B[m] \in Seq(Int)
    <3>1. B[m] \in (0..MaxClock) \X Keys
      BY <1>3, <1>5, <1>9
    <3>2. PICK a \in 0..MaxClock, k \in Keys : B[m] = <<a, k>>
      BY <3>1
    <3>3. a \in Int /\ k \in Int
      BY CacheAssumption
    <3> QED BY <3>2, <3>3
  <2> QED BY <1>1, <1>4, <1>6, <2>2, <2>3, ListingTyped DEF Listing
<1>11. CursorInv'
  <2>1. B[m] # <<>>
    <3>1. B[m] \in (0..MaxClock) \X Keys
      BY <1>3, <1>5, <1>9
    <3>2. PICK a \in 0..MaxClock, k \in Keys : B[m] = <<a, k>>
      BY <3>1
    <3>3. Len(<<a, k>>) = 2
      OBVIOUS
    <3> QED BY <3>2, <3>3
  <2>2. listing'.last = listing'.listed[Len(listing'.listed)]
    <3>1. m \in 1..m
      BY <1>3, <1>5
    <3> QED BY <1>4, <1>6, <3>1
  <2>3. listing'.bounded => Len(listing'.listed) + listing'.remaining = listing'.max
    <3> SUFFICES ASSUME listing.bounded
                 PROVE  Len(listing'.listed) + listing'.remaining = listing'.max
      BY <1>4
    <3>1. n + listing.remaining = listing.max
      BY DEF IInv, CursorInv, n
    <3>2. Len(listing'.listed) = n + m /\ listing'.remaining = listing.remaining - m
          /\ listing'.max = listing.max
      BY <1>4, <1>6
    <3>3. \A x, y, z \in Nat : (x + y) + (z - y) = x + z
      OBVIOUS
    <3> QED BY <1>2, <1>3, <3>1, <3>2, <3>3, ListingTyped
  <2> QED BY <1>1, <1>4, <1>7, <2>1, <2>2, <2>3 DEF IInv, CursorInv, Opening
<1>12. \A i \in 1..m : listing.last # <<>> => Follows(listing.last, B[i])
  BY <1>3 DEF Candidates, BeforeCursor, Follows
<1>13. \A i, j \in 1..m : i < j => Follows(B[i], B[j])
  BY <1>3 DEF Older, Follows
<1>14. ASSUME NEW i \in 1..(n + m), NEW j \in 1..(n + m), i < j
       PROVE  Follows(listing'.listed[i], listing'.listed[j])
  <2>1. CASE j <= n
    <3>1. i \in 1..n /\ j \in 1..n
      BY <1>2, <1>14, <2>1
    <3>2. Follows(listing.listed[i], listing.listed[j])
      BY <1>14, <3>1 DEF IInv, ListingInOrder, Follows, n
    <3> QED BY <1>6, <3>1, <3>2
  <2>2. CASE i > n
    <3>1. i - n \in 1..m /\ j - n \in 1..m /\ i - n < j - n /\ n + (i - n) = i /\ n + (j - n) = j
      BY <1>2, <1>3, <1>14, <2>2
    <3> QED BY <1>6, <1>13, <3>1
  <2>3. CASE i <= n /\ j > n
    <3>1. i \in 1..n /\ j - n \in 1..m /\ n + (j - n) = j /\ n \in 1..n
      BY <1>2, <1>3, <2>3
    <3>2. listing.listed # <<>>
      BY <1>2, <3>1 DEF n
    <3>3. listing.last # <<>> /\ listing.last = listing.listed[n]
      BY <3>2 DEF IInv, CursorInv, n
    <3>4. Follows(listing.listed[n], B[j - n])
      BY <1>12, <3>1, <3>3
    <3>5. CASE i = n
      BY <1>6, <3>1, <3>4, <3>5
    <3>6. CASE i # n
      <4>1. i < n
        BY <1>2, <3>1, <3>6
      <4>2. Follows(listing.listed[i], listing.listed[n])
        BY <3>1, <4>1 DEF IInv, ListingInOrder, Follows, n
      <4>3. Follows(listing.listed[i], B[j - n])
        BY <1>8, <1>9, <3>1, <3>4, <4>2, FollowsIsTransitive
      <4> QED BY <1>6, <3>1, <4>3
    <3> QED BY <3>5, <3>6
  <2> QED BY <1>2, <1>3, <2>1, <2>2, <2>3
<1>15. ListingInOrder'
  <2>1. listing'.bounded => Len(listing'.listed) <= listing'.max
    <3> SUFFICES ASSUME listing'.bounded PROVE Len(listing'.listed) <= listing'.max
      OBVIOUS
    <3>1. Len(listing'.listed) + listing'.remaining = listing'.max
      BY <1>11 DEF CursorInv
    <3>2. listing'.remaining \in Nat /\ Len(listing'.listed) \in Nat
      BY <1>2, <1>3, <1>6, <1>10 DEF Listing
    <3>3. \A x, y \in Nat : x <= x + y
      OBVIOUS
    <3> QED BY <3>1, <3>2, <3>3
  <2>2. \A i, j \in 1..Len(listing'.listed) : i < j => Follows(listing'.listed[i], listing'.listed[j])
    BY <1>6, <1>14
  <2> QED BY <2>1, <2>2 DEF ListingInOrder, Follows
<1>16. ASSUME NEW k \in listing.watched
       PROVE  Listed(k)' \/ c[k] < B[m][1] \/ (c[k] = B[m][1] /\ k < B[m][2])
  <2>1. k \in Entries(c)
    BY <1>1 DEF IInv, CursorInv, c
  <2>2. CASE Listed(k)
    <3>1. PICK i \in 1..n : listing.listed[i][2] = k
      BY <2>2 DEF Listed, n
    <3>2. i \in 1..(n + m) /\ listing'.listed[i][2] = k
      BY <1>2, <1>3, <1>6, <3>1
    <3> QED BY <1>6, <3>2 DEF Listed
  <2>3. CASE ~Listed(k)
    <3>1. k \in Candidates(c, listing.last)
      BY <1>1, <2>1, <2>3 DEF IInv, ListingSkipsNothing, Candidates, BeforeCursor, c
    <3>2. CASE \E i \in 1..m : B[i][2] = k
      <4>1. PICK i \in 1..m : B[i][2] = k
        BY <3>2
      <4>2. n + i \in 1..(n + m) /\ listing'.listed[n + i][2] = k
        BY <1>2, <1>3, <1>6, <4>1
      <4> QED BY <1>6, <4>2 DEF Listed
    <3>3. CASE \A i \in 1..m : Older(c, k, B[i][2])
      <4>1. m \in 1..m
        BY <1>3, <1>5
      <4>2. Older(c, k, B[m][2]) /\ B[m][1] = c[B[m][2]]
        BY <1>3, <3>3, <4>1
      <4> QED BY <4>2 DEF Older
    <3> QED BY <1>3, <3>1, <3>2, <3>3
  <2> QED BY <2>2, <2>3
<1>17. ListingSkipsNothing'
  <2>1. proc'[Lister].pc = "page" /\ files'[proc'[Lister].conn] = c
    BY <1>1 DEF c
  <2> QED BY <1>4, <1>16, <2>1 DEF ListingSkipsNothing
<1> QED BY <1>10, <1>11, <1>15, <1>17

LEMMA PageKeeps == ASSUME IInv, Page PROVE IInv'
<1>1. /\ files' = files /\ path' = path /\ made' = made /\ corrupt' = corrupt
      /\ clock' = clock /\ proc' = proc
  BY DEF Page
<1>2. CacheInv'
  <2>1. TypeOK'
    BY <1>1, PageKeepsListing DEF IInv, CacheInv, TypeOK
  <2>2. \A p \in Procs : LocalInv(p, proc[p])'
    BY <1>1 DEF IInv, CacheInv, LocalInv, TxnInv
  <2>3. OneWriter'
    BY <1>1 DEF IInv, CacheInv, OneWriter
  <2> QED BY <2>1, <2>2, <2>3 DEF CacheInv
<1> QED BY <1>2, PageKeepsListing DEF IInv

\* A listing that ends before max_count has come to an empty batch: nothing is left.
LEMMA ListingEndsKeeps == ASSUME IInv, ListingEnds PROVE IInv'
<1> DEFINE r == [Idle EXCEPT !.pc = "listed"]
           c == files[proc[Lister].conn]
           B == Batch(c, listing.last, BatchLimit)
<1>1. /\ proc[Lister].pc = "page" /\ (Exhausted \/ B = <<>>)
      /\ proc' = [proc EXCEPT ![Lister] = r] /\ files' = files /\ path' = path
      /\ made' = made /\ corrupt' = corrupt /\ clock' = clock /\ listing' = listing
  BY DEF ListingEnds
<1>2. LocalInv(Lister, r) /\ ~r.locked /\ r.pc = "listed" /\ r.op = "none"
  <2>1. Idle \in Process /\ Idle.op = "none" /\ ~Idle.locked
    BY IdleLocal DEF LocalInv, Idle
  <2>2. r \in Process /\ r.op = "none" /\ ~r.locked /\ r.pc = "listed"
    BY <2>1 DEF Process
  <2> HIDE DEF r
  <2> QED BY <2>2 DEF LocalInv
<1> HIDE DEF r
<1>3. /\ proc' \in [Procs -> Process] /\ \A q \in Procs : LocalInv(q, proc[q])'
      /\ OneWriter'
  BY <1>1, <1>2, SharedTyped, ProcessStep DEF IInv
<1>4. CacheInv'
  BY <1>1, <1>3 DEF IInv, CacheInv, TypeOK
<1>5. proc'[Lister].pc = "listed" /\ ~Opening(proc'[Lister])
  BY <1>1, <1>2, SharedTyped DEF IInv, CacheInv, TypeOK, Opening
<1>6. CursorInv' /\ ListingInOrder' /\ (\A k : Listed(k)' <=> Listed(k)) /\ (Exhausted' <=> Exhausted)
  BY <1>1, <1>5 DEF IInv, CursorInv, ListingInOrder, Listed, Exhausted
<1>7. ASSUME ~Exhausted, NEW k \in listing.watched PROVE Listed(k)
  <2>0. c \in Rows /\ BatchLimit \in Nat /\ BatchLimit > 0
    BY <1>1, <1>7, ListingTyped
  <2>1. B = <<>> /\ Len(B) = 0
    BY <1>1, <1>7
  <2>2. \A j \in Candidates(c, listing.last) :
           \/ \E i \in 1..Len(B) : B[i][2] = j
           \/ Len(B) = BatchLimit /\ \A i \in 1..Len(B) : Older(c, j, B[i][2])
    <3> HIDE DEF c
    <3> QED BY <2>0, BatchCorrect
  <2>3. Candidates(c, listing.last) = {}
    <3> HIDE DEF B
    <3> QED BY <2>0, <2>1, <2>2
  <2>4. k \in Entries(c)
    BY <1>1 DEF IInv, CursorInv
  <2> QED BY <1>1, <2>3, <2>4 DEF IInv, ListingSkipsNothing, Candidates, BeforeCursor
<1>8. ListingSkipsNothing'
  BY <1>1, <1>5, <1>6, <1>7 DEF ListingSkipsNothing
<1> QED BY <1>4, <1>6, <1>8 DEF IInv

LEMMA StartListingKeeps == ASSUME IInv, NEW m \in MaxCounts, StartListing(m) PROVE IInv'
<1> DEFINE r == [Idle EXCEPT !.pc = "connect", !.op = "list"]
           n == IF m < 0 THEN 0 ELSE m
<1>1. /\ proc' = [proc EXCEPT ![Lister] = r] /\ files' = files /\ path' = path
      /\ made' = made /\ corrupt' = corrupt /\ clock' = clock
      /\ listing' = [bounded |-> m >= 0, max |-> n, remaining |-> n,
                     last |-> <<>>, listed |-> <<>>, watched |-> {}]
  BY DEF StartListing
<1>2. LocalInv(Lister, r) /\ ~r.locked /\ r.pc = "connect"
  BY IdleLocal DEF LocalInv, Process
<1> HIDE DEF r
<1>3. /\ proc' \in [Procs -> Process] /\ \A q \in Procs : LocalInv(q, proc[q])'
      /\ OneWriter'
  BY <1>1, <1>2, SharedTyped, ProcessStep DEF IInv
<1>4. n \in Nat /\ (m >= 0) \in BOOLEAN
  BY CacheAssumption
<1> HIDE DEF n
<1>5. listing' \in Listing
  BY <1>1, <1>4 DEF Listing
<1>6. CacheInv'
  BY <1>1, <1>3, <1>5 DEF IInv, CacheInv, TypeOK
<1>7. proc'[Lister].pc = "connect"
  BY <1>1, <1>2, SharedTyped DEF IInv, CacheInv, TypeOK
<1>8. CursorInv'
  BY <1>1, <1>4, <1>7 DEF CursorInv, Opening
<1>9. ListingInOrder' /\ ListingSkipsNothing'
  BY <1>1, <1>4, <1>7 DEF ListingInOrder, ListingSkipsNothing
<1> QED BY <1>6, <1>8, <1>9 DEF IInv

LEMMA ConnectKeeps == ASSUME IInv, NEW p \in Procs, Connect(p) PROVE IInv'
<1> DEFINE f == IF path = 0 THEN made + 1 ELSE path
           r == Opened(proc[p], f)
<1>1. /\ proc[p].pc \in {"connect", "reconnect"} /\ (path # 0 \/ made < MaxFiles)
      /\ path' = f /\ made' = (IF path = 0 THEN f ELSE made) /\ proc' = [proc EXCEPT ![p] = r]
      /\ listing' = IF proc[p].op = "list" THEN [listing EXCEPT !.watched = Entries(files[f])]
                                           ELSE listing
      /\ files' = files /\ corrupt' = corrupt /\ clock' = clock
  BY DEF Connect, OpenDb
<1>2. f \in 1..MaxFiles /\ made' \in 0..MaxFiles
  BY <1>1, SharedTyped
<1> HIDE DEF f
<1>3. /\ r \in Process /\ r.conn = f /\ r.locked = proc[p].locked /\ r.op = proc[p].op
      /\ r.pc \in {"select", "write", "page"}
      /\ r.pc = "page" <=> r.op = "list"
  <2>1. clock \in 0..MaxClock /\ RowLimit \in Nat /\ f \in 0..MaxFiles /\ 0 \in 0..MaxClock
    BY <1>2, SharedTyped, CacheAssumption
  <2>2. proc[p] \in Process
    BY SharedTyped
  <2> DEFINE pc == CASE proc[p].op = "lookup" -> "select"
                     [] proc[p].op = "list"   -> "page"
                     [] OTHER                 -> "write"
             stamp == IF proc[p].op = "store" THEN clock ELSE 0
             rows == IF proc[p].op = "evict" THEN RowLimit ELSE 0
  <2>3. /\ pc \in {"select", "write", "page"}
        /\ pc = "page" <=> proc[p].op = "list"
    OBVIOUS
  <2>4. stamp \in 0..MaxClock /\ rows \in Nat
    BY <2>1
  <2>5. r = [proc[p] EXCEPT !.conn = f, !.pc = pc, !.stamp = stamp, !.rows = rows]
    BY DEF Opened
  <2> HIDE DEF pc, stamp, rows, r
  <2> QED BY <2>1, <2>2, <2>3, <2>4, <2>5 DEF Process
<1> HIDE DEF r
<1>4. LocalInv(p, r) /\ ~r.locked
  BY <1>1, <1>2, <1>3, SharedTyped DEF LocalInv
<1>5. CASE proc[p].op # "list"
  <2>1. listing' = listing /\ path' \in 0..MaxFiles
    BY <1>1, <1>2, <1>5
  <2>2. r.pc \notin {"page", "listed"} /\ ~Opening(r)
    BY <1>3, <1>5 DEF Opening
  <2> QED BY <1>1, <1>2, <1>4, <2>1, <2>2, SharedTyped, StepTo
<1>6. CASE proc[p].op = "list"
  <2>0. p = Lister
    BY <1>6, SharedTyped DEF LocalInv
  <2>1. /\ proc' \in [Procs -> Process] /\ \A q \in Procs : LocalInv(q, proc[q])'
        /\ OneWriter'
    BY <1>1, <1>4, ProcessStep DEF IInv
  <2>2. /\ listing'.bounded = listing.bounded /\ listing'.max = listing.max
        /\ listing'.remaining = listing.remaining /\ listing'.last = listing.last
        /\ listing'.listed = listing.listed /\ listing'.watched = Entries(files[f])
        /\ listing' \in Listing
    <3>1. Entries(files[f]) \subseteq Keys
      BY DEF Entries
    <3> QED BY <1>1, <1>6, <3>1, ListingTyped DEF Listing
  <2>3. proc'[Lister] = r /\ r.pc = "page"
    BY <1>1, <1>3, <1>6, <2>0, SharedTyped DEF IInv, CacheInv, TypeOK
  <2>4. listing.listed = <<>> /\ listing.last = <<>>
    BY <1>1, <1>6, <2>0 DEF IInv, CursorInv, Opening
  <2>5. CacheInv'
    BY <1>1, <1>2, <2>1, <2>2, SharedTyped DEF CacheInv, TypeOK
  <2>6. CursorInv'
    BY <1>1, <1>3, <2>2, <2>3, <2>4 DEF IInv, CursorInv, Opening
  <2>7. ListingInOrder' /\ ListingSkipsNothing'
    BY <2>2, <2>3, <2>4 DEF IInv, ListingInOrder, ListingSkipsNothing
  <2> QED BY <2>5, <2>6, <2>7 DEF IInv
<1> QED BY <1>5, <1>6

-----------------------------------------------------------------------------
(* The theorems.                                                           *)

LEMMA InitImpliesIInv == Init => IInv
<1> SUFFICES ASSUME Init PROVE IInv
  OBVIOUS
<1>1. /\ files = [f \in 1..MaxFiles |-> NoRows] /\ path = 0 /\ made = 0 /\ corrupt = {}
      /\ clock = 0 /\ proc = [p \in Procs |-> Idle]
      /\ listing = NoListing
  BY DEF Init
<1>2. \A p \in Procs : proc[p] = Idle /\ LocalInv(p, proc[p]) /\ ~proc[p].locked
  BY <1>1, IdleLocal
<1>3. Lister \in Procs /\ proc[Lister].pc = "idle"
  BY <1>2, IdleLocal DEF Procs
<1>4. TypeOK
  <2>1. listing \in Listing
    BY <1>1, NoListingTyped
  <2>2. proc \in [Procs -> Process]
    BY <1>1, IdleLocal DEF LocalInv
  <2> QED BY <1>1, <2>1, <2>2, NoRowsTyped, CacheAssumption DEF TypeOK
<1>5. CursorInv /\ ListingInOrder /\ ListingSkipsNothing
  <2>1. /\ listing.listed = <<>> /\ listing.last = <<>> /\ ~listing.bounded
        /\ Len(listing.listed) = 0
    BY <1>1 DEF NoListing
  <2>2. ~Opening(proc[Lister])
    BY <1>2, <1>3 DEF Opening, Idle
  <2> QED BY <1>3, <2>1, <2>2 DEF CursorInv, ListingInOrder, ListingSkipsNothing
<1> QED BY <1>2, <1>4, <1>5 DEF IInv, CacheInv, OneWriter

\* A step of the environment, or none.
LEMMA ProcessesStay ==
    ASSUME IInv, files' = files, proc' = proc, listing' = listing, path' = path, made' = made,
           corrupt' \subseteq 1..MaxFiles, clock' \in 0..MaxClock
    PROVE  IInv'
<1>1. CacheInv'
  <2>1. TypeOK'
    BY DEF IInv, CacheInv, TypeOK
  <2>2. \A p \in Procs : LocalInv(p, proc[p])'
    BY DEF IInv, CacheInv, LocalInv, TxnInv
  <2>3. OneWriter'
    BY DEF IInv, CacheInv, OneWriter
  <2> QED BY <2>1, <2>2, <2>3 DEF CacheInv
<1> QED BY <1>1, ListingStays DEF IInv

LEMMA StepKeepsIInv == IInv /\ [Next]_vars => IInv'
<1> SUFFICES ASSUME IInv, [Next]_vars PROVE IInv'
  OBVIOUS
<1>1. ASSUME NEW p \in Procs, Step(p) PROVE IInv'
  <2>1. CASE CompileFails(p)
    BY <2>1, IdleKeeps DEF CompileFails
  <2> QED BY <1>1, <2>1, ConnectKeeps, ConnectFailsKeeps, UnlinkKeeps, FailKeeps, SelectKeeps,
             CompileKeeps, UpdateOrInsertKeeps, DeleteKeeps, CommitKeeps DEF Step
<1>2. ASSUME NEW p \in Procs, Crash(p) PROVE IInv'
  BY <1>2, IdleKeeps DEF Crash
<1>3. CASE Tick
  <2>1. clock' \in 0..MaxClock
    BY <1>3, SharedTyped, CacheAssumption DEF Tick
  <2> QED BY <1>3, <2>1, SharedTyped, ProcessesStay DEF Tick
<1>4. CASE Damage
  <2>1. corrupt' \subseteq 1..MaxFiles
    BY <1>4, SharedTyped DEF Damage
  <2> QED BY <1>4, <2>1, SharedTyped, ProcessesStay DEF Damage
<1>5. CASE UNCHANGED vars
  BY <1>5, SharedTyped, ProcessesStay DEF vars
<1> QED BY <1>1, <1>2, <1>3, <1>4, <1>5, RequestKeeps, StartListingKeeps, PageKeeps,
           ListingEndsKeeps DEF Next

\* IInv is an invariant of every behaviour.
LEMMA IInvHolds == Spec => []IInv
<1> QED BY InitImpliesIInv, StepKeepsIInv, PTL DEF Spec

\* For any number of processes, keys and rows and however the database is written between
\* two batches: cache_entries yields its rows in descending order, no more than max_count,
\* and misses none that stays as it was.
THEOREM ListingIsRight == Spec => []ListingInv
<1>1. IInv => ListingInv
  BY DEF IInv, CacheInv, ListingInv
<1> QED BY <1>1, IInvHolds, PTL

\* A commit changes what its operation is about and nothing else, however the operations
\* overlap, files are recreated and processes die: the write lock keeps the rows a
\* transaction began with until it commits.
THEOREM CommitsConfined == Spec => CommitsAreConfined
<1>1. IInv /\ [Next]_vars =>
        [\A p \in Compilers : Commit(p) =>
           Confined(proc[p].op, proc[p].key, files[proc[p].conn], files'[proc[p].conn])]_vars
  <2> SUFFICES ASSUME IInv, NEW p \in Compilers, Commit(p)
               PROVE  Confined(proc[p].op, proc[p].key, files[proc[p].conn], files'[proc[p].conn])
    OBVIOUS
  <2>1. p \in Procs
    BY DEF Procs
  <2> QED BY <2>1, CommitFacts DEF TxnInv
<1> QED BY <1>1, IInvHolds, PTL DEF Spec, CommitsAreConfined

\* What a commit of evict_lru has done to the file.
LEMMA EvictionFacts ==
    ASSUME IInv, NEW p \in Compilers, Evicts(p)
    PROVE  /\ Evicting(files[proc[p].conn], files'[proc[p].conn])
           /\ EvictedEnough(files[proc[p].conn], files'[proc[p].conn])
           /\ files[proc[p].conn] \in Rows
           /\ \A k \in Keys : \/ files'[proc[p].conn][k] = files[proc[p].conn][k]
                              \/ files'[proc[p].conn][k] = Absent
<1>1. p \in Procs /\ Commit(p) /\ proc[p].op = "evict"
  BY DEF Procs, Evicts
<1>2. TxnInv(proc[p]) /\ files'[proc[p].conn] = proc[p].txn /\ proc[p].pc = "commit"
      /\ proc[p].conn \in 1..MaxFiles
  BY <1>1, CommitFacts
<1> QED BY <1>1, <1>2, SharedTyped DEF TxnInv, Confined

\* Whatever the sizes, the limits and the number of rounds, evict_lru removes no entry that
\* was used more recently than one it keeps.
THEOREM EvictionIsLRU == Spec => EvictsOldestFirst
<1>1. IInv /\ [Next]_vars =>
        [\A p \in Compilers : Evicts(p) =>
           \A g \in Evicted(p), k \in Kept(p) :
               files[proc[p].conn][g] <= files[proc[p].conn][k]]_vars
  <2> SUFFICES ASSUME IInv, NEW p \in Compilers, Evicts(p), NEW g \in Evicted(p), NEW k \in Kept(p)
               PROVE  files[proc[p].conn][g] <= files[proc[p].conn][k]
    OBVIOUS
  <2>1. Older(files[proc[p].conn], g, k) /\ g \in Keys /\ k \in Keys
    BY EvictionFacts DEF Evicting, Evicted, Kept, Entries
  <2>2. files[proc[p].conn][g] \in Int /\ files[proc[p].conn][k] \in Int
    BY <2>1, EvictionFacts, RowsTyped
  <2> QED BY <2>1, <2>2 DEF Older
<1> QED BY <1>1, IInvHolds, PTL DEF Spec, EvictsOldestFirst

\* evict_lru touches nothing while the cache is within the limit, and what it leaves is
\* below the limit without the oldest of the entries left, however many rounds it takes.
THEOREM EvictionGoesFarEnough == Spec => EvictsWhatItMust
<1>1. IInv /\ [Next]_vars =>
        [\A p \in Compilers : Evicts(p) =>
           /\ Evicted(p) # {} => Total(files[proc[p].conn]) > SizeLimit
           /\ \A k \in Kept(p) :
                  (\A j \in Kept(p) : j = k \/ Older(files[proc[p].conn], k, j))
                      => Bytes(Kept(p) \ {k}) < SizeLimit]_vars
  <2> SUFFICES ASSUME IInv, NEW p \in Compilers, Evicts(p)
               PROVE  /\ Evicted(p) # {} => Total(files[proc[p].conn]) > SizeLimit
                      /\ \A k \in Kept(p) :
                           (\A j \in Kept(p) : j = k \/ Older(files[proc[p].conn], k, j))
                               => Bytes(Kept(p) \ {k}) < SizeLimit
    OBVIOUS
  <2>1. ASSUME NEW g \in Evicted(p) PROVE Total(files[proc[p].conn]) > SizeLimit
    <3> DEFINE S == Entries(files[proc[p].conn])
    <3>1. Kept(p) \subseteq S \ {g} /\ g \in S /\ S \in SUBSET Keys
      BY EvictionFacts DEF Evicted, Kept, Entries
    <3>2. Bytes(Kept(p)) >= SizeLimit
      BY EvictionFacts DEF Evicting, Evicted, Kept
    <3> HIDE DEF S
    <3>3. S \ {g} \in SUBSET Keys /\ Kept(p) \in SUBSET (S \ {g})
      BY <3>1
    <3>4. Bytes(S) = Size[g] + Bytes(S \ {g})
      BY <3>1, BytesRemove
    <3>5. /\ Bytes(S \ {g}) = Bytes(Kept(p)) + Bytes((S \ {g}) \ Kept(p))
          /\ Bytes(Kept(p)) \in Nat /\ Bytes((S \ {g}) \ Kept(p)) \in Nat
      BY <3>3, BytesSplit
    <3>6. Size[g] \in Nat \ {0} /\ SizeLimit \in Nat
      BY <3>1, CacheAssumption
    <3>7. Bytes(S) > SizeLimit
      BY <3>2, <3>4, <3>5, <3>6
    <3> QED BY <3>7 DEF S, Total
  <2>2. \A k \in Kept(p) :
           (\A j \in Kept(p) : j = k \/ Older(files[proc[p].conn], k, j))
               => Bytes(Kept(p) \ {k}) < SizeLimit
    BY EvictionFacts DEF EvictedEnough, Kept
  <2> QED BY <2>1, <2>2
<1> QED BY <1>1, IInvHolds, PTL DEF Spec, EvictsWhatItMust
====
