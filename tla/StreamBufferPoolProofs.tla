---- MODULE StreamBufferPoolProofs ----
(***************************************************************************)
(* Proofs about StreamBufferPool: the pool never hands out staging memory  *)
(* that a pending copy or kernel still uses, for any number of streams,    *)
(* chunks and allocations.                                                 *)
(***************************************************************************)
EXTENDS StreamBufferPool, WellFoundedInduction, SequenceTheorems, TLAPS

\* A non-empty set of naturals has a least element.
LEMMA LeastNat ==
    ASSUME NEW S \in SUBSET Nat, S # {}
    PROVE  \E m \in S : \A n \in S : m <= n
<1> DEFINE R == {ss \in Nat \X Nat : ss[1] < ss[2]}
<1>1. IsWellFoundedOn(R, Nat)
  BY NatLessThanWellFounded, Zenon DEF OpToRel
<1>2. \E m \in S : \A n \in S : ~ (<<n, m>> \in R)
  <2> HIDE DEF R
  <2> QED BY <1>1, WFMin, Zenon
<1>3. PICK m \in S : \A n \in S : ~ (<<n, m>> \in R)
  BY <1>2
<1>4. ASSUME NEW n \in S PROVE m <= n
  <2>1. ~ (<<n, m>> \in {ss \in Nat \X Nat : ss[1] < ss[2]})
    BY <1>3
  <2>2. <<n, m>>[1] = n /\ <<n, m>>[2] = m /\ <<n, m>> \in Nat \X Nat
    OBVIOUS
  <2> QED BY <2>1, <2>2, n \in Nat, m \in Nat
<1> QED BY <1>4

\* poll_events takes a prefix of the list: chunks in front of the transaction
\* head whose events have completed, up to one that is not such a chunk.
LEMMA PolledPrefix ==
    ASSUME NEW p \in PoolType, NEW s \in Streams
    PROVE  /\ Polled(p, s) \in 0..Len(p.list[s])
           /\ \A i \in 1..Polled(p, s) :
                 p.list[s][i] # thead[s] /\ EventDone(p.list[s][i])
           /\ Polled(p, s) < Len(p.list[s]) =>
                 \/ p.list[s][Polled(p, s) + 1] = thead[s]
                 \/ ~EventDone(p.list[s][Polled(p, s) + 1])
<1> DEFINE l == p.list[s]
           Stops(k) == l[k] = thead[s] \/ ~EventDone(l[k])
           S == {k \in 0..Len(l) : k < Len(l) => Stops(k + 1)}
<1>1. l \in Seq(Chunks) /\ Len(l) \in Nat
  BY DEF PoolType
<1>2. Len(l) \in S /\ S \in SUBSET Nat
  BY <1>1
<1>3. PICK m \in S : \A n \in S : m <= n
  BY <1>2, LeastNat
<1>4. \A i \in 1..m : ~Stops(i)
  <2> SUFFICES ASSUME NEW i \in 1..m, Stops(i) PROVE FALSE
    OBVIOUS
  <2>1. m \in 0..Len(l) /\ i - 1 \in 0..Len(l) /\ (i - 1) + 1 = i
    BY <1>1, <1>3
  <2>2. i - 1 \in S
    BY <2>1
  <2> QED BY <2>1, <2>2, <1>3
<1>5. \E k \in 0..Len(l) :
        /\ \A i \in 1..k : l[i] # thead[s] /\ EventDone(l[i])
        /\ k < Len(l) => (l[k + 1] = thead[s] \/ ~EventDone(l[k + 1]))
  BY <1>3, <1>4
<1> HIDE DEF S
<1> QED BY <1>5 DEF Polled

\* How many chunks reclaim takes from a list.
Taken(p, s) == IF s \in p.known THEN Polled(p, s) ELSE 0

\* reclaim drops a prefix of every list and moves or deletes just those chunks.
LEMMA ReclaimShape ==
    ASSUME NEW p \in PoolType
    PROVE  /\ Reclaim(p) \in PoolType
           /\ Reclaim(p).capacity = p.capacity
           /\ Reclaim(p).known = {s \in p.known : Reclaim(p).list[s] # <<>> \/ s = tx}
           /\ \A s \in Streams :
                 /\ Taken(p, s) \in 0..Len(p.list[s])
                 /\ \A i \in 1..Taken(p, s) :
                       p.list[s][i] # thead[s] /\ EventDone(p.list[s][i])
                 /\ Len(Reclaim(p).list[s]) = Len(p.list[s]) - Taken(p, s)
                 /\ \A i \in 1..(Len(p.list[s]) - Taken(p, s)) :
                       Reclaim(p).list[s][i] = p.list[s][i + Taken(p, s)]
           /\ \A c \in Chunks :
                 \/ Reclaim(p).chunk[c] = p.chunk[c]
                 \/ /\ Reclaim(p).chunk[c] = Memory(0)
                    /\ \E s \in Streams : \E i \in 1..Taken(p, s) : p.list[s][i] = c
                    /\ p.chunk[c].capacity # p.capacity
           /\ \A c \in Reclaim(p).free :
                 \/ c \in p.free
                 \/ /\ \E s \in Streams : \E i \in 1..Taken(p, s) : p.list[s][i] = c
                    /\ p.chunk[c].capacity = p.capacity
<1> DEFINE polled == UNION {{p.list[s][i] : i \in 1..Polled(p, s)} : s \in p.known}
           kept   == {c \in polled : p.chunk[c].capacity = p.capacity}
           lists  == [s \in Streams |-> IF s \in p.known THEN Drop(p.list[s], Polled(p, s))
                                        ELSE p.list[s]]
           R == Reclaim(p)
<1>0. /\ p.known \subseteq Streams /\ p.list \in [Streams -> Seq(Chunks)]
      /\ p.chunk \in [Chunks -> [capacity : Nat, available : Nat]]
      /\ p.free \subseteq Chunks /\ p.capacity \in Nat \ {0}
  BY DEF PoolType
<1>1. \A s \in Streams : /\ Taken(p, s) \in 0..Len(p.list[s])
                         /\ \A i \in 1..Taken(p, s) :
                               p.list[s][i] # thead[s] /\ EventDone(p.list[s][i])
  BY PolledPrefix, <1>0 DEF Taken
<1>2. \A c \in polled : c \in Chunks /\ \E s \in Streams : \E i \in 1..Taken(p, s) : p.list[s][i] = c
  <2> SUFFICES ASSUME NEW c \in polled
               PROVE  c \in Chunks /\ \E s \in Streams : \E i \in 1..Taken(p, s) : p.list[s][i] = c
    OBVIOUS
  <2>1. PICK s \in p.known : \E i \in 1..Polled(p, s) : c = p.list[s][i]
    OBVIOUS
  <2>2. PICK i \in 1..Taken(p, s) : c = p.list[s][i]
    BY <2>1 DEF Taken
  <2>3. i \in 1..Len(p.list[s]) /\ s \in Streams
    BY <2>2, <1>1, <1>0
  <2>4. p.list[s] \in Seq(Chunks)
    BY <2>3, <1>0
  <2>5. c \in Chunks
    BY <2>2, <2>3, <2>4
  <2> QED BY <2>2, <2>3, <2>5
<1>3. \A s \in Streams : /\ lists[s] \in Seq(Chunks)
                         /\ Len(lists[s]) = Len(p.list[s]) - Taken(p, s)
                         /\ \A i \in 1..(Len(p.list[s]) - Taken(p, s)) :
                               lists[s][i] = p.list[s][i + Taken(p, s)]
  <2> SUFFICES ASSUME NEW s \in Streams
               PROVE  /\ lists[s] \in Seq(Chunks)
                      /\ Len(lists[s]) = Len(p.list[s]) - Taken(p, s)
                      /\ \A i \in 1..(Len(p.list[s]) - Taken(p, s)) :
                            lists[s][i] = p.list[s][i + Taken(p, s)]
    OBVIOUS
  <2>1. p.list[s] \in Seq(Chunks) /\ Taken(p, s) \in 0..Len(p.list[s])
    BY <1>0, <1>1
  <2>2. CASE s \in p.known
    <3> DEFINE l == p.list[s]
               n == Taken(p, s)
    <3>1. lists[s] = SubSeq(l, n + 1, Len(l))
      BY <2>2 DEF Drop, Taken
    <3>2. l \in Seq(Chunks) /\ n \in 0..Len(l)
      BY <2>1
    <3> HIDE DEF l, n, lists
    <3>3. /\ SubSeq(l, n + 1, Len(l)) \in Seq(Chunks)
          /\ Len(SubSeq(l, n + 1, Len(l))) = Len(l) - n
          /\ \A i \in 1..(Len(l) - n) : SubSeq(l, n + 1, Len(l))[i] = l[i + n]
      BY <3>2
    <3> QED BY <3>1, <3>3 DEF l, n
  <2>3. CASE s \notin p.known
    BY <2>1, <2>3 DEF Taken
  <2> QED BY <2>2, <2>3
<1>4. R = [known |-> {s \in p.known : lists[s] # <<>> \/ s = tx},
           list |-> lists,
           chunk |-> [c \in Chunks |-> IF c \in polled \ kept THEN Memory(0) ELSE p.chunk[c]],
           free |-> p.free \cup kept,
           capacity |-> p.capacity]
  <2>1. R = [p EXCEPT !.known = {s \in p.known : lists[s] # <<>> \/ s = tx},
                      !.list = lists,
                      !.chunk = [c \in Chunks |-> IF c \in polled \ kept THEN Memory(0) ELSE p.chunk[c]],
                      !.free = p.free \cup kept]
    BY Zenon DEF Reclaim, Deleted
  <2> HIDE DEF polled, kept, lists, R
  <2> QED BY <2>1, p \in PoolType DEF PoolType
<1> HIDE DEF R, polled, lists
<1>5. R \in PoolType
  <2>1. Memory(0) \in [capacity : Nat, available : Nat]
    BY DEF Memory
  <2>2. lists \in [Streams -> Seq(Chunks)]
    BY <1>3 DEF lists
  <2>3. kept \subseteq Chunks
    BY <1>2
  <2> HIDE DEF kept
  <2> QED BY <2>1, <2>2, <2>3, <1>0, <1>4 DEF PoolType
<1>6. R.capacity = p.capacity /\ R.known = {s \in p.known : R.list[s] # <<>> \/ s = tx} /\ R.list = lists
  BY <1>4
<1>7. \A c \in Chunks :
                 \/ R.chunk[c] = p.chunk[c]
                 \/ /\ R.chunk[c] = Memory(0)
                    /\ \E s \in Streams : \E i \in 1..Taken(p, s) : p.list[s][i] = c
                    /\ p.chunk[c].capacity # p.capacity
  BY <1>2, <1>4
<1>8. \A c \in R.free :
                 \/ c \in p.free
                 \/ /\ \E s \in Streams : \E i \in 1..Taken(p, s) : p.list[s][i] = c
                    /\ p.chunk[c].capacity = p.capacity
  BY <1>2, <1>4
<1> QED BY <1>1, <1>3, <1>5, <1>6, <1>7, <1>8 DEF R

\* What TypeOK says of the operations in a queue.
LEMMA GpuType ==
    ASSUME TypeOK, NEW s \in Streams, NEW i \in DOMAIN gpu[s]
    PROVE  gpu[s][i].regions \subseteq Region /\ gpu[s][i].event \in Chunks \cup {NoChunk}
<1> DEFINE Op == [regions : SUBSET Region, event : Chunks \cup {NoChunk}]
<1>1. gpu[s] \in Seq(Op)
  BY DEF TypeOK
<1> HIDE DEF Op
<1>2. gpu[s][i] \in Op
  BY <1>1
<1> QED BY <1>2 DEF Op

\* Reclaiming takes no chunk that pending work or the open transaction needs.
LEMMA ReclaimKeepsInv ==
    ASSUME NEW p, PoolInv(p), TypeOK
    PROVE  PoolInv(Reclaim(p))
<1> DEFINE q == Reclaim(p)
           k(s) == Taken(p, s)
<1>0. /\ p \in PoolType /\ InOnePlace(p) /\ PendingIsGuarded(p)
      /\ TransactionIsOpen(p) /\ CarvedAbove(p) /\ FreeIsCurrent(p)
  BY DEF PoolInv
<1>1. /\ q \in PoolType /\ q.capacity = p.capacity
      /\ q.known = {s \in p.known : q.list[s] # <<>> \/ s = tx}
  BY <1>0, ReclaimShape
<1>2. \A s \in Streams :
        /\ k(s) \in 0..Len(p.list[s])
        /\ \A i \in 1..k(s) : p.list[s][i] # thead[s] /\ EventDone(p.list[s][i])
        /\ Len(q.list[s]) = Len(p.list[s]) - k(s)
        /\ \A i \in 1..(Len(p.list[s]) - k(s)) : q.list[s][i] = p.list[s][i + k(s)]
  BY <1>0, ReclaimShape
<1>3. \A c \in Chunks :
        \/ q.chunk[c] = p.chunk[c]
        \/ /\ q.chunk[c] = Memory(0)
           /\ \E s \in Streams : \E i \in 1..k(s) : p.list[s][i] = c
           /\ p.chunk[c].capacity # p.capacity
  BY <1>0, ReclaimShape
<1>4. \A c \in q.free :
        \/ c \in p.free
        \/ /\ \E s \in Streams : \E i \in 1..k(s) : p.list[s][i] = c
           /\ p.chunk[c].capacity = p.capacity
  BY <1>0, ReclaimShape
<1> HIDE DEF q, k
<1>5. \A s \in Streams : /\ p.list[s] \in Seq(Chunks) /\ q.list[s] \in Seq(Chunks)
                         /\ DOMAIN p.list[s] = 1..Len(p.list[s])
                         /\ DOMAIN q.list[s] = 1..(Len(p.list[s]) - k(s))
                         /\ Len(p.list[s]) \in Nat /\ k(s) \in Nat /\ k(s) <= Len(p.list[s])
  BY <1>0, <1>1, <1>2 DEF PoolType
<1>6. \A s \in Streams : \A i \in DOMAIN q.list[s] :
         i + k(s) \in DOMAIN p.list[s] /\ q.list[s][i] = p.list[s][i + k(s)]
  <2> SUFFICES ASSUME NEW s \in Streams, NEW i \in DOMAIN q.list[s]
               PROVE  i + k(s) \in DOMAIN p.list[s] /\ q.list[s][i] = p.list[s][i + k(s)]
    OBVIOUS
  <2>1. i \in 1..(Len(p.list[s]) - k(s))
    BY <1>5
  <2>2. q.list[s][i] = p.list[s][i + k(s)]
    BY <2>1, <1>2
  <2>3. k(s) \in Nat /\ Len(p.list[s]) \in Nat /\ DOMAIN p.list[s] = 1..Len(p.list[s])
    BY <1>5
  <2> QED BY <2>1, <2>2, <2>3
<1>7. ASSUME NEW s \in Streams, NEW n \in DOMAIN p.list[s], n > k(s)
      PROVE  n - k(s) \in DOMAIN q.list[s] /\ q.list[s][n - k(s)] = p.list[s][n]
  <2>1. /\ k(s) \in Nat /\ Len(p.list[s]) \in Nat /\ DOMAIN p.list[s] = 1..Len(p.list[s])
        /\ DOMAIN q.list[s] = 1..(Len(p.list[s]) - k(s))
    BY <1>5
  <2>2. n - k(s) \in 1..(Len(p.list[s]) - k(s)) /\ (n - k(s)) + k(s) = n
    BY <2>1, <1>7
  <2> QED BY <2>1, <2>2, <1>2
<1>8. ASSUME NEW s \in Streams, NEW c, InTransaction(p, s, c)
      PROVE  InTransaction(q, s, c)
  <2>1. PICK m, n \in DOMAIN p.list[s] :
            m <= n /\ p.list[s][m] = thead[s] /\ p.list[s][n] = c
    BY <1>8 DEF InTransaction
  <2>2. m > k(s) /\ n > k(s)
    <3>1. /\ k(s) \in Nat /\ m \in 1..Len(p.list[s]) /\ n \in 1..Len(p.list[s])
          /\ Len(p.list[s]) \in Nat
      BY <1>5
    <3>2. m \notin 1..k(s)
      BY <2>1, <1>2
    <3> QED BY <2>1, <3>1, <3>2
  <2>3. /\ m - k(s) \in DOMAIN q.list[s] /\ q.list[s][m - k(s)] = thead[s]
        /\ n - k(s) \in DOMAIN q.list[s] /\ q.list[s][n - k(s)] = c
        /\ m - k(s) <= n - k(s)
    BY <2>1, <2>2, <1>5, <1>7, SMTT(30)
  <2> QED BY <2>3 DEF InTransaction
<1>9. InOnePlace(q)
  <2>1. \A s \in Streams : q.list[s] # <<>> => s \in q.known
    <3> SUFFICES ASSUME NEW s \in Streams, q.list[s] # <<>>, s \notin p.known PROVE FALSE
      BY <1>1
    <3>1. p.list[s] = <<>>
      BY <1>0 DEF InOnePlace
    <3>2. q.list[s] \in Seq(Chunks) /\ Len(q.list[s]) = 0
      BY <3>1, <1>2, <1>5
    <3> QED BY <3>2, EmptySeq
  <2>2. ASSUME NEW s \in Streams, NEW i \in DOMAIN q.list[s]
        PROVE  q.list[s][i] \in Live(q) \ q.free
    <3>1. i + k(s) \in DOMAIN p.list[s] /\ q.list[s][i] = p.list[s][i + k(s)] /\ i > 0
      BY <1>6, <1>5
    <3>2. q.list[s][i] \in Live(p) \ p.free
      BY <3>1, <1>0 DEF InOnePlace
    <3>3. ~ \E u \in Streams : \E j \in 1..k(u) : p.list[u][j] = q.list[s][i]
      <4> SUFFICES ASSUME NEW u \in Streams, NEW j \in 1..k(u), p.list[u][j] = q.list[s][i]
                   PROVE  FALSE
        OBVIOUS
      <4>1. j \in DOMAIN p.list[u]
        BY <1>5
      <4>2. u = s /\ j = i + k(s)
        BY <4>1, <3>1, <1>0 DEF InOnePlace
      <4> QED BY <4>2, <3>1, <1>5
    <3>4. q.list[s][i] \notin q.free
      BY <3>2, <3>3, <1>4
    <3>5. q.chunk[q.list[s][i]] = p.chunk[q.list[s][i]]
      BY <3>2, <3>3, <1>3 DEF Live
    <3> QED BY <3>2, <3>4, <3>5 DEF Live
  <2>3. \A s, u \in Streams : \A i \in DOMAIN q.list[s] : \A j \in DOMAIN q.list[u] :
          q.list[s][i] = q.list[u][j] => s = u /\ i = j
    <3> SUFFICES ASSUME NEW s \in Streams, NEW u \in Streams, NEW i \in DOMAIN q.list[s],
                        NEW j \in DOMAIN q.list[u], q.list[s][i] = q.list[u][j]
                 PROVE  s = u /\ i = j
      OBVIOUS
    <3>1. s = u /\ i + k(s) = j + k(u)
      BY <1>6, <1>0 DEF InOnePlace
    <3> QED BY <3>1, <1>5
  <2>4. q.free \subseteq Live(q)
    <3> SUFFICES ASSUME NEW c \in q.free PROVE c \in Live(q)
      OBVIOUS
    <3>1. c \in Chunks /\ p.capacity # 0
      BY <1>1, <1>0 DEF PoolType
    <3>2. p.chunk[c].capacity = p.capacity
      BY <1>4, <1>0 DEF FreeIsCurrent
    <3>3. q.chunk[c] = p.chunk[c]
      BY <3>1, <3>2, <1>3
    <3> QED BY <3>1, <3>2, <3>3 DEF Live
  <2> QED BY <2>1, <2>2, <2>3, <2>4 DEF InOnePlace
<1>10. PendingIsGuarded(q)
  <2> SUFFICES ASSUME NEW s \in Streams, NEW i \in DOMAIN gpu[s], NEW r \in gpu[s][i].regions
               PROVE  r.chunk \in Members(q.list[s]) /\ EventIsComing(q, s, i, r.chunk)
    BY DEF PendingIsGuarded
  <2>1. r.chunk \in Members(p.list[s]) /\ EventIsComing(p, s, i, r.chunk)
    BY <1>0 DEF PendingIsGuarded
  <2>2. CASE InTransaction(p, s, r.chunk)
    <3>1. InTransaction(q, s, r.chunk)
      BY <2>2, <1>8
    <3> QED BY <3>1 DEF InTransaction, Members, EventIsComing
  <2>3. CASE \E j \in DOMAIN gpu[s] : i < j /\ gpu[s][j].event = r.chunk
    <3>1. PICK n \in DOMAIN p.list[s] : p.list[s][n] = r.chunk
      BY <2>1 DEF Members
    <3>2. ~EventDone(r.chunk)
      BY <2>3 DEF EventDone
    <3>3. n > k(s)
      BY <3>1, <3>2, <1>2, <1>5
    <3>4. r.chunk \in Members(q.list[s])
      BY <3>1, <3>3, <1>7 DEF Members
    <3> QED BY <3>4, <2>3 DEF EventIsComing
  <2> QED BY <2>1, <2>2, <2>3 DEF EventIsComing
<1>11. TransactionIsOpen(q)
  BY <1>0, <1>1, <1>8 DEF TransactionIsOpen
<1>12. CarvedAbove(q)
  <2>1. \A c \in Chunks : q.chunk[c].available <= p.chunk[c].available
                       /\ q.chunk[c].available \in Nat /\ p.chunk[c].available \in Nat
    <3> SUFFICES ASSUME NEW c \in Chunks
                 PROVE  /\ q.chunk[c].available <= p.chunk[c].available
                        /\ q.chunk[c].available \in Nat /\ p.chunk[c].available \in Nat
      OBVIOUS
    <3>1. q.chunk[c].available \in Nat /\ p.chunk[c].available \in Nat
      BY <1>0, <1>1 DEF PoolType
    <3>2. q.chunk[c] = p.chunk[c] \/ q.chunk[c].available = 0
      BY <1>3 DEF Memory
    <3> QED BY <3>1, <3>2
  <2>2. ASSUME NEW r \in Region, p.chunk[r.chunk].available <= r.lo
        PROVE  q.chunk[r.chunk].available <= r.lo
    BY <2>1, <2>2 DEF Region
  <2>3. fresh \cup staged \subseteq Region
    BY DEF TypeOK
  <2>4. \A s \in Streams : \A i \in DOMAIN gpu[s] : gpu[s][i].regions \subseteq Region
    BY GpuType
  <2>5. \A r \in fresh \cup staged : q.chunk[r.chunk].available <= r.lo
    BY <2>2, <2>3, <1>0 DEF CarvedAbove
  <2>6. \A s \in Streams : \A i \in DOMAIN gpu[s] : \A r \in gpu[s][i].regions :
          q.chunk[r.chunk].available <= r.lo
    BY <2>2, <2>4, <1>0 DEF CarvedAbove
  <2> QED BY <2>5, <2>6 DEF CarvedAbove
<1>13. FreeIsCurrent(q)
  <2> SUFFICES ASSUME NEW c \in q.free PROVE q.chunk[c].capacity = q.capacity
    BY DEF FreeIsCurrent
  <2>1. c \in Chunks /\ p.chunk[c].capacity = p.capacity
    BY <1>4, <1>0, <1>1 DEF FreeIsCurrent, PoolType
  <2> QED BY <2>1, <1>3, <1>1
<1> QED BY <1>1, <1>9, <1>10, <1>11, <1>12, <1>13 DEF PoolInv, q

\* Guards survive any change of the pool that leaves the lists alone.
LEMMA GuardsFollowLists ==
    ASSUME NEW p, NEW q, PoolInv(p), q.list = p.list, q.known = p.known
    PROVE  PendingIsGuarded(q) /\ TransactionIsOpen(q)
BY DEF PoolInv, PendingIsGuarded, TransactionIsOpen, EventIsComing, InTransaction

\* Raising the capacity deletes free chunks only.
LEMMA GrowKeepsInv ==
    ASSUME NEW p, PoolInv(p), TypeOK, NEW capacity \in Nat \ {0}
    PROVE  /\ PoolInv(Grow(p, capacity))
           /\ Grow(p, capacity).list = p.list /\ Grow(p, capacity).capacity = capacity
<1> DEFINE q == Grow(p, capacity)
<1>0. p \in PoolType /\ InOnePlace(p) /\ CarvedAbove(p)
  BY DEF PoolInv
<1>1. q = [known |-> p.known, list |-> p.list,
           chunk |-> [c \in Chunks |-> IF c \in p.free THEN Memory(0) ELSE p.chunk[c]],
           free |-> {}, capacity |-> capacity]
  <2>1. q = [p EXCEPT !.chunk = [c \in Chunks |-> IF c \in p.free THEN Memory(0) ELSE p.chunk[c]],
                      !.free = {}, !.capacity = capacity]
    BY Zenon DEF Grow, Deleted
  <2> HIDE DEF q
  <2> QED BY <2>1, <1>0 DEF PoolType
<1>2. q \in PoolType
  <2>1. Memory(0) \in [capacity : Nat, available : Nat]
    BY DEF Memory
  <2> QED BY <2>1, <1>0, <1>1 DEF PoolType
<1> HIDE DEF q
<1>3. InOnePlace(q)
  <2>1. \A s \in Streams : q.list[s] # <<>> => s \in q.known
    BY <1>0, <1>1 DEF InOnePlace
  <2>2. \A c \in Live(p) \ p.free : c \in Live(q) \ q.free
    BY <1>1 DEF Live
  <2>3. \A s \in Streams : \A i \in DOMAIN q.list[s] : q.list[s][i] \in Live(q) \ q.free
    BY <1>0, <1>1, <2>2 DEF InOnePlace
  <2>4. q.free \subseteq Live(q) /\ q.list = p.list
    BY <1>1
  <2> QED BY <1>0, <2>1, <2>3, <2>4 DEF InOnePlace
<1>4. PendingIsGuarded(q) /\ TransactionIsOpen(q)
  BY <1>1, GuardsFollowLists
<1>5. CarvedAbove(q)
  <2>1. ASSUME NEW r \in Region, p.chunk[r.chunk].available <= r.lo
        PROVE  q.chunk[r.chunk].available <= r.lo
    BY <1>1, <2>1 DEF Region, Memory
  <2>2. fresh \cup staged \subseteq Region
    BY DEF TypeOK
  <2>3. \A s \in Streams : \A i \in DOMAIN gpu[s] : gpu[s][i].regions \subseteq Region
    BY GpuType
  <2>4. \A r \in fresh \cup staged : q.chunk[r.chunk].available <= r.lo
    BY <2>1, <2>2, <1>0 DEF CarvedAbove
  <2>5. \A s \in Streams : \A i \in DOMAIN gpu[s] : \A r \in gpu[s][i].regions :
          q.chunk[r.chunk].available <= r.lo
    BY <2>1, <2>3, <1>0 DEF CarvedAbove
  <2> QED BY <2>4, <2>5 DEF CarvedAbove
<1>6. FreeIsCurrent(q)
  BY <1>1 DEF FreeIsCurrent
<1> QED BY <1>1, <1>2, <1>3, <1>4, <1>5, <1>6 DEF PoolInv, q

\* A chunk that is free or has no memory is in no list, so no pending work,
\* and no region of the transaction, is in it.
LEMMA UnlinkedIsIdle ==
    ASSUME NEW p, PoolInv(p), NEW c \in Chunks, c \in p.free \/ c \notin Live(p)
    PROVE  /\ \A s \in Streams : c \notin Members(p.list[s])
           /\ \A r \in fresh \cup staged : r.chunk # c
           /\ \A s \in Streams : \A i \in DOMAIN gpu[s] : \A r \in gpu[s][i].regions : r.chunk # c
<1>1. \A s \in Streams : c \notin Members(p.list[s])
  BY DEF PoolInv, InOnePlace, Members
<1>2. \A r \in fresh \cup staged : r.chunk # c
  BY <1>1 DEF PoolInv, TransactionIsOpen, InTransaction, Members
<1>3. \A s \in Streams : \A i \in DOMAIN gpu[s] : \A r \in gpu[s][i].regions : r.chunk # c
  BY <1>1 DEF PoolInv, PendingIsGuarded
<1> QED BY <1>1, <1>2, <1>3

\* Linking an idle chunk to the list of the open transaction.
LEMMA LinkKeepsInv ==
    ASSUME NEW p, PoolInv(p), TypeOK, tx \in Streams,
           NEW c \in Chunks, c \in p.free \/ c \notin Live(p)
    PROVE  /\ PoolInv(Link(p, tx, c))
           /\ Link(p, tx, c).list[tx] = Append(p.list[tx], c)
           /\ Link(p, tx, c).chunk[c].available = p.capacity
<1> DEFINE q == Link(p, tx, c)
<1>0. /\ p \in PoolType /\ InOnePlace(p) /\ PendingIsGuarded(p)
      /\ TransactionIsOpen(p) /\ CarvedAbove(p) /\ FreeIsCurrent(p)
  BY DEF PoolInv
<1>1. q = [known |-> p.known, list |-> [p.list EXCEPT ![tx] = Append(p.list[tx], c)],
           chunk |-> [p.chunk EXCEPT ![c] = Memory(p.capacity)],
           free |-> p.free \ {c}, capacity |-> p.capacity]
  <2>1. q = [p EXCEPT !.chunk[c] = Memory(p.capacity), !.list[tx] = Append(@, c),
                      !.free = @ \ {c}]
    BY Zenon DEF Link
  <2> HIDE DEF q
  <2> QED BY <2>1, <1>0 DEF PoolType
<1>2. /\ p.list \in [Streams -> Seq(Chunks)] /\ p.capacity \in Nat \ {0}
      /\ p.chunk \in [Chunks -> [capacity : Nat, available : Nat]]
  BY <1>0 DEF PoolType
<1>3. q \in PoolType
  <2>1. Memory(p.capacity) \in [capacity : Nat, available : Nat]
    BY <1>2 DEF Memory
  <2> QED BY <2>1, <1>0, <1>1, <1>2 DEF PoolType
<1> HIDE DEF q
<1>4. \A s \in Streams : s # tx => q.list[s] = p.list[s]
  BY <1>1, <1>2
<1>5. /\ q.list[tx] = Append(p.list[tx], c)
      /\ DOMAIN q.list[tx] = 1..(Len(p.list[tx]) + 1)
      /\ DOMAIN p.list[tx] = 1..Len(p.list[tx]) /\ Len(p.list[tx]) \in Nat
      /\ \A i \in DOMAIN p.list[tx] : i \in DOMAIN q.list[tx] /\ q.list[tx][i] = p.list[tx][i]
      /\ q.list[tx][Len(p.list[tx]) + 1] = c
  <2>1. q.list[tx] = Append(p.list[tx], c) /\ p.list[tx] \in Seq(Chunks)
    BY <1>1, <1>2
  <2> QED BY <2>1
<1>6. \A s \in Streams : \A i \in DOMAIN p.list[s] :
        i \in DOMAIN q.list[s] /\ q.list[s][i] = p.list[s][i]
  BY <1>4, <1>5
<1>7. \A s \in Streams : \A i \in DOMAIN q.list[s] :
        \/ i \in DOMAIN p.list[s] /\ q.list[s][i] = p.list[s][i]
        \/ s = tx /\ i = Len(p.list[tx]) + 1 /\ q.list[s][i] = c
  BY <1>4, <1>5, SMTT(30)
<1>8. \A s \in Streams : \A i \in DOMAIN p.list[s] : p.list[s][i] # c
  BY UnlinkedIsIdle DEF Members
<1>9. InOnePlace(q)
  <2>1. \A s \in Streams : q.list[s] # <<>> => s \in q.known
    BY <1>0, <1>1, <1>4 DEF InOnePlace, TransactionIsOpen
  <2>2. c \in Live(q) \ q.free
    BY <1>1, <1>2 DEF Live, Memory
  <2>3. \A x \in Live(p) \ p.free : x \in Live(q) \ q.free
    BY <1>1, <1>2, <2>2 DEF Live
  <2>4. \A s \in Streams : \A i \in DOMAIN q.list[s] : q.list[s][i] \in Live(q) \ q.free
    BY <1>0, <1>7, <2>2, <2>3 DEF InOnePlace
  <2>5. \A s, u \in Streams : \A i \in DOMAIN q.list[s] : \A j \in DOMAIN q.list[u] :
          q.list[s][i] = q.list[u][j] => s = u /\ i = j
    BY <1>0, <1>7, <1>8 DEF InOnePlace
  <2>6. q.free \subseteq Live(q)
    BY <1>0, <1>1, <1>2, <2>2 DEF InOnePlace, Live
  <2> QED BY <2>1, <2>4, <2>5, <2>6 DEF InOnePlace
<1>10. \A s \in Streams : \A x : InTransaction(p, s, x) => InTransaction(q, s, x)
  BY <1>6 DEF InTransaction
<1>11. PendingIsGuarded(q)
  BY <1>0, <1>6, <1>10 DEF PendingIsGuarded, EventIsComing, Members
<1>12. TransactionIsOpen(q)
  BY <1>0, <1>1, <1>10 DEF TransactionIsOpen
<1>13. CarvedAbove(q)
  <2>1. \A x \in Chunks : x # c => q.chunk[x] = p.chunk[x]
    BY <1>1, <1>2
  <2>2. fresh \cup staged \subseteq Region
    BY DEF TypeOK
  <2>3. \A s \in Streams : \A i \in DOMAIN gpu[s] : gpu[s][i].regions \subseteq Region
    BY GpuType
  <2>4. \A r \in fresh \cup staged : q.chunk[r.chunk] = p.chunk[r.chunk]
    BY <2>1, <2>2, UnlinkedIsIdle DEF Region
  <2>5. \A s \in Streams : \A i \in DOMAIN gpu[s] : \A r \in gpu[s][i].regions :
          q.chunk[r.chunk] = p.chunk[r.chunk]
    BY <2>1, <2>3, UnlinkedIsIdle DEF Region
  <2> QED BY <2>4, <2>5, <1>0 DEF CarvedAbove
<1>14. FreeIsCurrent(q)
  BY <1>0, <1>1, <1>2 DEF FreeIsCurrent, PoolType
<1>15. q.chunk[c].available = p.capacity
  BY <1>1, <1>2 DEF Memory
<1> QED BY <1>3, <1>5, <1>9, <1>11, <1>12, <1>13, <1>14, <1>15 DEF PoolInv, q

\* The bump allocation at the end of allocate().
LEMMA CarveKeepsInv ==
    ASSUME NEW p, PoolInv(p), TypeOK, FreshRegionsAreIdle, tx \in Streams,
           NEW size \in Nat, p.list[tx] # <<>>,
           p.chunk[TailOf(p, tx)].available >= size,
           Carve(p, size)
    PROVE  IInv'
<1> DEFINE c  == TailOf(p, tx)
           lo == p.chunk[c].available - size
           new == [chunk |-> c, lo |-> lo, hi |-> lo + size]
           n == Len(p.list[tx])
<1>0. /\ p \in PoolType /\ InOnePlace(p) /\ PendingIsGuarded(p)
      /\ TransactionIsOpen(p) /\ CarvedAbove(p) /\ FreeIsCurrent(p)
  BY DEF PoolInv
<1>1. /\ p.list \in [Streams -> Seq(Chunks)]
      /\ p.chunk \in [Chunks -> [capacity : Nat, available : Nat]]
  BY <1>0 DEF PoolType
<1>2. n \in DOMAIN p.list[tx] /\ p.list[tx][n] = c /\ c \in Chunks /\ n \in Nat
      /\ DOMAIN p.list[tx] = 1..n
  BY <1>1, EmptySeq DEF TailOf
<1> HIDE DEF c, n
<1>3. p.chunk[c].available \in Nat /\ lo \in Nat /\ lo <= p.chunk[c].available
      /\ lo + size = p.chunk[c].available
  BY <1>1, <1>2 DEF c
<1>4. /\ pool' = [p EXCEPT !.chunk[c].available = lo]
      /\ thead' = [thead EXCEPT ![tx] = IF thead[tx] = NoChunk THEN c ELSE thead[tx]]
      /\ fresh' = fresh \cup {new}
      /\ tx' = tx /\ staged' = staged /\ launched' = launched /\ gpu' = gpu
  BY DEF Carve, c
<1> HIDE DEF lo
<1>5. /\ pool'.known = p.known /\ pool'.list = p.list /\ pool'.free = p.free
      /\ pool'.capacity = p.capacity
      /\ pool'.chunk \in [Chunks -> [capacity : Nat, available : Nat]]
      /\ pool'.chunk[c].available = lo
      /\ \A x \in Chunks : /\ pool'.chunk[x].capacity = p.chunk[x].capacity
                           /\ x # c => pool'.chunk[x] = p.chunk[x]
  <2>1. pool' = [p EXCEPT !.chunk = [p.chunk EXCEPT ![c] = [p.chunk[c] EXCEPT !.available = lo]]]
    BY <1>4
  <2>2. [p.chunk[c] EXCEPT !.available = lo] \in [capacity : Nat, available : Nat]
        /\ [p.chunk[c] EXCEPT !.available = lo].capacity = p.chunk[c].capacity
        /\ [p.chunk[c] EXCEPT !.available = lo].available = lo
    BY <1>1, <1>2, <1>3
  <2> QED BY <2>1, <2>2, <1>0, <1>1, <1>2 DEF PoolType
<1>6. pool' \in PoolType
  <2>1. pool' = [known |-> p.known, list |-> p.list, chunk |-> pool'.chunk,
                 free |-> p.free, capacity |-> p.capacity]
    BY <1>0, <1>4 DEF PoolType
  <2> QED BY <2>1, <1>0, <1>5 DEF PoolType
<1>7. new \in Region
  BY <1>2, <1>3 DEF Region
<1>8. TypeOK'
  BY <1>2, <1>4, <1>6, <1>7 DEF TypeOK
<1>9. InOnePlace(pool)'
  <2>1. Live(pool)' = Live(p)
    BY <1>5 DEF Live
  <2> QED BY <2>1, <1>0, <1>5 DEF InOnePlace
<1>10. \A s \in Streams : \A x : InTransaction(p, s, x) => InTransaction(pool, s, x)'
  <2> SUFFICES ASSUME NEW s \in Streams, NEW x, InTransaction(p, s, x)
               PROVE  InTransaction(pool, s, x)'
    OBVIOUS
  <2>1. PICK i, j \in DOMAIN p.list[s] : i <= j /\ p.list[s][i] = thead[s] /\ p.list[s][j] = x
    BY DEF InTransaction
  <2>2. thead[s] # NoChunk
    <3>1. p.list[s] \in Seq(Chunks)
      BY <1>1
    <3>2. p.list[s][i] \in Chunks
      BY <3>1
    <3> QED BY <2>1, <3>2, PoolAssumption
  <2>3. thead'[s] = thead[s]
    BY <2>2, <1>4 DEF TypeOK
  <2> QED BY <2>1, <2>3, <1>5 DEF InTransaction
<1>11. /\ thead'[tx] # NoChunk
       /\ \E i \in DOMAIN p.list[tx] : i <= n /\ p.list[tx][i] = thead'[tx]
  <2>1. CASE thead[tx] = NoChunk
    <3>1. thead'[tx] = c
      BY <2>1, <1>4 DEF TypeOK
    <3> QED BY <3>1, <1>2, PoolAssumption
  <2>2. CASE thead[tx] # NoChunk
    <3>1. thead'[tx] = thead[tx]
      BY <2>2, <1>4 DEF TypeOK
    <3>2. PICK i \in DOMAIN p.list[tx] : p.list[tx][i] = thead[tx]
      BY <2>2, <1>0 DEF TransactionIsOpen, InTransaction
    <3>3. i <= n
      BY <1>2
    <3> QED BY <2>2, <3>1, <3>2, <3>3
  <2> QED BY <2>1, <2>2
<1>11a. \A x : x = c \/ x = thead'[tx] => InTransaction(pool, tx, x)'
  <2>1. PICK i \in DOMAIN p.list[tx] : i <= n /\ p.list[tx][i] = thead'[tx]
    BY <1>11
  <2>2. i <= i
    BY <1>2
  <2> QED BY <2>1, <2>2, <1>2, <1>4, <1>5 DEF InTransaction
<1>12. PendingIsGuarded(pool)'
  BY <1>0, <1>4, <1>5, <1>10 DEF PendingIsGuarded, EventIsComing
<1>13. TransactionIsOpen(pool)'
  <2>1. \A s \in Streams : s # tx => thead'[s] = NoChunk
    BY <1>0, <1>4 DEF TransactionIsOpen, TypeOK
  <2>2. InTransaction(pool, tx, thead[tx])'
    BY <1>4, <1>11a
  <2>3. \A r \in fresh' \cup staged' : InTransaction(pool, tx, r.chunk)'
    <3>1. new.chunk = c
      OBVIOUS
    <3> HIDE DEF new
    <3> QED BY <3>1, <1>0, <1>4, <1>10, <1>11a DEF TransactionIsOpen
  <2> QED BY <2>1, <2>2, <2>3, <1>0, <1>4, <1>5 DEF TransactionIsOpen
<1>14. ASSUME NEW r \in Region, p.chunk[r.chunk].available <= r.lo
       PROVE  pool'.chunk[r.chunk].available <= r.lo
  <2>1. r.chunk \in Chunks /\ r.lo \in Nat
    BY DEF Region
  <2>2. CASE r.chunk = c
    BY <2>1, <2>2, <1>3, <1>5, <1>14
  <2>3. CASE r.chunk # c
    BY <2>1, <2>3, <1>5, <1>14
  <2> QED BY <2>2, <2>3
<1>15. CarvedAbove(pool)'
  <2>1. fresh \cup staged \subseteq Region
    BY DEF TypeOK
  <2>2. \A s \in Streams : \A i \in DOMAIN gpu[s] : gpu[s][i].regions \subseteq Region
    BY GpuType
  <2>3. \A r \in fresh' \cup staged' : pool'.chunk[r.chunk].available <= r.lo
    <3>1. pool'.chunk[new.chunk].available <= new.lo
      BY <1>3, <1>5
    <3> HIDE DEF new
    <3> QED BY <3>1, <2>1, <1>0, <1>4, <1>14 DEF CarvedAbove
  <2>4. \A s \in Streams : \A i \in DOMAIN gpu'[s] : \A r \in gpu'[s][i].regions :
          pool'.chunk[r.chunk].available <= r.lo
    BY <2>2, <1>0, <1>4, <1>14 DEF CarvedAbove
  <2> QED BY <2>3, <2>4 DEF CarvedAbove
<1>16. FreeIsCurrent(pool)'
  BY <1>0, <1>5 DEF FreeIsCurrent, PoolType
<1>17. FreshRegionsAreIdle'
  <2>1. \A s \in Streams : \A i \in DOMAIN gpu[s] : \A q \in gpu[s][i].regions :
          q.chunk = new.chunk => new.hi <= q.lo
    BY <1>0, <1>3 DEF CarvedAbove
  <2> HIDE DEF new
  <2> QED BY <2>1, <1>4 DEF FreshRegionsAreIdle
<1> QED BY <1>6, <1>8, <1>9, <1>12, <1>13, <1>15, <1>16, <1>17 DEF IInv, PoolInv

Op == [regions : SUBSET Region, event : Chunks \cup {NoChunk}]

\* close() records an event for every chunk of the transaction, and nothing else.
LEMMA RecordsShape ==
    ASSUME NEW p, PoolInv(p), TypeOK, tx \in Streams
    PROVE  /\ RecordsOf(p, tx) \in Seq(Op)
           /\ \A k \in DOMAIN RecordsOf(p, tx) : RecordsOf(p, tx)[k].regions = {}
           /\ \A c : InTransaction(p, tx, c) =>
                 \E k \in DOMAIN RecordsOf(p, tx) : RecordsOf(p, tx)[k].event = c
<1> DEFINE l == p.list[tx]
           first == CHOOSE i \in DOMAIN l : l[i] = thead[tx]
           R == [i \in 1..(Len(l) - first + 1) |-> Record(l[first + i - 1])]
<1>0. p \in PoolType /\ InOnePlace(p) /\ TransactionIsOpen(p)
  BY DEF PoolInv
<1>1. l \in Seq(Chunks) /\ DOMAIN l = 1..Len(l) /\ Len(l) \in Nat
  BY <1>0 DEF PoolType
<1>2. CASE thead[tx] = NoChunk
  <2>1. RecordsOf(p, tx) = <<>>
    BY <1>2 DEF RecordsOf
  <2>2. \A i \in DOMAIN l : l[i] # NoChunk
    BY <1>1, PoolAssumption
  <2>3. \A c : ~InTransaction(p, tx, c)
    BY <2>2, <1>2 DEF InTransaction
  <2> QED BY <2>1, <2>3
<1>3. CASE thead[tx] # NoChunk
  <2>1. RecordsOf(p, tx) = R
    BY <1>3, Zenon DEF RecordsOf
  <2>2. \E i \in DOMAIN l : l[i] = thead[tx]
    BY <1>0, <1>3 DEF TransactionIsOpen, InTransaction
  <2>3. first \in DOMAIN l /\ l[first] = thead[tx]
    BY <2>2
  <2>4. \A i \in DOMAIN l : l[i] = thead[tx] => i = first
    BY <2>3, <1>0 DEF InOnePlace
  <2> HIDE DEF first, l
  <2>5. \A i \in 1..(Len(l) - first + 1) : first + i - 1 \in DOMAIN l
    BY <1>1, <2>3
  <2>6. \A c \in Chunks : Record(c) \in Op
    BY DEF Record, Op
  <2>7. \A i \in 1..(Len(l) - first + 1) : Record(l[first + i - 1]) \in Op
    BY <1>1, <2>5, <2>6
  <2>8. Len(l) - first + 1 \in Nat
    BY <1>1, <2>3
  <2>9. R \in Seq(Op) /\ DOMAIN R = 1..(Len(l) - first + 1)
    <3> HIDE DEF Op
    <3> QED BY <2>7, <2>8, IsASeq
  <2>10. \A k \in DOMAIN R : R[k].regions = {} /\ R[k].event = l[first + k - 1]
    BY <2>9 DEF Record
  <2>11. ASSUME NEW c, InTransaction(p, tx, c)
         PROVE  \E k \in DOMAIN R : R[k].event = c
    <3>1. PICK m, n \in DOMAIN l : m <= n /\ l[m] = thead[tx] /\ l[n] = c
      BY <2>11 DEF InTransaction, l
    <3>2. m = first
      BY <3>1, <2>4
    <3>3. n - first + 1 \in 1..(Len(l) - first + 1) /\ first + (n - first + 1) - 1 = n
      BY <3>1, <3>2, <1>1, <2>3
    <3> QED BY <3>1, <3>3, <2>9, <2>10
  <2> HIDE DEF R, Op
  <2> QED BY <2>1, <2>9, <2>10, <2>11
<1> QED BY <1>2, <1>3

\* Closing: what the transaction guarded is now guarded by the events.
LEMMA CloseKeepsInv ==
    ASSUME NEW p, PoolInv(p), TypeOK, tx \in Streams, CloseWith(p)
    PROVE  IInv'
<1> DEFINE R == RecordsOf(p, tx)
           g == gpu[tx]
<1>0. /\ p \in PoolType /\ InOnePlace(p) /\ PendingIsGuarded(p)
      /\ TransactionIsOpen(p) /\ CarvedAbove(p) /\ FreeIsCurrent(p)
  BY DEF PoolInv
<1>1. /\ gpu' = [gpu EXCEPT ![tx] = g \o R] /\ thead' = [thead EXCEPT ![tx] = NoChunk]
      /\ tx' = NoTx /\ fresh' = {} /\ staged' = {} /\ launched' = FALSE /\ pool' = p
  BY DEF CloseWith
<1>2. gpu \in [Streams -> Seq(Op)] /\ thead \in [Streams -> Chunks \cup {NoChunk}]
  BY DEF TypeOK, Op
<1>3. /\ R \in Seq(Op)
      /\ \A k \in DOMAIN R : R[k].regions = {}
      /\ \A c : InTransaction(p, tx, c) => \E k \in DOMAIN R : R[k].event = c
  BY RecordsShape
<1> HIDE DEF R, Op
<1>4. /\ g \in Seq(Op) /\ DOMAIN g = 1..Len(g) /\ DOMAIN R = 1..Len(R)
      /\ Len(g) \in Nat /\ Len(R) \in Nat
  BY <1>2, <1>3
<1> HIDE DEF g
<1>5. /\ g \o R \in Seq(Op)
      /\ DOMAIN (g \o R) = 1..(Len(g) + Len(R))
      /\ \A i \in DOMAIN g : (g \o R)[i] = g[i]
      /\ \A k \in DOMAIN R : (g \o R)[Len(g) + k] = R[k]
  BY <1>3, <1>4
<1>6. gpu' \in [Streams -> Seq(Op)] /\ gpu'[tx] = g \o R
  BY <1>1, <1>2, <1>5
<1>7. TypeOK'
  BY <1>0, <1>1, <1>2, <1>6 DEF TypeOK, Op
<1>8. \A i \in DOMAIN gpu'[tx] : \A r \in gpu'[tx][i].regions :
        i \in DOMAIN g /\ r \in g[i].regions
  <2> SUFFICES ASSUME NEW i \in DOMAIN gpu'[tx], NEW r \in gpu'[tx][i].regions
               PROVE  i \in DOMAIN g /\ r \in g[i].regions
    OBVIOUS
  <2>1. CASE i \in DOMAIN g
    BY <2>1, <1>5, <1>6
  <2>2. CASE i \notin DOMAIN g
    <3>1. i - Len(g) \in DOMAIN R /\ Len(g) + (i - Len(g)) = i
      BY <2>2, <1>4, <1>5, <1>6
    <3>2. gpu'[tx][i] = R[i - Len(g)]
      BY <3>1, <1>5, <1>6
    <3> QED BY <3>1, <3>2, <1>3
  <2> QED BY <2>1, <2>2
<1>9. \A s \in Streams : s # tx => gpu'[s] = gpu[s]
  BY <1>1, <1>2
<1>10. PendingIsGuarded(pool)'
  <2> SUFFICES ASSUME NEW s \in Streams, NEW i \in DOMAIN gpu'[s], NEW r \in gpu'[s][i].regions
               PROVE  /\ r.chunk \in Members(p.list[s])
                      /\ \E j \in DOMAIN gpu'[s] : i < j /\ gpu'[s][j].event = r.chunk
    BY <1>1 DEF PendingIsGuarded, EventIsComing
  <2>1. i \in DOMAIN gpu[s] /\ r \in gpu[s][i].regions
    BY <1>8, <1>9 DEF g
  <2>2. r.chunk \in Members(p.list[s]) /\ EventIsComing(p, s, i, r.chunk)
    BY <2>1, <1>0 DEF PendingIsGuarded
  <2>3. CASE s # tx
    <3>1. thead[s] = NoChunk /\ p.list[s] \in Seq(Chunks)
      BY <2>3, <1>0 DEF TransactionIsOpen, PoolType
    <3>2. \A k \in DOMAIN p.list[s] : p.list[s][k] # NoChunk
      BY <3>1, PoolAssumption
    <3>3. ~InTransaction(p, s, r.chunk)
      BY <3>1, <3>2 DEF InTransaction
    <3> QED BY <2>2, <2>3, <3>3, <1>9 DEF EventIsComing
  <2>4. CASE s = tx
    <3>1. CASE \E j \in DOMAIN gpu[s] : i < j /\ gpu[s][j].event = r.chunk
      <4>1. PICK j \in DOMAIN g : i < j /\ g[j].event = r.chunk
        BY <2>4, <3>1 DEF g
      <4>2. j \in DOMAIN gpu'[s] /\ gpu'[s][j] = g[j]
        BY <4>1, <2>4, <1>4, <1>5, <1>6
      <4> QED BY <4>1, <4>2, <2>2
    <3>2. CASE InTransaction(p, s, r.chunk)
      <4>1. PICK k \in DOMAIN R : R[k].event = r.chunk
        BY <3>2, <2>4, <1>3
      <4>2. /\ Len(g) + k \in DOMAIN gpu'[s] /\ gpu'[s][Len(g) + k] = R[k]
            /\ i < Len(g) + k
        <5>1. i \in DOMAIN g
          BY <2>1, <2>4 DEF g
        <5>2. Len(g) + k \in 1..(Len(g) + Len(R)) /\ i < Len(g) + k
          BY <4>1, <5>1, <1>4
        <5> QED BY <4>1, <5>2, <2>4, <1>5, <1>6
      <4> QED BY <4>1, <4>2, <2>2
    <3> QED BY <2>2, <3>1, <3>2 DEF EventIsComing
  <2> QED BY <2>3, <2>4
<1>11. TransactionIsOpen(pool)'
  <2>1. \A s \in Streams : thead'[s] = NoChunk
    BY <1>0, <1>1, <1>2 DEF TransactionIsOpen
  <2>2. tx' \notin Streams
    BY <1>1, PoolAssumption
  <2> QED BY <1>1, <2>1, <2>2 DEF TransactionIsOpen
<1>12. CarvedAbove(pool)'
  <2>1. \A s \in Streams : \A i \in DOMAIN gpu'[s] : \A r \in gpu'[s][i].regions :
          i \in DOMAIN gpu[s] /\ r \in gpu[s][i].regions
    BY <1>8, <1>9 DEF g
  <2> QED BY <2>1, <1>0, <1>1 DEF CarvedAbove
<1>13. InOnePlace(pool)' /\ FreeIsCurrent(pool)' /\ pool' \in PoolType
  BY <1>0, <1>1 DEF InOnePlace, Live, FreeIsCurrent
<1>14. FreshRegionsAreIdle'
  BY <1>1 DEF FreshRegionsAreIdle
<1> QED BY <1>7, <1>10, <1>11, <1>12, <1>13, <1>14 DEF IInv, PoolInv

\* Copy and Launch: work that only uses regions of the open transaction.
LEMMA WorkKeepsInv ==
    ASSUME IInv, tx \in Streams, NEW regions \in SUBSET (fresh \cup staged),
           gpu' = [gpu EXCEPT ![tx] = Append(@, Work(regions))],
           fresh' = {}, staged' \subseteq fresh \cup staged, launched' \in BOOLEAN,
           UNCHANGED <<pool, thead, tx>>
    PROVE  IInv'
<1> DEFINE g == gpu[tx]
<1>0. /\ TypeOK /\ pool \in PoolType /\ InOnePlace(pool) /\ PendingIsGuarded(pool)
      /\ TransactionIsOpen(pool) /\ CarvedAbove(pool) /\ FreeIsCurrent(pool)
  BY DEF IInv, PoolInv
<1>1. gpu \in [Streams -> Seq(Op)] /\ fresh \cup staged \subseteq Region
  BY <1>0 DEF TypeOK, Op
<1>2. Work(regions) \in Op /\ Work(regions).regions = regions
  BY <1>1 DEF Work, Op
<1> HIDE DEF Op
<1>3. g \in Seq(Op) /\ DOMAIN g = 1..Len(g) /\ Len(g) \in Nat
  BY <1>1
<1>4. /\ gpu' \in [Streams -> Seq(Op)]
      /\ \A s \in Streams : s # tx => gpu'[s] = gpu[s]
      /\ gpu'[tx] = Append(g, Work(regions))
  BY <1>1, <1>2, <1>3
<1> HIDE DEF g
<1>5. /\ DOMAIN gpu'[tx] = 1..(Len(g) + 1)
      /\ \A i \in DOMAIN g : i \in DOMAIN gpu'[tx] /\ gpu'[tx][i] = g[i]
      /\ gpu'[tx][Len(g) + 1] = Work(regions)
  BY <1>2, <1>3, <1>4
<1>6. \A s \in Streams : \A i \in DOMAIN gpu[s] : i \in DOMAIN gpu'[s] /\ gpu'[s][i] = gpu[s][i]
  BY <1>4, <1>5 DEF g
<1>7. \A i \in DOMAIN gpu'[tx] : i \in DOMAIN g \/ i = Len(g) + 1
  BY <1>3, <1>5
<1>8. \A s \in Streams : \A i \in DOMAIN gpu'[s] : \A r \in gpu'[s][i].regions :
        \/ i \in DOMAIN gpu[s] /\ r \in gpu[s][i].regions
        \/ s = tx /\ r \in fresh \cup staged
  BY <1>2, <1>4, <1>5, <1>7 DEF g
<1>9. TypeOK'
  <2>1. staged' \subseteq Region
    BY <1>1
  <2> QED BY <2>1, <1>0, <1>4 DEF TypeOK, Op
<1>10. PendingIsGuarded(pool)'
  <2> SUFFICES ASSUME NEW s \in Streams, NEW i \in DOMAIN gpu'[s], NEW r \in gpu'[s][i].regions
               PROVE  r.chunk \in Members(pool.list[s]) /\ EventIsComing(pool, s, i, r.chunk)'
    BY DEF PendingIsGuarded
  <2>1. CASE i \in DOMAIN gpu[s] /\ r \in gpu[s][i].regions
    <3>1. r.chunk \in Members(pool.list[s]) /\ EventIsComing(pool, s, i, r.chunk)
      BY <2>1, <1>0 DEF PendingIsGuarded
    <3> QED BY <3>1, <1>6 DEF EventIsComing, InTransaction
  <2>2. CASE s = tx /\ r \in fresh \cup staged
    <3>1. InTransaction(pool, s, r.chunk)
      BY <2>2, <1>0 DEF TransactionIsOpen
    <3> QED BY <3>1 DEF EventIsComing, InTransaction, Members
  <2> QED BY <2>1, <2>2, <1>8
<1>11. TransactionIsOpen(pool)'
  BY <1>0 DEF TransactionIsOpen, InTransaction
<1>12. CarvedAbove(pool)'
  BY <1>0, <1>8 DEF CarvedAbove
<1>13. InOnePlace(pool)' /\ FreeIsCurrent(pool)' /\ pool' \in PoolType /\ FreshRegionsAreIdle'
  BY <1>0 DEF InOnePlace, Live, FreeIsCurrent, FreshRegionsAreIdle
<1> QED BY <1>9, <1>10, <1>11, <1>12, <1>13 DEF IInv, PoolInv

\* The GPU completes an operation: later events are still ahead.
LEMMA GpuStepKeepsInv ==
    ASSUME IInv, NEW u \in Streams, GpuStep(u)
    PROVE  IInv'
<1>0. /\ TypeOK /\ pool \in PoolType /\ InOnePlace(pool) /\ PendingIsGuarded(pool)
      /\ TransactionIsOpen(pool) /\ CarvedAbove(pool) /\ FreeIsCurrent(pool)
      /\ FreshRegionsAreIdle
  BY DEF IInv, PoolInv
<1>1. gpu \in [Streams -> Seq(Op)]
  BY <1>0 DEF TypeOK, Op
<1> HIDE DEF Op
<1>2. /\ gpu[u] # <<>> /\ gpu' = [gpu EXCEPT ![u] = Tail(gpu[u])]
      /\ pool' = pool /\ thead' = thead /\ tx' = tx /\ fresh' = fresh
      /\ staged' = staged /\ launched' = launched
  BY DEF GpuStep
<1>3. /\ gpu[u] \in Seq(Op) /\ Len(gpu[u]) \in Nat \ {0} /\ DOMAIN gpu[u] = 1..Len(gpu[u])
      /\ Tail(gpu[u]) \in Seq(Op) /\ Len(Tail(gpu[u])) = Len(gpu[u]) - 1
      /\ \A i \in 1..(Len(gpu[u]) - 1) : Tail(gpu[u])[i] = gpu[u][i + 1]
  BY <1>1, <1>2
<1>4. /\ gpu' \in [Streams -> Seq(Op)] /\ gpu'[u] = Tail(gpu[u])
      /\ \A s \in Streams : s # u => gpu'[s] = gpu[s]
  BY <1>1, <1>2, <1>3
<1>5. DOMAIN gpu'[u] = 1..(Len(gpu[u]) - 1)
  BY <1>3, <1>4
<1>6. TypeOK'
  BY <1>0, <1>2, <1>4 DEF TypeOK, Op
<1>7. \A i \in DOMAIN gpu'[u] : i + 1 \in DOMAIN gpu[u] /\ gpu'[u][i] = gpu[u][i + 1]
  BY <1>3, <1>4, <1>5
<1>8. \A s \in Streams : \A i \in DOMAIN gpu'[s] : \A r \in gpu'[s][i].regions :
        \E j \in DOMAIN gpu[s] : r \in gpu[s][j].regions
  <2> SUFFICES ASSUME NEW s \in Streams, NEW i \in DOMAIN gpu'[s], NEW r \in gpu'[s][i].regions
               PROVE  \E j \in DOMAIN gpu[s] : r \in gpu[s][j].regions
    OBVIOUS
  <2>1. CASE s = u
    <3>1. i + 1 \in DOMAIN gpu[s] /\ gpu'[s][i] = gpu[s][i + 1]
      BY <1>7, <2>1
    <3> QED BY <3>1, Zenon
  <2>2. CASE s # u
    BY <1>4, <2>2, Zenon
  <2> QED BY <2>1, <2>2
<1>9. PendingIsGuarded(pool)'
  <2> SUFFICES ASSUME NEW s \in Streams, NEW i \in DOMAIN gpu'[s], NEW r \in gpu'[s][i].regions
               PROVE  r.chunk \in Members(pool.list[s]) /\ EventIsComing(pool, s, i, r.chunk)'
    BY <1>2 DEF PendingIsGuarded
  <2>1. CASE s # u
    <3>1. gpu'[s] = gpu[s]
      BY <2>1, <1>4
    <3>2. r.chunk \in Members(pool.list[s]) /\ EventIsComing(pool, s, i, r.chunk)
      BY <3>1, <1>0 DEF PendingIsGuarded
    <3> QED BY <3>1, <3>2, <1>2 DEF EventIsComing, InTransaction
  <2>2. CASE s = u
    <3>1. i + 1 \in DOMAIN gpu[s] /\ r \in gpu[s][i + 1].regions
      BY <2>2, <1>7
    <3>2. r.chunk \in Members(pool.list[s]) /\ EventIsComing(pool, s, i + 1, r.chunk)
      BY <3>1, <1>0 DEF PendingIsGuarded
    <3>3. CASE InTransaction(pool, s, r.chunk)
      BY <3>2, <3>3, <1>2 DEF EventIsComing, InTransaction
    <3>4. CASE \E j \in DOMAIN gpu[s] : i + 1 < j /\ gpu[s][j].event = r.chunk
      <4>1. PICK j \in DOMAIN gpu[u] : i + 1 < j /\ gpu[u][j].event = r.chunk
        BY <2>2, <3>4
      <4>2. j - 1 \in DOMAIN gpu'[u] /\ i < j - 1 /\ (j - 1) + 1 = j
        BY <4>1, <2>2, <1>3, <1>5
      <4>3. gpu'[u][j - 1] = gpu[u][j]
        BY <4>2, <1>7
      <4> QED BY <4>1, <4>2, <4>3, <2>2, <3>2 DEF EventIsComing
    <3> QED BY <3>2, <3>3, <3>4 DEF EventIsComing
  <2> QED BY <2>1, <2>2
<1>10. TransactionIsOpen(pool)'
  BY <1>0, <1>2 DEF TransactionIsOpen, InTransaction
<1>11. CarvedAbove(pool)'
  BY <1>0, <1>2, <1>8 DEF CarvedAbove
<1>12. InOnePlace(pool)' /\ FreeIsCurrent(pool)' /\ pool' \in PoolType
  BY <1>0, <1>2 DEF InOnePlace, Live, FreeIsCurrent
<1>13. FreshRegionsAreIdle'
  BY <1>0, <1>2, <1>8 DEF FreshRegionsAreIdle
<1> QED BY <1>6, <1>9, <1>10, <1>11, <1>12, <1>13 DEF IInv, PoolInv

\* Opening a transaction registers the stream and moves no chunk.
LEMMA OpenKeepsInv ==
    ASSUME IInv, NEW u \in Streams, Open(u)
    PROVE  IInv'
<1>0. /\ TypeOK /\ pool \in PoolType /\ InOnePlace(pool) /\ PendingIsGuarded(pool)
      /\ TransactionIsOpen(pool) /\ CarvedAbove(pool) /\ FreeIsCurrent(pool)
      /\ FreshRegionsAreIdle
  BY DEF IInv, PoolInv
<1>1. tx = NoTx /\ NoTx \notin Streams
  BY PoolAssumption DEF Open
<1>2. fresh \cup staged = {} /\ \A s \in Streams : thead[s] = NoChunk
  BY <1>0, <1>1 DEF TransactionIsOpen
<1>3. /\ thead' = [thead EXCEPT ![u] = NoChunk] /\ tx' = u
      /\ fresh' = fresh /\ staged' = staged /\ launched' = launched /\ gpu' = gpu
      /\ pool' = [pool EXCEPT !.known = @ \cup {u},
                              !.list[u] = IF u \in pool.known THEN @ ELSE <<>>]
  BY DEF Open
<1>4. thead' = thead /\ thead \in [Streams -> Chunks \cup {NoChunk}]
  BY <1>0, <1>2, <1>3 DEF TypeOK
<1>5. (IF u \in pool.known THEN pool.list[u] ELSE <<>>) = pool.list[u]
  BY <1>0 DEF InOnePlace
<1>6. /\ pool'.known = pool.known \cup {u} /\ pool'.list = pool.list
      /\ pool'.chunk = pool.chunk /\ pool'.free = pool.free /\ pool'.capacity = pool.capacity
      /\ pool' \in PoolType
  BY <1>0, <1>3, <1>5 DEF PoolType
<1>7. TypeOK'
  BY <1>0, <1>3, <1>4, <1>6 DEF TypeOK
<1>8. PendingIsGuarded(pool)'
  BY <1>0, <1>3, <1>4, <1>6 DEF PendingIsGuarded, EventIsComing, InTransaction
<1>9. TransactionIsOpen(pool)'
  BY <1>2, <1>3, <1>4, <1>6 DEF TransactionIsOpen
<1>10. InOnePlace(pool)' /\ FreeIsCurrent(pool)' /\ CarvedAbove(pool)'
  <2>1. InOnePlace(pool)'
    BY <1>0, <1>6 DEF InOnePlace, Live
  <2>2. FreeIsCurrent(pool)'
    BY <1>0, <1>6 DEF FreeIsCurrent
  <2>3. CarvedAbove(pool)'
    BY <1>0, <1>3, <1>6 DEF CarvedAbove
  <2> QED BY <2>1, <2>2, <2>3
<1>11. FreshRegionsAreIdle'
  BY <1>0, <1>3 DEF FreshRegionsAreIdle
<1> QED BY <1>6, <1>7, <1>8, <1>9, <1>10, <1>11 DEF IInv, PoolInv

\* Sizes stay naturals, and a chunk of a roomy capacity fits the request.
LEMMA Arithmetic ==
    /\ \A size \in Sizes : AlignUp(size) \in Nat
    /\ \A capacity, size \in Nat : Roomy(capacity, size) => capacity >= size
<1>1. ASSUME NEW size \in Sizes PROVE AlignUp(size) \in Nat
  <2>1. size \in Nat /\ Alignment \in Nat \ {0}
    BY PoolAssumption
  <2>2. size + Alignment - 1 \in Nat
    BY <2>1
  <2>3. (size + Alignment - 1) \div Alignment \in Nat
    BY <2>1, <2>2
  <2> QED BY <2>1, <2>3 DEF AlignUp
<1>2. ASSUME NEW capacity \in Nat, NEW size \in Nat, Roomy(capacity, size)
      PROVE  capacity >= size
  BY <1>2, PoolAssumption DEF Roomy
<1> QED BY <1>1, <1>2

\* The capacity the doubling loop ends with.
LEMMA GrownIsNat ==
    ASSUME NEW capacity, NEW size, NEW c \in Grown(capacity, size)
    PROVE  c \in Nat \ {0}
<1> DEFINE top == 2 * (SizeMax \div 2) - 1
<1>1. c \in 1..top
  BY DEF Grown, Doubled
<1> HIDE DEF top
<1> QED BY <1>1

\* The pool after the search is as good as before it.
LEMMA SearchKeepsInv ==
    ASSUME IInv
    PROVE  PoolInv(Searched) /\ Searched.capacity = pool.capacity
<1>1. PoolInv(pool) /\ TypeOK /\ pool \in PoolType
  BY DEF IInv, PoolInv
<1>2. PoolInv(Reclaim(pool)) /\ Reclaim(pool).capacity = pool.capacity
  BY <1>1, ReclaimKeepsInv, ReclaimShape
<1> QED BY <1>1, <1>2 DEF Searched

\* A new tail chunk for the open transaction, and the allocation from it.
LEMMA LinkAndCarve ==
    ASSUME IInv, tx \in Streams, NEW p, PoolInv(p), NEW size \in Nat, p.capacity >= size,
           NEW c \in Chunks, c \in p.free \/ c \notin Live(p),
           Carve(Link(p, tx, c), size)
    PROVE  IInv'
<1> DEFINE q == Link(p, tx, c)
<1>1. TypeOK /\ FreshRegionsAreIdle
  BY DEF IInv
<1>2. PoolInv(q) /\ q.list[tx] = Append(p.list[tx], c) /\ q.chunk[c].available = p.capacity
  BY <1>1, LinkKeepsInv
<1>3. p.list[tx] \in Seq(Chunks)
  BY DEF PoolInv, PoolType
<1> HIDE DEF q
<1>4. q.list[tx] # <<>> /\ TailOf(q, tx) = c
  BY <1>2, <1>3 DEF TailOf
<1> QED BY <1>1, <1>2, <1>4, CarveKeepsInv DEF q

\* A new pool, with no stream and no chunk, satisfies the invariant.
LEMMA InitEstablishesIInv == Init => IInv
<1> SUFFICES ASSUME Init PROVE IInv
  OBVIOUS
<1> USE DEF Init
<1>1. pool \in PoolType
  BY PoolAssumption DEF PoolType, Memory
<1>2. TypeOK
  <2>1. gpu \in [Streams -> Seq(Op)]
    OBVIOUS
  <2> QED BY <2>1, <1>1 DEF TypeOK, Op
<1>3. \A s \in Streams : DOMAIN pool.list[s] = {} /\ DOMAIN gpu[s] = {} /\ pool.list[s] = <<>>
  OBVIOUS
<1>4. InOnePlace(pool) /\ FreeIsCurrent(pool)
  BY <1>3 DEF InOnePlace, FreeIsCurrent
<1>5. PendingIsGuarded(pool) /\ CarvedAbove(pool) /\ FreshRegionsAreIdle
  BY <1>3 DEF PendingIsGuarded, CarvedAbove, FreshRegionsAreIdle
<1>6. TransactionIsOpen(pool)
  BY PoolAssumption DEF TransactionIsOpen
<1> QED BY <1>1, <1>2, <1>4, <1>5, <1>6 DEF IInv, PoolInv

\* Every operation of the host and every step of the GPU keeps it.
LEMMA NextKeepsIInv == IInv /\ [Next]_vars => IInv'
<1> SUFFICES ASSUME IInv, [Next]_vars PROVE IInv'
  OBVIOUS
<1>0. TypeOK /\ PoolInv(pool) /\ pool \in PoolType /\ FreshRegionsAreIdle
  BY DEF IInv, PoolInv
<1>1. ASSUME tx # NoTx PROVE tx \in Streams
  BY <1>0, <1>1 DEF TypeOK
<1>2. ASSUME NEW size \in Sizes, AllocateFromTail(size) PROVE IInv'
  <2>1. tx \in Streams /\ AlignUp(size) \in Nat
    BY <1>1, <1>2, Arithmetic DEF AllocateFromTail, MayAllocate
  <2> QED BY <2>1, <1>0, <1>2, CarveKeepsInv DEF AllocateFromTail, HasRoom
<1>3. ASSUME NEW size \in Sizes, AllocateFromFreelist(size) PROVE IInv'
  <2>1. tx \in Streams /\ AlignUp(size) \in Nat /\ pool.capacity \in Nat
    BY <1>0, <1>1, <1>3, Arithmetic DEF AllocateFromFreelist, NeedsChunk, MayAllocate, PoolType
  <2>2. PoolInv(Searched) /\ Searched.capacity >= AlignUp(size) /\ Searched \in PoolType
    BY <2>1, <1>3, SearchKeepsInv, Arithmetic DEF AllocateFromFreelist, PoolInv
  <2>3. PICK c \in Searched.free : Carve(Link(Searched, tx, c), AlignUp(size))
    BY <1>3 DEF AllocateFromFreelist
  <2>4. c \in Chunks
    BY <2>2, <2>3 DEF PoolType
  <2> QED BY <2>1, <2>2, <2>3, <2>4, LinkAndCarve
<1>4. ASSUME NEW size \in Sizes, AllocateNew(size) PROVE IInv'
  <2>1. tx \in Streams /\ AlignUp(size) \in Nat /\ pool.capacity \in Nat
    BY <1>0, <1>1, <1>4, Arithmetic DEF AllocateNew, NeedsChunk, MayAllocate, PoolType
  <2>2. PoolInv(Searched) /\ Searched.capacity >= AlignUp(size)
    BY <2>1, <1>4, SearchKeepsInv, Arithmetic DEF AllocateNew
  <2>3. PICK c \in Chunks \ Live(Searched) : Carve(Link(Searched, tx, c), AlignUp(size))
    BY <1>4 DEF AllocateNew
  <2> QED BY <2>1, <2>2, <2>3, LinkAndCarve
<1>5. ASSUME NEW size \in Sizes, AllocateGrown(size) PROVE IInv'
  <2>1. tx \in Streams /\ AlignUp(size) \in Nat
    BY <1>1, <1>5, Arithmetic DEF AllocateGrown, NeedsChunk, MayAllocate
  <2>2. PICK capacity \in Grown(pool.capacity, AlignUp(size)) :
          \E c \in Chunks \ Live(Grow(pool, capacity)) :
             Carve(Link(Grow(pool, capacity), tx, c), AlignUp(size))
    BY <1>5 DEF AllocateGrown
  <2>3. capacity \in Nat \ {0} /\ Roomy(capacity, AlignUp(size))
    BY <2>2, GrownIsNat DEF Grown
  <2>4. PoolInv(Grow(pool, capacity)) /\ Grow(pool, capacity).capacity >= AlignUp(size)
    BY <2>1, <2>3, <1>0, GrowKeepsInv, Arithmetic
  <2> QED BY <2>1, <2>2, <2>4, LinkAndCarve
<1>6. ASSUME NEW size \in Sizes, AllocationFails(size) PROVE IInv'
  <2>1. tx \in Streams
    BY <1>1, <1>6 DEF AllocationFails, NeedsChunk, MayAllocate
  <2>2. \/ CloseWith(pool)
        \/ CloseWith(Searched)
        \/ \E capacity \in Grown(pool.capacity, AlignUp(size)) : CloseWith(Grow(pool, capacity))
    BY <1>6 DEF AllocationFails
  <2>3. ASSUME NEW capacity \in Grown(pool.capacity, AlignUp(size)), CloseWith(Grow(pool, capacity))
        PROVE  IInv'
    <3>1. capacity \in Nat \ {0}
      BY GrownIsNat
    <3> QED BY <2>1, <2>3, <3>1, <1>0, GrowKeepsInv, CloseKeepsInv
  <2>4. CASE CloseWith(pool)
    BY <2>1, <2>4, <1>0, CloseKeepsInv
  <2>5. CASE CloseWith(Searched)
    BY <2>1, <2>5, <1>0, SearchKeepsInv, CloseKeepsInv
  <2> QED BY <2>2, <2>3, <2>4, <2>5
<1>7. CASE Copy
  <2>1. tx \in Streams
    BY <1>1, <1>7 DEF Copy
  <2> QED BY <2>1, <1>0, <1>7, WorkKeepsInv DEF Copy, TypeOK
<1>8. CASE Launch
  <2>1. tx \in Streams
    BY <1>1, <1>8 DEF Launch
  <2> QED BY <2>1, <1>0, <1>8, WorkKeepsInv DEF Launch, TypeOK
<1>9. CASE Close
  BY <1>0, <1>1, <1>9, CloseKeepsInv DEF Close
<1>10. CASE UNCHANGED vars
  <2>1. /\ pool' = pool /\ thead' = thead /\ tx' = tx /\ fresh' = fresh
        /\ staged' = staged /\ launched' = launched /\ gpu' = gpu
    BY <1>10 DEF vars
  <2>2. TypeOK' /\ FreshRegionsAreIdle'
    BY <2>1, <1>0 DEF TypeOK, FreshRegionsAreIdle
  <2>3. InOnePlace(pool)' /\ FreeIsCurrent(pool)' /\ CarvedAbove(pool)' /\ pool' \in PoolType
    BY <2>1, <1>0 DEF PoolInv, InOnePlace, Live, FreeIsCurrent, CarvedAbove
  <2>4. PendingIsGuarded(pool)' /\ TransactionIsOpen(pool)'
    BY <2>1, <1>0 DEF PoolInv, PendingIsGuarded, TransactionIsOpen, EventIsComing, InTransaction
  <2> QED BY <2>2, <2>3, <2>4 DEF IInv, PoolInv
<1> QED BY <1>2, <1>3, <1>4, <1>5, <1>6, <1>7, <1>8, <1>9, <1>10,
          OpenKeepsInv, GpuStepKeepsInv DEF Next

\* The inductive invariant holds in every reachable state of the pool.
THEOREM PoolInvariant == Spec => []IInv
BY InitEstablishesIInv, NextKeepsIInv, PTL DEF Spec

\* Every reachable state of the pool is well typed.
THEOREM PoolTypeCorrect == Spec => []TypeOK
<1>1. IInv => TypeOK
  BY DEF IInv
<1> QED BY <1>1, PoolInvariant, PTL

\* No copy or kernel the GPU still has to run ever loses its staging memory.
THEOREM PendingWorkIsSafe == Spec => []PendingWorkKeepsItsChunks
<1>1. IInv => PendingWorkKeepsItsChunks
  BY DEF IInv, PoolInv, PendingIsGuarded, PendingWorkKeepsItsChunks
<1> QED BY <1>1, PoolInvariant, PTL

\* The host never writes list data into memory a pending operation uses.
THEOREM HostWritesAreSafe == Spec => []FreshRegionsAreIdle
<1>1. IInv => FreshRegionsAreIdle
  BY DEF IInv
<1> QED BY <1>1, PoolInvariant, PTL

\* Every chunk is in one place, and the CHECK of the free list never fails.
THEOREM ChunksAreWellPlaced == Spec => []PlacementInv
<1>1. IInv => PlacementInv
  BY DEF IInv, PoolInv, PlacementInv, ChunksInOnePlace, FreeChunksHaveCurrentCapacity
<1> QED BY <1>1, PoolInvariant, PTL
-----------------------------------------------------------------------------
(* Reclaiming misses no chunk: the events of a list complete in the order  *)
(* of the list.                                                            *)

\* The chunk is the head of the transaction or behind it in the list l.
Held(head, l, c) ==
    \E m, n \in DOMAIN l : m <= n /\ l[m] = head /\ l[n] = c

\* In the queue g of a stream with the list l, only events of the list are pending; while
\* the event of a chunk is pending, so is a later one of every chunk behind it, or close()
\* will still record one.
Ordered(head, l, g) ==
    /\ \A a \in DOMAIN g : g[a].event # NoChunk => g[a].event \in Members(l)
    /\ \A a \in DOMAIN g : \A i, j \in DOMAIN l :
          i < j /\ g[a].event = l[i] =>
              \/ \E b \in DOMAIN g : a < b /\ g[b].event = l[j]
              \/ Held(head, l, l[j])

\* The same for every stream of the pool p, and for the pool of the state.
OrderedIn(p) == \A s \in Streams : Ordered(thead[s], p.list[s], gpu[s])

EventsInOrder == OrderedIn(pool)

\* reclaim takes a prefix of the list without pending events.
LEMMA DropKeepsOrder ==
    ASSUME NEW head, NEW l \in Seq(Chunks), NEW l2 \in Seq(Chunks), NEW g, NEW k \in Nat,
           k <= Len(l), Len(l2) = Len(l) - k,
           \A i \in 1..(Len(l) - k) : l2[i] = l[i + k],
           \A i \in 1..k : l[i] # head /\ \A a \in DOMAIN g : g[a].event # l[i],
           Ordered(head, l, g)
    PROVE  /\ Ordered(head, l2, g)
           /\ \A c : Held(head, l, c) => Held(head, l2, c)
<1>1. /\ Len(l) \in Nat /\ DOMAIN l = 1..Len(l) /\ DOMAIN l2 = 1..(Len(l) - k)
  OBVIOUS
<1>2. ASSUME NEW i \in DOMAIN l2 PROVE i + k \in DOMAIN l /\ l2[i] = l[i + k] /\ i \in Nat
  BY <1>1
<1>3. ASSUME NEW n \in DOMAIN l, n > k
      PROVE  n - k \in DOMAIN l2 /\ l2[n - k] = l[n]
  <2>1. n - k \in 1..(Len(l) - k) /\ (n - k) + k = n
    BY <1>1, <1>3
  <2> QED BY <1>1, <2>1
<1>4. ASSUME NEW c, Held(head, l, c) PROVE Held(head, l2, c)
  <2>1. PICK m, n \in DOMAIN l : m <= n /\ l[m] = head /\ l[n] = c
    BY <1>4 DEF Held
  <2>2. m > k /\ n > k
    BY <1>1, <2>1
  <2>3. m - k \in DOMAIN l2 /\ n - k \in DOMAIN l2 /\ l2[m - k] = head /\ l2[n - k] = c
    BY <1>3, <2>1, <2>2
  <2>4. m - k <= n - k
    BY <1>1, <2>1
  <2> QED BY <2>3, <2>4 DEF Held
<1>5. ASSUME NEW a \in DOMAIN g, g[a].event # NoChunk PROVE g[a].event \in Members(l2)
  <2>1. PICK n \in DOMAIN l : l[n] = g[a].event
    BY <1>5 DEF Ordered, Members
  <2>2. n > k
    BY <1>1, <2>1
  <2> QED BY <1>3, <2>1, <2>2 DEF Members
<1>6. ASSUME NEW a \in DOMAIN g, NEW i \in DOMAIN l2, NEW j \in DOMAIN l2, i < j,
             g[a].event = l2[i]
      PROVE  \/ \E b \in DOMAIN g : a < b /\ g[b].event = l2[j]
             \/ Held(head, l2, l2[j])
  <2>1. /\ i + k \in DOMAIN l /\ l2[i] = l[i + k] /\ j + k \in DOMAIN l /\ l2[j] = l[j + k]
        /\ i + k < j + k
    BY <1>1, <1>2, <1>6
  <2>2. \/ \E b \in DOMAIN g : a < b /\ g[b].event = l[j + k]
        \/ Held(head, l, l[j + k])
    BY <1>6, <2>1 DEF Ordered
  <2> QED BY <1>4, <2>1, <2>2
<1> QED BY <1>4, <1>5, <1>6 DEF Ordered

\* A transaction that carves from the tail: the head is the tail if there was none.
LEMMA HeadKeepsOrder ==
    ASSUME NEW head, NEW head2, NEW l \in Seq(Chunks), NEW g, Ordered(head, l, g),
           head2 = head \/ head = NoChunk
    PROVE  Ordered(head2, l, g)
<1>1. \A m \in DOMAIN l : l[m] # NoChunk
  BY PoolAssumption
<1>2. \A c : Held(head, l, c) => Held(head2, l, c)
  BY <1>1 DEF Held
<1> QED BY <1>2 DEF Ordered

\* The new tail of a list belongs to the transaction.
LEMMA AppendKeepsOrder ==
    ASSUME NEW head, NEW head2, NEW l \in Seq(Chunks), NEW c \in Chunks, NEW g,
           Ordered(head, l, g),
           head # NoChunk => head2 = head /\ head \in Members(l),
           head = NoChunk => head2 = c
    PROVE  Ordered(head2, Append(l, c), g)
<1> DEFINE l2 == Append(l, c)
<1>1. /\ Len(l) \in Nat /\ DOMAIN l = 1..Len(l) /\ DOMAIN l2 = 1..(Len(l) + 1)
      /\ \A i \in DOMAIN l : i \in DOMAIN l2 /\ l2[i] = l[i] /\ i <= Len(l) + 1
      /\ l2[Len(l) + 1] = c /\ Len(l) + 1 \in DOMAIN l2 /\ Len(l) + 1 <= Len(l) + 1
  OBVIOUS
<1> HIDE DEF l2
<1>2. \A m \in DOMAIN l : l[m] # NoChunk
  BY PoolAssumption
<1>3. \A x : Held(head, l, x) => Held(head2, l2, x)
  BY <1>1, <1>2 DEF Held
<1>4. Held(head2, l2, c)
  <2>1. CASE head = NoChunk
    BY <1>1, <2>1 DEF Held
  <2>2. CASE head # NoChunk
    <3>1. PICK m \in DOMAIN l : l[m] = head
      BY <2>2 DEF Members
    <3> QED BY <1>1, <2>2, <3>1 DEF Held
  <2> QED BY <2>1, <2>2
<1>5. ASSUME NEW a \in DOMAIN g, g[a].event # NoChunk PROVE g[a].event \in Members(l2)
  BY <1>1, <1>5 DEF Ordered, Members
<1>6. ASSUME NEW a \in DOMAIN g, NEW i \in DOMAIN l2, NEW j \in DOMAIN l2, i < j,
             g[a].event = l2[i]
      PROVE  \/ \E b \in DOMAIN g : a < b /\ g[b].event = l2[j]
             \/ Held(head2, l2, l2[j])
  <2>1. CASE j = Len(l) + 1
    BY <1>1, <1>4, <2>1
  <2>2. CASE j # Len(l) + 1
    <3>1. j \in DOMAIN l /\ i \in DOMAIN l
      BY <1>1, <1>6, <2>2
    <3>2. \/ \E b \in DOMAIN g : a < b /\ g[b].event = l[j]
          \/ Held(head, l, l[j])
      BY <1>1, <1>6, <3>1 DEF Ordered
    <3> QED BY <1>1, <1>3, <3>1, <3>2
  <2> QED BY <2>1, <2>2
<1>7. Ordered(head2, l2, g)
  BY <1>5, <1>6 DEF Ordered
<1> QED BY <1>7 DEF l2

\* An operation without an event is enqueued.
LEMMA WorkKeepsOrder ==
    ASSUME NEW head, NEW l \in Seq(Chunks), NEW g \in Seq(Op), NEW w \in Op,
           w.event = NoChunk, Ordered(head, l, g)
    PROVE  Ordered(head, l, Append(g, w))
<1> DEFINE g2 == Append(g, w)
<1> HIDE DEF Op
<1>1. /\ Len(g) \in Nat /\ DOMAIN g = 1..Len(g) /\ DOMAIN g2 = 1..(Len(g) + 1)
      /\ \A a \in DOMAIN g : a \in DOMAIN g2 /\ g2[a] = g[a]
      /\ g2[Len(g) + 1] = w
  OBVIOUS
<1>2. \A a \in DOMAIN g2 : a = Len(g) + 1 \/ a \in DOMAIN g
  BY <1>1
<1> HIDE DEF g2
<1>3. \A a \in DOMAIN g2 : g2[a].event # NoChunk => a \in DOMAIN g /\ g2[a] = g[a]
  BY <1>1, <1>2
<1>4. \A m \in DOMAIN l : l[m] # NoChunk
  BY PoolAssumption
<1>5. Ordered(head, l, g2)
  BY <1>1, <1>3, <1>4 DEF Ordered
<1> QED BY <1>5 DEF g2

\* The GPU completes the oldest operation.
LEMMA TailKeepsOrder ==
    ASSUME NEW head, NEW l \in Seq(Chunks), NEW g \in Seq(Op), g # <<>>, Ordered(head, l, g)
    PROVE  Ordered(head, l, Tail(g))
<1> DEFINE g2 == Tail(g)
<1> HIDE DEF Op
<1>1. /\ Len(g) \in Nat \ {0} /\ DOMAIN g = 1..Len(g) /\ DOMAIN g2 = 1..(Len(g) - 1)
      /\ \A a \in DOMAIN g2 : a + 1 \in DOMAIN g /\ g2[a] = g[a + 1]
  OBVIOUS
<1> HIDE DEF g2
<1>2. \A b \in DOMAIN g : b > 1 => b - 1 \in DOMAIN g2 /\ g2[b - 1] = g[b]
  <2> SUFFICES ASSUME NEW b \in DOMAIN g, b > 1
               PROVE  b - 1 \in DOMAIN g2 /\ g2[b - 1] = g[b]
    OBVIOUS
  <2>1. b - 1 \in DOMAIN g2 /\ (b - 1) + 1 = b
    BY <1>1
  <2> QED BY <1>1, <2>1
<1>3. ASSUME NEW a \in DOMAIN g2, NEW i \in DOMAIN l, NEW j \in DOMAIN l, i < j,
             g2[a].event = l[i]
      PROVE  \/ \E b \in DOMAIN g2 : a < b /\ g2[b].event = l[j]
             \/ Held(head, l, l[j])
  <2>1. CASE \E b \in DOMAIN g : a + 1 < b /\ g[b].event = l[j]
    <3>1. PICK b \in DOMAIN g : a + 1 < b /\ g[b].event = l[j]
      BY <2>1
    <3>2. b > 1 /\ a < b - 1
      BY <1>1, <3>1
    <3> QED BY <1>2, <3>1, <3>2
  <2>2. CASE Held(head, l, l[j])
    BY <2>2
  <2> QED BY <1>1, <1>3, <2>1, <2>2 DEF Ordered
<1>4. \A a \in DOMAIN g2 : g2[a].event # NoChunk => g2[a].event \in Members(l)
  BY <1>1 DEF Ordered
<1>5. Ordered(head, l, g2)
  BY <1>3, <1>4 DEF Ordered
<1> QED BY <1>5 DEF g2

\* Where the elements of two sequences are in their concatenation.
LEMMA ConcatFacts ==
    ASSUME NEW g \in Seq(Op), NEW R \in Seq(Op)
    PROVE  /\ DOMAIN (g \o R) = 1..(Len(g) + Len(R))
           /\ \A a \in DOMAIN g : (g \o R)[a] = g[a]
           /\ \A k \in DOMAIN R : (g \o R)[Len(g) + k] = R[k]
<1> HIDE DEF Op
<1>1. /\ DOMAIN g = 1..Len(g) /\ Len(g) \in Nat /\ DOMAIN R = 1..Len(R) /\ Len(R) \in Nat
      /\ g \o R \in Seq(Op) /\ Len(g \o R) = Len(g) + Len(R)
  OBVIOUS
<1>2. \A a \in DOMAIN g : (g \o R)[a] = g[a]
  BY <1>1
<1>3. \A k \in DOMAIN R : (g \o R)[Len(g) + k] = R[k]
  BY <1>1
<1> QED BY <1>1, <1>2, <1>3

\* close() records the events of the transaction in the order of the list.
LEMMA RecordsKeepOrder ==
    ASSUME NEW head, NEW l \in Seq(Chunks), NEW g \in Seq(Op), NEW R \in Seq(Op),
           NEW f \in DOMAIN l, l[f] = head,
           \A i, j \in DOMAIN l : l[i] = l[j] => i = j,
           Len(R) = Len(l) - f + 1,
           \A k \in 1..Len(R) : R[k].event = l[f + k - 1],
           Ordered(head, l, g)
    PROVE  Ordered(NoChunk, l, g \o R)
<1> DEFINE g2 == g \o R
<1> HIDE DEF Op
<1>1. /\ Len(g) \in Nat /\ DOMAIN g = 1..Len(g) /\ Len(R) \in Nat /\ DOMAIN R = 1..Len(R)
      /\ DOMAIN g2 = 1..(Len(g) + Len(R))
      /\ \A a \in DOMAIN g : a \in DOMAIN g2 /\ g2[a] = g[a]
      /\ \A k \in DOMAIN R : g2[Len(g) + k] = R[k] /\ Len(g) + k \in DOMAIN g2
  <2>1. /\ Len(g) \in Nat /\ DOMAIN g = 1..Len(g) /\ Len(R) \in Nat /\ DOMAIN R = 1..Len(R)
    OBVIOUS
  <2>a. /\ DOMAIN (g \o R) = 1..(Len(g) + Len(R))
        /\ \A a \in DOMAIN g : (g \o R)[a] = g[a]
        /\ \A k \in DOMAIN R : (g \o R)[Len(g) + k] = R[k]
    BY g \in Seq(Op), R \in Seq(Op), ConcatFacts, Zenon
  <2>b. g2 = g \o R
    OBVIOUS
  <2>2. /\ DOMAIN g2 = 1..(Len(g) + Len(R))
        /\ \A a \in DOMAIN g : g2[a] = g[a]
        /\ \A k \in DOMAIN R : g2[Len(g) + k] = R[k]
    <3> HIDE DEF g2
    <3> QED BY <2>a, <2>b
  <2> HIDE DEF g2
  <2>3. \A k \in DOMAIN R : Len(g) + k \in DOMAIN g2
    BY <2>1, <2>2
  <2>4. \A a \in DOMAIN g : a \in DOMAIN g2
    BY <2>1, <2>2
  <2> QED BY <2>1, <2>2, <2>3, <2>4
<1> HIDE DEF g2
<1>2. Len(l) \in Nat /\ DOMAIN l = 1..Len(l) /\ f \in 1..Len(l)
  OBVIOUS
<1>3. ASSUME NEW a \in DOMAIN g2, a \notin DOMAIN g
      PROVE  \E k \in DOMAIN R : a = Len(g) + k
  <2>1. a - Len(g) \in DOMAIN R /\ a = Len(g) + (a - Len(g))
    BY <1>1, <1>3
  <2> QED BY <2>1
<1>4. ASSUME NEW k \in DOMAIN R
      PROVE  f + k - 1 \in DOMAIN l /\ R[k].event = l[f + k - 1]
  BY <1>1, <1>2
<1>5. ASSUME NEW n \in DOMAIN l, f <= n
      PROVE  n - f + 1 \in DOMAIN R /\ R[n - f + 1].event = l[n]
  <2>1. n - f + 1 \in 1..Len(R) /\ f + (n - f + 1) - 1 = n
    BY <1>1, <1>2, <1>5
  <2> QED BY <1>1, <2>1
<1>6. ASSUME NEW a \in DOMAIN g2, g2[a].event # NoChunk PROVE g2[a].event \in Members(l)
  <2>1. CASE a \in DOMAIN g
    BY <1>1, <1>6, <2>1 DEF Ordered
  <2>2. CASE a \notin DOMAIN g
    <3>1. PICK k \in DOMAIN R : a = Len(g) + k
      BY <1>3, <2>2
    <3>2. g2[a].event = l[f + k - 1] /\ f + k - 1 \in DOMAIN l
      BY <1>1, <1>4, <3>1
    <3> QED BY <3>2 DEF Members
  <2> QED BY <2>1, <2>2
<1>7. ASSUME NEW a \in DOMAIN g2, NEW i \in DOMAIN l, NEW j \in DOMAIN l, i < j,
             g2[a].event = l[i]
      PROVE  \E b \in DOMAIN g2 : a < b /\ g2[b].event = l[j]
  <2>1. CASE a \in DOMAIN g
    <3>1. \/ \E b \in DOMAIN g : a < b /\ g[b].event = l[j]
          \/ Held(head, l, l[j])
      BY <1>1, <1>7, <2>1 DEF Ordered
    <3>2. CASE \E b \in DOMAIN g : a < b /\ g[b].event = l[j]
      BY <1>1, <3>2
    <3>3. CASE Held(head, l, l[j])
      <4>1. PICK m, n \in DOMAIN l : m <= n /\ l[m] = head /\ l[n] = l[j]
        BY <3>3 DEF Held
      <4>2. m = f /\ n = j /\ f <= j
        BY <4>1
      <4>3. j - f + 1 \in DOMAIN R /\ R[j - f + 1].event = l[j]
        BY <1>5, <4>2
      <4>4. a < Len(g) + (j - f + 1)
        <5>1. Len(g) \in Nat /\ a \in 1..Len(g) /\ j - f + 1 \in 1..Len(R) /\ Len(R) \in Nat
          BY <1>1, <2>1, <4>3
        <5> QED BY <5>1
      <4>5. /\ Len(g) + (j - f + 1) \in DOMAIN g2
            /\ g2[Len(g) + (j - f + 1)].event = l[j]
        BY <1>1, <4>3
      <4> QED BY <4>4, <4>5
    <3> QED BY <3>1, <3>2, <3>3
  <2>2. CASE a \notin DOMAIN g
    <3>1. PICK k \in DOMAIN R : a = Len(g) + k
      BY <1>3, <2>2
    <3>2. g2[a].event = l[f + k - 1] /\ f + k - 1 \in DOMAIN l
      BY <1>1, <1>4, <3>1
    <3>3. f + k - 1 = i
      BY <1>7, <3>2
    <3>4. f <= j /\ k < j - f + 1
      BY <1>1, <1>2, <1>7, <3>1, <3>3
    <3>5. j - f + 1 \in DOMAIN R /\ R[j - f + 1].event = l[j]
      BY <1>5, <3>4
    <3>6. a < Len(g) + (j - f + 1)
      <4>1. Len(g) \in Nat /\ k \in Int /\ j - f + 1 \in Int
        BY <1>1, <1>2
      <4>2. k < j - f + 1 /\ a = Len(g) + k
        BY <3>1, <3>4
      <4> QED BY <4>1, <4>2
    <3>7. /\ Len(g) + (j - f + 1) \in DOMAIN g2
          /\ g2[Len(g) + (j - f + 1)].event = l[j]
      BY <1>1, <3>5
    <3> QED BY <3>6, <3>7
  <2> QED BY <2>1, <2>2
<1>8. Ordered(NoChunk, l, g2)
  BY <1>6, <1>7 DEF Ordered
<1> QED BY <1>8 DEF g2

\* The facts about a well-formed pool that the proofs below use.
LEMMA PoolFacts ==
    ASSUME NEW p \in PoolType, TypeOK, NEW s \in Streams
    PROVE  /\ p.list[s] \in Seq(Chunks) /\ gpu[s] \in Seq(Op)
           /\ Len(p.list[s]) \in Nat /\ DOMAIN p.list[s] = 1..Len(p.list[s])
           /\ \A i \in DOMAIN p.list[s] : p.list[s][i] \in Chunks /\ p.list[s][i] # NoChunk
<1>1. p.list[s] \in Seq(Chunks)
  BY DEF PoolType
<1>2. gpu[s] \in Seq(Op)
  BY DEF TypeOK, Op
<1>3. \A i \in DOMAIN p.list[s] : p.list[s][i] \in Chunks
  BY <1>1
<1>4. Len(p.list[s]) \in Nat /\ DOMAIN p.list[s] = 1..Len(p.list[s])
  BY <1>1
<1> QED BY <1>1, <1>2, <1>3, <1>4, PoolAssumption

\* Searching for a free chunk keeps the order.
LEMMA SearchKeepsOrder ==
    ASSUME IInv, EventsInOrder
    PROVE  OrderedIn(Searched) /\ OrderedIn(Reclaim(pool))
<1> DEFINE q == Reclaim(pool)
<1>1. pool \in PoolType /\ TypeOK
  BY DEF IInv, PoolInv
<1>2. ASSUME NEW s \in Streams PROVE Ordered(thead[s], q.list[s], gpu[s])
  <2> DEFINE k == Taken(pool, s)
             l == pool.list[s]
  <2>1. /\ q \in PoolType /\ k \in 0..Len(l)
        /\ \A i \in 1..k : l[i] # thead[s] /\ EventDone(l[i])
        /\ Len(q.list[s]) = Len(l) - k
        /\ \A i \in 1..(Len(l) - k) : q.list[s][i] = l[i + k]
    BY <1>1, ReclaimShape
  <2>2. l \in Seq(Chunks) /\ q.list[s] \in Seq(Chunks) /\ Len(l) \in Nat
    BY <1>1, <2>1, PoolFacts
  <2>3. \A i \in 1..k : l[i] # thead[s] /\ \A a \in DOMAIN gpu[s] : gpu[s][a].event # l[i]
    BY <2>1 DEF EventDone
  <2>4. Ordered(thead[s], l, gpu[s])
    BY DEF EventsInOrder, OrderedIn
  <2>5. k \in Nat /\ k <= Len(l)
    BY <2>1, <2>2
  <2> HIDE DEF k, l, q
  <2> QED BY <2>1, <2>2, <2>3, <2>4, <2>5, DropKeepsOrder
<1>3. OrderedIn(q)
  BY <1>2 DEF OrderedIn
<1> QED BY <1>3 DEF Searched, EventsInOrder

\* The pool that a carve leaves.
LEMMA CarveShape ==
    ASSUME NEW p \in PoolType, TypeOK, tx \in Streams, p.list[tx] # <<>>, NEW size, Carve(p, size)
    PROVE  /\ pool'.list = p.list /\ pool'.capacity = p.capacity
           /\ Live(pool') = Live(p)
           /\ gpu' = gpu
           /\ \A s \in Streams : s # tx => thead'[s] = thead[s]
           /\ thead'[tx] = IF thead[tx] = NoChunk THEN TailOf(p, tx) ELSE thead[tx]
<1> DEFINE c  == TailOf(p, tx)
           lo == p.chunk[c].available - size
<1>1. /\ p.list \in [Streams -> Seq(Chunks)]
      /\ p.chunk \in [Chunks -> [capacity : Nat, available : Nat]]
      /\ thead \in [Streams -> Chunks \cup {NoChunk}]
  BY DEF PoolType, TypeOK
<1>2. c \in Chunks
  BY <1>1, EmptySeq DEF TailOf
<1>3. /\ pool' = [p EXCEPT !.chunk[c].available = lo]
      /\ thead' = [thead EXCEPT ![tx] = IF thead[tx] = NoChunk THEN c ELSE thead[tx]]
      /\ gpu' = gpu
  BY DEF Carve
<1> HIDE DEF c, lo
<1>4. /\ pool'.list = p.list /\ pool'.capacity = p.capacity
      /\ pool'.chunk = [p.chunk EXCEPT ![c] = [p.chunk[c] EXCEPT !.available = lo]]
  BY <1>3 DEF PoolType
<1>5. \A x \in Chunks : pool'.chunk[x].capacity = p.chunk[x].capacity
  <2>1. [p.chunk[c] EXCEPT !.available = lo].capacity = p.chunk[c].capacity
    BY <1>1, <1>2
  <2> QED BY <1>1, <1>2, <1>4, <2>1
<1>6. Live(pool') = Live(p)
  BY <1>5 DEF Live
<1> QED BY <1>1, <1>3, <1>4, <1>6 DEF c

\* A chunk that is linked is the only one that may become live.
LEMMA LinkShape ==
    ASSUME NEW p \in PoolType, tx \in Streams, NEW c \in Chunks
    PROVE  LET q == Link(p, tx, c)
           IN /\ q.list[tx] = Append(p.list[tx], c) /\ q.capacity = p.capacity
              /\ \A s \in Streams : s # tx => q.list[s] = p.list[s]
              /\ Live(q) \subseteq Live(p) \cup {c}
              /\ q.list[tx] # <<>> /\ TailOf(q, tx) = c
<1> DEFINE q == Link(p, tx, c)
<1>1. /\ p.list \in [Streams -> Seq(Chunks)]
      /\ p.chunk \in [Chunks -> [capacity : Nat, available : Nat]]
  BY DEF PoolType
<1>2. /\ q.list = [p.list EXCEPT ![tx] = Append(p.list[tx], c)] /\ q.capacity = p.capacity
      /\ q.chunk = [p.chunk EXCEPT ![c] = Memory(p.capacity)]
  BY DEF Link, PoolType
<1> HIDE DEF q
<1>3. q.list[tx] = Append(p.list[tx], c) /\ p.list[tx] \in Seq(Chunks)
  BY <1>1, <1>2
<1>4. q.list[tx] # <<>> /\ TailOf(q, tx) = c
  BY <1>3 DEF TailOf
<1>5. Live(q) \subseteq Live(p) \cup {c}
  BY <1>1, <1>2 DEF Live
<1>6. \A s \in Streams : s # tx => q.list[s] = p.list[s]
  BY <1>1, <1>2
<1> QED BY <1>2, <1>3, <1>4, <1>5, <1>6 DEF q

\* Carving a buffer out of the tail keeps the events in order.
LEMMA CarveKeepsEvents ==
    ASSUME NEW p \in PoolType, TypeOK, OrderedIn(p), tx \in Streams, p.list[tx] # <<>>,
           NEW size, Carve(p, size)
    PROVE  EventsInOrder'
<1>1. /\ pool'.list = p.list /\ gpu' = gpu
      /\ \A s \in Streams : s # tx => thead'[s] = thead[s]
      /\ thead'[tx] = IF thead[tx] = NoChunk THEN TailOf(p, tx) ELSE thead[tx]
  BY CarveShape
<1>2. ASSUME NEW s \in Streams PROVE Ordered(thead'[s], p.list[s], gpu[s])
  <2>1. thead'[s] = thead[s] \/ thead[s] = NoChunk
    BY <1>1
  <2>2. p.list[s] \in Seq(Chunks) /\ Ordered(thead[s], p.list[s], gpu[s])
    BY PoolFacts DEF OrderedIn
  <2> QED BY <2>1, <2>2, HeadKeepsOrder
<1> QED BY <1>1, <1>2 DEF EventsInOrder, OrderedIn

\* Linking a chunk at the end of the transaction's list and carving from it keeps the
\* events in order.
LEMMA LinkKeepsEvents ==
    ASSUME NEW p, PoolInv(p), TypeOK, OrderedIn(p), tx \in Streams, NEW c \in Chunks,
           Link(p, tx, c) \in PoolType, NEW size, Carve(Link(p, tx, c), size)
    PROVE  EventsInOrder'
<1> DEFINE q == Link(p, tx, c)
<1>1. p \in PoolType /\ TransactionIsOpen(p)
  BY DEF PoolInv
<1>2. /\ q.list[tx] = Append(p.list[tx], c)
      /\ \A s \in Streams : s # tx => q.list[s] = p.list[s]
      /\ q.list[tx] # <<>> /\ TailOf(q, tx) = c
  BY <1>1, LinkShape
<1> HIDE DEF q
<1>3. /\ pool'.list = q.list /\ gpu' = gpu
      /\ \A s \in Streams : s # tx => thead'[s] = thead[s]
      /\ thead'[tx] = IF thead[tx] = NoChunk THEN c ELSE thead[tx]
  <2>1. q \in PoolType /\ Carve(q, size)
    BY DEF q
  <2> QED BY <1>2, <2>1, CarveShape
<1>4. ASSUME NEW s \in Streams PROVE Ordered(thead'[s], q.list[s], gpu[s])
  <2>1. p.list[s] \in Seq(Chunks) /\ Ordered(thead[s], p.list[s], gpu[s])
    BY <1>1, PoolFacts DEF OrderedIn
  <2>2. CASE s # tx
    BY <1>2, <1>3, <2>1, <2>2
  <2>3. CASE s = tx
    <3>1. thead[tx] # NoChunk => thead[tx] \in Members(p.list[tx])
      BY <1>1 DEF TransactionIsOpen, InTransaction, Members
    <3>2. /\ p.list[tx] \in Seq(Chunks) /\ Ordered(thead[tx], p.list[tx], gpu[tx])
          /\ thead[tx] # NoChunk => thead'[tx] = thead[tx]
          /\ thead[tx] = NoChunk => thead'[tx] = c
      BY <1>3, <2>1, <2>3
    <3>3. Ordered(thead'[tx], Append(p.list[tx], c), gpu[tx])
      BY <3>1, <3>2, AppendKeepsOrder, Zenon
    <3> QED BY <1>2, <2>3, <3>3, Zenon
  <2> QED BY <2>2, <2>3
<1> QED BY <1>3, <1>4 DEF EventsInOrder, OrderedIn

\* close() records in list order.
LEMMA RecordsAreInOrder ==
    ASSUME NEW p, PoolInv(p), TypeOK, tx \in Streams, thead[tx] # NoChunk
    PROVE  LET l == p.list[tx]
               R == RecordsOf(p, tx)
           IN  \E f \in DOMAIN l : /\ l[f] = thead[tx]
                                   /\ Len(R) = Len(l) - f + 1
                                   /\ \A k \in 1..Len(R) : R[k].event = l[f + k - 1]
<1> DEFINE l == p.list[tx]
           first == CHOOSE i \in DOMAIN l : l[i] = thead[tx]
           R == [i \in 1..(Len(l) - first + 1) |-> Record(l[first + i - 1])]
<1>1. p \in PoolType /\ TransactionIsOpen(p)
  BY DEF PoolInv
<1>2. RecordsOf(p, tx) = R
  BY Zenon DEF RecordsOf
<1>3. \E i \in DOMAIN l : l[i] = thead[tx]
  BY <1>1 DEF TransactionIsOpen, InTransaction
<1>4. first \in DOMAIN l /\ l[first] = thead[tx]
  BY <1>3
<1>5. Len(l) \in Nat /\ DOMAIN l = 1..Len(l)
  BY <1>1, PoolFacts
<1> HIDE DEF first, l
<1>6. Len(l) - first + 1 \in Nat
  BY <1>4, <1>5
<1>7. Len(R) = Len(l) - first + 1 /\ \A k \in 1..(Len(l) - first + 1) : R[k].event = l[first + k - 1]
  BY <1>6 DEF Record
<1> HIDE DEF R
<1>8. \E f \in DOMAIN l : /\ l[f] = thead[tx]
                          /\ Len(R) = Len(l) - f + 1
                          /\ \A k \in 1..Len(R) : R[k].event = l[f + k - 1]
  BY <1>4, <1>7
<1> QED BY <1>2, <1>8 DEF l

\* Closing a transaction records its events in list order, so the order is kept.
LEMMA CloseKeepsEvents ==
    ASSUME NEW p, PoolInv(p), TypeOK, OrderedIn(p), tx \in Streams, CloseWith(p)
    PROVE  EventsInOrder'
<1> DEFINE R == RecordsOf(p, tx)
<1>1. p \in PoolType /\ InOnePlace(p) /\ TransactionIsOpen(p)
  BY DEF PoolInv
<1>2. gpu \in [Streams -> Seq(Op)] /\ thead \in [Streams -> Chunks \cup {NoChunk}]
  BY DEF TypeOK, Op
<1>3. /\ gpu' = [gpu EXCEPT ![tx] = gpu[tx] \o R] /\ thead' = [thead EXCEPT ![tx] = NoChunk]
      /\ pool' = p
  BY DEF CloseWith
<1>4. R \in Seq(Op)
  BY RecordsShape
<1> HIDE DEF R
<1>5. /\ gpu'[tx] = gpu[tx] \o R /\ thead'[tx] = NoChunk
      /\ \A s \in Streams : s # tx => gpu'[s] = gpu[s] /\ thead'[s] = thead[s]
  BY <1>2, <1>3
<1>6. ASSUME NEW s \in Streams PROVE Ordered(thead'[s], p.list[s], gpu'[s])
  <2>1. /\ p.list[s] \in Seq(Chunks) /\ gpu[s] \in Seq(Op)
        /\ Ordered(thead[s], p.list[s], gpu[s])
    BY <1>1, PoolFacts DEF OrderedIn
  <2>2. CASE s # tx
    BY <1>5, <2>1, <2>2
  <2>3. CASE s = tx /\ thead[tx] = NoChunk
    <3>1. R = <<>>
      BY <2>3 DEF R, RecordsOf
    <3>2. gpu'[s] = gpu[s]
      <4> HIDE DEF Op
      <4> QED BY <1>5, <2>1, <2>3, <3>1
    <3> QED BY <1>5, <2>1, <2>3, <3>2
  <2>4. CASE s = tx /\ thead[tx] # NoChunk
    <3> DEFINE l == p.list[tx]
    <3>1. PICK f \in DOMAIN l : /\ l[f] = thead[tx]
                                /\ Len(R) = Len(l) - f + 1
                                /\ \A k \in 1..Len(R) : R[k].event = l[f + k - 1]
      BY <2>4, RecordsAreInOrder DEF R
    <3>2. \A i, j \in DOMAIN l : l[i] = l[j] => i = j
      BY <1>1 DEF InOnePlace
    <3>3. l \in Seq(Chunks) /\ gpu[tx] \in Seq(Op) /\ Ordered(thead[tx], l, gpu[tx])
      BY <2>1, <2>4
    <3> HIDE DEF l, Op
    <3>4. Ordered(NoChunk, l, gpu[tx] \o R)
      BY <1>4, <3>1, <3>2, <3>3, RecordsKeepOrder
    <3> QED BY <1>5, <2>4, <3>4 DEF l
  <2> QED BY <2>2, <2>3, <2>4
<1> QED BY <1>3, <1>6 DEF EventsInOrder, OrderedIn

\* Every step keeps the events in order.
LEMMA NextKeepsEvents == IInv /\ EventsInOrder /\ [Next]_vars => EventsInOrder'
<1> SUFFICES ASSUME IInv, EventsInOrder, [Next]_vars PROVE EventsInOrder'
  OBVIOUS
<1>0. TypeOK /\ PoolInv(pool) /\ pool \in PoolType /\ OrderedIn(pool)
  BY DEF IInv, PoolInv, EventsInOrder
<1>1. ASSUME tx # NoTx PROVE tx \in Streams
  BY <1>0, <1>1 DEF TypeOK
<1>2. OrderedIn(Searched) /\ PoolInv(Searched)
  BY SearchKeepsOrder, SearchKeepsInv
<1>3. ASSUME NEW p, PoolInv(p), OrderedIn(p), tx \in Streams, NEW c \in Chunks, NEW size,
             c \in p.free \/ c \notin Live(p), Carve(Link(p, tx, c), size)
      PROVE  EventsInOrder'
  <2>1. Link(p, tx, c) \in PoolType
    BY <1>0, <1>3, LinkKeepsInv DEF PoolInv
  <2> QED BY <1>0, <1>3, <2>1, LinkKeepsEvents
<1>4. ASSUME NEW capacity \in Nat \ {0}
      PROVE  PoolInv(Grow(pool, capacity)) /\ OrderedIn(Grow(pool, capacity))
  <2>1. Grow(pool, capacity).list = pool.list
    BY <1>0 DEF Grow, PoolType
  <2> QED BY <1>0, <2>1, GrowKeepsInv DEF OrderedIn
<1>5. ASSUME NEW size \in Sizes, AllocateFromTail(size) PROVE EventsInOrder'
  <2>1. tx \in Streams /\ pool.list[tx] # <<>> /\ Carve(pool, AlignUp(size))
    BY <1>1, <1>5 DEF AllocateFromTail, MayAllocate, HasRoom
  <2> QED BY <2>1, <1>0, CarveKeepsEvents
<1>6. ASSUME NEW size \in Sizes, AllocateFromFreelist(size) PROVE EventsInOrder'
  <2>1. tx \in Streams
    BY <1>1, <1>6 DEF AllocateFromFreelist, NeedsChunk, MayAllocate
  <2>2. PICK c \in Searched.free : Carve(Link(Searched, tx, c), AlignUp(size))
    BY <1>6 DEF AllocateFromFreelist
  <2>3. c \in Chunks
    BY <1>2 DEF PoolInv, PoolType
  <2> QED BY <2>1, <2>2, <2>3, <1>2, <1>3
<1>7. ASSUME NEW size \in Sizes, AllocateNew(size) PROVE EventsInOrder'
  <2>1. tx \in Streams
    BY <1>1, <1>7 DEF AllocateNew, NeedsChunk, MayAllocate
  <2>2. PICK c \in Chunks \ Live(Searched) : Carve(Link(Searched, tx, c), AlignUp(size))
    BY <1>7 DEF AllocateNew
  <2> QED BY <2>1, <2>2, <1>2, <1>3
<1>8. ASSUME NEW size \in Sizes, AllocateGrown(size) PROVE EventsInOrder'
  <2>1. tx \in Streams
    BY <1>1, <1>8 DEF AllocateGrown, NeedsChunk, MayAllocate
  <2>2. PICK capacity \in Grown(pool.capacity, AlignUp(size)) :
          \E c \in Chunks \ Live(Grow(pool, capacity)) :
             Carve(Link(Grow(pool, capacity), tx, c), AlignUp(size))
    BY <1>8 DEF AllocateGrown
  <2>3. capacity \in Nat \ {0}
    BY <2>2, GrownIsNat
  <2> QED BY <2>1, <2>2, <2>3, <1>3, <1>4
<1>9. ASSUME NEW size \in Sizes, AllocationFails(size) PROVE EventsInOrder'
  <2>1. tx \in Streams
    BY <1>1, <1>9 DEF AllocationFails, NeedsChunk, MayAllocate
  <2>2. \/ CloseWith(pool)
        \/ CloseWith(Searched)
        \/ \E capacity \in Grown(pool.capacity, AlignUp(size)) : CloseWith(Grow(pool, capacity))
    BY <1>9 DEF AllocationFails
  <2>3. ASSUME NEW capacity \in Grown(pool.capacity, AlignUp(size)), CloseWith(Grow(pool, capacity))
        PROVE  EventsInOrder'
    <3>1. capacity \in Nat \ {0}
      BY GrownIsNat
    <3> QED BY <2>1, <2>3, <3>1, <1>0, <1>4, CloseKeepsEvents
  <2>4. CASE CloseWith(pool)
    BY <2>1, <2>4, <1>0, CloseKeepsEvents
  <2>5. CASE CloseWith(Searched)
    BY <2>1, <2>5, <1>0, <1>2, CloseKeepsEvents
  <2> QED BY <2>2, <2>3, <2>4, <2>5
<1>10. CASE Close
  BY <1>0, <1>1, <1>10, CloseKeepsEvents DEF Close
<1>11. ASSUME tx \in Streams, NEW regions \in SUBSET Region,
              gpu' = [gpu EXCEPT ![tx] = Append(@, Work(regions))],
              pool' = pool, thead' = thead
       PROVE  EventsInOrder'
  <2>1. Work(regions) \in Op /\ Work(regions).event = NoChunk
    BY DEF Work, Op
  <2>2. gpu \in [Streams -> Seq(Op)]
    BY <1>0 DEF TypeOK, Op
  <2> HIDE DEF Op
  <2>3. /\ gpu'[tx] = Append(gpu[tx], Work(regions))
        /\ \A s \in Streams : s # tx => gpu'[s] = gpu[s]
    BY <1>11, <2>2
  <2>4. ASSUME NEW s \in Streams PROVE Ordered(thead[s], pool.list[s], gpu'[s])
    <3>1. /\ pool.list[s] \in Seq(Chunks) /\ gpu[s] \in Seq(Op)
          /\ Ordered(thead[s], pool.list[s], gpu[s])
      BY <1>0, PoolFacts DEF OrderedIn
    <3>2. Ordered(thead[s], pool.list[s], Append(gpu[s], Work(regions)))
      BY <2>1, <3>1, WorkKeepsOrder
    <3> QED BY <2>3, <3>1, <3>2
  <2> QED BY <1>11, <2>4 DEF EventsInOrder, OrderedIn
<1>12. CASE Copy
  <2>1. tx \in Streams /\ fresh \in SUBSET Region
    BY <1>0, <1>1, <1>12 DEF Copy, TypeOK
  <2> QED BY <2>1, <1>11, <1>12 DEF Copy
<1>13. CASE Launch
  <2>1. tx \in Streams /\ staged \in SUBSET Region
    BY <1>0, <1>1, <1>13 DEF Launch, TypeOK
  <2> QED BY <2>1, <1>11, <1>13 DEF Launch
<1>14. ASSUME NEW u \in Streams, GpuStep(u) PROVE EventsInOrder'
  <2>1. gpu \in [Streams -> Seq(Op)]
    BY <1>0 DEF TypeOK, Op
  <2>2. /\ gpu[u] # <<>> /\ gpu'[u] = Tail(gpu[u]) /\ pool' = pool /\ thead' = thead
        /\ \A s \in Streams : s # u => gpu'[s] = gpu[s]
    BY <1>14, <2>1 DEF GpuStep
  <2>3. ASSUME NEW s \in Streams PROVE Ordered(thead[s], pool.list[s], gpu'[s])
    <3>1. /\ pool.list[s] \in Seq(Chunks) /\ gpu[s] \in Seq(Op)
          /\ Ordered(thead[s], pool.list[s], gpu[s])
      BY <1>0, PoolFacts DEF OrderedIn
    <3> QED BY <2>2, <3>1, TailKeepsOrder
  <2> QED BY <2>2, <2>3 DEF EventsInOrder, OrderedIn
<1>15. ASSUME NEW u \in Streams, Open(u) PROVE EventsInOrder'
  <2>1. /\ InOnePlace(pool) /\ TransactionIsOpen(pool) /\ tx = NoTx /\ NoTx \notin Streams
    BY <1>0, <1>15, PoolAssumption DEF PoolInv, Open
  <2>2. \A s \in Streams : thead[s] = NoChunk
    BY <2>1 DEF TransactionIsOpen
  <2>3. gpu' = gpu /\ \A s \in Streams : thead'[s] = thead[s]
    BY <1>0, <1>15, <2>2 DEF Open, TypeOK
  <2>4. (IF u \in pool.known THEN pool.list[u] ELSE <<>>) = pool.list[u]
    BY <2>1 DEF InOnePlace
  <2>5. pool' = [pool EXCEPT !.known = @ \cup {u},
                             !.list[u] = IF u \in pool.known THEN @ ELSE <<>>]
    BY <1>15 DEF Open
  <2>6. \A s \in Streams : pool'.list[s] = pool.list[s]
    BY <1>0, <2>4, <2>5 DEF PoolType
  <2> QED BY <1>0, <2>3, <2>6 DEF EventsInOrder, OrderedIn
<1>16. CASE UNCHANGED vars
  BY <1>0, <1>16 DEF vars, EventsInOrder, OrderedIn
<1> QED BY <1>5, <1>6, <1>7, <1>8, <1>9, <1>10, <1>12, <1>13, <1>14, <1>15, <1>16 DEF Next

\* After reclaim, a chunk in a list is in use: its event is pending or the transaction
\* holds it.
LEMMA ReclaimMissesNone ==
    ASSUME IInv, EventsInOrder, NEW s \in Streams, NEW i \in DOMAIN Reclaim(pool).list[s]
    PROVE  \/ ~EventDone(Reclaim(pool).list[s][i])
           \/ s = tx /\ \E j \in 1..i : Reclaim(pool).list[s][j] = thead[s]
<1> DEFINE q == Reclaim(pool)
           l == q.list[s]
           k == Taken(pool, s)
<1>1. TypeOK /\ PoolInv(pool) /\ pool \in PoolType /\ InOnePlace(pool) /\ TransactionIsOpen(pool)
  BY DEF IInv, PoolInv
<1>2. PoolInv(q) /\ q \in PoolType /\ InOnePlace(q) /\ OrderedIn(q)
  BY <1>1, ReclaimKeepsInv, SearchKeepsOrder DEF PoolInv
<1>3. /\ Len(l) \in Nat /\ DOMAIN l = 1..Len(l)
      /\ \A n \in DOMAIN l : l[n] \in Chunks /\ l[n] # NoChunk
  BY <1>1, <1>2, PoolFacts
<1>4. i \in 1..Len(l) /\ 1 \in DOMAIN l /\ 1 \in 1..i
  BY <1>3
<1>5. /\ k \in 0..Len(pool.list[s]) /\ Len(l) = Len(pool.list[s]) - k
      /\ \A n \in 1..(Len(pool.list[s]) - k) : l[n] = pool.list[s][n + k]
  BY <1>1, ReclaimShape
<1>6. Len(pool.list[s]) \in Nat
  BY <1>1, PoolFacts
<1>7. k < Len(pool.list[s]) /\ l[1] = pool.list[s][k + 1]
  <2>1. k \in Nat /\ 1 \in 1..(Len(pool.list[s]) - k) /\ 1 + k = k + 1
    BY <1>3, <1>4, <1>5, <1>6
  <2> QED BY <1>4, <1>5, <1>6, <2>1
<1>8. s \in pool.known
  <2>1. pool.list[s] # <<>>
    BY <1>5, <1>6, <1>7
  <2> QED BY <1>1, <2>1 DEF InOnePlace
<1>9. l[1] = thead[s] \/ ~EventDone(l[1])
  <2>1. k = Polled(pool, s)
    BY <1>8 DEF Taken
  <2> QED BY <1>1, <1>7, <2>1, PolledPrefix
<1>10. thead[s] \in Chunks => s = tx
  BY <1>1, PoolAssumption DEF TransactionIsOpen
<1> HIDE DEF q, k
<1>11. CASE l[1] = thead[s]
  <2>1. s = tx
    BY <1>3, <1>4, <1>10, <1>11
  <2> QED BY <1>4, <1>11, <2>1 DEF q
<1>12. CASE ~EventDone(l[1])
  <2>0. PICK u \in Streams : \E n \in DOMAIN gpu[u] : gpu[u][n].event = l[1]
    BY <1>12 DEF EventDone
  <2>1. PICK a \in DOMAIN gpu[u] : gpu[u][a].event = l[1]
    BY <2>0
  <2>2. l[1] \in Members(q.list[u])
    BY <1>2, <1>3, <1>4, <2>1 DEF OrderedIn, Ordered
  <2>3. u = s
    BY <1>2, <1>4, <2>2 DEF Members, InOnePlace
  <2>4. CASE i = 1
    BY <1>12, <2>4 DEF q
  <2>5. CASE i # 1
    <3>1. i \in DOMAIN l /\ 1 < i
      BY <1>3, <1>4, <2>5
    <3>2. Ordered(thead[s], l, gpu[s]) /\ a \in DOMAIN gpu[s] /\ gpu[s][a].event = l[1]
      BY <1>2, <2>1, <2>3 DEF OrderedIn
    <3> HIDE DEF l
    <3>3. \/ \E b \in DOMAIN gpu[s] : a < b /\ gpu[s][b].event = l[i]
          \/ Held(thead[s], l, l[i])
      BY <1>4, <3>1, <3>2 DEF Ordered
    <3>4. CASE \E b \in DOMAIN gpu[s] : a < b /\ gpu[s][b].event = l[i]
      <4>1. ~EventDone(l[i])
        BY <3>4 DEF EventDone
      <4> QED BY <4>1 DEF l, q
    <3>5. CASE Held(thead[s], l, l[i])
      <4>1. PICK m, n \in DOMAIN l : m <= n /\ l[m] = thead[s] /\ l[n] = l[i]
        BY <3>5 DEF Held
      <4>2. n = i
        BY <1>2, <3>1, <4>1 DEF InOnePlace, l
      <4>3. m \in 1..i /\ l[m] = thead[s]
        BY <1>3, <3>1, <4>1, <4>2
      <4>4. s = tx
        BY <1>3, <1>10, <4>1
      <4> QED BY <4>3, <4>4 DEF l, q
    <3> QED BY <3>3, <3>4, <3>5
  <2> QED BY <2>4, <2>5
<1> QED BY <1>9, <1>11, <1>12

\* reclaim brings no chunk to life.
LEMMA SearchedIsLive ==
    ASSUME IInv
    PROVE  Live(Searched) \subseteq Live(pool) /\ Searched.free \subseteq Live(pool)
<1>1. pool \in PoolType /\ InOnePlace(pool)
  BY DEF IInv, PoolInv
<1>2. Live(Reclaim(pool)) \subseteq Live(pool)
  <2>1. \A c \in Chunks : Reclaim(pool).chunk[c] = pool.chunk[c]
                          \/ Reclaim(pool).chunk[c] = Memory(0)
    BY <1>1, ReclaimShape
  <2>2. Memory(0).capacity = 0
    BY DEF Memory
  <2> QED BY <2>1, <2>2 DEF Live
<1>3. Live(Searched) \subseteq Live(pool)
  BY <1>2 DEF Searched
<1>4. PoolInv(Searched)
  BY SearchKeepsInv
<1> QED BY <1>3, <1>4 DEF PoolInv, InOnePlace

\* Obtaining chunk c leaves no idle memory: the free list was empty and every other chunk of
\* a list has a pending event or belongs to the open transaction.
Busy(c) ==
    pool'.capacity = pool.capacity =>
        /\ pool.free = {}
        /\ \A s \in Streams : \A i \in DOMAIN pool'.list[s] :
              \/ pool'.list[s][i] = c
              \/ ~EventDone(pool'.list[s][i])
              \/ s = tx /\ \E j \in 1..i : pool'.list[s][j] = thead[s]

\* A step that obtains a chunk from the driver leaves every other chunk busy.
LEMMA NewChunkStep ==
    ASSUME IInv, EventsInOrder, Next, NEW c \in Live(pool') \ Live(pool)
    PROVE  Busy(c)
<1>0. TypeOK /\ PoolInv(pool) /\ pool \in PoolType /\ InOnePlace(pool)
  BY DEF IInv, PoolInv
<1>1. ASSUME tx # NoTx PROVE tx \in Streams
  BY <1>0, <1>1 DEF TypeOK
<1>2. PoolInv(Searched) /\ Searched \in PoolType
  BY SearchKeepsInv DEF PoolInv
<1>3. ASSUME NEW p, PoolInv(p), tx \in Streams, NEW x \in Chunks, NEW size,
             x \in p.free \/ x \notin Live(p), Carve(Link(p, tx, x), size)
      PROVE  /\ Live(pool') \subseteq Live(p) \cup {x} /\ pool'.capacity = p.capacity
             /\ pool'.list[tx] = Append(p.list[tx], x)
             /\ \A s \in Streams : s # tx => pool'.list[s] = p.list[s]
  <2>1. Link(p, tx, x) \in PoolType /\ p \in PoolType
    BY <1>0, <1>3, LinkKeepsInv DEF PoolInv
  <2> DEFINE q == Link(p, tx, x)
  <2>2. /\ q.list[tx] = Append(p.list[tx], x) /\ q.capacity = p.capacity
        /\ \A s \in Streams : s # tx => q.list[s] = p.list[s]
        /\ Live(q) \subseteq Live(p) \cup {x}
        /\ q.list[tx] # <<>>
    BY <1>3, <2>1, LinkShape
  <2>3. q \in PoolType /\ Carve(q, size)
    BY <1>3, <2>1
  <2> HIDE DEF q
  <2>4. pool'.list = q.list /\ pool'.capacity = q.capacity /\ Live(pool') = Live(q)
    BY <1>0, <1>3, <2>2, <2>3, CarveShape
  <2> QED BY <2>2, <2>4
<1>4. ASSUME NEW capacity PROVE Live(Grow(pool, capacity)) \subseteq Live(pool)
  <2>1. Grow(pool, capacity).chunk = Deleted(pool, pool.free)
    BY <1>0 DEF Grow, PoolType
  <2>2. Memory(0).capacity = 0
    BY DEF Memory
  <2> QED BY <2>1, <2>2 DEF Live, Deleted
<1>5. ASSUME NEW size \in Sizes, AllocateFromTail(size) PROVE FALSE
  <2>1. tx \in Streams /\ pool.list[tx] # <<>> /\ Carve(pool, AlignUp(size))
    BY <1>1, <1>5 DEF AllocateFromTail, MayAllocate, HasRoom
  <2>2. Live(pool') = Live(pool)
    BY <2>1, <1>0, CarveShape
  <2> QED BY <2>2
<1>6. ASSUME NEW size \in Sizes, AllocateFromFreelist(size) PROVE FALSE
  <2>1. tx \in Streams
    BY <1>1, <1>6 DEF AllocateFromFreelist, NeedsChunk, MayAllocate
  <2>2. PICK x \in Searched.free : Carve(Link(Searched, tx, x), AlignUp(size))
    BY <1>6 DEF AllocateFromFreelist
  <2>3. x \in Chunks
    BY <1>2 DEF PoolType
  <2>4. Live(pool') \subseteq Live(Searched) \cup {x}
    BY <2>1, <2>2, <2>3, <1>2, <1>3
  <2> QED BY <2>2, <2>4, SearchedIsLive
<1>7. ASSUME NEW size \in Sizes, AllocateNew(size) PROVE Busy(c)
  <2>1. tx \in Streams /\ Searched.free = {}
    BY <1>1, <1>7 DEF AllocateNew, NeedsChunk, MayAllocate
  <2>2. pool.free = {} /\ Searched = Reclaim(pool)
    BY <2>1 DEF Searched
  <2>3. PICK x \in Chunks \ Live(Searched) : Carve(Link(Searched, tx, x), AlignUp(size))
    BY <1>7 DEF AllocateNew
  <2>4. /\ Live(pool') \subseteq Live(Searched) \cup {x}
        /\ pool'.list[tx] = Append(Searched.list[tx], x)
        /\ \A s \in Streams : s # tx => pool'.list[s] = Searched.list[s]
    BY <2>1, <2>3, <1>2, <1>3
  <2>5. c = x
    BY <2>4, SearchedIsLive
  <2>6. ASSUME NEW s \in Streams, NEW i \in DOMAIN pool'.list[s]
        PROVE  \/ pool'.list[s][i] = c
               \/ ~EventDone(pool'.list[s][i])
               \/ s = tx /\ \E j \in 1..i : pool'.list[s][j] = thead[s]
    <3> DEFINE l == Searched.list[s]
    <3>1. l \in Seq(Chunks) /\ Len(l) \in Nat /\ DOMAIN l = 1..Len(l)
      BY <1>0, <1>2, PoolFacts
    <3>2. /\ pool'.list[s][i] = c \/ i \in DOMAIN l
          /\ \A j \in DOMAIN l : pool'.list[s][j] = l[j]
      <4>1. CASE s # tx
        BY <2>4, <4>1
      <4>2. CASE s = tx
        <5>1. pool'.list[s] = Append(l, c)
          BY <2>4, <2>5, <4>2
        <5> HIDE DEF l
        <5> QED BY <3>1, <5>1
      <4> QED BY <4>1, <4>2
    <3>3. CASE i \in DOMAIN l
      <4>1. \/ ~EventDone(l[i])
            \/ s = tx /\ \E j \in 1..i : l[j] = thead[s]
        BY <2>2, <3>3, ReclaimMissesNone
      <4> HIDE DEF l
      <4>2. \A j \in 1..i : j \in DOMAIN l
        BY <3>1, <3>3
      <4> QED BY <3>2, <3>3, <4>1, <4>2
    <3> QED BY <3>2, <3>3
  <2> QED BY <2>2, <2>6 DEF Busy
<1>8. ASSUME NEW size \in Sizes, AllocateGrown(size) PROVE Busy(c)
  <2>1. tx \in Streams
    BY <1>1, <1>8 DEF AllocateGrown, NeedsChunk, MayAllocate
  <2>2. PICK capacity \in Grown(pool.capacity, AlignUp(size)) :
          \E x \in Chunks \ Live(Grow(pool, capacity)) :
             Carve(Link(Grow(pool, capacity), tx, x), AlignUp(size))
    BY <1>8 DEF AllocateGrown
  <2>3. capacity \in Nat \ {0} /\ Roomy(capacity, AlignUp(size))
    BY <2>2, GrownIsNat DEF Grown
  <2>4. PoolInv(Grow(pool, capacity)) /\ Grow(pool, capacity).capacity = capacity
    BY <1>0, <2>3, GrowKeepsInv DEF Grow, PoolType
  <2>5. pool'.capacity = capacity
    BY <2>1, <2>2, <2>4, <1>3
  <2>6. capacity # pool.capacity
    BY <2>3, <1>8 DEF AllocateGrown
  <2> QED BY <2>5, <2>6 DEF Busy
<1>9. ASSUME NEW size \in Sizes, AllocationFails(size) PROVE FALSE
  <2>1. \/ pool' = pool
        \/ pool' = Searched
        \/ \E capacity \in Grown(pool.capacity, AlignUp(size)) : pool' = Grow(pool, capacity)
    BY <1>9 DEF AllocationFails, CloseWith
  <2> QED BY <2>1, <1>4, SearchedIsLive
<1>10. ASSUME Close \/ Copy \/ Launch \/ \E s \in Streams : GpuStep(s) PROVE FALSE
  <2>1. pool' = pool
    BY <1>10 DEF Close, CloseWith, Copy, Launch, GpuStep
  <2> QED BY <2>1
<1>11. ASSUME NEW u \in Streams, Open(u) PROVE FALSE
  <2>1. pool'.chunk = pool.chunk
    BY <1>0, <1>11 DEF Open, PoolType
  <2> QED BY <2>1 DEF Live
<1> QED BY <1>5, <1>6, <1>7, <1>8, <1>9, <1>10, <1>11 DEF Next

\* Memory is requested from the driver only when no completed chunk is left: poll_events
\* looks at the heads of the lists only, and misses none behind them.
THEOREM ReclaimIsComplete == Spec => NewChunkOnlyWhenBusy
<1>1. Init => EventsInOrder
  <2> SUFFICES ASSUME Init PROVE EventsInOrder
    OBVIOUS
  <2>1. \A s \in Streams : DOMAIN gpu[s] = {}
    BY DEF Init
  <2> QED BY <2>1 DEF EventsInOrder, OrderedIn, Ordered
<1>2. IInv /\ EventsInOrder /\ [Next]_vars =>
        [\A c \in Live(pool') \ Live(pool) : Busy(c)]_vars
  BY NewChunkStep
<1>3. [\A c \in Live(pool') \ Live(pool) : Busy(c)]_vars =>
        [\A c \in Live(pool') \ Live(pool) :
           pool'.capacity = pool.capacity =>
            /\ pool.free = {}
            /\ \A s \in Streams : \A i \in DOMAIN pool'.list[s] :
                  \/ pool'.list[s][i] = c
                  \/ ~EventDone(pool'.list[s][i])
                  \/ s = tx /\ \E j \in 1..i : pool'.list[s][j] = thead[s]]_vars
  BY DEF Busy
<1> QED BY <1>1, <1>2, <1>3, PoolInvariant, NextKeepsEvents, PTL DEF Spec, NewChunkOnlyWhenBusy
====
