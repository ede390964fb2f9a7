-------------------------- MODULE TokenOrderProofs --------------------------
(***************************************************************************)
(* Proofs about TokenOrder, for every well-nested kernel, any alias groups *)
(* and any number of iterations: the tokens order every conflict, acquire  *)
(* and release of a run, and the stores of a parallelised instruction do   *)
(* not wait for each other.                                                *)
(***************************************************************************)
EXTENDS TokenOrder, FiniteSetTheorems, SequenceTheorems, NaturalsInduction, WellFoundedInduction, TLAPS

-----------------------------------------------------------------------------
(* The inductive invariant.                                                *)

TokensUpTo(n) ==
  [lastOp : [AliasSets -> SUBSET (1..n)],
   lastStore : [AliasSets -> SUBSET (1..n)],
   acquire : SUBSET (1..n)]

\* The tokens t stand for every one of the first n operations of the trace tr.
Covered(p, tr, t, n) ==
  \A i \in 1..n :
    LET op == p[tr[i].at]
    IN /\ i \in t.lastOp[op.alias]
       /\ Writes(op) => i \in t.lastStore[op.alias]
       /\ HasAcquire(op) => i \in t.acquire

\* The blocks around the point before instruction n.
Enclosing(p, n) ==
  {o \in 1..Len(p) : Opens(p[o]) /\ o < n /\ n <= EndOf(p, o)}

EntryType == [at : Nat, activation : Nat \X Nat]

TraceInv ==
  /\ trace \in Seq(EntryType)
  /\ \A i \in 1..Len(trace) :
       /\ trace[i].at \in 1..Len(prog)
       /\ IsAccess(prog[trace[i].at])
       /\ trace[i].activation[2] < i

\* The frames are the blocks around instruction n, outermost first.
Matches(p, n, fs) ==
  /\ \A f \in 1..Len(fs) : fs[f].at \in Enclosing(p, n)
  /\ \A o \in Enclosing(p, n) : \E f \in 1..Len(fs) : fs[f].at = o
  /\ \A f, g \in 1..Len(fs) : f < g => fs[f].at < fs[g].at

\* A key the effects of the block do not name has the token it had before the block:
\* _get_block_memory_effects misses nothing.
Unaffected(p, t, fr) ==
  /\ \A A \in AliasSets : ~Touches(p, fr.at, A) => t.lastOp[A] = fr.outer.lastOp[A]
  /\ \A A \in AliasSets : ~StoresTo(p, fr.at, A) => t.lastStore[A] = fr.outer.lastStore[A]
  /\ ~Acquires(p, fr.at) => t.acquire = fr.outer.acquire

\* What was executed since the block was entered is of the block, and what is directly
\* in a loop belongs to its activation.
Since(p, tr, fr) ==
  \A i \in (fr.entered + 1)..Len(tr) :
    /\ tr[i].at \in Body(p, fr.at)
    /\ (p[fr.at].kind # "if" /\ tr[i].at \in Direct(p, fr.at)) =>
         tr[i].activation = <<fr.at, fr.entered>>

FrameInv(p, t, tr, fr) ==
  /\ fr.trips \in 1..MaxTrips
  /\ fr.entered <= Len(tr)
  /\ fr.outer \in TokensUpTo(fr.entered)
  /\ Covered(p, tr, fr.outer, fr.entered)
  /\ Unaffected(p, t, fr)
  /\ Since(p, tr, fr)

FrameType ==
  [at : Nat, outer : UNION {TokensUpTo(n) : n \in Nat}, trips : Nat, entered : Nat]

FramesInv ==
  /\ frames \in Seq(FrameType)
  /\ Matches(prog, pc, frames)
  /\ \A f \in 1..Len(frames) : FrameInv(prog, tok, trace, frames[f])

RunInv ==
  /\ prog \in Kernels
  /\ pc \in 1..(Len(prog) + 1)
  /\ tok \in TokensUpTo(Len(trace))
  /\ Covered(prog, trace, tok, Len(trace))
  /\ TraceInv
  /\ FramesInv

\* What is claimed of the operation executed last.
OrderInv ==
  /\ after \subseteq 1..Len(trace)
  /\ ConflictsOrdered
  /\ AcquireOrdered
  /\ ReleaseOrdered
  /\ ParallelStoresIndependent

IInv == RunInv /\ OrderInv

-----------------------------------------------------------------------------
(* Natural numbers.                                                        *)

\* A non-empty set of natural numbers has a least element.
LEMMA LeastNat ==
    ASSUME NEW S \in SUBSET Nat, S # {}
    PROVE  \E m \in S : \A n \in S : m <= n
<1> DEFINE R == {ss \in Nat \X Nat : ss[1] < ss[2]}
<1>1. IsWellFoundedOn(R, Nat)
  BY NatLessThanWellFounded, Zenon DEF OpToRel
<1>2. PICK m \in S : \A n \in S : ~ (<<n, m>> \in R)
  <2> HIDE DEF R
  <2> QED BY <1>1, WFMin, Zenon
<1>3. ASSUME NEW n \in S PROVE m <= n
  <2>1. <<n, m>>[1] = n /\ <<n, m>>[2] = m /\ <<n, m>> \in Nat \X Nat
    OBVIOUS
  <2> QED BY <1>2, <2>1, n \in Nat, m \in Nat
<1> QED BY <1>3

\* Max of a bounded set of indices, as InnermostLoop uses it.
LEMMA MaxIsGreatest ==
    ASSUME NEW n \in Nat, NEW S \in SUBSET (1..n), S # {}
    PROVE  Max(S) \in S /\ \A x \in S : x <= Max(S)
<1> DEFINE T == {k \in Nat : \A x \in S : x <= k}
<1>1. n \in T
  OBVIOUS
<1>2. PICK m \in T : \A k \in T : m <= k
  BY <1>1, LeastNat
<1>3. m \in S
  <2> SUFFICES ASSUME m \notin S PROVE FALSE
    OBVIOUS
  <2>1. PICK y \in S : TRUE
    OBVIOUS
  <2>2. m \in Nat /\ y \in Nat /\ y >= 1 /\ y <= m
    BY <1>2
  <2>3. m - 1 \in Nat
    BY <2>2
  <2>4. ASSUME NEW x \in S PROVE x <= m - 1
    <3>1. x \in Nat /\ x <= m /\ x # m
      BY <1>2
    <3> QED BY <2>2, <3>1
  <2>5. m - 1 \in T
    BY <2>3, <2>4
  <2>6. m <= m - 1
    BY <1>2, <2>5
  <2> QED BY <2>2, <2>6
<1>4. \E x \in S : \A y \in S : x >= y
  <2>1. \A y \in S : m >= y
    BY <1>2
  <2> QED BY <1>3, <2>1
<1>5. Max(S) \in S /\ \A y \in S : Max(S) >= y
  BY <1>4 DEF Max
<1> QED BY <1>5

-----------------------------------------------------------------------------
(* The blocks of a kernel.                                                 *)

\* Levels are integers.
LEMMA LevelType ==
    ASSUME NEW p, NEW i \in Nat
    PROVE  Level(p, i) \in Int
<1>1. i - 1 \in Int
  OBVIOUS
<1>2. IsFiniteSet(1..(i - 1))
  BY <1>1, FS_Interval
<1> DEFINE A == {j \in 1..(i - 1) : Opens(p[j])}
           B == {j \in 1..(i - 1) : p[j].kind = "end"}
<1>3. IsFiniteSet(A) /\ IsFiniteSet(B)
  BY <1>2, FS_Subset
<1>4. Cardinality(A) \in Nat /\ Cardinality(B) \in Nat
  BY <1>3, FS_CardinalityType
<1>5. Level(p, i) = Cardinality(A) - Cardinality(B)
  BY DEF Level
<1> HIDE DEF A, B
<1> QED BY <1>4, <1>5

\* The end of a block, in a kernel whose blocks nest.
LEMMA BlockFacts ==
    ASSUME NEW p \in Kernels, NEW o \in 1..Len(p), Opens(p[o])
    PROVE  /\ Len(p) \in Nat /\ o \in Nat
           /\ EndOf(p, o) \in (o + 1)..Len(p)
           /\ EndOf(p, o) \in Nat
           /\ p[EndOf(p, o)].kind = "end"
           /\ \A j \in (o + 1)..EndOf(p, o) : Level(p, j) > Level(p, o)
           /\ \A j \in 1..Len(p) : Opens(p[j]) /\ o < j /\ j <= EndOf(p, o) =>
                                     EndOf(p, j) < EndOf(p, o)
<1>1. WellNested(p) /\ Len(p) \in Nat
  BY KernelsAssumption
<1>2. /\ EndOf(p, o) \in (o + 1)..Len(p) /\ p[EndOf(p, o)].kind = "end"
      /\ \A j \in (o + 1)..EndOf(p, o) : Level(p, j) > Level(p, o)
      /\ \A j \in 1..Len(p) : Opens(p[j]) /\ o < j /\ j <= EndOf(p, o) =>
                                EndOf(p, j) < EndOf(p, o)
  BY <1>1 DEF WellNested
<1> QED BY <1>1, <1>2

\* The else of a branch is in the branch, and the blocks before it end before it.
LEMMA BranchFacts ==
    ASSUME NEW p \in Kernels, NEW o \in 1..Len(p), p[o].kind = "if"
    PROVE  /\ ElseOf(p, o) \in Nat
           /\ o < ElseOf(p, o) /\ ElseOf(p, o) < EndOf(p, o)
           /\ \A j \in 1..Len(p) : Opens(p[j]) /\ o < j /\ j <= ElseOf(p, o) =>
                                     EndOf(p, j) < ElseOf(p, o)
<1>1. WellNested(p) /\ Len(p) \in Nat /\ Opens(p[o])
  BY KernelsAssumption DEF Opens
<1>2. /\ ElseOf(p, o) \in (o + 1)..(EndOf(p, o) - 1)
      /\ \A j \in 1..Len(p) : Opens(p[j]) /\ o < j /\ j <= ElseOf(p, o) =>
                                EndOf(p, j) < ElseOf(p, o)
  BY <1>1 DEF WellNested
<1>3. EndOf(p, o) \in Nat /\ o \in Nat
  BY <1>1, BlockFacts
<1> QED BY <1>2, <1>3

\* What a block around a point is.
LEMMA EnclosedFacts ==
    ASSUME NEW p \in Kernels, NEW n \in Nat, NEW o \in Enclosing(p, n)
    PROVE  /\ o \in 1..Len(p) /\ o \in Nat /\ Opens(p[o])
           /\ o < n /\ n <= EndOf(p, o)
BY KernelsAssumption DEF Enclosing

\* Nothing is around the start of a kernel.
LEMMA NothingAroundTheStart ==
    ASSUME NEW p \in Kernels
    PROVE  Enclosing(p, 1) = {}
BY KernelsAssumption DEF Enclosing

\* An instruction that opens and closes nothing stays in its blocks.
LEMMA EnclosingNext ==
    ASSUME NEW p \in Kernels, NEW n \in 1..Len(p), ~Opens(p[n]), p[n].kind # "end"
    PROVE  Enclosing(p, n + 1) = Enclosing(p, n)
<1>0. Len(p) \in Nat /\ n \in Nat
  BY KernelsAssumption
<1>1. ASSUME NEW o \in 1..Len(p), Opens(p[o])
      PROVE  (o < n /\ n <= EndOf(p, o)) <=> (o < n + 1 /\ n + 1 <= EndOf(p, o))
  <2>1. EndOf(p, o) \in Nat /\ EndOf(p, o) # n /\ o # n /\ o \in Nat
    BY <1>1, BlockFacts
  <2> QED BY <1>0, <2>1
<1> QED BY <1>1 DEF Enclosing

\* The body of a block is in the block and in those around it.
LEMMA EnclosingInside ==
    ASSUME NEW p \in Kernels, NEW o \in 1..Len(p), Opens(p[o])
    PROVE  Enclosing(p, o + 1) = Enclosing(p, o) \cup {o}
<1>0. Len(p) \in Nat /\ o \in Nat /\ EndOf(p, o) \in Nat /\ o + 1 <= EndOf(p, o)
  BY BlockFacts
<1>1. ASSUME NEW i \in 1..Len(p), Opens(p[i])
      PROVE  (i < o + 1 /\ o + 1 <= EndOf(p, i)) <=> (i = o \/ (i < o /\ o <= EndOf(p, i)))
  <2>1. EndOf(p, i) \in Nat /\ i \in Nat
    BY <1>1, BlockFacts
  <2>2. i < o /\ o <= EndOf(p, i) => EndOf(p, o) < EndOf(p, i)
    BY <1>1, BlockFacts
  <2> QED BY <1>0, <2>1, <2>2
<1> QED BY <1>1 DEF Enclosing

\* So is the else part of a branch.
LEMMA EnclosingElse ==
    ASSUME NEW p \in Kernels, NEW o \in 1..Len(p), p[o].kind = "if"
    PROVE  Enclosing(p, ElseOf(p, o) + 1) = Enclosing(p, o) \cup {o}
<1>1. Opens(p[o])
  BY DEF Opens
<1>2. Len(p) \in Nat /\ o \in Nat /\ EndOf(p, o) \in Nat /\ o + 1 <= EndOf(p, o)
  BY <1>1, BlockFacts
<1>3. ElseOf(p, o) \in Nat /\ o < ElseOf(p, o) /\ ElseOf(p, o) < EndOf(p, o)
  BY BranchFacts
<1>4. ASSUME NEW i \in 1..Len(p), Opens(p[i])
      PROVE  (i < ElseOf(p, o) + 1 /\ ElseOf(p, o) + 1 <= EndOf(p, i))
               <=> (i = o \/ (i < o /\ o <= EndOf(p, i)))
  <2>1. EndOf(p, i) \in Nat /\ i \in Nat
    BY <1>4, BlockFacts
  <2>2. i < o /\ o <= EndOf(p, i) => EndOf(p, o) < EndOf(p, i)
    BY <1>1, <1>4, BlockFacts
  <2>3. o < i /\ i <= ElseOf(p, o) => EndOf(p, i) < ElseOf(p, o)
    BY <1>4, BranchFacts
  <2> QED BY <1>2, <1>3, <2>1, <2>2, <2>3
<1> QED BY <1>1, <1>4 DEF Enclosing

\* After a block, the run is where it was before it.
LEMMA EnclosingAfter ==
    ASSUME NEW p \in Kernels, NEW o \in 1..Len(p), Opens(p[o])
    PROVE  Enclosing(p, EndOf(p, o) + 1) = Enclosing(p, o)
<1>0. Len(p) \in Nat /\ o \in Nat /\ EndOf(p, o) \in Nat /\ o + 1 <= EndOf(p, o)
  BY BlockFacts
<1>1. ASSUME NEW i \in 1..Len(p), Opens(p[i])
      PROVE  (i < EndOf(p, o) + 1 /\ EndOf(p, o) + 1 <= EndOf(p, i))
               <=> (i < o /\ o <= EndOf(p, i))
  <2>1. EndOf(p, i) \in Nat /\ i \in Nat
    BY <1>1, BlockFacts
  <2>2. i < o /\ o <= EndOf(p, i) => EndOf(p, o) < EndOf(p, i)
    BY <1>1, BlockFacts
  <2>3. o < i /\ i <= EndOf(p, o) => EndOf(p, i) < EndOf(p, o)
    BY <1>1, BlockFacts
  <2> QED BY <1>0, <2>1, <2>2, <2>3
<1> QED BY <1>1 DEF Enclosing

\* Of the blocks around a point, those that begin before one of them are around it.
LEMMA EnclosingOuter ==
    ASSUME NEW p \in Kernels, NEW n \in Nat, NEW o \in Enclosing(p, n), NEW i
    PROVE  (i \in Enclosing(p, n) /\ i < o) <=> i \in Enclosing(p, o)
<1>0. o \in 1..Len(p) /\ o \in Nat /\ Opens(p[o]) /\ o < n /\ n <= EndOf(p, o)
  BY EnclosedFacts
<1>1. Len(p) \in Nat /\ EndOf(p, o) \in Nat
  BY <1>0, BlockFacts
<1>2. ASSUME i \in 1..Len(p), Opens(p[i])
      PROVE  ((i < n /\ n <= EndOf(p, i)) /\ i < o) <=> (i < o /\ o <= EndOf(p, i))
  <2>1. EndOf(p, i) \in Nat /\ i \in Nat
    BY <1>2, BlockFacts
  <2>2. i < o /\ o <= EndOf(p, i) => EndOf(p, o) < EndOf(p, i)
    BY <1>0, <1>2, BlockFacts
  <2> QED BY <1>0, <1>1, <2>1, <2>2
<1> QED BY <1>2 DEF Enclosing

\* The memory operations of a kernel are well typed; one that is in a block is of its body.
LEMMA AccessFacts ==
    ASSUME NEW p \in Kernels, NEW n \in 1..Len(p), IsAccess(p[n])
    PROVE  /\ p[n].alias \in AliasSets
           /\ p[n].alias # {}
           /\ p[n].kind \in FenceKinds => p[n].alias = Universe /\ p[n].order = "weak"
           /\ p[n].kind = "store" => ~HasAcquire(p[n])
           /\ ~Opens(p[n]) /\ p[n].kind # "end"
           /\ \A o \in Enclosing(p, n) : n \in Body(p, o)
<1>1. WellTyped(p[n])
  BY KernelsAssumption
<1>2. p[n].alias \in AliasSets
  BY <1>1 DEF WellTyped
<1>3. ~Opens(p[n]) /\ p[n].kind # "end"
  BY DEF IsAccess, Opens, MemoryKinds, FenceKinds
<1>4. ASSUME NEW o \in Enclosing(p, n) PROVE n \in Body(p, o)
  <2>0. Len(p) \in Nat /\ n \in Nat
    BY KernelsAssumption
  <2>1. o \in 1..Len(p) /\ o \in Nat /\ Opens(p[o]) /\ o < n /\ n <= EndOf(p, o)
    BY <2>0, EnclosedFacts
  <2>2. EndOf(p, o) \in Nat /\ p[EndOf(p, o)].kind = "end"
    BY <2>1, BlockFacts
  <2>3. n \in (o + 1)..(EndOf(p, o) - 1)
    BY <1>3, <2>0, <2>1, <2>2
  <2> QED BY <2>3 DEF Body
<1>5. p[n].alias # {}
  BY <1>2 DEF AliasSets, Universe
<1> QED BY <1>1, <1>2, <1>3, <1>4, <1>5 DEF WellTyped

\* What is directly in a block is in no block inside it.
LEMMA DirectIsInnermost ==
    ASSUME NEW p \in Kernels, NEW n \in Nat, NEW o \in Enclosing(p, n),
           n \in Direct(p, o), NEW i \in Enclosing(p, n)
    PROVE  i <= o
<1> SUFFICES ASSUME o < i PROVE FALSE
  <2>1. o \in Nat /\ i \in Nat
    BY EnclosedFacts
  <2> QED BY <2>1
<1>1. o \in 1..Len(p) /\ o \in Nat /\ Opens(p[o]) /\ o < n /\ n <= EndOf(p, o)
  BY EnclosedFacts
<1>2. i \in 1..Len(p) /\ i \in Nat /\ Opens(p[i]) /\ i < n /\ n <= EndOf(p, i)
  BY EnclosedFacts
<1>3. EndOf(p, o) \in Nat /\ EndOf(p, i) \in Nat
  BY <1>1, <1>2, BlockFacts
<1>4. Level(p, n) > Level(p, i)
  <2>1. n \in (i + 1)..EndOf(p, i)
    BY <1>2, <1>3
  <2> QED BY <1>2, <2>1, BlockFacts
<1>5. Level(p, i) > Level(p, o)
  <2>1. i \in (o + 1)..EndOf(p, o)
    BY <1>1, <1>2, <1>3
  <2> QED BY <1>1, <2>1, BlockFacts
<1>6. Level(p, n) = Level(p, o) + 1
  BY DEF Direct
<1>7. Level(p, n) \in Int /\ Level(p, i) \in Int /\ Level(p, o) \in Int
  BY <1>1, <1>2, LevelType
<1> QED BY <1>4, <1>5, <1>6, <1>7

-----------------------------------------------------------------------------
(* Frames.                                                                 *)

\* A frame for a block that is entered.
LEMMA PushMatches ==
    ASSUME NEW p \in Kernels, NEW n \in Nat, NEW m \in Nat, NEW fs \in Seq(FrameType),
           NEW fr \in FrameType, Matches(p, n, fs),
           fr.at = n, Enclosing(p, m) = Enclosing(p, n) \cup {n}
    PROVE  Matches(p, m, Append(fs, fr)) /\ Append(fs, fr) \in Seq(FrameType)
<1> DEFINE gs == Append(fs, fr)
<1>0. Len(fs) \in Nat
  OBVIOUS
<1>1. /\ gs \in Seq(FrameType) /\ Len(gs) = Len(fs) + 1
      /\ gs[Len(fs) + 1] = fr
      /\ \A f \in 1..Len(fs) : gs[f] = fs[f]
  OBVIOUS
<1> HIDE DEF gs
<1>2. \A f \in 1..Len(gs) : f = Len(fs) + 1 \/ f \in 1..Len(fs)
  BY <1>0, <1>1
<1>3. \A f \in 1..Len(fs) : fs[f].at \in Enclosing(p, n) /\ fs[f].at < n
  BY EnclosedFacts DEF Matches
<1>4. \A f \in 1..Len(gs) : gs[f].at \in Enclosing(p, m)
  BY <1>1, <1>2, <1>3
<1>5. ASSUME NEW o \in Enclosing(p, m) PROVE \E f \in 1..Len(gs) : gs[f].at = o
  <2>1. CASE o = n
    <3>1. Len(fs) + 1 \in 1..Len(gs)
      BY <1>0, <1>1
    <3> QED BY <1>1, <2>1, <3>1
  <2>2. CASE o # n
    <3>1. PICK f \in 1..Len(fs) : fs[f].at = o
      BY <2>2 DEF Matches
    <3>2. f \in 1..Len(gs)
      BY <1>0, <1>1
    <3> QED BY <1>1, <3>1, <3>2
  <2> QED BY <2>1, <2>2
<1>6. ASSUME NEW f \in 1..Len(gs), NEW g \in 1..Len(gs), f < g PROVE gs[f].at < gs[g].at
  <2>1. f \in 1..Len(fs)
    BY <1>0, <1>1, <1>6
  <2>2. CASE g = Len(fs) + 1
    BY <1>1, <1>3, <2>1, <2>2
  <2>3. CASE g \in 1..Len(fs)
    BY <1>1, <1>6, <2>1, <2>3 DEF Matches
  <2> QED BY <1>2, <2>2, <2>3
<1>7. Matches(p, m, gs)
  BY <1>4, <1>5, <1>6 DEF Matches
<1> QED BY <1>1, <1>7 DEF gs

\* The frames that are left when a block is left.
LEMMA PopMatches ==
    ASSUME NEW p \in Kernels, NEW n \in Nat, NEW m \in Nat, NEW fs \in Seq(FrameType),
           Matches(p, n, fs), NEW f \in 1..Len(fs),
           Enclosing(p, m) = Enclosing(p, fs[f].at)
    PROVE  /\ Matches(p, m, SubSeq(fs, 1, f - 1))
           /\ SubSeq(fs, 1, f - 1) \in Seq(FrameType)
           /\ Len(SubSeq(fs, 1, f - 1)) = f - 1
           /\ \A g \in 1..(f - 1) : SubSeq(fs, 1, f - 1)[g] = fs[g]
<1> DEFINE gs == SubSeq(fs, 1, f - 1)
<1>0. Len(fs) \in Nat /\ f \in Nat /\ f <= Len(fs) /\ f - 1 \in Nat
  OBVIOUS
<1>1. /\ gs \in Seq(FrameType) /\ Len(gs) = f - 1
      /\ \A g \in 1..(f - 1) : gs[g] = fs[g] /\ g \in 1..Len(fs) /\ g < f
  BY <1>0
<1> HIDE DEF gs
<1> DEFINE o == fs[f].at
<1>2. o \in Enclosing(p, n)
  BY DEF Matches
<1>3. \A i : (i \in Enclosing(p, n) /\ i < o) <=> i \in Enclosing(p, o)
  BY <1>2, EnclosingOuter
<1>4. ASSUME NEW g \in 1..Len(gs) PROVE gs[g].at \in Enclosing(p, m)
  <2>1. gs[g] = fs[g] /\ g \in 1..Len(fs) /\ g < f
    BY <1>1
  <2>2. fs[g].at \in Enclosing(p, n) /\ fs[g].at < o
    BY <2>1 DEF Matches
  <2> QED BY <1>3, <2>1, <2>2
<1>5. ASSUME NEW i \in Enclosing(p, m) PROVE \E g \in 1..Len(gs) : gs[g].at = i
  <2>1. i \in Enclosing(p, n) /\ i < o
    BY <1>3
  <2>2. PICK g \in 1..Len(fs) : fs[g].at = i
    BY <2>1 DEF Matches
  <2>3. i \in Nat /\ o \in Nat
    BY <1>2, <2>1, EnclosedFacts
  <2>4. ~(f < g) /\ g # f
    BY <2>1, <2>2, <2>3 DEF Matches
  <2>5. g \in 1..(f - 1)
    BY <1>0, <2>4
  <2> QED BY <1>1, <2>2, <2>5
<1>6. \A g, h \in 1..Len(gs) : g < h => gs[g].at < gs[h].at
  BY <1>1 DEF Matches
<1>7. Matches(p, m, gs)
  BY <1>4, <1>5, <1>6 DEF Matches
<1> QED BY <1>1, <1>7 DEF gs

\* The frame of a block.
LEMMA FrameFacts ==
    ASSUME RunInv, NEW f \in 1..Len(frames)
    PROVE  LET fr == frames[f]
           IN /\ fr \in FrameType
              /\ fr.at \in Enclosing(prog, pc)
              /\ fr.at \in 1..Len(prog) /\ Opens(prog[fr.at])
              /\ fr.at < pc /\ pc <= EndOf(prog, fr.at)
              /\ EndOf(prog, fr.at) \in Nat /\ EndOf(prog, fr.at) <= Len(prog)
<1> DEFINE fr == frames[f]
<1>1. prog \in Kernels /\ pc \in Nat /\ Len(prog) \in Nat
  BY KernelsAssumption DEF RunInv
<1>2. fr \in FrameType /\ fr.at \in Enclosing(prog, pc)
  BY DEF RunInv, FramesInv, Matches
<1>3. fr.at \in 1..Len(prog) /\ Opens(prog[fr.at]) /\ fr.at < pc /\ pc <= EndOf(prog, fr.at)
  BY <1>1, <1>2, EnclosedFacts
<1>4. EndOf(prog, fr.at) \in (fr.at + 1)..Len(prog) /\ EndOf(prog, fr.at) \in Nat
  BY <1>1, <1>3, BlockFacts
<1> QED BY <1>1, <1>2, <1>3, <1>4

\* The innermost loop, when the run is in one.
LEMMA InnermostFacts ==
    ASSUME RunInv, LoopFrames # {}
    PROVE  /\ InnermostLoop \in 1..Len(frames)
           /\ prog[frames[InnermostLoop].at].kind # "if"
           /\ \A f \in LoopFrames : f <= InnermostLoop
<1>1. LoopFrames \in SUBSET (1..Len(frames)) /\ Len(frames) \in Nat
  BY DEF LoopFrames, RunInv, FramesInv
<1>2. InnermostLoop \in LoopFrames /\ \A f \in LoopFrames : f <= InnermostLoop
  BY <1>1, MaxIsGreatest DEF InnermostLoop
<1> QED BY <1>1, <1>2 DEF LoopFrames

\* A loop the next instruction is directly in is the innermost one.
LEMMA DirectLoop ==
    ASSUME RunInv, NEW f \in LoopFrames, pc \in Direct(prog, frames[f].at)
    PROVE  f = InnermostLoop
<1>1. f \in 1..Len(frames)
  BY DEF LoopFrames
<1>2. InnermostLoop \in 1..Len(frames) /\ f <= InnermostLoop
  BY InnermostFacts
<1>3. Len(frames) \in Nat /\ prog \in Kernels /\ pc \in Nat
  BY KernelsAssumption DEF RunInv, FramesInv
<1>4. frames[f].at \in Enclosing(prog, pc) /\ frames[InnermostLoop].at \in Enclosing(prog, pc)
  BY <1>1, <1>2, FrameFacts
<1>5. frames[InnermostLoop].at <= frames[f].at
  BY <1>3, <1>4, DirectIsInnermost
<1>6. frames[InnermostLoop].at \in Nat /\ frames[f].at \in Nat
  BY <1>3, <1>4, EnclosedFacts
<1>7. ~(f < InnermostLoop)
  BY <1>1, <1>2, <1>5, <1>6 DEF RunInv, FramesInv, Matches
<1> QED BY <1>1, <1>2, <1>3, <1>7

\* The tokens carried out of a block are the current ones: the values the pass drops
\* at the end of a block never changed in it.
LEMMA CarriedIsCurrent ==
    ASSUME RunInv, NEW f \in 1..Len(frames)
    PROVE  Carried(frames[f].at, frames[f].outer) = tok
<1> DEFINE fr == frames[f]
<1>1. Unaffected(prog, tok, fr)
  BY DEF RunInv, FramesInv, FrameInv
<1>2. tok \in TokensUpTo(Len(trace))
  BY DEF RunInv
<1>3. /\ tok = [lastOp |-> tok.lastOp, lastStore |-> tok.lastStore, acquire |-> tok.acquire]
      /\ tok.lastOp = [A \in AliasSets |-> tok.lastOp[A]]
      /\ tok.lastStore = [A \in AliasSets |-> tok.lastStore[A]]
  BY <1>2 DEF TokensUpTo
<1>4. [A \in AliasSets |-> IF Touches(prog, fr.at, A) THEN tok.lastOp[A] ELSE fr.outer.lastOp[A]]
        = [A \in AliasSets |-> tok.lastOp[A]]
  BY <1>1 DEF Unaffected
<1>5. [A \in AliasSets |-> IF StoresTo(prog, fr.at, A) THEN tok.lastStore[A]
                           ELSE fr.outer.lastStore[A]]
        = [A \in AliasSets |-> tok.lastStore[A]]
  BY <1>1 DEF Unaffected
<1>6. (IF Acquires(prog, fr.at) THEN tok.acquire ELSE fr.outer.acquire) = tok.acquire
  BY <1>1 DEF Unaffected
<1> HIDE DEF fr
<1>7. Carried(fr.at, fr.outer) = tok
  BY <1>3, <1>4, <1>5, <1>6 DEF Carried
<1> QED BY <1>7 DEF fr

-----------------------------------------------------------------------------
(* A memory operation: its result tokens.                                  *)

\* What every memory operation n does to the tokens t, as the k-th of the trace.
Extends(op, t, t2, k) ==
  /\ t2 \in TokensUpTo(k)
  /\ \A A \in AliasSets : A # op.alias => t2.lastOp[A] = t.lastOp[A]
                                          /\ t2.lastStore[A] = t.lastStore[A]
  /\ ~Writes(op) => t2.lastStore = t.lastStore
  /\ ~HasAcquire(op) => t2.acquire = t.acquire
  /\ t.lastOp[op.alias] \cup {k} \subseteq t2.lastOp[op.alias]
  /\ Writes(op) => t.lastOp[op.alias] \cup {k} \subseteq t2.lastStore[op.alias]
  /\ HasAcquire(op) => t.acquire \cup {k} \subseteq t2.acquire

Entry == [at |-> pc, activation |-> Activation]

\* Tokens of a shorter trace are tokens of a longer one.
LEMMA TokensGrow ==
    ASSUME NEW m \in Nat, NEW n \in Nat, m <= n, NEW t \in TokensUpTo(m)
    PROVE  t \in TokensUpTo(n)
<1>1. 1..m \subseteq 1..n
  OBVIOUS
<1> QED BY <1>1 DEF TokensUpTo

\* The memory operation at pc.
LEMMA CurrentOp ==
    ASSUME RunInv, pc <= Len(prog), IsAccess(Op)
    PROVE  /\ prog \in Kernels /\ Len(prog) \in Nat /\ pc \in 1..Len(prog)
           /\ Op.alias \in AliasSets /\ Op.alias # {}
           /\ Op.kind \in FenceKinds => Op.alias = Universe /\ Op.order = "weak"
           /\ Op.kind = "store" => ~HasAcquire(Op)
           /\ Enclosing(prog, pc + 1) = Enclosing(prog, pc)
           /\ \A f \in 1..Len(frames) : pc \in Body(prog, frames[f].at)
<1>1. prog \in Kernels /\ Len(prog) \in Nat /\ pc \in 1..Len(prog)
  BY KernelsAssumption DEF RunInv
<1>2. Enclosing(prog, pc + 1) = Enclosing(prog, pc)
  BY <1>1, AccessFacts, EnclosingNext DEF Op
<1>3. \A f \in 1..Len(frames) : pc \in Body(prog, frames[f].at)
  BY <1>1, AccessFacts, FrameFacts DEF Op
<1> QED BY <1>1, <1>2, <1>3, AccessFacts DEF Op

\* The trace a memory operation leaves.
LEMMA TraceGrows ==
    ASSUME RunInv, NEW input, Issue(input)
    PROVE  /\ Len(trace) \in Nat /\ Len(trace') = Len(trace) + 1
           /\ trace'[Len(trace) + 1] = Entry
           /\ \A i \in 1..Len(trace) : trace'[i] = trace[i]
           /\ Entry \in EntryType => trace' \in Seq(EntryType)
BY DEF RunInv, TraceInv, Issue, Entry

\* The activation an operation is given.
LEMMA EntryFacts ==
    ASSUME RunInv
    PROVE  /\ Entry \in EntryType /\ Entry.at = pc
           /\ Entry.activation[2] < Len(trace) + 1
           /\ LoopFrames # {} => Entry.activation = <<frames[InnermostLoop].at,
                                                      frames[InnermostLoop].entered>>
<1>1. Len(trace) \in Nat /\ pc \in Nat
  BY KernelsAssumption DEF RunInv, TraceInv
<1>2. CASE LoopFrames = {}
  <2>1. Activation = <<0, 0>>
    BY <1>2 DEF Activation
  <2> QED BY <1>1, <1>2, <2>1 DEF Entry, EntryType
<1>3. CASE LoopFrames # {}
  <2> DEFINE fr == frames[InnermostLoop]
  <2>1. InnermostLoop \in 1..Len(frames)
    BY <1>3, InnermostFacts
  <2>2. fr \in FrameType /\ FrameInv(prog, tok, trace, fr)
    BY <2>1, FrameFacts DEF RunInv, FramesInv
  <2>3. fr.at \in Nat /\ fr.entered \in Nat /\ fr.entered <= Len(trace)
    BY <2>2 DEF FrameInv, FrameType
  <2>4. Activation = <<fr.at, fr.entered>>
    BY <1>3 DEF Activation
  <2> HIDE DEF fr
  <2>5. Entry.activation = <<fr.at, fr.entered>> /\ Entry.at = pc
    BY <2>4 DEF Entry
  <2>6. Entry \in EntryType
    BY <1>1, <2>3, <2>4 DEF Entry, EntryType
  <2>7. Entry.activation[2] = fr.entered
    BY <2>5
  <2>8. Entry.activation[2] < Len(trace) + 1
    BY <1>1, <2>3, <2>7
  <2> QED BY <2>5, <2>6, <2>8 DEF fr
<1> QED BY <1>2, <1>3

\* A memory operation that extends the tokens keeps the invariant of the run.
LEMMA IssueStep ==
    ASSUME RunInv, pc <= Len(prog), IsAccess(Op), NEW input, Issue(input),
           Extends(Op, tok, tok', Len(trace) + 1)
    PROVE  RunInv'
<1> DEFINE k == Len(trace) + 1
<1>1. /\ prog \in Kernels /\ Len(prog) \in Nat /\ pc \in 1..Len(prog)
      /\ Op.alias \in AliasSets
      /\ Enclosing(prog, pc + 1) = Enclosing(prog, pc)
      /\ \A f \in 1..Len(frames) : pc \in Body(prog, frames[f].at)
  BY CurrentOp
<1>2. /\ Len(trace) \in Nat /\ Len(trace') = k /\ k \in Nat
      /\ trace'[k] = Entry
      /\ \A i \in 1..Len(trace) : trace'[i] = trace[i]
      /\ trace' \in Seq(EntryType)
  BY TraceGrows, EntryFacts
<1>3. pc' = pc + 1 /\ prog' = prog /\ frames' = frames
  BY DEF Issue
<1>4. \A i \in 1..k : i = k \/ i \in 1..Len(trace)
  BY <1>2
<1>5. Entry.at = pc /\ Entry.activation[2] < k
  BY EntryFacts
<1>6. TraceInv'
  <2>1. ASSUME NEW i \in 1..k
        PROVE  /\ trace'[i].at \in 1..Len(prog)
               /\ IsAccess(prog[trace'[i].at])
               /\ trace'[i].activation[2] < i
    <3>1. CASE i = k
      BY <1>1, <1>2, <1>5, <3>1 DEF Op
    <3>2. CASE i \in 1..Len(trace)
      BY <1>2, <3>2 DEF RunInv, TraceInv
    <3> QED BY <1>4, <3>1, <3>2
  <2> QED BY <1>2, <1>3, <2>1 DEF TraceInv
<1>7. Covered(prog, trace', tok', k)
  <2> SUFFICES ASSUME NEW i \in 1..k
               PROVE  LET op == prog[trace'[i].at]
                      IN /\ i \in tok'.lastOp[op.alias]
                         /\ Writes(op) => i \in tok'.lastStore[op.alias]
                         /\ HasAcquire(op) => i \in tok'.acquire
    BY DEF Covered
  <2>1. CASE i = k
    BY <1>2, <1>5, <2>1 DEF Op, Extends
  <2>2. CASE i \in 1..Len(trace)
    <3> DEFINE op == prog[trace[i].at]
    <3>1. trace'[i] = trace[i]
      BY <1>2, <2>2
    <3>2. /\ i \in tok.lastOp[op.alias]
          /\ Writes(op) => i \in tok.lastStore[op.alias]
          /\ HasAcquire(op) => i \in tok.acquire
      BY <2>2 DEF RunInv, Covered
    <3>3. op.alias \in AliasSets
      BY <1>1, <2>2, AccessFacts DEF RunInv, TraceInv
    <3> HIDE DEF op
    <3>4. i \in tok'.lastOp[op.alias]
      BY <3>2, <3>3 DEF Extends
    <3>5. Writes(op) => i \in tok'.lastStore[op.alias]
      BY <3>2, <3>3 DEF Extends
    <3>6. HasAcquire(op) => i \in tok'.acquire
      BY <3>2 DEF Extends
    <3> QED BY <3>1, <3>4, <3>5, <3>6 DEF op
  <2> QED BY <1>4, <2>1, <2>2
<1>8. ASSUME NEW f \in 1..Len(frames)
      PROVE  FrameInv(prog, tok', trace', frames[f])
  <2> DEFINE fr == frames[f]
  <2>1. FrameInv(prog, tok, trace, fr) /\ fr \in FrameType
    BY FrameFacts DEF RunInv, FramesInv
  <2>2. fr.entered \in Nat /\ fr.entered <= Len(trace) /\ fr.entered <= k
    BY <1>2, <2>1 DEF FrameInv, FrameType
  <2>3. Covered(prog, trace', fr.outer, fr.entered)
    <3>1. \A i \in 1..fr.entered : trace'[i] = trace[i]
      BY <1>2, <2>2
    <3>2. Covered(prog, trace, fr.outer, fr.entered)
      BY <2>1 DEF FrameInv
    <3> HIDE DEF fr
    <3> QED BY <3>1, <3>2 DEF Covered
  <2>4. pc \in Body(prog, fr.at)
    BY <1>1
  <2>5. Unaffected(prog, tok', fr)
    <3>1. Unaffected(prog, tok, fr)
      BY <2>1 DEF FrameInv
    <3>2. Touches(prog, fr.at, Op.alias)
      BY <2>4 DEF Touches, Op
    <3>3. Writes(Op) => StoresTo(prog, fr.at, Op.alias)
      BY <2>4 DEF StoresTo, Op
    <3>4. HasAcquire(Op) => Acquires(prog, fr.at)
      BY <2>4 DEF Acquires, Op
    <3> HIDE DEF fr
    <3>5. ASSUME NEW A \in AliasSets, ~Touches(prog, fr.at, A)
          PROVE  tok'.lastOp[A] = fr.outer.lastOp[A]
      BY <3>1, <3>2, <3>5 DEF Unaffected, Extends
    <3>6. ASSUME NEW A \in AliasSets, ~StoresTo(prog, fr.at, A)
          PROVE  tok'.lastStore[A] = fr.outer.lastStore[A]
      BY <3>1, <3>3, <3>6 DEF Unaffected, Extends
    <3>7. ~Acquires(prog, fr.at) => tok'.acquire = fr.outer.acquire
      BY <3>1, <3>4 DEF Unaffected, Extends
    <3> QED BY <3>5, <3>6, <3>7 DEF Unaffected
  <2>6. Since(prog, trace', fr)
    <3>1. Since(prog, trace, fr)
      BY <2>1 DEF FrameInv
    <3>2. ASSUME NEW i \in (fr.entered + 1)..k
          PROVE  /\ trace'[i].at \in Body(prog, fr.at)
                 /\ (prog[fr.at].kind # "if" /\ trace'[i].at \in Direct(prog, fr.at)) =>
                      trace'[i].activation = <<fr.at, fr.entered>>
      <4>1. CASE i = k
        <5>1. ASSUME prog[fr.at].kind # "if", pc \in Direct(prog, fr.at)
              PROVE  Entry.activation = <<fr.at, fr.entered>>
          <6>1. f \in LoopFrames
            BY <5>1 DEF LoopFrames
          <6>2. f = InnermostLoop
            BY <5>1, <6>1, DirectLoop
          <6> QED BY <6>1, <6>2, EntryFacts
        <5> QED BY <1>2, <1>5, <2>4, <4>1, <5>1
      <4>2. CASE i # k
        <5>1. i \in (fr.entered + 1)..Len(trace) /\ i \in 1..Len(trace)
          BY <1>2, <2>2, <4>2
        <5>2. trace'[i] = trace[i]
          BY <1>2, <5>1
        <5> HIDE DEF fr
        <5> QED BY <3>1, <5>1, <5>2 DEF Since
      <4> QED BY <4>1, <4>2
    <3> HIDE DEF fr
    <3> QED BY <1>2, <3>2 DEF Since
  <2> HIDE DEF fr
  <2>7. FrameInv(prog, tok', trace', fr)
    BY <1>2, <2>1, <2>2, <2>3, <2>5, <2>6 DEF FrameInv
  <2> QED BY <2>7 DEF fr
<1>9. FramesInv'
  <2>1. Matches(prog, pc + 1, frames)
    BY <1>1 DEF RunInv, FramesInv, Matches
  <2> QED BY <1>3, <1>8, <2>1 DEF RunInv, FramesInv
<1>10. tok' \in TokensUpTo(k)
  BY DEF Extends
<1>11. pc' \in 1..(Len(prog') + 1)
  BY <1>1, <1>3
<1> HIDE DEF k
<1> QED BY <1>1, <1>2, <1>3, <1>6, <1>7, <1>9, <1>10, <1>11 DEF RunInv

-----------------------------------------------------------------------------
(* A memory operation: its input token.                                    *)

\* What the input token of the next operation stands for.
Orders(input) ==
  LET parallel == IsParallelStore(prog, pc)
      n == Len(trace)
  IN /\ input \subseteq 1..n
     /\ tok.acquire \subseteq input
     /\ HasRelease(Op) /\ ~parallel => 1..n \subseteq input
     /\ ~parallel => \A i \in 1..n :
          Overlap(Done(i).alias, Op.alias) /\ (Writes(Done(i)) \/ Writes(Op)) => i \in input
     /\ parallel => \A i \in 1..n :
          /\ Done(i).alias = Op.alias /\ trace[i] # Entry => i \in input
          /\ trace[i] = Entry /\ ~Acquires(prog, Entry.activation[1]) => i \notin input

\* An operation with such an input token keeps what is claimed of the last operation.
LEMMA OrderStep ==
    ASSUME RunInv, NEW input, Issue(input), Orders(input)
    PROVE  OrderInv'
<1> DEFINE n == Len(trace)
<1>1. /\ n \in Nat /\ Len(trace') = n + 1
      /\ trace'[n + 1] = Entry
      /\ \A i \in 1..n : trace'[i] = trace[i]
  BY TraceGrows
<1>2. prog' = prog /\ after' = input
  BY DEF Issue
<1>3. Entry.at = pc
  BY EntryFacts
<1>4. Last' = n + 1 /\ Last' - 1 = n /\ Last' > 0
  BY <1>1 DEF Last
<1>5. Done(Last)' = Op
  BY <1>1, <1>2, <1>3, <1>4 DEF Done, Op
<1>6. LastIsParallel' <=> IsParallelStore(prog, pc)
  BY <1>1, <1>2, <1>3, <1>4 DEF LastIsParallel
<1>7. ASSUME NEW i \in 1..n
      PROVE  /\ Done(i)' = Done(i)
             /\ Conflicts(i)' <=> Overlap(Done(i).alias, Op.alias)
                                  /\ (Writes(Done(i)) \/ Writes(Op))
             /\ SameParallelStore(i)' <=> IsParallelStore(prog, pc) /\ trace[i] = Entry
  <2>1. Done(i)' = Done(i)
    BY <1>1, <1>2 DEF Done
  <2>2. Conflicts(i)' <=> Overlap(Done(i).alias, Op.alias) /\ (Writes(Done(i)) \/ Writes(Op))
    BY <2>1, <1>5 DEF Conflicts, Overlap, Writes
  <2>3. SameParallelStore(i)' <=> IsParallelStore(prog, pc) /\ trace[i] = Entry
    BY <1>1, <1>4, <1>6 DEF SameParallelStore
  <2> QED BY <2>1, <2>2, <2>3
<1>8. after' \subseteq 1..Len(trace')
  BY <1>1, <1>2 DEF Orders
<1>9. ConflictsOrdered'
  <2> SUFFICES ASSUME NEW i \in 1..n, Conflicts(i)', ~SameParallelStore(i)',
                      LastIsParallel' => Done(i)'.alias = Done(Last)'.alias
               PROVE  i \in input
    BY <1>2, <1>4 DEF ConflictsOrdered
  <2>1. CASE IsParallelStore(prog, pc)
    BY <1>5, <1>6, <1>7, <2>1 DEF Orders
  <2>2. CASE ~IsParallelStore(prog, pc)
    BY <1>7, <2>2 DEF Orders
  <2> QED BY <2>1, <2>2
<1>10. AcquireOrdered'
  <2> SUFFICES ASSUME NEW i \in 1..n, HasAcquire(Done(i)')
               PROVE  i \in input
    BY <1>2, <1>4 DEF AcquireOrdered
  <2>1. HasAcquire(Done(i))
    BY <1>7
  <2>2. i \in tok.acquire
    BY <2>1 DEF RunInv, Covered, Done
  <2> QED BY <2>2 DEF Orders
<1>11. ReleaseOrdered'
  <2> SUFFICES ASSUME HasRelease(Done(Last)'), ~LastIsParallel'
               PROVE  input = 1..n
    BY <1>2, <1>4 DEF ReleaseOrdered
  <2> QED BY <1>5, <1>6 DEF Orders
<1>12. ParallelStoresIndependent'
  <2> SUFFICES ASSUME NEW i \in 1..n, SameParallelStore(i)',
                      ~Acquires(prog', trace'[Last'].activation[1])
               PROVE  i \notin input
    BY <1>2, <1>4 DEF ParallelStoresIndependent
  <2>1. ~Acquires(prog, Entry.activation[1])
    BY <1>1, <1>2, <1>4
  <2> QED BY <1>7, <2>1 DEF Orders
<1> QED BY <1>8, <1>9, <1>10, <1>11, <1>12 DEF OrderInv

\* A join of tokens stands for what each of them stands for.
LEMMA UnionOfTokens ==
    ASSUME NEW ts, NEW S, NEW n, \A A \in S : ts[A] \subseteq 1..n
    PROVE  /\ \A A \in S : ts[A] \subseteq UNION {ts[B] : B \in S}
           /\ UNION {ts[B] : B \in S} \subseteq 1..n
OBVIOUS

\* The tokens an operation that is not parallelised joins.
LEMMA JoinedOrders ==
    ASSUME RunInv, pc <= Len(prog), IsAccess(Op), ~IsParallelStore(prog, pc),
           NEW role \in {"lastOp", "lastStore"}, role = "lastStore" => ~Writes(Op)
    PROVE  /\ Orders(Joined(role, Op))
           /\ tok[role][Op.alias] \subseteq Joined(role, Op)
<1> DEFINE n == Len(trace)
           input == Joined(role, Op)
<1>1. Op.alias \in AliasSets /\ Op.alias # {} /\ prog \in Kernels
  BY CurrentOp
<1>2. /\ tok.lastOp \in [AliasSets -> SUBSET (1..n)]
      /\ tok.lastStore \in [AliasSets -> SUBSET (1..n)]
      /\ tok.acquire \in SUBSET (1..n)
  BY DEF RunInv, TokensUpTo
<1>3. tok[role] \in [AliasSets -> SUBSET (1..n)]
  BY <1>2
<1> DEFINE near == {B \in AliasSets : Overlap(B, Op.alias)}
           joined == UNION {tok[role][A] : A \in near}
           every == UNION {tok.lastOp[A] : A \in AliasSets}
<1>a. (\A A \in near : tok[role][A] \subseteq joined) /\ joined \subseteq 1..n
  <2>1. \A A \in near : tok[role][A] \subseteq 1..n
    BY <1>3
  <2> HIDE DEF near
  <2> QED BY <2>1, UnionOfTokens
<1>b. (\A A \in AliasSets : tok.lastOp[A] \subseteq every) /\ every \subseteq 1..n
  <2>1. \A A \in AliasSets : tok.lastOp[A] \subseteq 1..n
    BY <1>2
  <2> QED BY <2>1, UnionOfTokens
<1>c. input = joined \cup tok.acquire \cup (IF HasRelease(Op) THEN every ELSE {})
  BY DEF Joined
<1> HIDE DEF joined, every, input
<1>4. /\ tok.acquire \subseteq input
      /\ \A A \in AliasSets : Overlap(A, Op.alias) => tok[role][A] \subseteq input
      /\ HasRelease(Op) => \A A \in AliasSets : tok.lastOp[A] \subseteq input
  BY <1>a, <1>b, <1>c
<1>5. input \subseteq 1..n
  BY <1>2, <1>a, <1>b, <1>c
<1>6. ASSUME NEW i \in 1..n
      PROVE  /\ Done(i).alias \in AliasSets
             /\ i \in tok.lastOp[Done(i).alias]
             /\ Writes(Done(i)) => i \in tok.lastStore[Done(i).alias]
  <2>1. Done(i).alias \in AliasSets
    BY <1>1, AccessFacts DEF RunInv, TraceInv, Done
  <2> QED BY <2>1 DEF RunInv, Covered, Done
<1>7. tok[role][Op.alias] \subseteq input
  BY <1>1, <1>4 DEF Overlap
<1>8. HasRelease(Op) => 1..n \subseteq input
  BY <1>4, <1>6
<1>9. ASSUME NEW i \in 1..n, Overlap(Done(i).alias, Op.alias), Writes(Done(i)) \/ Writes(Op)
      PROVE  i \in input
  <2>1. i \in tok[role][Done(i).alias]
    BY <1>6, <1>9
  <2> QED BY <1>4, <1>6, <1>9, <2>1
<1>10. Orders(input)
  BY <1>4, <1>5, <1>8, <1>9 DEF Orders
<1> QED BY <1>7, <1>10 DEF input

-----------------------------------------------------------------------------
(* The actions that execute a memory operation.                            *)

\* The tokens stand for executed operations.
LEMMA TokenTypes ==
    ASSUME RunInv
    PROVE  /\ Len(trace) \in Nat /\ This = Len(trace) + 1
           /\ tok \in TokensUpTo(Len(trace)) /\ tok \in TokensUpTo(This)
<1>1. Len(trace) \in Nat /\ This = Len(trace) + 1 /\ tok \in TokensUpTo(Len(trace))
  BY DEF RunInv, TraceInv, This
<1> QED BY <1>1, TokensGrow

\* A load waits for the last stores.
LEMMA LoadStep ==
    ASSUME IInv, Load
    PROVE  IInv'
<1> DEFINE input == Joined("lastStore", Op)
           result == input \cup {This}
<1>1. RunInv /\ pc <= Len(prog) /\ IsAccess(Op) /\ Op.kind = "load" /\ ~Writes(Op)
  BY DEF IInv, Load, At, IsAccess, MemoryKinds, Writes
<1>2. ~IsParallelStore(prog, pc)
  BY <1>1 DEF IsParallelStore, IsParallelStoreOf, Op
<1>3. Orders(input)
  BY <1>1, <1>2, JoinedOrders
<1>4. Op.alias \in AliasSets
  BY <1>1, CurrentOp
<1>5. /\ Issue(input)
      /\ tok' = [tok EXCEPT !.lastOp[Op.alias] = @ \cup result,
                            !.acquire = IF HasAcquire(Op) THEN result ELSE @]
  BY DEF Load
<1>6. /\ Len(trace) \in Nat /\ This = Len(trace) + 1 /\ tok \in TokensUpTo(This)
      /\ input \subseteq 1..Len(trace) /\ tok.acquire \subseteq input
  BY <1>1, <1>3, TokenTypes DEF Orders
<1>7. result \subseteq 1..This
  BY <1>6
<1> HIDE DEF input
<1>8. Extends(Op, tok, tok', This)
  BY <1>1, <1>4, <1>5, <1>6, <1>7 DEF Extends, TokensUpTo
<1> QED BY <1>1, <1>3, <1>5, <1>6, <1>8, IssueStep, OrderStep DEF IInv

\* A store, an atomic operation or a fence that waits for the last operations.
LEMMA WriteStep ==
    ASSUME IInv, pc <= Len(prog), IsAccess(Op), Writes(Op), ~IsParallelStore(prog, pc),
           NEW input, input = Joined("lastOp", Op), NEW acq \in BOOLEAN, acq = HasAcquire(Op),
           Issue(input),
           tok' = [tok EXCEPT !.lastOp[Op.alias] = input \cup {This},
                              !.lastStore[Op.alias] = input \cup {This},
                              !.acquire = IF acq THEN input \cup {This} ELSE @]
    PROVE  IInv'
<1>1. RunInv
  BY DEF IInv
<1>2. Orders(input) /\ tok.lastOp[Op.alias] \subseteq input
  <2>1. tok["lastOp"][Op.alias] \subseteq input /\ Orders(input)
    BY <1>1, JoinedOrders
  <2> QED BY <2>1
<1>3. Op.alias \in AliasSets
  BY <1>1, CurrentOp
<1>4. /\ Len(trace) \in Nat /\ This = Len(trace) + 1 /\ tok \in TokensUpTo(This)
      /\ input \subseteq 1..Len(trace) /\ tok.acquire \subseteq input
  BY <1>1, <1>2, TokenTypes DEF Orders
<1>5. input \cup {This} \subseteq 1..This
  BY <1>4
<1>6. Extends(Op, tok, tok', This)
  BY <1>2, <1>3, <1>4, <1>5 DEF Extends, TokensUpTo
<1> QED BY <1>1, <1>2, <1>4, <1>6, IssueStep, OrderStep DEF IInv

\* A store that is not parallelised, or an atomic operation.
LEMMA StoreOrAtomicStep ==
    ASSUME IInv, StoreOrAtomic
    PROVE  IInv'
<1> DEFINE input == Joined("lastOp", Op)
           acq == (Op.kind = "atomic" /\ HasAcquire(Op))
<1>1. RunInv /\ pc <= Len(prog) /\ IsAccess(Op) /\ Writes(Op) /\ Op.kind \in {"store", "atomic"}
  BY DEF IInv, StoreOrAtomic, At, IsAccess, MemoryKinds, Writes
<1>2. acq \in BOOLEAN /\ acq = HasAcquire(Op)
  <2>1. Op.kind = "store" => ~HasAcquire(Op)
    BY <1>1, CurrentOp
  <2>2. HasAcquire(Op) \in BOOLEAN
    BY DEF HasAcquire
  <2> QED BY <1>1, <2>1, <2>2
<1>3. /\ Issue(input) /\ ~IsParallelStore(prog, pc)
      /\ tok' = [tok EXCEPT !.lastOp[Op.alias] = input \cup {This},
                            !.lastStore[Op.alias] = input \cup {This},
                            !.acquire = IF acq THEN input \cup {This} ELSE @]
  BY DEF StoreOrAtomic
<1> HIDE DEF input, acq
<1> QED BY <1>1, <1>2, <1>3, WriteStep DEF input

\* print, wait and foreign calls.
LEMMA FenceStep ==
    ASSUME IInv, FenceOp
    PROVE  IInv'
<1> DEFINE input == Joined("lastOp", Op)
           acq == HasAcquire(Op)
<1>1. RunInv /\ pc <= Len(prog) /\ IsAccess(Op) /\ Writes(Op) /\ Op.kind \in FenceKinds
  BY DEF IInv, FenceOp, At, IsAccess, FenceKinds, Writes
<1>2. acq \in BOOLEAN /\ acq = HasAcquire(Op)
  BY DEF HasAcquire
<1>3. Op.alias = Universe
  BY <1>1, CurrentOp
<1>4. ~IsParallelStore(prog, pc)
  BY <1>1 DEF IsParallelStore, IsParallelStoreOf, Op, FenceKinds
<1>5. /\ Issue(input)
      /\ tok' = [tok EXCEPT !.lastOp[Op.alias] = input \cup {This},
                            !.lastStore[Op.alias] = input \cup {This},
                            !.acquire = IF acq THEN input \cup {This} ELSE @]
  BY <1>3 DEF FenceOp
<1> HIDE DEF input, acq
<1> QED BY <1>1, <1>2, <1>4, <1>5, WriteStep DEF input

\* The loop of a parallelised store is the innermost one.
LEMMA ParallelFacts ==
    ASSUME RunInv, pc <= Len(prog), IsAccess(Op), IsParallelStore(prog, pc)
    PROVE  LET fr == frames[InnermostLoop]
           IN /\ LoopFrames # {} /\ InnermostLoop \in 1..Len(frames)
              /\ IsParallelStoreOf(prog, fr.at, pc)
              /\ prog[fr.at].kind = "for"
<1>1. PICK loop \in 1..(pc - 1) : /\ Opens(prog[loop]) /\ EndOf(prog, loop) > pc
                                  /\ IsParallelStoreOf(prog, loop, pc)
  BY DEF IsParallelStore
<1>2. prog \in Kernels /\ Len(prog) \in Nat /\ pc \in 1..Len(prog)
  BY CurrentOp
<1>3. loop \in 1..Len(prog) /\ loop < pc
  BY <1>2
<1>4. loop \in Enclosing(prog, pc)
  <2>1. EndOf(prog, loop) \in Nat
    BY <1>1, <1>2, <1>3, BlockFacts
  <2> QED BY <1>1, <1>2, <1>3, <2>1 DEF Enclosing
<1>5. PICK f \in 1..Len(frames) : frames[f].at = loop
  BY <1>4 DEF RunInv, FramesInv, Matches
<1>6. prog[loop].kind = "for" /\ pc \in Direct(prog, loop)
  BY <1>1 DEF IsParallelStoreOf
<1>7. f \in LoopFrames
  BY <1>5, <1>6 DEF LoopFrames
<1>8. f = InnermostLoop
  BY <1>5, <1>6, <1>7, DirectLoop
<1> QED BY <1>1, <1>5, <1>6, <1>7, <1>8

\* A parallelised store waits for what precedes its loop.
LEMMA ParallelStoreStep ==
    ASSUME IInv, ParallelStore
    PROVE  IInv'
<1> DEFINE fr == frames[InnermostLoop]
           n == Len(trace)
           input == ParallelInput
           joined == tok.lastOp[Op.alias] \cup input \cup {This}
<1>1. /\ RunInv /\ pc <= Len(prog) /\ IsAccess(Op) /\ Op.kind = "store" /\ Writes(Op)
      /\ IsParallelStore(prog, pc)
  BY DEF IInv, ParallelStore, At, IsAccess, MemoryKinds, Writes
<1>2. /\ LoopFrames # {} /\ InnermostLoop \in 1..Len(frames)
      /\ IsParallelStoreOf(prog, fr.at, pc) /\ prog[fr.at].kind = "for"
  BY <1>1, ParallelFacts
<1>3. Op.alias \in AliasSets /\ ~HasAcquire(Op)
  BY <1>1, CurrentOp
<1>4. fr \in FrameType /\ FrameInv(prog, tok, trace, fr)
  BY <1>1, <1>2, FrameFacts DEF RunInv, FramesInv
<1>5. /\ Issue(input)
      /\ tok' = [tok EXCEPT !.lastOp[Op.alias] = joined, !.lastStore[Op.alias] = joined]
  BY DEF ParallelStore
<1>6. Len(trace) \in Nat /\ This = n + 1 /\ tok \in TokensUpTo(n) /\ tok \in TokensUpTo(This)
  BY <1>1, TokenTypes
<1>7. input = fr.outer.lastOp[Op.alias] \cup tok.acquire
  BY DEF ParallelInput
<1>8. /\ fr.entered \in Nat /\ fr.entered <= n
      /\ fr.outer.lastOp[Op.alias] \subseteq 1..fr.entered
      /\ fr.outer.acquire \subseteq 1..fr.entered
  BY <1>3, <1>4 DEF FrameInv, FrameType, TokensUpTo
<1>9. input \subseteq 1..n /\ tok.acquire \subseteq input
  <2>1. 1..fr.entered \subseteq 1..n
    BY <1>6, <1>8
  <2>2. tok.acquire \subseteq 1..n
    BY <1>6 DEF TokensUpTo
  <2> QED BY <1>7, <1>8, <2>1, <2>2
<1>10. Entry.activation = <<fr.at, fr.entered>> /\ Entry.at = pc
  BY <1>1, <1>2, EntryFacts
<1> HIDE DEF fr, input
<1>11. ASSUME NEW i \in 1..n, Done(i).alias = Op.alias, trace[i] # Entry
       PROVE  i \in input
  <2>1. CASE i \in 1..fr.entered
    <3>1. Covered(prog, trace, fr.outer, fr.entered)
      BY <1>4 DEF FrameInv
    <3> QED BY <1>7, <1>11, <2>1, <3>1 DEF Covered, Done
  <2>2. CASE i \in (fr.entered + 1)..n
    <3>1. Since(prog, trace, fr)
      BY <1>4 DEF FrameInv
    <3>2. trace[i].at \in Body(prog, fr.at)
      BY <2>2, <3>1 DEF Since
    <3>3. trace[i].at = pc
      BY <1>2, <1>11, <3>2 DEF IsParallelStoreOf, Done, Op
    <3>4. pc \in Direct(prog, fr.at)
      BY <1>2 DEF IsParallelStoreOf
    <3>5. trace[i].activation = <<fr.at, fr.entered>>
      BY <1>2, <2>2, <3>1, <3>3, <3>4 DEF Since
    <3>6. trace[i] \in EntryType /\ Entry \in EntryType
      BY <1>1, EntryFacts DEF RunInv, TraceInv
    <3>7. trace[i] = Entry
      BY <1>10, <3>3, <3>5, <3>6 DEF EntryType
    <3> QED BY <1>11, <3>7
  <2> QED BY <1>6, <1>8, <2>1, <2>2
<1>12. ASSUME NEW i \in 1..n, trace[i] = Entry, ~Acquires(prog, Entry.activation[1])
       PROVE  i \notin input
  <2>1. Entry.activation[1] = fr.at /\ Entry.activation[2] = fr.entered
    BY <1>10
  <2>2. tok.acquire = fr.outer.acquire
    BY <1>4, <1>12, <2>1 DEF FrameInv, Unaffected
  <2>3. fr.entered < i
    BY <1>1, <1>12, <2>1 DEF RunInv, TraceInv
  <2>4. i \notin 1..fr.entered
    BY <1>8, <2>3
  <2> QED BY <1>7, <1>8, <2>2, <2>4
<1>13. Orders(input)
  BY <1>1, <1>9, <1>11, <1>12 DEF Orders
<1>14. joined \subseteq 1..This
  <2>1. tok.lastOp[Op.alias] \subseteq 1..This
    BY <1>3, <1>6 DEF TokensUpTo
  <2>2. 1..n \subseteq 1..This /\ This \in 1..This
    BY <1>6
  <2>3. input \subseteq 1..This
    BY <1>9, <2>2
  <2> QED BY <2>1, <2>2, <2>3
<1>15. Extends(Op, tok, tok', This)
  <2>1. tok.lastOp[Op.alias] \cup {This} \subseteq joined
    OBVIOUS
  <2> HIDE DEF joined
  <2> QED BY <1>1, <1>3, <1>5, <1>6, <1>14, <2>1 DEF Extends, TokensUpTo
<1> QED BY <1>1, <1>5, <1>6, <1>13, <1>15, IssueStep, OrderStep DEF IInv

-----------------------------------------------------------------------------
(* The actions that only move through the kernel.                          *)

\* What is claimed of the last operation does not depend on where the run is.
LEMMA SameOrder ==
    ASSUME OrderInv, prog' = prog, trace' = trace, after' = after
    PROVE  OrderInv'
<1>1. after' \subseteq 1..Len(trace')
  BY DEF OrderInv
<1>2. ConflictsOrdered'
  BY DEF OrderInv, ConflictsOrdered, Conflicts, SameParallelStore, LastIsParallel, Last, Done
<1>3. AcquireOrdered'
  BY DEF OrderInv, AcquireOrdered, Last, Done
<1>4. ReleaseOrdered'
  BY DEF OrderInv, ReleaseOrdered, LastIsParallel, Last, Done
<1>5. ParallelStoresIndependent'
  BY DEF OrderInv, ParallelStoresIndependent, SameParallelStore, LastIsParallel, Last
<1> QED BY <1>1, <1>2, <1>3, <1>4, <1>5 DEF OrderInv

\* Moving to another instruction keeps the invariant when the frames are those of the blocks
\* around it.
LEMMA MoveStep ==
    ASSUME IInv, UNCHANGED <<prog, tok, trace, after>>,
           pc' \in 1..(Len(prog) + 1), frames' \in Seq(FrameType),
           Matches(prog, pc', frames'),
           \A f \in 1..Len(frames') : FrameInv(prog, tok, trace, frames'[f])
    PROVE  IInv'
<1>1. FramesInv'
  BY DEF FramesInv
<1>2. TraceInv'
  BY DEF IInv, RunInv, TraceInv
<1>3. RunInv'
  BY <1>1, <1>2 DEF IInv, RunInv
<1>4. OrderInv'
  BY SameOrder DEF IInv
<1> QED BY <1>3, <1>4 DEF IInv

\* Entering a block: the frame holds the current tokens and nothing was executed in it.
LEMMA PushStep ==
    ASSUME IInv, pc <= Len(prog), Opens(Op), NEW first \in Nat, first <= Len(prog) + 1, first > 0,
           Enclosing(prog, first) = Enclosing(prog, pc) \cup {pc}, Push(first)
    PROVE  IInv'
<1> DEFINE fr == [at |-> pc, outer |-> tok, trips |-> 1, entered |-> Len(trace)]
<1>1. RunInv /\ prog \in Kernels /\ Len(prog) \in Nat /\ pc \in Nat
  BY KernelsAssumption DEF IInv, RunInv
<1>2. Len(trace) \in Nat /\ tok \in TokensUpTo(Len(trace))
  BY <1>1, TokenTypes
<1>3. /\ frames' = Append(frames, fr) /\ pc' = first
      /\ UNCHANGED <<prog, tok, trace, after>>
  BY DEF Push
<1>4. /\ fr.at = pc /\ fr.outer = tok /\ fr.trips = 1 /\ fr.entered = Len(trace)
  OBVIOUS
<1>5. fr \in FrameType
  BY <1>1, <1>2 DEF FrameType
<1> HIDE DEF fr
<1>6. FrameInv(prog, tok, trace, fr)
  <2>1. Unaffected(prog, tok, fr)
    BY <1>4 DEF Unaffected
  <2>2. Since(prog, trace, fr)
    BY <1>2, <1>4 DEF Since
  <2>3. Covered(prog, trace, fr.outer, fr.entered)
    BY <1>1, <1>4 DEF RunInv
  <2>4. fr.trips \in 1..MaxTrips
    BY <1>4, TokenOrderAssumption
  <2> QED BY <1>2, <1>4, <2>1, <2>2, <2>3, <2>4 DEF FrameInv
<1>7. frames \in Seq(FrameType) /\ Matches(prog, pc, frames)
  BY <1>1 DEF RunInv, FramesInv
<1>8. Matches(prog, first, frames') /\ frames' \in Seq(FrameType)
  BY <1>1, <1>3, <1>4, <1>5, <1>7, PushMatches
<1>9. ASSUME NEW f \in 1..Len(frames') PROVE FrameInv(prog, tok, trace, frames'[f])
  <2>1. /\ Len(frames) \in Nat /\ Len(frames') = Len(frames) + 1
        /\ frames'[Len(frames) + 1] = fr
        /\ \A g \in 1..Len(frames) : frames'[g] = frames[g]
    BY <1>3, <1>5, <1>7
  <2>2. CASE f = Len(frames) + 1
    BY <1>6, <2>1, <2>2
  <2>3. CASE f # Len(frames) + 1
    <3>1. f \in 1..Len(frames)
      BY <2>1, <2>3
    <3> QED BY <1>1, <2>1, <3>1 DEF RunInv, FramesInv
  <2> QED BY <2>2, <2>3
<1>10. pc' \in 1..(Len(prog) + 1)
  BY <1>1, <1>3
<1> QED BY <1>3, <1>8, <1>9, <1>10, MoveStep

\* Loop: the body starts from the tokens before it.
LEMMA EnterLoopStep ==
    ASSUME IInv, EnterLoop
    PROVE  IInv'
<1>1. /\ prog \in Kernels /\ Len(prog) \in Nat /\ pc \in 1..Len(prog) /\ pc <= Len(prog)
      /\ Opens(Op) /\ Opens(prog[pc]) /\ Push(pc + 1)
  BY KernelsAssumption DEF IInv, RunInv, EnterLoop, At, Opens, Op
<1>2. Enclosing(prog, pc + 1) = Enclosing(prog, pc) \cup {pc}
  BY <1>1, EnclosingInside
<1> QED BY <1>1, <1>2, PushStep

\* IfElse: either part.
LEMMA EnterBranchStep ==
    ASSUME IInv, EnterBranch
    PROVE  IInv'
<1>1. /\ prog \in Kernels /\ Len(prog) \in Nat /\ pc \in 1..Len(prog) /\ pc <= Len(prog)
      /\ Opens(Op) /\ Opens(prog[pc]) /\ prog[pc].kind = "if"
  BY KernelsAssumption DEF IInv, RunInv, EnterBranch, At, Opens, Op
<1>2. PICK first \in {pc + 1, ElseOf(prog, pc) + 1} : Push(first)
  BY DEF EnterBranch
<1>3. CASE first = pc + 1
  <2>1. Enclosing(prog, pc + 1) = Enclosing(prog, pc) \cup {pc}
    BY <1>1, EnclosingInside
  <2> QED BY <1>1, <1>2, <1>3, <2>1, PushStep
<1>4. CASE first = ElseOf(prog, pc) + 1
  <2>1. Enclosing(prog, first) = Enclosing(prog, pc) \cup {pc}
    BY <1>1, <1>4, EnclosingElse
  <2>2. ElseOf(prog, pc) \in Nat /\ ElseOf(prog, pc) < EndOf(prog, pc)
    BY <1>1, BranchFacts
  <2>3. EndOf(prog, pc) \in (pc + 1)..Len(prog) /\ EndOf(prog, pc) \in Nat
    BY <1>1, BlockFacts
  <2>4. first \in Nat /\ first <= Len(prog) + 1 /\ first > 0
    BY <1>1, <1>4, <2>2, <2>3
  <2> QED BY <1>1, <1>2, <2>1, <2>4, PushStep
<1> QED BY <1>2, <1>3, <1>4

\* A loop without an iteration.
LEMMA SkipLoopStep ==
    ASSUME IInv, SkipLoop
    PROVE  IInv'
<1>1. /\ RunInv /\ prog \in Kernels /\ Len(prog) \in Nat /\ pc \in 1..Len(prog)
      /\ Opens(prog[pc])
  BY KernelsAssumption DEF IInv, RunInv, SkipLoop, At, Opens, Op
<1>2. pc' = EndOf(prog, pc) + 1 /\ UNCHANGED <<prog, tok, frames, trace, after>>
  BY DEF SkipLoop
<1>3. EndOf(prog, pc) \in (pc + 1)..Len(prog)
  BY <1>1, BlockFacts
<1>4. pc' \in 1..(Len(prog) + 1)
  BY <1>1, <1>2, <1>3
<1>5. Enclosing(prog, pc') = Enclosing(prog, pc)
  BY <1>1, <1>2, EnclosingAfter
<1>6. /\ frames \in Seq(FrameType) /\ Matches(prog, pc, frames)
      /\ \A f \in 1..Len(frames) : FrameInv(prog, tok, trace, frames[f])
  BY <1>1 DEF RunInv, FramesInv
<1>7. Matches(prog, pc', frames)
  BY <1>5, <1>6 DEF Matches
<1> QED BY <1>2, <1>4, <1>6, <1>7, MoveStep

\* Leaving a block, and the blocks inside it.
LEMMA PopStep ==
    ASSUME IInv, NEW f \in 1..Len(frames), tok' = Carried(frames[f].at, frames[f].outer),
           frames' = SubSeq(frames, 1, f - 1), pc' = EndOf(prog, frames[f].at) + 1,
           UNCHANGED <<prog, trace, after>>
    PROVE  IInv'
<1> DEFINE o == frames[f].at
<1>1. RunInv /\ prog \in Kernels /\ Len(prog) \in Nat /\ pc \in Nat
  BY KernelsAssumption DEF IInv, RunInv
<1>2. tok' = tok
  BY <1>1, CarriedIsCurrent
<1>3. o \in 1..Len(prog) /\ Opens(prog[o]) /\ EndOf(prog, o) \in Nat /\ EndOf(prog, o) <= Len(prog)
  BY <1>1, FrameFacts
<1>4. Enclosing(prog, EndOf(prog, o) + 1) = Enclosing(prog, o)
  BY <1>1, <1>3, EnclosingAfter
<1>5. pc' \in 1..(Len(prog) + 1) /\ pc' \in Nat
  BY <1>1, <1>3
<1>6. /\ frames \in Seq(FrameType) /\ Matches(prog, pc, frames)
      /\ \A g \in 1..Len(frames) : FrameInv(prog, tok, trace, frames[g])
  BY <1>1 DEF RunInv, FramesInv
<1>7. /\ Matches(prog, pc', frames') /\ frames' \in Seq(FrameType)
      /\ Len(frames') = f - 1
      /\ \A g \in 1..(f - 1) : frames'[g] = frames[g]
  BY <1>1, <1>4, <1>5, <1>6, PopMatches
<1>8. \A g \in 1..(f - 1) : g \in 1..Len(frames)
  BY <1>6
<1>9. \A g \in 1..Len(frames') : FrameInv(prog, tok, trace, frames'[g])
  BY <1>6, <1>7, <1>8
<1> QED BY <1>2, <1>5, <1>7, <1>9, MoveStep

\* Where a block is ended or a loop continued or left, the run is in a block or a loop.
LEMMA InBlock ==
    ASSUME RunInv, At({"else", "end"})
    PROVE  Len(frames) \in 1..Len(frames)
<1>1. prog \in Kernels /\ Len(prog) \in Nat /\ pc \in 1..Len(prog) /\ WellNested(prog)
  BY KernelsAssumption DEF RunInv, At
<1>2. PICK i \in 1..Len(prog) : Opens(prog[i]) /\ i < pc /\ pc <= EndOf(prog, i)
  BY <1>1 DEF WellNested, At, Op
<1>3. i \in Enclosing(prog, pc)
  BY <1>2 DEF Enclosing
<1>4. \E f \in 1..Len(frames) : frames[f].at = i
  BY <1>3 DEF RunInv, FramesInv, Matches
<1>5. Len(frames) \in Nat
  BY DEF RunInv, FramesInv
<1> QED BY <1>4, <1>5

\* A continue, a break or the end of a loop's body is in a loop.
LEMMA InLoop ==
    ASSUME RunInv, AtContinue \/ At({"break"})
    PROVE  InnermostLoop \in 1..Len(frames) /\ prog[frames[InnermostLoop].at].kind # "if"
<1> SUFFICES LoopFrames # {}
  BY InnermostFacts
<1>1. CASE At({"break", "continue"})
  <2>1. prog \in Kernels /\ Len(prog) \in Nat /\ pc \in 1..Len(prog) /\ WellNested(prog)
    BY <1>1, KernelsAssumption DEF RunInv, At
  <2>2. PICK i \in 1..Len(prog) : Opens(prog[i]) /\ prog[i].kind # "if" /\ i < pc
                                  /\ pc <= EndOf(prog, i)
    BY <1>1, <2>1 DEF WellNested, At, Op
  <2>3. i \in Enclosing(prog, pc)
    BY <2>2 DEF Enclosing
  <2>4. \E f \in 1..Len(frames) : frames[f].at = i
    BY <2>3 DEF RunInv, FramesInv, Matches
  <2> QED BY <2>2, <2>4 DEF LoopFrames
<1>2. CASE At({"end"}) /\ prog[Frame.at].kind # "if"
  <2>1. At({"else", "end"})
    BY <1>2 DEF At
  <2>2. Len(frames) \in 1..Len(frames)
    BY <2>1, InBlock
  <2> QED BY <1>2, <2>2 DEF LoopFrames, Frame
<1>3. At({"break"}) \/ At({"continue"}) => At({"break", "continue"})
  BY DEF At
<1> QED BY <1>1, <1>2, <1>3 DEF AtContinue

\* EndBranch leaves the innermost block.
LEMMA EndBranchStep ==
    ASSUME IInv, EndBranch
    PROVE  IInv'
<1>1. Len(frames) \in 1..Len(frames)
  BY InBlock DEF IInv, EndBranch
<1> QED BY <1>1, PopStep DEF EndBranch, Frame

\* Break leaves the innermost loop and the branches inside it.
LEMMA LeaveLoopStep ==
    ASSUME IInv, LeaveLoop
    PROVE  IInv'
<1>1. InnermostLoop \in 1..Len(frames)
  BY InLoop DEF IInv, LeaveLoop
<1> QED BY <1>1, PopStep DEF LeaveLoop

\* Continue leaves the branches inside the innermost loop, which stays.
LEMMA ContinueLoopStep ==
    ASSUME IInv, ContinueLoop
    PROVE  IInv'
<1> DEFINE L == InnermostLoop
           fr == frames[L]
           o == fr.at
           rest == SubSeq(frames, 1, L - 1)
           next == [fr EXCEPT !.trips = @ + 1]
<1>1. RunInv /\ prog \in Kernels /\ Len(prog) \in Nat /\ pc \in Nat
  BY KernelsAssumption DEF IInv, RunInv
<1>2. L \in 1..Len(frames)
  BY <1>1, InLoop DEF ContinueLoop
<1>3. /\ fr.trips < MaxTrips
      /\ tok' = Carried(o, fr.outer)
      /\ frames' = Append(rest, next) /\ pc' = o + 1
      /\ UNCHANGED <<prog, trace, after>>
  BY DEF ContinueLoop
<1>4. tok' = tok
  BY <1>1, <1>2, <1>3, CarriedIsCurrent
<1>5. o \in 1..Len(prog) /\ Opens(prog[o]) /\ fr \in FrameType
  BY <1>1, <1>2, FrameFacts
<1>6. Enclosing(prog, o + 1) = Enclosing(prog, o) \cup {o}
  BY <1>1, <1>5, EnclosingInside
<1>7. pc' \in 1..(Len(prog) + 1) /\ pc' \in Nat /\ o \in Nat
  BY <1>1, <1>3, <1>5
<1>8. /\ frames \in Seq(FrameType) /\ Matches(prog, pc, frames)
      /\ \A g \in 1..Len(frames) : FrameInv(prog, tok, trace, frames[g])
  BY <1>1 DEF RunInv, FramesInv
<1>9. /\ Matches(prog, o, rest) /\ rest \in Seq(FrameType)
      /\ Len(rest) = L - 1
      /\ \A g \in 1..(L - 1) : rest[g] = frames[g]
  <2>1. /\ prog \in Kernels /\ pc \in Nat /\ o \in Nat /\ frames \in Seq(FrameType)
        /\ Matches(prog, pc, frames) /\ L \in 1..Len(frames)
        /\ Enclosing(prog, o) = Enclosing(prog, frames[L].at)
    BY <1>1, <1>2, <1>7, <1>8
  <2> HIDE DEF L, o
  <2>2. /\ Matches(prog, o, SubSeq(frames, 1, L - 1))
        /\ SubSeq(frames, 1, L - 1) \in Seq(FrameType)
        /\ Len(SubSeq(frames, 1, L - 1)) = L - 1
        /\ \A g \in 1..(L - 1) : SubSeq(frames, 1, L - 1)[g] = frames[g]
    BY <2>1, PopMatches, Zenon
  <2> QED BY <2>2, Zenon
<1>10. FrameInv(prog, tok, trace, fr)
  BY <1>2, <1>8
<1>11. /\ next.at = o /\ next.outer = fr.outer /\ next.entered = fr.entered
       /\ next.trips = fr.trips + 1 /\ next \in FrameType
  BY <1>5 DEF FrameType
<1>12. next.trips \in 1..MaxTrips
  <2>1. fr.trips \in 1..MaxTrips /\ MaxTrips \in Nat
    BY <1>10, TokenOrderAssumption DEF FrameInv
  <2> HIDE DEF fr, next
  <2> QED BY <1>3, <1>11, <2>1
<1> HIDE DEF fr, next, rest, L
<1>13. FrameInv(prog, tok, trace, next)
  BY <1>10, <1>11, <1>12 DEF FrameInv, Unaffected, Since
<1>14. Matches(prog, pc', frames') /\ frames' \in Seq(FrameType)
  BY <1>1, <1>3, <1>6, <1>7, <1>9, <1>11, PushMatches
<1>15. ASSUME NEW g \in 1..Len(frames') PROVE FrameInv(prog, tok, trace, frames'[g])
  <2>1. /\ Len(rest) \in Nat /\ Len(frames') = Len(rest) + 1
        /\ frames'[Len(rest) + 1] = next
        /\ \A h \in 1..Len(rest) : frames'[h] = rest[h]
    BY <1>3, <1>9, <1>11
  <2>2. CASE g = Len(rest) + 1
    BY <1>13, <2>1, <2>2
  <2>3. CASE g # Len(rest) + 1
    <3>1. g \in 1..Len(rest)
      BY <2>1, <2>3
    <3>2. Len(frames) \in Nat
      BY <1>8
    <3>3. g \in 1..(L - 1) /\ g \in 1..Len(frames)
      BY <1>2, <1>9, <3>1, <3>2
    <3> QED BY <1>8, <1>9, <2>1, <3>1, <3>3
  <2> QED BY <2>2, <2>3
<1> QED BY <1>3, <1>4, <1>7, <1>14, <1>15, MoveStep

-----------------------------------------------------------------------------
(* The specification.                                                      *)

\* Before the first instruction nothing has been executed.
LEMMA InitInv ==
    ASSUME Init
    PROVE  IInv
<1>1. prog \in Kernels /\ Len(prog) \in Nat /\ pc = 1 /\ pc \in 1..(Len(prog) + 1)
  BY KernelsAssumption DEF Init
<1>2. /\ trace = <<>> /\ Len(trace) = 0 /\ frames = <<>> /\ Len(frames) = 0 /\ after = {}
      /\ trace \in Seq(EntryType) /\ frames \in Seq(FrameType)
  BY DEF Init
<1>3. 1..0 = {} /\ 1..(0 - 1) = {}
  OBVIOUS
<1>4. tok \in TokensUpTo(0)
  BY DEF Init, RootTokens, TokensUpTo
<1>5. Covered(prog, trace, tok, 0)
  BY <1>3 DEF Covered
<1>6. TraceInv
  BY <1>2, <1>3 DEF TraceInv
<1>7. FramesInv
  <2>1. Enclosing(prog, pc) = {}
    BY <1>1, NothingAroundTheStart
  <2> QED BY <1>2, <1>3, <2>1 DEF FramesInv, Matches
<1>8. RunInv
  BY <1>1, <1>2, <1>4, <1>5, <1>6, <1>7 DEF RunInv
<1>9. Last = 0 /\ 1..(Last - 1) = {}
  BY <1>2, <1>3 DEF Last
<1>10. OrderInv
  BY <1>2, <1>9 DEF OrderInv, ConflictsOrdered, AcquireOrdered, ReleaseOrdered,
                    ParallelStoresIndependent
<1> QED BY <1>8, <1>10 DEF IInv

\* Every step keeps the invariant.
LEMMA NextInv ==
    ASSUME IInv, [Next]_vars
    PROVE  IInv'
<1>1. CASE Load
  BY <1>1, LoadStep
<1>2. CASE StoreOrAtomic
  BY <1>2, StoreOrAtomicStep
<1>3. CASE ParallelStore
  BY <1>3, ParallelStoreStep
<1>4. CASE FenceOp
  BY <1>4, FenceStep
<1>5. CASE EnterLoop
  BY <1>5, EnterLoopStep
<1>6. CASE SkipLoop
  BY <1>6, SkipLoopStep
<1>7. CASE EnterBranch
  BY <1>7, EnterBranchStep
<1>8. CASE EndBranch
  BY <1>8, EndBranchStep
<1>9. CASE ContinueLoop
  BY <1>9, ContinueLoopStep
<1>10. CASE LeaveLoop
  BY <1>10, LeaveLoopStep
<1>11. CASE UNCHANGED vars
  <2>1. UNCHANGED <<prog, pc, tok, frames, trace, after>>
    BY <1>11 DEF vars
  <2>2. /\ pc \in 1..(Len(prog) + 1) /\ frames \in Seq(FrameType)
        /\ Matches(prog, pc, frames)
        /\ \A f \in 1..Len(frames) : FrameInv(prog, tok, trace, frames[f])
    BY DEF IInv, RunInv, FramesInv
  <2> QED BY <2>1, <2>2, MoveStep
<1> QED BY <1>1, <1>2, <1>3, <1>4, <1>5, <1>6, <1>7, <1>8, <1>9, <1>10, <1>11 DEF Next

\* The inductive invariant holds in every run.
LEMMA IInvHolds == Spec => []IInv
<1>1. Init => IInv
  BY InitInv
<1>2. IInv /\ [Next]_vars => IInv'
  BY NextInv
<1> QED BY <1>1, <1>2, PTL DEF Spec

\* The types follow from the invariant of the run.
LEMMA RunIsTyped ==
    ASSUME IInv
    PROVE  TypeOK
<1>1. RunInv /\ Len(trace) \in Nat /\ tok \in TokensUpTo(Len(trace))
  BY TokenTypes DEF IInv
<1>2. ASSUME NEW f \in 1..Len(frames)
      PROVE  /\ Opens(prog[frames[f].at])
             /\ frames[f].outer \in Tokens
             /\ frames[f].trips \in 1..MaxTrips
             /\ frames[f].at < pc /\ pc <= EndOf(prog, frames[f].at)
  <2> DEFINE fr == frames[f]
  <2>1. FrameInv(prog, tok, trace, fr) /\ fr \in FrameType
    BY <1>1, FrameFacts DEF RunInv, FramesInv
  <2>2. fr.entered \in Nat /\ fr.entered <= Len(trace) /\ fr.outer \in TokensUpTo(fr.entered)
    BY <2>1 DEF FrameInv, FrameType
  <2>3. fr.outer \in TokensUpTo(Len(trace))
    BY <1>1, <2>2, TokensGrow
  <2>4. fr.outer \in Tokens
    BY <2>3 DEF Tokens, TokensUpTo
  <2> QED BY <1>1, <2>1, <2>4, FrameFacts DEF FrameInv
<1>3. tok \in Tokens
  BY <1>1 DEF Tokens, TokensUpTo
<1> QED BY <1>1, <1>2, <1>3 DEF TypeOK, IInv, RunInv, OrderInv

\* In every run of every well-nested kernel, for any alias groups and any number of
\* iterations, the tokens are well formed and two operations that may conflict are
\* connected by tokens in program order (token_order_pass).
THEOREM ConflictsAreOrdered == Spec => []TokenInv
<1>1. IInv => TokenInv
  BY RunIsTyped DEF IInv, OrderInv, TokenInv
<1> QED BY <1>1, IInvHolds, PTL

\* Every operation waits for each acquire that precedes it in the run, also one in an
\* earlier iteration or in a branch that was left (_collect_join_tokens).
THEOREM AcquiresAreOrdered == Spec => []AcquireOrdered
<1>1. IInv => AcquireOrdered
  BY DEF IInv, OrderInv
<1> QED BY <1>1, IInvHolds, PTL

\* A release that is not a parallelised store waits for every operation that precedes it
\* in the run (should_join).
THEOREM ReleasesAreOrdered == Spec => []ReleaseOrdered
<1>1. IInv => ReleaseOrdered
  BY DEF IInv, OrderInv
<1> QED BY <1>1, IInvHolds, PTL

\* The stores of a parallelised instruction in a loop without an acquire never wait for
\* each other, in any execution of the loop (_try_loop_parallel_store).
THEOREM ParallelStoresDoNotWait == Spec => []ParallelStoresIndependent
<1>1. IInv => ParallelStoresIndependent
  BY DEF IInv, OrderInv
<1> QED BY <1>1, IInvHolds, PTL

=============================================================================
