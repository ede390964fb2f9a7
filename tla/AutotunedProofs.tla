---- MODULE AutotunedProofs ----
(***************************************************************************)
(* Proofs about Autotuned: a search reports every configuration once and   *)
(* selects among those that were timed long enough, and a key keeps the    *)
(* configuration selected for it, for any number of threads, keys and      *)
(* configurations and any timings.                                         *)
(***************************************************************************)
EXTENDS Autotuned, FiniteSetTheorems, SequenceTheorems, WellFoundedInduction, TLAPS

-----------------------------------------------------------------------------
(* The inductive invariant.                                                *)

\* The candidates that are done, counted, are those of the list.
ListInv ==
  /\ converged \in Seq(Configs)
  /\ IsFiniteSet(Done)
  /\ Cardinality(Done) = Len(converged)

\* Where the search is, by its phase.
PhaseInv ==
  /\ phase \in {"rest", "found"} => next = N + 1
  /\ phase = "found" => running = {} /\ converged # <<>>
  /\ phase # "rest" => now = 0

\* The candidates that converged and are as good as the cutoff.
Good == {d \in Done : Converged(timing[d]) /\ timing[d].mean =< cutoff}

\* The candidates that phase 2 gave up are no better than the cutoff, and TopK that are as
\* good as the cutoff came before them.
CutoffInv ==
  /\ Cardinality(Good) >= TopK
  /\ \A i \in DOMAIN converged :
       \/ Converged(timing[converged[i]])
       \/ /\ timing[converged[i]].mean >= cutoff
          /\ \E j \in 1..(i - 1) : converged[j] \in Good

AllConverged == \A c \in Done : Converged(timing[c])

TopInv ==
  /\ phase = "warm" => AllConverged
  /\ phase = "rest" => CutoffInv
  /\ phase = "found" => AllConverged \/ CutoffInv

\* The invariant of a search.
CandidatesInv == SearchTypeOK /\ EveryConfigReportedOnce /\ ListInv /\ PhaseInv /\ TopInv

\* The thread that tunes found nothing for its key, and nobody can have changed that.
LockInv ==
  /\ cache \in [Keys -> Configs \cup {0}]
  /\ lock \in Threads \cup {None}
  /\ at \in [Threads -> {"idle", "lock", "select", "tune"}]
  /\ key \in [Threads -> Keys]
  /\ calls \in [Threads -> 0..MaxCalls]
  /\ \A t \in Threads : at[t] \in {"select", "tune"} <=> lock = t
  /\ (phase # "off") <=> (\E t \in Threads : at[t] = "tune")
  /\ \A t \in Threads : at[t] = "tune" => cache[key[t]] = 0

SelectInv == CandidatesInv /\ LockInv

\* Only a search that is at a benchmark can hang in it.
HangInv ==
  /\ hung \in BOOLEAN
  /\ hung => Benchmarking

IInv == SelectInv /\ HangInv

-----------------------------------------------------------------------------
(* Least and greatest elements.                                            *)

\* A non-empty set of natural numbers has a least element.
LEMMA LeastNat ==
    ASSUME NEW S \in SUBSET Nat, S # {}
    PROVE  \E m \in S : \A n \in S : m <= n
<1> DEFINE R == {ss \in Nat \X Nat : ss[1] < ss[2]}
<1>1. IsWellFoundedOn(R, Nat)
  BY NatLessThanWellFounded, Zenon DEF OpToRel
<1>2. PICK m \in S : \A n \in S : ~ (<<n, m>> \in R)
  <2> HIDE DEF R
  <2> QED BY <1>1, WFMin, Zenon
<1>3. ASSUME NEW n \in S PROVE m <= n
  <2>1. <<n, m>>[1] = n /\ <<n, m>>[2] = m /\ <<n, m>> \in Nat \X Nat
    OBVIOUS
  <2> QED BY <1>2, <2>1, n \in Nat, m \in Nat
<1> QED BY <1>3

\* A function to the naturals has a largest value on a finite set.
LEMMA LargestValue ==
    ASSUME NEW D, IsFiniteSet(D), D # {}, NEW f \in [D -> Nat]
    PROVE  \E c \in D : \A d \in D : f[d] =< f[c]
<1> DEFINE NoLargest(E) == E # {} /\ ~(\E c \in E : \A d \in E : f[d] =< f[c])
           Sizes == {n \in Nat : \E E \in SUBSET D : Cardinality(E) = n /\ NoLargest(E)}
<1> SUFFICES ASSUME NoLargest(D) PROVE FALSE
  OBVIOUS
<1>1. Cardinality(D) \in Nat
  BY FS_CardinalityType
<1>2. Sizes # {} /\ Sizes \in SUBSET Nat
  BY <1>1
<1>3. PICK m \in Sizes : \A n \in Sizes : m <= n
  BY <1>2, LeastNat
<1>4. PICK E \in SUBSET D : Cardinality(E) = m /\ NoLargest(E)
  BY <1>3
<1>5. PICK x \in E : TRUE
  BY <1>4
<1> DEFINE F == E \ {x}
<1>6. IsFiniteSet(E) /\ Cardinality(F) = m - 1 /\ F \in SUBSET D /\ IsFiniteSet(F)
  BY <1>4, <1>5, FS_Subset, FS_RemoveElement
<1>7. Cardinality(F) \in Nat
  BY <1>6, FS_CardinalityType
<1>8. ~NoLargest(F)
  <2>1. Cardinality(F) \notin Sizes
    <3>1. m \in Nat /\ ~(m <= m - 1)
      BY <1>3
    <3> HIDE DEF Sizes, F
    <3> QED BY <1>3, <1>6, <3>1
  <2> QED BY <1>6, <1>7, <2>1
<1>9. CASE F = {}
  <2>1. E = {x} /\ f[x] \in Nat
    BY <1>5, <1>9
  <2> QED BY <1>4, <2>1
<1>10. CASE F # {}
  <2>1. PICK y \in F : \A d \in F : f[d] =< f[y]
    BY <1>8, <1>10
  <2>2. f[x] \in Nat /\ f[y] \in Nat /\ \A d \in E : d = x \/ d \in F
    BY <1>5, <2>1
  <2>3. CASE f[x] =< f[y]
    BY <1>4, <1>5, <2>1, <2>2, <2>3
  <2>4. CASE f[y] =< f[x]
    <3>1. \A d \in E : f[d] =< f[x]
      BY <2>1, <2>2, <2>4
    <3> QED BY <1>4, <1>5, <3>1
  <2> QED BY <2>2, <2>3, <2>4
<1> QED BY <1>9, <1>10

-----------------------------------------------------------------------------
(* A timing, the cutoff and the best configuration.                        *)

Timings == [n : 0..MaxRepeats, mean : Means \cup {0}, margin : Margins \cup {0}]

LEMMA TimingsAreNumbers ==
    ASSUME NEW t \in Timings
    PROVE  t.n \in Nat /\ t.n =< MaxRepeats /\ t.mean \in Nat /\ t.margin \in Nat
<1>1. t.n \in 0..MaxRepeats /\ t.mean \in Means \cup {0} /\ t.margin \in Margins \cup {0}
  BY DEF Timings
<1>2. t.n \in Nat /\ t.n =< MaxRepeats
  BY <1>1, SearchAssumption
<1>3. Means \cup {0} \subseteq Nat /\ Margins \cup {0} \subseteq Nat
  BY SearchAssumption
<1> QED BY <1>1, <1>2, <1>3

\* A batch is cut so that no candidate is timed more than MaxRepeats times.
LEMMA MeasuredIsTiming ==
    ASSUME NEW t \in Timings, NEW u \in Measured(t)
    PROVE  u \in Timings
<1>1. t.n \in Nat /\ t.n =< MaxRepeats /\ MaxRepeats \in Nat /\ BatchRepeats \in Nat
  BY SearchAssumption DEF Timings
<1>2. t.n + Batch(t) \in 0..MaxRepeats
  BY <1>1 DEF Batch
<1>3. CASE Batch(t) = 0
  BY <1>3 DEF Measured
<1>4. CASE Batch(t) # 0
  <2>1. u \in [n : {t.n + Batch(t)}, mean : Means, margin : Margins]
    BY <1>4 DEF Measured
  <2> QED BY <1>2, <2>1 DEF Timings
<1> QED BY <1>3, <1>4

LEMMA DoneIsFinite ==
    ASSUME SearchTypeOK
    PROVE  Done \subseteq Configs /\ IsFiniteSet(Done) /\ Configs \subseteq Nat \ {0}
<1>1. Done \subseteq Configs /\ Configs \subseteq Nat \ {0}
  BY SearchAssumption DEF Done, SearchTypeOK, Configs
<1>2. IsFiniteSet(Configs)
  BY FS_Interval, SearchAssumption DEF Configs
<1> QED BY <1>1, <1>2, FS_Subset

\* The sorted list has a TopK-th entry: the CHOOSE of Cutoff has a witness, and TopK of
\* the candidates, or all, are as good.
LEMMA CutoffCorrect ==
    ASSUME SearchTypeOK, ListInv, converged # <<>>, Len(converged) >= TopK
    PROVE  /\ Cutoff \in Means \cup {0}
           /\ Cardinality({c \in Done : timing[c].mean =< Cutoff}) >= TopK
<1> DEFINE mean == [c \in Done |-> timing[c].mean]
           below(m) == {c \in Done : timing[c].mean < m}
           upTo(m) == {c \in Done : timing[c].mean =< m}
           fits(m) == IF Cardinality(Done) =< TopK THEN upTo(m) = Done
                      ELSE Cardinality(below(m)) < TopK /\ Cardinality(upTo(m)) >= TopK
           values == {timing[c].mean : c \in Done}
<1>0. /\ \A c \in Done : timing[c].mean \in Nat /\ timing[c].mean \in Means \cup {0}
      /\ mean \in [Done -> Nat] /\ TopK \in Nat /\ TopK > 0
  <2>1. \A c \in Done : c \in Configs /\ timing[c] \in Timings
    BY DoneIsFinite DEF SearchTypeOK, Timings
  <2>2. \A c \in Done : timing[c].mean \in Nat /\ timing[c].mean \in Means \cup {0}
    BY <2>1, TimingsAreNumbers DEF Timings
  <2> QED BY <2>2, SearchAssumption
<1>1. /\ IsFiniteSet(Done) /\ Done # {} /\ Cardinality(Done) \in Nat /\ Cardinality(Done) >= TopK
  BY <1>0, FS_CardinalityType, FS_EmptySet, DoneIsFinite DEF ListInv
<1>2. \A m : /\ IsFiniteSet(below(m)) /\ IsFiniteSet(upTo(m))
             /\ Cardinality(below(m)) \in Nat /\ Cardinality(upTo(m)) \in Nat
  <2> SUFFICES ASSUME NEW m
               PROVE  /\ IsFiniteSet(below(m)) /\ IsFiniteSet(upTo(m))
                      /\ Cardinality(below(m)) \in Nat /\ Cardinality(upTo(m)) \in Nat
    OBVIOUS
  <2>1. below(m) \in SUBSET Done /\ upTo(m) \in SUBSET Done
    OBVIOUS
  <2> HIDE DEF below, upTo
  <2> QED BY <1>1, <2>1, FS_Subset, FS_CardinalityType
<1>3. PICK top \in Done : \A d \in Done : mean[d] =< mean[top]
  BY <1>0, <1>1, LargestValue
<1>4. upTo(timing[top].mean) = Done /\ timing[top].mean \in values
  BY <1>3
<1>5. \E m \in values : fits(m)
  <2>1. CASE Cardinality(Done) =< TopK
    BY <1>4, <2>1
  <2>2. CASE ~(Cardinality(Done) =< TopK)
    <3> DEFINE Enough == {m \in values : Cardinality(upTo(m)) >= TopK}
    <3>1. timing[top].mean \in Enough /\ Enough \in SUBSET Nat
      BY <1>0, <1>1, <1>4
    <3>2. PICK m \in Enough : \A n \in Enough : m <= n
      BY <3>1, LeastNat
    <3>3. Cardinality(below(m)) < TopK
      <4>0. IsFiniteSet(below(m)) /\ Cardinality(below(m)) \in Nat /\ m \in Nat
        <5>1. m \in Nat
          BY <3>1, <3>2
        <5> HIDE DEF below
        <5> QED BY <1>2, <5>1
      <4> SUFFICES ASSUME Cardinality(below(m)) >= TopK PROVE FALSE
        <5> HIDE DEF below
        <5> QED BY <1>0, <4>0
      <4>1. below(m) # {}
        <5> HIDE DEF below
        <5> QED BY <1>0, <4>0, FS_EmptySet
      <4> DEFINE g == [c \in below(m) |-> timing[c].mean]
      <4>2. g \in [below(m) -> Nat]
        BY <1>0
      <4>3. PICK b \in below(m) : \A d \in below(m) : g[d] =< g[b]
        <5> HIDE DEF g, below
        <5> QED BY <1>2, <4>1, <4>2, LargestValue
      <4>4. timing[b].mean < m /\ timing[b].mean \in values /\ timing[b].mean \in Nat
        BY <1>0
      <4>5. below(m) \in SUBSET upTo(timing[b].mean)
        BY <4>3
      <4>6. Cardinality(below(m)) =< Cardinality(upTo(timing[b].mean))
        <5> HIDE DEF below, upTo
        <5> QED BY <1>2, <4>5, FS_Subset
      <4>7. timing[b].mean \in Enough
        <5> HIDE DEF below, upTo, values
        <5> QED BY <1>0, <1>2, <4>4, <4>6
      <4> HIDE DEF Enough, below
      <4> QED BY <3>2, <4>0, <4>4, <4>7
    <3> QED BY <2>2, <3>2, <3>3
  <2> QED BY <2>1, <2>2
<1>6. Cutoff \in values /\ fits(Cutoff)
  <2>1. Cutoff = CHOOSE m \in values : fits(m)
    BY DEF Cutoff
  <2> HIDE DEF values, fits
  <2> QED BY <1>5, <2>1
<1>7. Cardinality(upTo(Cutoff)) >= TopK
  <2>1. CASE Cardinality(Done) =< TopK
    BY <1>1, <1>6, <2>1
  <2>2. CASE ~(Cardinality(Done) =< TopK)
    BY <1>6, <2>2
  <2> QED BY <2>1, <2>2
<1> QED BY <1>0, <1>6, <1>7

\* The best configuration is one of those that are done, none of them is faster, and those
\* before it are slower.
LEMMA BestCorrect ==
    ASSUME SearchTypeOK, ListInv, converged # <<>>
    PROVE  \E i \in DOMAIN converged :
             /\ Best = converged[i] /\ Best \in Done
             /\ \A j \in DOMAIN converged : timing[Best].mean =< timing[converged[j]].mean
             /\ \A j \in 1..(i - 1) : \E k \in DOMAIN converged :
                  ~(timing[converged[j]].mean =< timing[converged[k]].mean)
<1> DEFINE least(i) == \A j \in DOMAIN converged : timing[converged[i]].mean =< timing[converged[j]].mean
           first(i) == least(i) /\ \A j \in 1..(i - 1) : ~least(j)
           values == {timing[converged[i]].mean : i \in DOMAIN converged}
<1>0. DOMAIN converged = 1..Len(converged) /\ Len(converged) \in Nat /\ DOMAIN converged # {}
  BY DEF ListInv
<1>1. \A i \in DOMAIN converged : timing[converged[i]].mean \in Nat
  <2>1. \A i \in DOMAIN converged : timing[converged[i]] \in Timings
    BY DEF SearchTypeOK, Timings
  <2> QED BY <2>1, TimingsAreNumbers
<1>2. values # {} /\ values \in SUBSET Nat
  BY <1>0, <1>1
<1>3. PICK m \in values : \A n \in values : m <= n
  BY <1>2, LeastNat
<1>4. PICK i0 \in DOMAIN converged : timing[converged[i0]].mean = m
  BY <1>3
<1>5. least(i0)
  BY <1>3, <1>4
<1> DEFINE leasts == {i \in DOMAIN converged : least(i)}
<1> HIDE DEF least
<1>6. leasts # {} /\ leasts \in SUBSET Nat
  BY <1>0, <1>4, <1>5
<1>7. PICK i1 \in leasts : \A n \in leasts : i1 <= n
  BY <1>6, LeastNat
<1>8. i1 \in DOMAIN converged /\ first(i1)
  <2>1. ASSUME NEW j \in 1..(i1 - 1), least(j) PROVE FALSE
    <3>1. j \in leasts /\ j < i1
      BY <1>0, <1>7, <2>1
    <3> QED BY <1>0, <1>7, <3>1
  <2> QED BY <1>7, <2>1
<1>9. PICK i : i = (CHOOSE k \in DOMAIN converged : first(k))
  OBVIOUS
<1>10. i \in DOMAIN converged /\ first(i)
  <2> HIDE DEF first
  <2> QED BY <1>8, <1>9
<1>11. Best = converged[i]
  BY <1>9 DEF Best, least
<1> QED BY <1>10, <1>11 DEF least, Done

-----------------------------------------------------------------------------
(* What the steps of a search do to the lists of candidates.               *)

\* A candidate that becomes done is added at the end of the list.
LEMMA AppendDone ==
    ASSUME SearchTypeOK, EveryConfigReportedOnce, ListInv,
           NEW c \in Configs, c \notin Done, converged' = Append(converged, c)
    PROVE  /\ ListInv' /\ Done' = Done \cup {c}
           /\ Len(converged) \in Nat
           /\ DOMAIN converged = 1..Len(converged)
           /\ DOMAIN converged' = 1..(Len(converged) + 1)
           /\ \A i \in DOMAIN converged : converged'[i] = converged[i]
           /\ converged'[Len(converged) + 1] = c
           /\ \A i, j \in DOMAIN converged' : converged'[i] = converged'[j] => i = j
<1>1. /\ converged' \in Seq(Configs) /\ Len(converged) \in Nat
      /\ Len(converged') = Len(converged) + 1
      /\ DOMAIN converged = 1..Len(converged)
      /\ DOMAIN converged' = 1..(Len(converged) + 1)
      /\ \A i \in 1..Len(converged) : converged'[i] = converged[i]
      /\ converged'[Len(converged) + 1] = c
  BY AppendProperties DEF ListInv
<1>2. Done' = Done \cup {c}
  <2>1. ASSUME NEW x \in Done' PROVE x \in Done \cup {c}
    <3>1. PICK i \in DOMAIN converged' : x = converged'[i]
      BY DEF Done
    <3>2. CASE i \in 1..Len(converged)
      BY <1>1, <3>1, <3>2 DEF Done
    <3>3. CASE i = Len(converged) + 1
      BY <1>1, <3>1, <3>3
    <3> QED BY <1>1, <3>1, <3>2, <3>3
  <2>2. ASSUME NEW x \in Done PROVE x \in Done'
    <3>1. PICK i \in DOMAIN converged : x = converged[i]
      BY DEF Done
    <3>2. i \in DOMAIN converged' /\ x = converged'[i]
      BY <1>1, <3>1
    <3> QED BY <3>2 DEF Done
  <2>3. c \in Done'
    <3>1. Len(converged) + 1 \in DOMAIN converged'
      BY <1>1
    <3> QED BY <1>1, <3>1 DEF Done
  <2> QED BY <2>1, <2>2, <2>3
<1>3. IsFiniteSet(Done') /\ Cardinality(Done') = Cardinality(Done) + 1
  BY <1>2, FS_AddElement DEF ListInv
<1>4. ListInv'
  BY <1>1, <1>3 DEF ListInv
<1>5. ASSUME NEW i \in DOMAIN converged', NEW j \in DOMAIN converged',
             converged'[i] = converged'[j]
      PROVE  i = j
  <2>1. \A k \in DOMAIN converged : converged[k] # c
    BY DEF Done
  <2>2. CASE i \in 1..Len(converged) /\ j \in 1..Len(converged)
    BY <1>1, <1>5, <2>2 DEF EveryConfigReportedOnce
  <2>3. CASE i = Len(converged) + 1 \/ j = Len(converged) + 1
    BY <1>1, <1>5, <2>1, <2>3
  <2> QED BY <1>1, <1>5, <2>2, <2>3
<1> QED BY <1>1, <1>2, <1>4, <1>5

\* A step with candidate c leaves the others where they are and c in one place; it is done
\* only if it converged.
Moves(c) ==
  /\ timing' \in [Configs -> Timings]
  /\ \A d \in Configs \ {c} : timing'[d] = timing[d]
  /\ running' \cup Done' \cup errors' = running \cup Done \cup errors \cup {c}
  /\ running' \cap Done' = {} /\ running' \cap errors' = {} /\ Done' \cap errors' = {}
  /\ \A i, j \in DOMAIN converged' : converged'[i] = converged'[j] => i = j
  /\ ListInv'
  /\ running' \subseteq running \cup {c}
  /\ errors' \subseteq errors \cup {c}
  /\ Done' \subseteq Done \cup {c}
  /\ c \in Done' => Converged(timing'[c])

LEMMA TimeMoves ==
    ASSUME SearchTypeOK, EveryConfigReportedOnce, ListInv,
           NEW c \in Configs, c \notin Done, c \notin errors, Time(c)
    PROVE  Moves(c)
<1>1. PICK t \in Measured(timing[c]) :
        /\ timing' = [timing EXCEPT ![c] = t]
        /\ IF Converged(t)
           THEN /\ converged' = Append(converged, c)
                /\ running' = running \ {c}
           ELSE /\ running' = running \cup {c}
                /\ UNCHANGED converged
        /\ UNCHANGED errors
  BY DEF Time
<1>2. timing \in [Configs -> Timings]
  BY DEF SearchTypeOK, Timings
<1>3. t \in Timings
  BY <1>2, MeasuredIsTiming
<1>4. /\ timing' \in [Configs -> Timings] /\ timing'[c] = t
      /\ \A d \in Configs \ {c} : timing'[d] = timing[d]
  BY <1>1, <1>2, <1>3
<1>5. CASE Converged(t)
  <2>1. converged' = Append(converged, c) /\ running' = running \ {c} /\ errors' = errors
    BY <1>1, <1>5
  <2>2. /\ ListInv' /\ Done' = Done \cup {c}
        /\ \A i, j \in DOMAIN converged' : converged'[i] = converged'[j] => i = j
    BY <2>1, AppendDone
  <2> QED BY <1>4, <1>5, <2>1, <2>2 DEF Moves, EveryConfigReportedOnce
<1>6. CASE ~Converged(t)
  <2>1. converged' = converged /\ running' = running \cup {c} /\ errors' = errors
    BY <1>1, <1>6
  <2>2. ListInv' /\ Done' = Done
    BY <2>1 DEF ListInv, Done
  <2> QED BY <1>4, <1>6, <2>1, <2>2 DEF Moves, EveryConfigReportedOnce
<1> QED BY <1>5, <1>6

LEMMA RaisesMoves ==
    ASSUME SearchTypeOK, EveryConfigReportedOnce, ListInv,
           NEW c \in Configs, c \notin Done, c \notin errors, Raises(c)
    PROVE  Moves(c)
<1>1. /\ converged' = converged /\ running' = running \ {c} /\ errors' = errors \cup {c}
      /\ timing' = [timing EXCEPT ![c] = Untimed]
  BY DEF Raises
<1>2. ListInv' /\ Done' = Done
  BY <1>1 DEF ListInv, Done
<1>3. timing \in [Configs -> Timings]
  BY DEF SearchTypeOK, Timings
<1>4. Untimed \in Timings
  BY SearchAssumption DEF Untimed, Timings
<1>5. timing' \in [Configs -> Timings] /\ \A d \in Configs \ {c} : timing'[d] = timing[d]
  BY <1>1, <1>3, <1>4
<1> QED BY <1>1, <1>2, <1>5 DEF Moves, EveryConfigReportedOnce

LEMMA NextBounds ==
    ASSUME SearchTypeOK
    PROVE  /\ next \in Nat /\ N \in Nat /\ 1..(next - 1) \subseteq Configs
           /\ next \in Configs => next \notin 1..(next - 1) /\ next + 1 \in 1..(N + 1)
                                  /\ 1..((next + 1) - 1) = (1..(next - 1)) \cup {next}
           /\ next = N + 1 => 1..(next - 1) = Configs
BY SearchAssumption DEF SearchTypeOK, Configs

LEMMA ResetGivesCandidatesInv ==
    ASSUME Reset, phase' \in {"off", "warm", "raised"}
    PROVE  CandidatesInv'
<1>1. /\ next' = 1 /\ timing' = [c \in Configs |-> Untimed] /\ running' = {}
      /\ converged' = <<>> /\ errors' = {} /\ cutoff' = 0 /\ now' = 0
  BY DEF Reset
<1>2. Done' = {} /\ converged' \in Seq(Configs) /\ Len(converged') = 0 /\ DOMAIN converged' = {}
  BY <1>1 DEF Done
<1>3. SearchTypeOK'
  BY <1>1, <1>2, SearchAssumption DEF SearchTypeOK, Untimed, Configs
<1>4. EveryConfigReportedOnce'
  <2>1. 1..(next' - 1) = {}
    BY <1>1
  <2> QED BY <1>1, <1>2, <2>1 DEF EveryConfigReportedOnce
<1>5. ListInv'
  BY <1>2, FS_EmptySet DEF ListInv
<1>6. PhaseInv' /\ TopInv'
  BY <1>1, <1>2 DEF PhaseInv, TopInv, AllConverged
<1> QED BY <1>3, <1>4, <1>5, <1>6 DEF CandidatesInv

-----------------------------------------------------------------------------
(* The steps of a search preserve its invariant.                           *)

\* Phases 0 and 1, once c has moved.
LEMMA MovesInWarm ==
    ASSUME CandidatesInv, NEW c \in Configs, Moves(c), phase = "warm", phase' = "warm",
           cutoff' = cutoff, now' = now, next' \in 1..(N + 1),
           running \cup Done \cup errors \cup {c} = 1..(next' - 1)
    PROVE  CandidatesInv'
<1>1. now = 0 /\ now' = 0 /\ AllConverged
  BY DEF CandidatesInv, PhaseInv, TopInv
<1>2. SearchTypeOK'
  <2>1. \A i \in DOMAIN converged' : converged'[i] \in Configs
    BY ElementOfSeq DEF Moves, ListInv
  <2>2. /\ timing' \in [Configs -> Timings]
        /\ running' \subseteq Configs /\ errors' \subseteq Configs
    BY DEF Moves, CandidatesInv, SearchTypeOK
  <2>3. cutoff' \in Means \cup {0} /\ now' \in running' \cup {0}
    BY <1>1 DEF CandidatesInv, SearchTypeOK
  <2> QED BY <2>1, <2>2, <2>3 DEF SearchTypeOK, Timings
<1>3. EveryConfigReportedOnce'
  BY DEF Moves, EveryConfigReportedOnce
<1>4. PhaseInv'
  BY <1>1 DEF PhaseInv
<1>5. AllConverged'
  <2>1. ASSUME NEW d \in Done' PROVE Converged(timing'[d])
    <3>1. CASE d = c
      BY <3>1 DEF Moves
    <3>2. CASE d # c
      <4>1. d \in Done /\ d \in Configs
        BY <3>2, DoneIsFinite DEF Moves, CandidatesInv
      <4>2. timing'[d] = timing[d]
        BY <3>2, <4>1 DEF Moves
      <4> QED BY <1>1, <4>1, <4>2 DEF AllConverged
    <3> QED BY <3>1, <3>2
  <2> QED BY <2>1 DEF AllConverged
<1>6. TopInv'
  BY <1>5 DEF TopInv
<1> QED BY <1>2, <1>3, <1>4, <1>6 DEF CandidatesInv, Moves

LEMMA WarmUpKeepsInv ==
    ASSUME CandidatesInv, WarmUp
    PROVE  CandidatesInv'
<1>1. /\ phase = "warm" /\ next \in Configs /\ next' = next + 1
      /\ Time(next) \/ Raises(next)
      /\ phase' = phase /\ cutoff' = cutoff /\ now' = now
  BY DEF WarmUp
<1>2. PICK c \in Configs : c = next
  BY <1>1
<1>3. running \cup Done \cup errors = 1..(next - 1) /\ SearchTypeOK /\ ListInv
      /\ EveryConfigReportedOnce
  BY DEF CandidatesInv, EveryConfigReportedOnce
<1>4. /\ next \notin 1..(next - 1) /\ next + 1 \in 1..(N + 1)
      /\ 1..((next + 1) - 1) = (1..(next - 1)) \cup {next}
  BY <1>1, <1>3, NextBounds
<1>5. c \notin Done /\ c \notin errors
  BY <1>2, <1>3, <1>4
<1>6. Time(c) \/ Raises(c)
  BY <1>1, <1>2
<1>7. Moves(c)
  BY <1>3, <1>5, <1>6, TimeMoves, RaisesMoves
<1>8. next' \in 1..(N + 1) /\ running \cup Done \cup errors \cup {c} = 1..(next' - 1)
  BY <1>1, <1>2, <1>3, <1>4
<1> QED BY <1>1, <1>7, <1>8, MovesInWarm

LEMMA ConvergeTopKeepsInv ==
    ASSUME CandidatesInv, ConvergeTop
    PROVE  CandidatesInv'
<1>1. /\ phase = "warm" /\ phase' = phase /\ next' = next /\ cutoff' = cutoff /\ now' = now
  BY DEF ConvergeTop
<1>2. PICK c \in running : Time(c) \/ Raises(c)
  BY DEF ConvergeTop
<1>3. /\ SearchTypeOK /\ ListInv /\ EveryConfigReportedOnce
      /\ c \in Configs /\ c \notin Done /\ c \notin errors
      /\ running \cup Done \cup errors \cup {c} = 1..(next - 1) /\ next \in 1..(N + 1)
  BY <1>2 DEF CandidatesInv, EveryConfigReportedOnce, SearchTypeOK
<1>4. Moves(c)
  BY <1>2, <1>3, TimeMoves, RaisesMoves
<1> QED BY <1>1, <1>3, <1>4, MovesInWarm

\* Phase 2 begins with TopK candidates that converged and are as good as the cutoff.
LEMMA BeginRestKeepsInv ==
    ASSUME CandidatesInv, BeginRest
    PROVE  CandidatesInv'
<1>1. /\ phase = "warm" /\ next = N + 1 /\ converged # <<>> /\ Len(converged) >= TopK
      /\ phase' = "rest" /\ cutoff' = Cutoff
      /\ next' = next /\ timing' = timing /\ running' = running /\ converged' = converged
      /\ errors' = errors /\ now' = now
  BY DEF BeginRest
<1>2. Done' = Done
  BY <1>1 DEF Done
<1>3. /\ Cutoff \in Means \cup {0}
      /\ Cardinality({c \in Done : timing[c].mean =< Cutoff}) >= TopK
  BY <1>1, CutoffCorrect DEF CandidatesInv
<1>4. SearchTypeOK'
  BY <1>1, <1>3 DEF CandidatesInv, SearchTypeOK
<1>5. EveryConfigReportedOnce' /\ ListInv' /\ PhaseInv'
  BY <1>1, <1>2 DEF CandidatesInv, EveryConfigReportedOnce, ListInv, PhaseInv
<1>6. CutoffInv'
  <2>1. AllConverged
    BY <1>1 DEF CandidatesInv, TopInv
  <2>2. Good' = {c \in Done : timing[c].mean =< Cutoff}
    BY <1>1, <1>2, <2>1 DEF Good, AllConverged
  <2>3. \A i \in DOMAIN converged : Converged(timing[converged[i]])
    BY <2>1 DEF AllConverged, Done
  <2> QED BY <1>1, <1>3, <2>2, <2>3 DEF CutoffInv
<1>7. TopInv'
  BY <1>1, <1>6 DEF TopInv
<1> QED BY <1>4, <1>5, <1>7 DEF CandidatesInv

\* A step of phase 2 with a candidate that stays or raises.
LEMMA CutoffInvKept ==
    ASSUME CandidatesInv, CutoffInv, converged' = converged, cutoff' = cutoff,
           \A d \in Done : timing'[d] = timing[d]
    PROVE  CutoffInv'
<1>1. Done' = Done
  BY DEF Done
<1>2. Good' = Good
  BY <1>1 DEF Good
<1>3. \A i \in DOMAIN converged : converged[i] \in Done
  BY DEF Done
<1> QED BY <1>2, <1>3 DEF CutoffInv

\* A candidate that phase 2 is done with converged, or its mean is not below the cutoff.
LEMMA GivenUpIsSlow ==
    ASSUME NEW t \in Timings, cutoff \in Nat, ~Promising(t), ~Converged(t)
    PROVE  t.mean >= cutoff
BY TimingsAreNumbers DEF Promising

LEMMA AppendKeepsCutoffInv ==
    ASSUME CandidatesInv, CutoffInv, NEW c \in running, ~Promising(timing[c]),
           converged' = Append(converged, c), timing' = timing, cutoff' = cutoff
    PROVE  CutoffInv'
<1>1. /\ SearchTypeOK /\ ListInv /\ EveryConfigReportedOnce
      /\ c \in Configs /\ c \notin Done
  BY DEF CandidatesInv, EveryConfigReportedOnce, SearchTypeOK
<1>2. /\ Done' = Done \cup {c}
      /\ Len(converged) \in Nat
      /\ DOMAIN converged = 1..Len(converged)
      /\ DOMAIN converged' = 1..(Len(converged) + 1)
      /\ \A i \in DOMAIN converged : converged'[i] = converged[i]
      /\ converged'[Len(converged) + 1] = c
  BY <1>1, AppendDone
<1>3. cutoff \in Nat /\ timing[c] \in Timings
  BY <1>1, SearchAssumption DEF SearchTypeOK, Timings
<1>4. Good \subseteq Good' /\ Good' \subseteq Done'
  BY <1>2 DEF Good
<1>5. IsFiniteSet(Done')
  BY <1>1, AppendDone DEF ListInv
<1>6. IsFiniteSet(Good') /\ IsFiniteSet(Good) /\ Cardinality(Good') >= Cardinality(Good)
      /\ Cardinality(Good) \in Nat /\ Cardinality(Good') \in Nat
  BY <1>4, <1>5, FS_Subset, FS_CardinalityType
<1>7. Cardinality(Good') >= TopK
  <2> HIDE DEF Good
  <2>1. TopK \in Nat /\ Cardinality(Good) >= TopK
    BY SearchAssumption DEF CutoffInv
  <2>2. \A a, b \in Nat : b >= a /\ a >= TopK => b >= TopK
    BY <2>1
  <2> QED BY <1>6, <2>1, <2>2
<1>8. ASSUME NEW i \in DOMAIN converged'
      PROVE  \/ Converged(timing'[converged'[i]])
             \/ /\ timing'[converged'[i]].mean >= cutoff'
                /\ \E j \in 1..(i - 1) : converged'[j] \in Good'
  <2>1. CASE i \in DOMAIN converged
    <3>1. converged'[i] = converged[i] /\ i \in Nat /\ i =< Len(converged)
      BY <1>2, <2>1
    <3>2. CASE Converged(timing[converged[i]])
      BY <3>1, <3>2
    <3>3. CASE ~Converged(timing[converged[i]])
      <4>1. timing[converged[i]].mean >= cutoff
        BY <2>1, <3>3 DEF CutoffInv
      <4>2. PICK j \in 1..(i - 1) : converged[j] \in Good
        BY <2>1, <3>3 DEF CutoffInv
      <4>3. j \in DOMAIN converged
        BY <1>2, <3>1, <4>2
      <4>4. converged'[j] \in Good'
        BY <1>2, <1>4, <4>2, <4>3
      <4> QED BY <3>1, <4>1, <4>4
    <3> QED BY <3>2, <3>3
  <2>2. CASE i = Len(converged) + 1
    <3>1. converged'[i] = c
      BY <1>2, <2>2
    <3>2. CASE Converged(timing[c])
      BY <3>1, <3>2
    <3>3. CASE ~Converged(timing[c])
      <4>1. timing[c].mean >= cutoff
        BY <1>3, <3>3, GivenUpIsSlow
      <4>2. Good # {}
        <5>1. Cardinality(Good) >= TopK /\ TopK \in Nat \ {0}
          BY SearchAssumption DEF CutoffInv
        <5>2. Cardinality({}) = 0
          BY FS_EmptySet
        <5> HIDE DEF Good
        <5> QED BY <5>1, <5>2
      <4>3. PICK g \in Good : TRUE
        BY <4>2
      <4>4. PICK j \in DOMAIN converged : g = converged[j]
        BY DEF Good, Done
      <4>5. j \in 1..(i - 1) /\ converged'[j] \in Good'
        BY <1>2, <1>4, <2>2, <4>3, <4>4
      <4> QED BY <3>1, <4>1, <4>5
    <3> QED BY <3>2, <3>3
  <2> QED BY <1>2, <2>1, <2>2
<1> QED BY <1>7, <1>8 DEF CutoffInv

LEMMA ConvergeRestKeepsInv ==
    ASSUME CandidatesInv, ConvergeRest
    PROVE  CandidatesInv'
<1>1. /\ phase = "rest" /\ phase' = phase /\ next' = next /\ cutoff' = cutoff
  BY DEF ConvergeRest
<1>2. PICK c \in running :
        /\ now \in {0, c}
        /\ IF Promising(timing[c])
           THEN \/ /\ Raises(c)
                   /\ now' = 0
                \/ /\ timing' \in {[timing EXCEPT ![c] = t] : t \in Measured(timing[c])}
                   /\ now' = c
                   /\ UNCHANGED <<running, converged, errors>>
           ELSE /\ converged' = Append(converged, c)
                /\ running' = running \ {c}
                /\ now' = 0
                /\ UNCHANGED <<timing, errors>>
  BY DEF ConvergeRest
<1>3. /\ SearchTypeOK /\ ListInv /\ EveryConfigReportedOnce /\ CutoffInv
      /\ c \in Configs /\ c \notin Done /\ c \notin errors /\ next = N + 1
      /\ cutoff \in Means \cup {0} /\ running \subseteq Configs /\ errors \subseteq Configs
      /\ timing \in [Configs -> Timings] /\ Done \subseteq Configs
      /\ running \cup Done \cup errors = 1..(next - 1) /\ next \in 1..(N + 1)
      /\ running \cap Done = {} /\ running \cap errors = {} /\ Done \cap errors = {}
  BY <1>1, <1>2, DoneIsFinite
     DEF CandidatesInv, EveryConfigReportedOnce, SearchTypeOK, PhaseInv, TopInv, Timings
<1>4. ASSUME ListInv', timing' \in [Configs -> Timings], now' \in running' \cup {0},
             running' \subseteq running, errors' \subseteq Configs,
             running' \cup Done' \cup errors' = running \cup Done \cup errors,
             running' \cap Done' = {}, running' \cap errors' = {}, Done' \cap errors' = {},
             \A i, j \in DOMAIN converged' : converged'[i] = converged'[j] => i = j,
             CutoffInv'
      PROVE  CandidatesInv'
  <2>1. SearchTypeOK'
    <3>1. \A i \in DOMAIN converged' : converged'[i] \in Configs
      BY <1>4, ElementOfSeq DEF ListInv
    <3>2. running' \subseteq Configs /\ cutoff' \in Means \cup {0} /\ next' \in 1..(N + 1)
      BY <1>1, <1>3, <1>4
    <3>3. phase' \in {"off", "warm", "rest", "found", "raised"}
      BY <1>1
    <3> QED BY <1>4, <3>1, <3>2, <3>3 DEF SearchTypeOK, Timings
  <2>2. EveryConfigReportedOnce'
    BY <1>1, <1>3, <1>4 DEF EveryConfigReportedOnce
  <2>3. PhaseInv' /\ TopInv'
    BY <1>1, <1>3, <1>4 DEF PhaseInv, TopInv
  <2> QED BY <1>4, <2>1, <2>2, <2>3 DEF CandidatesInv
<1>5. CASE Promising(timing[c]) /\ Raises(c) /\ now' = 0
  <2>1. Moves(c) /\ converged' = converged /\ running' = running \ {c}
    BY <1>3, <1>5, RaisesMoves DEF Raises
  <2>2. \A d \in Done : timing'[d] = timing[d]
    BY <1>3, <2>1 DEF Moves
  <2>3. CutoffInv'
    BY <1>1, <1>3, <2>1, <2>2, CutoffInvKept
  <2>4. errors' \subseteq Configs
    BY <1>3, <2>1 DEF Moves
  <2>5. running' \cup Done' \cup errors' = running \cup Done \cup errors
    BY <1>2, <2>1 DEF Moves
  <2> QED BY <1>4, <1>5, <2>1, <2>3, <2>4, <2>5 DEF Moves
<1>6. CASE /\ Promising(timing[c])
           /\ timing' \in {[timing EXCEPT ![c] = t] : t \in Measured(timing[c])}
           /\ now' = c
           /\ UNCHANGED <<running, converged, errors>>
  <2>1. PICK t \in Measured(timing[c]) : timing' = [timing EXCEPT ![c] = t]
    BY <1>6
  <2>2. t \in Timings
    BY <1>3, MeasuredIsTiming
  <2>3. timing' \in [Configs -> Timings] /\ \A d \in Done : timing'[d] = timing[d]
    BY <1>3, <2>1, <2>2
  <2>4. CutoffInv'
    BY <1>1, <1>3, <1>6, <2>3, CutoffInvKept
  <2>5. Done' = Done /\ ListInv'
    BY <1>3, <1>6 DEF Done, ListInv
  <2>6. \A i, j \in DOMAIN converged' : converged'[i] = converged'[j] => i = j
    BY <1>3, <1>6 DEF EveryConfigReportedOnce
  <2> QED BY <1>2, <1>3, <1>4, <1>6, <2>3, <2>4, <2>5, <2>6
<1>7. CASE ~Promising(timing[c])
  <2>1. /\ converged' = Append(converged, c) /\ running' = running \ {c} /\ now' = 0
        /\ timing' = timing /\ errors' = errors
    BY <1>2, <1>7
  <2>2. CutoffInv'
    BY <1>1, <1>3, <1>7, <2>1, AppendKeepsCutoffInv
  <2>3. /\ ListInv' /\ Done' = Done \cup {c}
        /\ \A i, j \in DOMAIN converged' : converged'[i] = converged'[j] => i = j
    BY <1>3, <2>1, AppendDone
  <2>4. running' \cup Done' \cup errors' = running \cup Done \cup errors
    BY <1>2, <2>1, <2>3
  <2>5. running' \cap Done' = {} /\ running' \cap errors' = {} /\ Done' \cap errors' = {}
    BY <1>3, <2>1, <2>3
  <2> QED BY <1>3, <1>4, <2>1, <2>2, <2>3, <2>4, <2>5
<1> QED BY <1>2, <1>5, <1>6, <1>7

LEMMA FinishKeepsInv ==
    ASSUME CandidatesInv, Finish
    PROVE  CandidatesInv'
<1>1. /\ phase = "rest" \/ (phase = "warm" /\ next = N + 1)
      /\ running = {} /\ phase' = IF converged = <<>> THEN "raised" ELSE "found"
      /\ next' = next /\ timing' = timing /\ running' = running /\ converged' = converged
      /\ errors' = errors /\ cutoff' = cutoff /\ now' = now
  BY DEF Finish
<1>2. Done' = Done /\ next = N + 1
  BY <1>1 DEF Done, CandidatesInv, PhaseInv
<1>3. phase' = "raised" \/ (phase' = "found" /\ converged # <<>>)
  BY <1>1
<1>4. SearchTypeOK' /\ ListInv'
  BY <1>1, <1>2, <1>3 DEF CandidatesInv, SearchTypeOK, ListInv
<1>5. EveryConfigReportedOnce'
  <2>1. running \cup Done \cup errors = Configs
    BY <1>2, NextBounds DEF CandidatesInv, EveryConfigReportedOnce
  <2> QED BY <1>1, <1>2, <2>1 DEF CandidatesInv, EveryConfigReportedOnce
<1>6. PhaseInv'
  <2>1. now = 0
    BY <1>1 DEF CandidatesInv, SearchTypeOK
  <2> QED BY <1>1, <1>2, <1>3, <2>1 DEF PhaseInv
<1>7. TopInv'
  <2>1. AllConverged \/ CutoffInv
    BY <1>1 DEF CandidatesInv, TopInv
  <2>2. (AllConverged \/ CutoffInv)'
    <3>1. Good' = Good
      BY <1>1, <1>2 DEF Good
    <3> QED BY <1>1, <1>2, <2>1, <3>1 DEF AllConverged, CutoffInv
  <2> QED BY <1>3, <2>2 DEF TopInv
<1> QED BY <1>4, <1>5, <1>6, <1>7 DEF CandidatesInv

LEMMA SearchKeepsInv ==
    ASSUME CandidatesInv, SearchStep
    PROVE  CandidatesInv'
<1>1. CASE Aborts
  BY <1>1, ResetGivesCandidatesInv DEF Aborts
<1> QED BY <1>1, WarmUpKeepsInv, ConvergeTopKeepsInv, BeginRestKeepsInv, ConvergeRestKeepsInv,
           FinishKeepsInv DEF SearchStep, SearchRuns

-----------------------------------------------------------------------------
(* The selection under the lock, and the theorems.                         *)

LEMMA InitImpliesIInv == Init => IInv
<1> SUFFICES ASSUME Init PROVE IInv
  OBVIOUS
<1>1. /\ phase = "off" /\ next = 1 /\ timing = [c \in Configs |-> Untimed] /\ running = {}
      /\ converged = <<>> /\ errors = {} /\ cutoff = 0 /\ now = 0
  BY DEF Init, SearchInit
<1>2. Done = {} /\ converged \in Seq(Configs) /\ Len(converged) = 0 /\ DOMAIN converged = {}
  BY <1>1 DEF Done
<1>3. SearchTypeOK
  BY <1>1, <1>2, SearchAssumption DEF SearchTypeOK, Untimed, Configs
<1>4. EveryConfigReportedOnce
  <2>1. 1..(next - 1) = {}
    BY <1>1
  <2> QED BY <1>1, <1>2, <2>1 DEF EveryConfigReportedOnce
<1>5. ListInv
  BY <1>2, FS_EmptySet DEF ListInv
<1>6. PhaseInv /\ TopInv
  BY <1>1, <1>2 DEF PhaseInv, TopInv, AllConverged
<1>7. LockInv
  <2>1. (CHOOSE k \in Keys : TRUE) \in Keys
    BY AutotunedAssumption
  <2> QED BY <1>1, <2>1, AutotunedAssumption DEF Init, LockInv
<1>8. HangInv
  BY DEF Init, HangInv
<1> QED BY <1>3, <1>4, <1>5, <1>6, <1>7, <1>8 DEF IInv, SelectInv, CandidatesInv

\* A step that leaves the search alone leaves its invariant alone.
LEMMA CandidatesKept ==
    ASSUME CandidatesInv, UNCHANGED searchVars
    PROVE  CandidatesInv'
<1>1. /\ phase' = phase /\ next' = next /\ timing' = timing /\ running' = running
      /\ converged' = converged /\ errors' = errors /\ cutoff' = cutoff /\ now' = now
  BY DEF searchVars
<1>2. Done' = Done /\ Good' = Good
  BY <1>1 DEF Done, Good
<1> QED BY <1>1, <1>2
        DEF CandidatesInv, SearchTypeOK, EveryConfigReportedOnce, ListInv, PhaseInv, TopInv,
            AllConverged, CutoffInv

\* The phase is "off" before a search begins and after it is taken, and only then.
LEMMA SearchPhases ==
    ASSUME SearchStep
    PROVE  phase # "off" /\ phase' # "off"
BY DEF SearchStep, SearchRuns, WarmUp, ConvergeTop, BeginRest, ConvergeRest, Finish, Aborts

LEMMA StepKeepsSelectInv == SelectInv /\ [Next]_vars => SelectInv'
<1> SUFFICES ASSUME SelectInv, [Next]_vars PROVE SelectInv'
  OBVIOUS
<1> USE DEF SelectInv
<1>1. CASE Search
  <2>1. CandidatesInv' /\ phase # "off" /\ phase' # "off"
    BY <1>1, SearchKeepsInv, SearchPhases DEF Search
  <2>2. LockInv'
    BY <1>1, <2>1 DEF Search, LockInv, tunedVars
  <2> QED BY <2>1, <2>2
<1>2. ASSUME NEW t \in Threads, NEW k \in Keys, Call(t, k) PROVE SelectInv'
  <2>1. /\ at[t] = "idle" /\ calls[t] < MaxCalls /\ at' = [at EXCEPT ![t] = "lock"]
        /\ key' = [key EXCEPT ![t] = k] /\ calls' = [calls EXCEPT ![t] = @ + 1]
        /\ UNCHANGED searchVars /\ cache' = cache /\ lock' = lock /\ phase' = phase
    BY <1>2 DEF Call, searchVars
  <2>2. calls' \in [Threads -> 0..MaxCalls]
    BY <2>1, AutotunedAssumption DEF LockInv
  <2>3. \A s \in Threads : /\ s # t => at'[s] = at[s] /\ key'[s] = key[s]
                           /\ s = t => at'[s] = "lock"
    BY <2>1 DEF LockInv
  <2>4. LockInv'
    BY <2>1, <2>2, <2>3 DEF LockInv
  <2> QED BY <2>1, <2>4, CandidatesKept
<1>3. ASSUME NEW t \in Threads, Acquire(t) PROVE SelectInv'
  <2>1. /\ at[t] = "lock" /\ lock = None /\ lock' = t /\ at' = [at EXCEPT ![t] = "select"]
        /\ UNCHANGED searchVars /\ cache' = cache /\ key' = key /\ calls' = calls
        /\ phase' = phase
    BY <1>3 DEF Acquire, searchVars
  <2>2. \A s \in Threads : at'[s] = IF s = t THEN "select" ELSE at[s]
    BY <2>1 DEF LockInv
  <2>3. LockInv'
    BY <2>1, <2>2, AutotunedAssumption DEF LockInv
  <2> QED BY <2>1, <2>3, CandidatesKept
<1>4. ASSUME NEW t \in Threads, Hit(t) PROVE SelectInv'
  <2>1. /\ at[t] = "select" /\ lock' = None /\ at' = [at EXCEPT ![t] = "idle"]
        /\ UNCHANGED searchVars /\ cache' = cache /\ key' = key /\ calls' = calls
        /\ phase' = phase
    BY <1>4 DEF Hit, Leave, searchVars
  <2>2. \A s \in Threads : at'[s] = IF s = t THEN "idle" ELSE at[s]
    BY <2>1 DEF LockInv
  <2>3. LockInv'
    BY <2>1, <2>2, AutotunedAssumption DEF LockInv
  <2> QED BY <2>1, <2>3, CandidatesKept
<1>5. ASSUME NEW t \in Threads, Miss(t) PROVE SelectInv'
  <2>1. /\ at[t] = "select" /\ cache[key[t]] = 0 /\ at' = [at EXCEPT ![t] = "tune"]
        /\ Reset /\ phase' = "warm"
        /\ cache' = cache /\ lock' = lock /\ key' = key /\ calls' = calls
    BY <1>5 DEF Miss, SearchBegins
  <2>2. \A s \in Threads : at'[s] = IF s = t THEN "tune" ELSE at[s]
    BY <2>1 DEF LockInv
  <2>3. LockInv'
    BY <2>1, <2>2 DEF LockInv
  <2> QED BY <2>1, <2>3, ResetGivesCandidatesInv
<1>6. ASSUME NEW t \in Threads, TuneEnds(t) PROVE SelectInv'
  <2>1. /\ at[t] = "tune" /\ lock' = None /\ at' = [at EXCEPT ![t] = "idle"]
        /\ Reset /\ phase' = "off" /\ key' = key /\ calls' = calls
        /\ \/ phase = "found" /\ cache' = [cache EXCEPT ![key[t]] = Best]
           \/ phase = "raised" /\ cache' = cache
    BY <1>6 DEF TuneEnds, Leave
  <2>2. \A s \in Threads : at'[s] = IF s = t THEN "idle" ELSE at[s]
    BY <2>1 DEF LockInv
  <2>3. \A s \in Threads : at'[s] \notin {"select", "tune"}
    BY <2>1, <2>2 DEF LockInv
  <2>4. cache' \in [Keys -> Configs \cup {0}]
    <3>1. CASE phase = "found"
      <4>1. Best \in Configs
        BY <3>1, BestCorrect, DoneIsFinite DEF CandidatesInv, PhaseInv
      <4> QED BY <2>1, <3>1, <4>1 DEF LockInv
    <3>2. CASE phase # "found"
      BY <2>1, <3>2 DEF LockInv
    <3> QED BY <3>1, <3>2
  <2>5. LockInv'
    BY <2>1, <2>2, <2>3, <2>4, AutotunedAssumption DEF LockInv
  <2> QED BY <2>1, <2>5, ResetGivesCandidatesInv
<1>7. CASE UNCHANGED vars
  <2>1. UNCHANGED searchVars /\ UNCHANGED tunedVars /\ phase' = phase
    BY <1>7 DEF vars, searchVars
  <2>2. LockInv'
    BY <2>1 DEF LockInv, tunedVars
  <2> QED BY <2>1, <2>2, CandidatesKept
<1>8. CASE Hangs
  <2>1. UNCHANGED searchVars /\ phase' = phase /\ UNCHANGED <<cache, lock, at, key, calls>>
    BY <1>8 DEF Hangs, searchVars
  <2>2. LockInv'
    BY <2>1 DEF LockInv
  <2> QED BY <2>1, <2>2, CandidatesKept
<1> QED BY <1>1, <1>2, <1>3, <1>4, <1>5, <1>6, <1>7, <1>8 DEF Next

\* A search that hangs stays where it is: nothing goes on in its thread, and the lock keeps
\* the other threads from the search.
LEMMA StepKeepsHangInv == IInv /\ [Next]_vars => HangInv'
<1> SUFFICES ASSUME IInv, [Next]_vars PROVE HangInv'
  OBVIOUS
<1>1. ASSUME UNCHANGED searchVars PROVE Benchmarking' = Benchmarking
  BY <1>1 DEF searchVars, Benchmarking, Promising, Converged
<1>2. CASE Search
  BY <1>2 DEF Search, tunedVars, HangInv, IInv
<1>3. CASE Hangs
  BY <1>1, <1>3 DEF Hangs, HangInv
<1>4. ASSUME NEW t \in Threads, \/ \E k \in Keys : Call(t, k)
                                \/ Acquire(t) \/ Hit(t)
      PROVE  HangInv'
  <2>1. UNCHANGED searchVars /\ hung' = hung
    BY <1>4 DEF Call, Acquire, Hit, Leave
  <2> QED BY <1>1, <2>1 DEF HangInv, IInv
<1>5. ASSUME NEW t \in Threads, Miss(t) \/ TuneEnds(t) PROVE HangInv'
  <2>1. hung' = hung /\ phase \notin {"warm", "rest"}
    BY <1>5 DEF Miss, SearchBegins, TuneEnds, Leave
  <2>2. ~hung
    BY <2>1 DEF IInv, HangInv, Benchmarking
  <2>3. hung' = FALSE
    BY <2>1, <2>2 DEF IInv, HangInv
  <2> QED BY <2>3 DEF HangInv
<1>6. CASE UNCHANGED vars
  <2>1. UNCHANGED searchVars /\ hung' = hung
    BY <1>6 DEF vars, tunedVars
  <2> QED BY <1>1, <2>1 DEF HangInv, IInv
<1> QED BY <1>2, <1>3, <1>4, <1>5, <1>6 DEF Next

LEMMA StepKeepsIInv == IInv /\ [Next]_vars => IInv'
BY StepKeepsSelectInv, StepKeepsHangInv DEF IInv

\* What phase 2 gave up is behind the TopK that converged, and never the best.
LEMMA CandidatesAreRanked ==
    ASSUME CandidatesInv
    PROVE  TopKHaveConverged
<1> SUFFICES ASSUME phase = "found"
             PROVE  /\ Converged(timing[Best])
                    /\ \A c \in Done :
                         \/ Converged(timing[c])
                         \/ Cardinality({d \in Done : /\ Converged(timing[d])
                                                      /\ timing[d].mean =< timing[c].mean}) >= TopK
  BY DEF TopKHaveConverged
<1>1. /\ SearchTypeOK /\ ListInv /\ converged # <<>> /\ (AllConverged \/ CutoffInv)
  BY DEF CandidatesInv, PhaseInv, TopInv
<1>2. PICK i \in DOMAIN converged :
         /\ Best = converged[i] /\ Best \in Done
         /\ \A j \in DOMAIN converged : timing[Best].mean =< timing[converged[j]].mean
         /\ \A j \in 1..(i - 1) : \E k \in DOMAIN converged :
              ~(timing[converged[j]].mean =< timing[converged[k]].mean)
  BY <1>1, BestCorrect
<1>3. CASE AllConverged
  BY <1>2, <1>3 DEF AllConverged
<1>4. CASE CutoffInv
  <2>0. /\ \A d \in Done : timing[d].mean \in Nat
        /\ cutoff \in Nat /\ IsFiniteSet(Done) /\ TopK \in Nat
        /\ \A j \in DOMAIN converged : converged[j] \in Done
    <3>1. \A d \in Done : timing[d] \in Timings
      BY <1>1, DoneIsFinite DEF SearchTypeOK, Timings
    <3> QED BY <1>1, <3>1, TimingsAreNumbers, DoneIsFinite, SearchAssumption DEF SearchTypeOK, Done
  <2>1. Converged(timing[Best])
    <3> SUFFICES ASSUME ~Converged(timing[Best]) PROVE FALSE
      OBVIOUS
    <3>1. /\ timing[Best].mean >= cutoff
          /\ \E j \in 1..(i - 1) : converged[j] \in Good
      BY <1>2, <1>4 DEF CutoffInv
    <3>2. PICK j \in 1..(i - 1) : converged[j] \in Good
      BY <3>1
    <3>3. PICK k \in DOMAIN converged : ~(timing[converged[j]].mean =< timing[converged[k]].mean)
      BY <1>2, <3>2
    <3>4. timing[converged[j]].mean =< cutoff /\ converged[j] \in Done
      BY <3>2 DEF Good
    <3>5. timing[Best].mean =< timing[converged[k]].mean
      BY <1>2, <3>3
    <3> QED BY <1>2, <2>0, <3>1, <3>3, <3>4, <3>5
  <2>2. ASSUME NEW c \in Done, ~Converged(timing[c])
        PROVE  Cardinality({d \in Done : /\ Converged(timing[d])
                                         /\ timing[d].mean =< timing[c].mean}) >= TopK
    <3> DEFINE better == {d \in Done : Converged(timing[d]) /\ timing[d].mean =< timing[c].mean}
    <3>1. PICK j \in DOMAIN converged : c = converged[j]
      BY DEF Done
    <3>2. timing[c].mean >= cutoff
      BY <1>4, <2>2, <3>1 DEF CutoffInv
    <3>3. Good \subseteq better /\ better \subseteq Done
      BY <2>0, <3>2 DEF Good
    <3>4. /\ IsFiniteSet(better) /\ IsFiniteSet(Good)
          /\ Cardinality(Good) =< Cardinality(better)
          /\ Cardinality(Good) \in Nat /\ Cardinality(better) \in Nat
      <4> HIDE DEF better
      <4> QED BY <2>0, <3>3, FS_Subset, FS_CardinalityType
    <3> HIDE DEF better
    <3>5. Cardinality(better) >= TopK
      BY <1>4, <2>0, <3>4 DEF CutoffInv
    <3> QED BY <3>5 DEF better
  <2> QED BY <2>1, <2>2
<1> QED BY <1>1, <1>3, <1>4

\* IInv is an invariant of every behaviour.
LEMMA IInvHolds == Spec => []IInv
<1> QED BY InitImpliesIInv, StepKeepsIInv, PTL DEF Spec

\* For any number of threads, keys and configurations and any timings: a search runs in the
\* one thread that has the lock, no candidate is timed more than MaxRepeats times, every
\* configuration is reported once, the one selected converged, and one that did not has
\* TopK as good ones before it (exhaustive_search under _select).
THEOREM SearchIsSound == Spec => []AutotuneInv
<1>1. IInv => AutotuneInv
  BY CandidatesAreRanked DEF IInv, SelectInv, HangInv, CandidatesInv, LockInv, AutotuneInv, TypeOK
<1> QED BY <1>1, IInvHolds, PTL

\* However the first calls of several threads interleave, a key that has a configuration
\* keeps it: the lookup and the search are under one lock (_select).
THEOREM ConfigurationIsKept == Spec => SelectionIsKept
<1>1. IInv /\ [Next]_vars => [\A k \in Keys : cache[k] # 0 => cache'[k] = cache[k]]_vars
  <2> SUFFICES ASSUME IInv, Next, NEW k \in Keys, cache[k] # 0 PROVE cache'[k] = cache[k]
    OBVIOUS
  <2>1. CASE \E t \in Threads : TuneEnds(t)
    <3>1. PICK t \in Threads : TuneEnds(t)
      BY <2>1
    <3>2. k # key[t]
      BY <3>1 DEF TuneEnds, IInv, SelectInv, LockInv
    <3> QED BY <3>1, <3>2 DEF TuneEnds, IInv, SelectInv, LockInv
  <2>2. CASE ~(\E t \in Threads : TuneEnds(t))
    BY <2>2 DEF Next, Search, Hangs, tunedVars, Call, Acquire, Hit, Miss
  <2> QED BY <2>1, <2>2
<1> QED BY <1>1, IInvHolds, PTL DEF Spec, SelectionIsKept
====
