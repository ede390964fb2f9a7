--------------------------- MODULE KernelDispatch ---------------------------
(***************************************************************************)
(* Kernel dispatch (cext/tile_kernel.cpp): threads launch one kernel       *)
(* object concurrently.  A launch takes a helper, finds or makes the       *)
(* profile of its argument types, extracts its arguments, and looks up the *)
(* kernel compiled for its constants, compiling one if there is none.      *)
(*                                                                         *)
(* GlobalLock is the GIL, or a critical section of a free-threaded build.  *)
(* Both are released while Python code runs: when an argument is           *)
(* classified by its attributes, when arguments are extracted, when        *)
(* _compile is called, and when the finalizers of a library are called.    *)
(* An action is what a thread does from one of these points to the next.   *)
(***************************************************************************)
EXTENDS Sequences, HashMap

CONSTANTS
  Threads,
  Paths,      \* argument types, a sequence with one entry per nesting level
  Yields,     \* the entries whose classification runs Python code
  Families,   \* the parameter kinds of arguments
  FamilyOf,   \* the family of each path
  Finalizers, \* whether kernels have library lifecycle providers
  None

Constants == Keys   \* argument constants and compute capability, the key of a kernel map

ASSUME DispatchAssumption ==
  /\ FamilyOf \in [Paths -> Families]
  /\ \A p \in Paths : Len(p) \in Nat \ {0}
  /\ Finalizers \in BOOLEAN
  /\ IsFiniteSet(Threads)
  /\ Values = Constants \X Threads   \* see CompiledBy
  /\ None \notin Constants /\ None \notin Families /\ None \notin Values
  /\ None \notin 1..Cardinality(Threads)

VARIABLES
  known,     \* argument types, and prefixes of them, that have a node in the profile map
  maps,      \* kernels_by_constants of each family
  pc,        \* the point at which a thread runs Python code
  path,      \* the argument types a thread looks up the profile of
  level,     \* the nesting level it is classifying
  capture,   \* whether its launch captures the image of the kernel
  family,    \* the family of its arguments
  item,      \* kernel_item, an address in the family's kernel map
  helper,    \* its launch helper
  freelist,  \* helpers not in use, the next one first
  contents,  \* the constants in each helper
  key,       \* the constants of its launch
  ended      \* the launch that has just ended: thread, family and constants, result

lookup == <<known, path, level>>
launch == <<pc, capture, family, item, key>>
helpers == <<helper, freelist, contents>>
vars == <<lookup, launch, helpers, maps, ended>>

Helpers == 1..Cardinality(Threads)

\* Results of a launch: the kernel it ran (which thread compiled it for which
\* constants), an exception, or what a read of freed memory leads to.
CompiledBy(t, c) == <<c, t>>
Error == <<"error">>
Undefined == <<"undefined">>

Map(t) == maps[family[t]]

-----------------------------------------------------------------------------
(* Launch helpers.                                                         *)

\* A mistake: a helper taken from the free list stays on it.
HelperGetKeeps(t) ==
  /\ IF freelist # <<>>
     THEN helper' = [helper EXCEPT ![t] = Head(freelist)]
     ELSE helper' = [helper EXCEPT ![t] =
                       CHOOSE h \in Helpers : \A u \in Threads : helper[u] # h]
  /\ UNCHANGED <<freelist, contents>>

\* launch_helper_get: one from the free list, or a new one.
HelperGet(t) ==
  /\ IF freelist # <<>>
     THEN helper' = [helper EXCEPT ![t] = Head(freelist)] /\ freelist' = Tail(freelist)
     ELSE /\ helper' = [helper EXCEPT ![t] =
                          CHOOSE h \in Helpers : \A u \in Threads : helper[u] # h]
          /\ UNCHANGED freelist
  /\ UNCHANGED contents

\* LaunchHelperDeleter, on every way out of a launch.  What is left in a free
\* helper is cleared before it is read.
HelperPut(t) ==
  /\ helper' = [helper EXCEPT ![t] = None]
  /\ freelist' = <<helper[t]>> \o freelist
  /\ contents' = [contents EXCEPT ![helper[t]] = None]

End(t, c, result) ==
  /\ HelperPut(t)
  /\ pc' = [pc EXCEPT ![t] = "idle"]
  /\ path' = [path EXCEPT ![t] = <<>>]
  /\ level' = [level EXCEPT ![t] = 0]
  /\ capture' = [capture EXCEPT ![t] = FALSE]
  /\ family' = [family EXCEPT ![t] = None]
  /\ item' = [item EXCEPT ![t] = Nowhere]
  /\ key' = [key EXCEPT ![t] = None]
  /\ ended' = <<t, IF c = None THEN None ELSE <<family[t], c>>, result>>

-----------------------------------------------------------------------------
(* Profiles of argument types.                                             *)

Prefix(p, n) == SubSeq(p, 1, n)

\* The levels at which the thread has to stop to run Python code.
Unclassified(p, from) ==
  {n \in from..Len(p) : p[n] \in Yields /\ Prefix(p, n) \notin known}

\* A mistake: the lookup goes on a level too deep.
DescendTooDeep(t, p, from, stops) ==
  /\ known' = known \cup {Prefix(p, n) : n \in from..Len(p)}
  /\ pc' = [pc EXCEPT ![t] = "classify"]
  /\ path' = [path EXCEPT ![t] = p]
  /\ level' = [level EXCEPT ![t] = Len(p) + 1]
  /\ ended' = <<>>
  /\ UNCHANGED family

\* python_arg_profile_lookup_impl from a level on: nodes that exist are passed,
\* missing ones are inserted, until a level is reached that runs Python first.
Descend(t, p, from, stops) ==
  LET last == IF stops = {} THEN Len(p) ELSE Min(stops) - 1
  IN /\ known' = known \cup {Prefix(p, n) : n \in from..last}
     /\ IF stops = {}
        THEN /\ pc' = [pc EXCEPT ![t] = "extract"]
             /\ path' = [path EXCEPT ![t] = <<>>]
             /\ level' = [level EXCEPT ![t] = 0]
             /\ family' = [family EXCEPT ![t] = FamilyOf[p]]
        ELSE /\ pc' = [pc EXCEPT ![t] = "classify"]
             /\ path' = [path EXCEPT ![t] = p]
             /\ level' = [level EXCEPT ![t] = Min(stops)]
             /\ UNCHANGED family
     /\ ended' = <<>>

\* launch, _benchmark, and the export of a benchmark's payload, which captures.
Begin(t, p, captures) ==
  /\ pc[t] = "idle"
  /\ HelperGet(t)
  /\ Descend(t, p, 1, Unclassified(p, 1))
  /\ capture' = [capture EXCEPT ![t] = captures]
  /\ UNCHANGED <<maps, item, key>>

\* native_launch_site_launch: the launch site knows its family.
BeginNative(t, f) ==
  /\ pc[t] = "idle"
  /\ HelperGet(t)
  /\ pc' = [pc EXCEPT ![t] = "extract"]
  /\ family' = [family EXCEPT ![t] = f]
  /\ ended' = <<>>
  /\ UNCHANGED <<lookup, maps, capture, item, key>>

Classified(t) ==
  /\ pc[t] = "classify"
  /\ Prefix(path[t], level[t]) \notin known
  /\ Descend(t, path[t], level[t], Unclassified(path[t], level[t] + 1))
  /\ UNCHANGED <<maps, helpers, capture, item, key>>

\* insert() finds a node another thread inserted meanwhile and drops the new one,
\* but the lookup goes on with the new one, which is freed.  A profile may still be
\* intact when it is read.
ClassifiedLate(t) ==
  /\ pc[t] = "classify"
  /\ Prefix(path[t], level[t]) \in known
  /\ UNCHANGED <<known, maps>>
  /\ \/ /\ End(t, None, Undefined)
     \/ /\ level[t] = Len(path[t])
        /\ pc' = [pc EXCEPT ![t] = "extract"]
        /\ path' = [path EXCEPT ![t] = <<>>]
        /\ level' = [level EXCEPT ![t] = 0]
        /\ family' = [family EXCEPT ![t] = FamilyOf[path[t]]]
        /\ ended' = <<>>
        /\ UNCHANGED <<helpers, capture, item, key>>

-----------------------------------------------------------------------------
(* Kernels.                                                                *)

KernelsFor(m, c) == {i.value : i \in {j \in Stored(m) : j.key = c}}

\* The launch reads its kernel through the item; an item of a freed array may
\* still be intact.  Staging the arguments or the launch itself may fail.
Use(t, m, address, c) ==
  \E result \in KernelsFor(m, c) \cup {Error}
                  \cup (IF Live(m, address) THEN {} ELSE {Undefined}) : End(t, c, result)

\* extract_cuda_args, and the lookup of prepare_launch_with_extracted_args.
Extracted(t, c) ==
  /\ pc[t] = "extract"
  /\ LET found == Find(Map(t), c)
     IN IF found # Nowhere /\ ~capture[t]
        THEN Use(t, Map(t), found, c)
        ELSE /\ contents' = [contents EXCEPT ![helper[t]] = c]
             /\ key' = [key EXCEPT ![t] = c]
             /\ pc' = [pc EXCEPT ![t] = "compile"]
             /\ item' = [item EXCEPT ![t] = found]
             /\ ended' = <<>>
             /\ UNCHANGED <<path, level, capture, family, helper, freelist>>
  /\ UNCHANGED <<known, maps>>

\* The kernel that is not kept is destroyed, which may run finalizers.
Drop(t, m, address, c) ==
  IF Finalizers
  THEN /\ pc' = [pc EXCEPT ![t] = "finalize"]
       /\ item' = [item EXCEPT ![t] = address]
       /\ contents' = [contents EXCEPT ![helper[t]] = None]
       /\ ended' = <<>>
       /\ UNCHANGED <<path, level, capture, family, key, helper, freelist>>
  ELSE Use(t, m, address, c)

\* _compile returns to a launch that had found no kernel: the new one is inserted,
\* unless another launch has inserted one since.
CompiledNew(t) ==
  /\ pc[t] = "compile"
  /\ item[t] = Nowhere
  /\ LET c == contents[helper[t]]
         lost == Has(Map(t), c)
         m == maps'[family[t]]
     IN /\ maps' = [maps EXCEPT ![family[t]] = Inserted(@, c, CompiledBy(t, c))]
        /\ IF lost THEN Drop(t, m, Find(m, c), c) ELSE Use(t, m, Find(m, c), c)
  /\ UNCHANGED known

\* _compile returns to a launch that captures the image of a kernel it had found.
CompiledAgain(t) ==
  /\ pc[t] = "compile"
  /\ item[t] # Nowhere
  /\ Drop(t, Map(t), item[t], key[t])
  /\ UNCHANGED <<known, maps>>

Finalized(t) ==
  /\ pc[t] = "finalize"
  /\ Use(t, Map(t), item[t], key[t])
  /\ UNCHANGED <<known, maps>>

\* An argument is refused, its extraction fails, or the compilation fails.
Fails(t) ==
  /\ pc[t] \in {"classify", "extract", "compile"}
  /\ End(t, key[t], Error)
  /\ UNCHANGED <<known, maps>>

Init ==
  /\ known = {}
  /\ maps = [f \in Families |-> EmptyMap]
  /\ pc = [t \in Threads |-> "idle"]
  /\ path = [t \in Threads |-> <<>>]
  /\ level = [t \in Threads |-> 0]
  /\ capture = [t \in Threads |-> FALSE]
  /\ family = [t \in Threads |-> None]
  /\ item = [t \in Threads |-> Nowhere]
  /\ key = [t \in Threads |-> None]
  /\ helper = [t \in Threads |-> None]
  /\ freelist = <<>>
  /\ contents = [h \in Helpers |-> None]
  /\ ended = <<>>

\* What a thread does once its launch has begun.
Continue(t) ==
  \/ Classified(t) \/ ClassifiedLate(t)
  \/ \E c \in Constants : Extracted(t, c)
  \/ CompiledNew(t) \/ CompiledAgain(t) \/ Finalized(t) \/ Fails(t)

Next ==
  \E t \in Threads :
    \/ \E p \in Paths, captures \in BOOLEAN : Begin(t, p, captures)
    \/ \E f \in Families : BeginNative(t, f)
    \/ Continue(t)

Spec == Init /\ [][Next]_vars

-----------------------------------------------------------------------------
(* Properties.                                                             *)

TypeOK ==
  /\ known \subseteq UNION {{Prefix(p, n) : n \in 1..Len(p)} : p \in Paths}
  /\ \A f \in Families : IsMap(maps[f])
  /\ pc \in [Threads -> {"idle", "classify", "extract", "compile", "finalize"}]
  /\ path \in [Threads -> Paths \cup {<<>>}]
  /\ \A t \in Threads : level[t] \in 0..Len(path[t])
  /\ capture \in [Threads -> BOOLEAN]
  /\ family \in [Threads -> Families \cup {None}]
  /\ key \in [Threads -> Constants \cup {None}]
  /\ helper \in [Threads -> Helpers \cup {None}]
  /\ freelist \in Seq(Helpers)
  /\ contents \in [Helpers -> Constants \cup {None}]

\* The tables of kernels answer lookups exactly, whatever launches inserted and
\* in whatever order (hash_map.h under prepare_launch_with_extracted_args).
TablesAreExact == \A f \in Families : LookupsAreExact(maps[f])

\* A launch helper belongs to one launch at a time, and what a launch inserts
\* under after compiling is still what it extracted before.
HelpersAreOwn ==
  /\ \A t, u \in Threads : helper[t] = helper[u] /\ helper[t] # None => t = u
  /\ \A i \in DOMAIN freelist :
       /\ \A t \in Threads : helper[t] # freelist[i]
       /\ \A j \in DOMAIN freelist : freelist[i] = freelist[j] => i = j
  /\ \A t \in Threads : pc[t] = "compile" => contents[helper[t]] = key[t]

\* The state launches share is consistent whenever Python runs, which is when another launch
\* may begin: the tables of kernels and the helpers (prepare_launch).
DispatchInv == TypeOK /\ TablesAreExact /\ HelpersAreOwn

\* "concurrent launch subprocess failed": threads may launch one kernel at the same
\* time, so no launch reads freed memory, whatever Python code runs in between.
NoLaunchReadsFreedMemory == ended # <<>> => ended[3] # Undefined

\* Dispatch implements the service: one kernel is kept for the constants of each
\* family, and what a launch runs is that kernel.
KeptKernel(k) ==
  LET found == KernelsFor(maps[k[1]], k[2])
  IN IF found = {} THEN None ELSE CHOOSE kernel \in found : TRUE

Service == INSTANCE KernelService WITH
  Callers <- Threads,
  ServiceKeys <- Families \X Constants,
  Kernels <- Values,
  Nothing <- None,
  kept <- [k \in Families \X Constants |-> KeptKernel(k)]

ImplementsService == Service!ServiceSpec
=============================================================================
