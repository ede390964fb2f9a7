----------------------------- MODULE TokenOrder -----------------------------
(***************************************************************************)
(* token_order_pass (_passes/token_order.py): the compiler pass that makes *)
(* the order of memory operations explicit.  Tile IR lets any two memory   *)
(* operations run in any order unless a token connects them, so the pass   *)
(* gives every operation an input token and threads the tokens through     *)
(* loops and branches.                                                     *)
(*                                                                         *)
(* The model runs a kernel the pass has rewritten.  A token is represented *)
(* by what it stands for: the set of executed operations that are complete *)
(* once the token is available.  The pass keeps a map from keys to token   *)
(* variables for every point of the program; here `tok` holds the run-time *)
(* values of the variables that map names at the point the run has         *)
(* reached.  A key the map has no entry for has the root token, which      *)
(* stands for no operation.                                                *)
(*                                                                         *)
(* A kernel is a sequence of instructions; "for", "loop" and "if" open a   *)
(* block that the matching "end" closes, and every "if" has an "else".     *)
(***************************************************************************)
EXTENDS Integers, Sequences, FiniteSets, FiniteSetsExt

CONSTANTS
  Groups,    \* bits of an alias set: alias groups and arrays that alias nothing
  Kernels,   \* the kernels to run
  MaxTrips   \* bound on the iterations of one execution of a loop

ASSUME TokenOrderAssumption ==
  /\ IsFiniteSet(Groups)
  /\ "universe" \notin Groups
  /\ MaxTrips \in Nat \ {0}

VARIABLES
  prog,    \* the kernel that runs
  pc,      \* the next instruction
  tok,     \* values of the token variables in the pass's token_map
  frames,  \* the loops and branches the run is inside, innermost last
  trace,   \* the memory operations executed so far, in program order
  after    \* what the input token of the last of them stands for

vars == <<prog, pc, tok, frames, trace, after>>

-----------------------------------------------------------------------------
(* Instructions.                                                           *)

Universe == Groups \cup {"universe"}   \* ALIAS_UNIVERSE = -1, every bit
AliasSets == ((SUBSET Groups) \ {{}}) \cup {Universe}

Memory(kind, alias, order, injective) ==
  [kind |-> kind, alias |-> alias, order |-> order, injective |-> injective]

\* print, launch_dependents, wait and foreign calls take part with ALIAS_UNIVERSE.
Fence(kind) == Memory(kind, Universe, "weak", FALSE)
Control(kind) == [kind |-> kind]

FenceKinds == {"print", "launch_dependents", "wait", "foreign"}
MemoryKinds == {"load", "store", "atomic"}

IsAccess(op) == op.kind \in MemoryKinds \cup FenceKinds
Writes(op) == op.kind # "load"
HasAcquire(op) == op.order \in {"acquire", "acq_rel"} \/ op.kind \in {"wait", "foreign"}
HasRelease(op) == op.order \in {"release", "acq_rel"}
Overlap(A, B) == A \cap B # {}

-----------------------------------------------------------------------------
(* Blocks of a kernel and their memory effects                             *)
(* (_get_block_memory_effects).                                            *)

Opens(op) == op.kind \in {"for", "loop", "if"}

Level(p, i) ==
  Cardinality({j \in 1..(i - 1) : Opens(p[j])})
    - Cardinality({j \in 1..(i - 1) : p[j].kind = "end"})

EndOf(p, i) ==
  Min({j \in (i + 1)..Len(p) : p[j].kind = "end" /\ Level(p, j) = Level(p, i) + 1})

ElseOf(p, i) ==
  CHOOSE j \in (i + 1)..EndOf(p, i) : p[j].kind = "else" /\ Level(p, j) = Level(p, i) + 1

Body(p, i) == {j \in (i + 1)..(EndOf(p, i) - 1) : IsAccess(p[j])}
Direct(p, i) == {j \in Body(p, i) : Level(p, j) = Level(p, i) + 1}

\* The body has effect LOAD or STORE on the alias set A; it has effect STORE.
Touches(p, i, A) == \E j \in Body(p, i) : p[j].alias = A
StoresTo(p, i, A) == \E j \in Body(p, i) : p[j].alias = A /\ Writes(p[j])
Acquires(p, i) == \E j \in Body(p, i) : HasAcquire(p[j])

\* _get_parallel_stores: the only operation of a for loop's body on its alias
\* set is a store whose tile differs from iteration to iteration, and no
\* operation of the body may touch two alias sets.
IsParallelStoreOf(p, loop, i) ==
  /\ p[loop].kind = "for"
  /\ \A j \in Body(p, loop) : p[j].alias # Universe /\ Cardinality(p[j].alias) = 1
  /\ i \in Direct(p, loop)
  /\ p[i].kind = "store"
  /\ p[i].injective
  /\ {j \in Body(p, loop) : p[j].alias = p[i].alias} = {i}

IsParallelStore(p, i) == \E loop \in 1..(i - 1) : Opens(p[loop]) /\ EndOf(p, loop) > i
                                                  /\ IsParallelStoreOf(p, loop, i)

\* What the operations of a kernel are: a fence has every alias bit and no memory
\* order, and a store cannot acquire (VALID_MEMORY_ORDERS).
WellTyped(op) ==
  /\ IsAccess(op) => op.alias \in AliasSets
  /\ op.kind \in FenceKinds => op.alias = Universe /\ op.order = "weak"
  /\ op.kind = "store" => ~HasAcquire(op)

\* The blocks of a kernel form a tree: an instruction between the opening and the end
\* of a block is deeper than the block, a block that opens in another ends in it, the
\* same holds of the two parts of a branch, a branch or a loop is ended from inside it,
\* and a break or continue is in a loop.
WellNested(p) ==
  LET openers == {i \in 1..Len(p) : Opens(p[i])}
      Inside(i, j) == i < j /\ j <= EndOf(p, i)
  IN /\ \A i \in openers :
          /\ EndOf(p, i) \in (i + 1)..Len(p) /\ p[EndOf(p, i)].kind = "end"
          /\ \A j \in (i + 1)..EndOf(p, i) : Level(p, j) > Level(p, i)
          /\ \A j \in openers : Inside(i, j) => EndOf(p, j) < EndOf(p, i)
          /\ p[i].kind = "if" =>
               /\ ElseOf(p, i) \in (i + 1)..(EndOf(p, i) - 1)
               /\ \A j \in openers : i < j /\ j <= ElseOf(p, i) => EndOf(p, j) < ElseOf(p, i)
     /\ \A j \in 1..Len(p) :
          /\ p[j].kind \in {"else", "end"} => \E i \in openers : Inside(i, j)
          /\ p[j].kind \in {"break", "continue"} =>
               \E i \in openers : p[i].kind # "if" /\ Inside(i, j)

ASSUME KernelsAssumption ==
  \A p \in Kernels :
    /\ Len(p) \in Nat
    /\ \A i \in 1..Len(p) : WellTyped(p[i])
    /\ WellNested(p)

-----------------------------------------------------------------------------
(* Tokens.                                                                 *)

RootTokens ==
  [lastOp |-> [A \in AliasSets |-> {}], lastStore |-> [A \in AliasSets |-> {}], acquire |-> {}]

\* A mistake: a release operation waits for overlapping alias sets only.
JoinedByOverlap(role, op) ==
  (UNION {tok[role][A] : A \in {B \in AliasSets : Overlap(B, op.alias)}}) \cup tok.acquire

\* _collect_join_tokens for the key (alias set, role): the tokens of the same
\* role on overlapping alias sets, the acquire token, and for a release
\* operation the last-operation tokens of every alias set.
Joined(role, op) ==
  (UNION {tok[role][A] : A \in {B \in AliasSets : Overlap(B, op.alias)}})
    \cup tok.acquire
    \cup (IF HasRelease(op) THEN UNION {tok.lastOp[A] : A \in AliasSets} ELSE {})

\* A mistake: only the last operations are carried out of a block.
CarriedLastOpOnly(opener, outer) ==
  [outer EXCEPT !.lastOp = [A \in AliasSets |->
                  IF Touches(prog, opener, A) THEN tok.lastOp[A] ELSE outer.lastOp[A]],
                !.acquire = IF Acquires(prog, opener) THEN tok.acquire ELSE outer.acquire]

\* A mistake: the acquire token is not carried out of a block.
CarriedNoAcquire(opener, outer) ==
  [lastOp |-> [A \in AliasSets |->
                 IF Touches(prog, opener, A) THEN tok.lastOp[A] ELSE outer.lastOp[A]],
   lastStore |-> [A \in AliasSets |->
                 IF StoresTo(prog, opener, A) THEN tok.lastStore[A] ELSE outer.lastStore[A]],
   acquire |-> outer.acquire]

\* _get_cf_exit_tokens and the result maps built for Loop and IfElse: the keys
\* the block has an effect on are carried out of it, the others keep the
\* variable they had before it.
Carried(opener, outer) ==
  [lastOp |-> [A \in AliasSets |->
                 IF Touches(prog, opener, A) THEN tok.lastOp[A] ELSE outer.lastOp[A]],
   lastStore |-> [A \in AliasSets |->
                 IF StoresTo(prog, opener, A) THEN tok.lastStore[A] ELSE outer.lastStore[A]],
   acquire |-> IF Acquires(prog, opener) THEN tok.acquire ELSE outer.acquire]

LoopFrames == {f \in 1..Len(frames) : prog[frames[f].at].kind # "if"}
InnermostLoop == Max(LoopFrames)

-----------------------------------------------------------------------------
(* One action per kind of instruction (_to_token_order_in_block).          *)

Op == prog[pc]
At(kinds) == pc <= Len(prog) /\ Op.kind \in kinds

\* The execution of the loop an operation belongs to, named by the loop and the
\* length of the trace when it was entered; <<0, 0>> outside every loop.
Activation ==
  IF LoopFrames = {} THEN <<0, 0>>
  ELSE <<frames[InnermostLoop].at, frames[InnermostLoop].entered>>

This == Len(trace) + 1

Issue(input) ==
  /\ after' = input
  /\ trace' = Append(trace, [at |-> pc, activation |-> Activation])
  /\ pc' = pc + 1
  /\ UNCHANGED <<prog, frames>>

\* TileLoad, LoadPointer: after the last stores; the result joins the last operations.
Load ==
  /\ At({"load"})
  /\ LET input == Joined("lastStore", Op)
         result == input \cup {This}
     IN /\ Issue(input)
        /\ tok' = [tok EXCEPT !.lastOp[Op.alias] = @ \cup result,
                              !.acquire = IF HasAcquire(Op) THEN result ELSE @]

\* TileStore, StorePointer and the atomics: after every last operation.
StoreOrAtomic ==
  /\ At({"store", "atomic"})
  /\ ~IsParallelStore(prog, pc)
  /\ LET input == Joined("lastOp", Op)
         result == input \cup {This}
     IN /\ Issue(input)
        /\ tok' = [tok EXCEPT !.lastOp[Op.alias] = result, !.lastStore[Op.alias] = result,
                              !.acquire = IF Op.kind = "atomic" /\ HasAcquire(Op)
                                          THEN result ELSE @]

\* A mistake: the store waits for the store of the iteration before it.
ParallelInputChained == tok.lastOp[Op.alias] \cup tok.acquire

\* _try_loop_parallel_store: after what the loop was entered after, and after
\* the last acquire; the result joins the loop's last operations.
ParallelInput ==
  frames[InnermostLoop].outer.lastOp[Op.alias] \cup tok.acquire

ParallelStore ==
  /\ At({"store"})
  /\ IsParallelStore(prog, pc)
  /\ LET joined == tok.lastOp[Op.alias] \cup ParallelInput \cup {This}
     IN /\ Issue(ParallelInput)
        /\ tok' = [tok EXCEPT !.lastOp[Op.alias] = joined, !.lastStore[Op.alias] = joined]

\* TilePrintf, grid dependency control and foreign calls.
FenceOp ==
  /\ At(FenceKinds)
  /\ LET input == Joined("lastOp", Op)
         result == input \cup {This}
     IN /\ Issue(input)
        /\ tok' = [tok EXCEPT !.lastOp[Universe] = result, !.lastStore[Universe] = result,
                              !.acquire = IF HasAcquire(Op) THEN result ELSE @]

Push(first) ==
  /\ frames' = Append(frames, [at |-> pc, outer |-> tok, trips |-> 1, entered |-> Len(trace)])
  /\ pc' = first
  /\ UNCHANGED <<prog, tok, trace, after>>

\* Loop: the initial values are the current tokens, so tok does not change.
EnterLoop == At({"for", "loop"}) /\ Push(pc + 1)

\* A for loop over an empty range: its results are its initial values.
SkipLoop ==
  /\ At({"for"})
  /\ pc' = EndOf(prog, pc) + 1
  /\ UNCHANGED <<prog, tok, frames, trace, after>>

EnterBranch == At({"if"}) /\ \E first \in {pc + 1, ElseOf(prog, pc) + 1} : Push(first)

Frame == frames[Len(frames)]

\* EndBranch of the then block or of the else block.
EndBranch ==
  /\ At({"else", "end"})
  /\ prog[Frame.at].kind = "if"
  /\ tok' = Carried(Frame.at, Frame.outer)
  /\ pc' = EndOf(prog, Frame.at) + 1
  /\ frames' = SubSeq(frames, 1, Len(frames) - 1)
  /\ UNCHANGED <<prog, trace, after>>

AtContinue == At({"continue"}) \/ (At({"end"}) /\ prog[Frame.at].kind # "if")

\* A mistake: a continue inside a branch does not leave the branch.
ContinueLoopInBranch ==
  /\ AtContinue
  /\ LET loop == frames[InnermostLoop]
     IN /\ loop.trips < MaxTrips
        /\ tok' = Carried(loop.at, loop.outer)
        /\ frames' = [frames EXCEPT ![InnermostLoop].trips = @ + 1]
        /\ pc' = loop.at + 1
  /\ UNCHANGED <<prog, trace, after>>

\* Continue with another iteration; the map the body starts from is carried.
ContinueLoop ==
  /\ AtContinue
  /\ LET loop == frames[InnermostLoop]
     IN /\ loop.trips < MaxTrips
        /\ tok' = Carried(loop.at, loop.outer)
        /\ frames' = Append(SubSeq(frames, 1, InnermostLoop - 1),
                            [loop EXCEPT !.trips = @ + 1])
        /\ pc' = loop.at + 1
  /\ UNCHANGED <<prog, trace, after>>

\* Break, or the Continue of a for loop whose range is exhausted.
LeaveLoop ==
  /\ At({"break"}) \/ (AtContinue /\ prog[frames[InnermostLoop].at].kind = "for")
  /\ LET loop == frames[InnermostLoop]
     IN /\ tok' = Carried(loop.at, loop.outer)
        /\ frames' = SubSeq(frames, 1, InnermostLoop - 1)
        /\ pc' = EndOf(prog, loop.at) + 1
  /\ UNCHANGED <<prog, trace, after>>

Init ==
  /\ prog \in Kernels
  /\ pc = 1
  /\ tok = RootTokens
  /\ frames = <<>>
  /\ trace = <<>>
  /\ after = {}

Next ==
  \/ Load \/ StoreOrAtomic \/ ParallelStore \/ FenceOp
  \/ EnterLoop \/ SkipLoop \/ EnterBranch \/ EndBranch \/ ContinueLoop \/ LeaveLoop

Spec == Init /\ [][Next]_vars

-----------------------------------------------------------------------------
(* Properties.  Each is about the operation executed last, against every   *)
(* operation executed before it.                                           *)

Tokens ==
  [lastOp : [AliasSets -> SUBSET (1..Len(trace))],
   lastStore : [AliasSets -> SUBSET (1..Len(trace))],
   acquire : SUBSET (1..Len(trace))]

\* Types, and the frames of the run are the blocks around the next instruction.
TypeOK ==
  /\ pc \in 1..(Len(prog) + 1)
  /\ tok \in Tokens
  /\ \A f \in 1..Len(frames) :
       /\ Opens(prog[frames[f].at])
       /\ frames[f].outer \in Tokens
       /\ frames[f].trips \in 1..MaxTrips
       /\ frames[f].at < pc /\ pc <= EndOf(prog, frames[f].at)
  /\ after \subseteq 1..Len(trace)

Done(i) == prog[trace[i].at]
Last == Len(trace)
LastIsParallel == IsParallelStore(prog, trace[Last].at)

\* Stores of one parallelised instruction in one execution of its loop write
\* different tiles.
SameParallelStore(i) == LastIsParallel /\ trace[i] = trace[Last]

Conflicts(i) == Overlap(Done(i).alias, Done(Last).alias) /\ (Writes(Done(i)) \/ Writes(Done(Last)))

\* Two operations that may touch the same memory, one of them writing, are
\* connected by tokens in program order, through any nesting of loops, branches,
\* breaks and continues.  For a parallelised store this is claimed of the
\* operations on its own alias set: see OverlapBeforeParallelStore.
ConflictsOrdered ==
  \A i \in 1..(Last - 1) :
    /\ Conflicts(i)
    /\ ~SameParallelStore(i)
    /\ LastIsParallel => Done(i).alias = Done(Last).alias
    => i \in after

\* The tokens in flight are well formed and order what conflicts (_to_token_order_in_block).
TokenInv == TypeOK /\ ConflictsOrdered

\* MemoryOrder.ACQUIRE: "Subsequent reads/writes within the same block cannot be
\* reordered before this operation": every later operation waits for the acquire,
\* also when the acquire ran in an earlier iteration or in a branch.
AcquireOrdered ==
  \A i \in 1..(Last - 1) : HasAcquire(Done(i)) => i \in after

\* MemoryOrder.RELEASE: "Prior reads/writes within the same block cannot be
\* reordered after this operation", for every release but a parallelised store.
ReleaseOrdered ==
  Last > 0 /\ HasRelease(Done(Last)) /\ ~LastIsParallel => after = 1..(Last - 1)

\* The purpose of the optimisation: without an acquire in the loop, the stores
\* of a parallelised instruction do not wait for each other.
ParallelStoresIndependent ==
  \A i \in 1..(Last - 1) :
    /\ SameParallelStore(i)
    /\ ~Acquires(prog, trace[Last].activation[1])
    => i \notin after

\* A parallelised store is ordered after every earlier operation it conflicts
\* with, also one on another alias set that shares a group with its own.
OverlapBeforeParallelStore ==
  \A i \in 1..(Last - 1) : LastIsParallel /\ Conflicts(i) /\ ~SameParallelStore(i) => i \in after

=============================================================================
