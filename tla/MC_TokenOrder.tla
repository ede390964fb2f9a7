--------------------------- MODULE MC_TokenOrder ---------------------------
(***************************************************************************)
(* Kernels for TokenOrder: every filling of a few shapes of control flow   *)
(* with memory operations on two alias groups.                             *)
(***************************************************************************)
EXTENDS TokenOrder

CONSTANTS a, b

Accesses == {
  Memory("load", {a}, "weak", FALSE),
  Memory("store", {a}, "weak", TRUE),
  Memory("store", {a, b}, "weak", FALSE),
  Memory("load", {b}, "acquire", FALSE),
  Memory("store", {b}, "release", TRUE),
  Memory("atomic", {b}, "acq_rel", FALSE),
  Fence("print"),
  Fence("wait")
}

For == Control("for")
Loop == Control("loop")
If == Control("if")
Else == Control("else")
End == Control("end")
Break == Control("break")
Continue == Control("continue")

\* An operation, a for loop of two, an operation.
ForLoops == {<<w, For, x, y, End, z>> : w, x, y, z \in Accesses}

\* A for loop in a for loop.
NestedLoops == {<<For, w, For, x, End, y, End, z>> : w, x, y, z \in Accesses}

\* A loop left by a break in a branch.
BreakLoops == {<<Loop, w, If, x, Break, Else, y, End, End, z>> : w, x, y, z \in Accesses}

\* A for loop with a continue in one branch.
ContinueLoops == {<<For, If, w, Continue, Else, x, End, y, End, z>> : w, x, y, z \in Accesses}

\* Weak loads and stores of array parameters only: one before a for loop of one, one after it.
WeakAccesses == {op \in Accesses : op.kind \in {"load", "store"} /\ op.order = "weak"}
ParameterLoops == {<<x, For, y, End, z>> : x, y, z \in WeakAccesses}

MCKernels == ForLoops \cup NestedLoops \cup BreakLoops \cup ContinueLoops
=============================================================================
