-------------------------- MODULE MC_KernelDispatch --------------------------
(***************************************************************************)
(* Two threads, one family whose map grows at its third kernel, and three  *)
(* keys whose probes collide and wrap around in four and in eight buckets. *)
(***************************************************************************)
EXTENDS KernelDispatch, TLC

CONSTANTS t1, t2, k1, k2, k3, f, record, array

MCHash == k1 :> 7 @@ k2 :> 15 @@ k3 :> 0

\* An array argument, and a dataclass with an array in it.
MCPaths == {<<array>>, <<record, array>>}
MCFamilyOf == [p \in MCPaths |-> f]
MCValues == Keys \X Threads
=============================================================================
