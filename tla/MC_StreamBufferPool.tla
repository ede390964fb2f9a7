---- MODULE MC_StreamBufferPool ----
(* Instance of StreamBufferPool for TLC. *)
EXTENDS StreamBufferPool, TLC

ChunkSymmetry == Permutations(Chunks)
====
