---- MODULE MC_VerifiedProgram ----
(* Instances of VerifiedProgram for TLC. *)
EXTENDS VerifiedProgram, SamplePrograms

MCModels ==
    {BuildModel(p) : p \in {Gemm, GemmTiles, Broadcast, Join, Staged, Ring, Fanout,
                            GuardedCommit, CrossedWaits, AliasedScratch,
                            AliasedAfterCompletion, AliasedAfterRelease, TwoAccumulators}}

MCTwoAccumulators == {BuildModel(TwoAccumulators)}
====
