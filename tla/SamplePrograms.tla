---- MODULE SamplePrograms ----
(***************************************************************************)
(* Small task-scheduling programs, in the shape of the package's own tests *)
(* and examples, that instantiate the models for TLC.                      *)
(***************************************************************************)
EXTENDS BarrierModel

Op(rid, stage) == [rid |-> rid, stage |-> stage]

Repeat(n, ops) == FlattenSeq([i \in 1..n |-> ops])

Produce(r) == <<Op(r, "ProducerAcquire"), Op(r, "ProducerWork"), Op(r, "ProducerCommit")>>
Consume(r) == <<Op(r, "ConsumerWait"), Op(r, "ConsumerWork"), Op(r, "ConsumerRelease")>>

\* The pairs a schedule contains, captured with every guard open.
CapturedOf(ops) == {<<ops[i].rid, ops[i].stage>> : i \in DOMAIN ops}

\* A program whose guards all fire.
Program(ops, stages, kind, ranges) ==
    [ops |-> ops, captured |-> [t \in DOMAIN ops |-> CapturedOf(ops[t])],
     stages |-> stages, kind |-> kind, ranges |-> ranges]

Cells(space, from, to) == {<<space, c>> : c \in from..to}
NoAlias(rids) == [r \in rids |-> {<<r, 0>>}]

\* A GEMM tile: a load task feeds a two-stage operand ring, the tensor core
\* reads it and commits an accumulator, the epilogue drains the accumulator.
Gemm ==
    Program(
      << Repeat(3, Produce("ab")),
         <<Op("acc", "ProducerAcquire")>>
            \o Repeat(3, <<Op("ab", "ConsumerTryWait")>> \o Consume("ab"))
            \o <<Op("acc", "ProducerWork"), Op("acc", "ProducerCommit")>>,
         Consume("acc") >>,
      [ab |-> 2, acc |-> 1], [ab |-> "TmaUmma", acc |-> "UmmaAsync"], NoAlias({"ab", "acc"}))

\* Two tiles of a GEMM with a one-stage operand and a two-stage accumulator.
GemmTiles ==
    Program(
      << Repeat(2, Produce("ab")),
         Repeat(2, <<Op("acc", "ProducerAcquire")>> \o Consume("ab")
                      \o <<Op("acc", "ProducerWork"), Op("acc", "ProducerCommit")>>),
         Repeat(2, Consume("acc")) >>,
      [ab |-> 1, acc |-> 2], [ab |-> "TmaUmma", acc |-> "UmmaAsync"], NoAlias({"ab", "acc"}))

\* One producer broadcasts to two consumers, three rounds over one stage.
Broadcast ==
    Program(<<Repeat(3, Produce("x")), Repeat(3, Consume("x")), Repeat(3, Consume("x"))>>,
            [x |-> 1], [x |-> "TmaAsync"], NoAlias({"x"}))

\* Two producers fill every stage of a ring together; the consumer runs one
\* stage ahead with two waits open (advance_on_wait).
Join ==
    Program(<<Repeat(4, Produce("x")), Repeat(4, Produce("x")),
              <<Op("x", "ConsumerWait")>>
                \o Repeat(3, <<Op("x", "ConsumerWait"), Op("x", "ConsumerWork"),
                               Op("x", "ConsumerRelease")>>)
                \o <<Op("x", "ConsumerWork"), Op("x", "ConsumerRelease")>> >>,
            [x |-> 2], [x |-> "AsyncAsync"], NoAlias({"x"}))

\* A staging buffer without a pipeline next to a ring.
Staged ==
    Program(<<Repeat(2, <<Op("s", "ProducerWork"), Op("x", "ProducerAuxWork"),
                          Op("x", "ProducerTryAcquire")>> \o Produce("x")),
              Repeat(2, Consume("x") \o <<Op("s", "ConsumerWork"), Op("x", "ConsumerAuxWork")>>)>>,
            [x |-> 1, s |-> 1], [x |-> "AsyncAsync", s |-> Unpipelined],
            [x |-> Cells("smem", 0, 1), s |-> Cells("smem", 2, 3)])

\* A short ring: one producer, one consumer, two rounds over one stage.
Ring ==
    Program(<<Repeat(2, Produce("x")), Repeat(2, Consume("x"))>>,
            [x |-> 1], [x |-> "AsyncAsync"], NoAlias({"x"}))

\* The second producer's commit sits under a guard that does not fire: it
\* counts as a participant all the same, and the consumer waits for ever.
GuardedCommit ==
    LET ops == <<Produce("x"), <<Op("x", "ProducerAuxWork")>>, Consume("x")>>
    IN  [Program(ops, [x |-> 1], [x |-> "AsyncAsync"], NoAlias({"x"}))
            EXCEPT !.captured[2] = @ \cup {<<"x", "ProducerCommit">>}]

\* Two rings that wait for each other in opposite order.
CrossedWaits ==
    Program(<<Consume("y") \o Produce("x"), Consume("x") \o Produce("y")>>,
            [x |-> 1, y |-> 1], [x |-> "AsyncAsync", y |-> "AsyncAsync"], NoAlias({"x", "y"}))

\* A scratch buffer that aliases a ring another task is still reading.
AliasedScratch ==
    Program(<<Produce("x") \o Produce("w"), Consume("x")>>,
            [x |-> 1, w |-> 1], [x |-> "AsyncAsync", w |-> "AsyncAsync"],
            [x |-> Cells("smem", 0, 3), w |-> Cells("smem", 2, 5)])

\* The same scratch written only after a completion wait: no race.
AliasedAfterCompletion ==
    Program(<<Produce("ab"),
              <<Op("acc", "ProducerAcquire")>> \o Consume("ab")
                 \o <<Op("acc", "ProducerWork"), Op("acc", "ProducerCommit")>>,
              Consume("acc") \o Produce("w")>>,
            [ab |-> 1, acc |-> 1, w |-> 1],
            [ab |-> "TmaUmma", acc |-> "UmmaAsync", w |-> "AsyncAsync"],
            [ab |-> Cells("smem", 0, 3), acc |-> Cells("tmem", 0, 3), w |-> Cells("smem", 0, 3)])

\* The scratch written after the release of the operand, which does not end
\* the tensor core's read: a race.
AliasedAfterRelease ==
    Program(<<Produce("ab"),
              Consume("ab") \o Produce("go"),
              Consume("go") \o Produce("w")>>,
            [ab |-> 1, go |-> 1, w |-> 1],
            [ab |-> "TmaUmma", go |-> "AsyncAsync", w |-> "AsyncAsync"],
            [ab |-> Cells("smem", 0, 3), go |-> {}, w |-> Cells("smem", 0, 3)])

\* A task that commits two accumulators: the commit of the second covers the
\* operand read, and the scratch that aliases the operand is written once the
\* first has been waited for and the operand released: a race.
TwoAccumulators ==
    Program(<<Produce("ab"),
              Produce("acc1") \o <<Op("acc2", "ProducerAcquire")>> \o Consume("ab")
                 \o <<Op("acc2", "ProducerCommit")>> \o Produce("go"),
              Consume("acc1") \o Consume("go") \o Produce("w") \o Consume("acc2")>>,
            [ab |-> 1, acc1 |-> 1, acc2 |-> 1, go |-> 1, w |-> 1],
            [ab |-> "TmaUmma", acc1 |-> "UmmaAsync", acc2 |-> "UmmaAsync",
             go |-> "AsyncAsync", w |-> "AsyncAsync"],
            [ab |-> Cells("smem", 0, 3), acc1 |-> Cells("tmem", 0, 3), acc2 |-> Cells("tmem", 4, 7),
             go |-> {}, w |-> Cells("smem", 0, 3)])

\* One round of a broadcast: both consumers may take the last step.
Fanout ==
    Program(<<Produce("x"), Consume("x"), Consume("x")>>,
            [x |-> 1], [x |-> "TmaAsync"], NoAlias({"x"}))
====
