---- MODULE VerifiedProgram ----
(***************************************************************************)
(* A program on its way through the task manager (task_manager.py): the    *)
(* exhaustive check searches its model, and then its tasks execute it.     *)
(***************************************************************************)
EXTENDS PipelineMachine, CheckerReference

verifiedVars == <<vars, searchVars>>

VerifiedInit == Init /\ SearchInit

Verify == SearchNext /\ UNCHANGED <<cursors, barriers, held>>

\* skip_validation turns an unsafe verdict into a warning, so any program may run.
Run == result.done /\ Next /\ UNCHANGED searchVars

VerifiedNext == Verify \/ Run

\* The search goes on until it returns.  Warp groups keep running: as long as some task
\* can take its next step, one does.
VerifiedSpec ==
    /\ VerifiedInit /\ [][VerifiedNext]_verifiedVars
    /\ WF_verifiedVars(Verify) /\ WF_verifiedVars(Run)

\* The search returns, and if it calls the program safe every task runs to the end of its
\* schedule, in whatever order the tasks run and even if the search was cut off by its
\* state limit (check_all_interleavings).
SafeProgramsComplete ==
    /\ <>result.done
    /\ (result.done /\ result.safe) ~> Complete
====
