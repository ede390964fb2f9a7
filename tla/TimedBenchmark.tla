--------------------------- MODULE TimedBenchmark ---------------------------
(***************************************************************************)
(* Benchmarks with a timeout (tune/_tune_utils.py).  A kernel that may     *)
(* hang is launched in a worker process: benchmark_with_timeout takes a    *)
(* lock, finds or starts the worker, sends it the task and waits for the   *)
(* answer.  A worker that times out, dies or misbehaves is ended, and the  *)
(* next benchmark starts another.  Workers crash, hang and answer late;    *)
(* Ctrl-C interrupts the host wherever it waits.                           *)
(*                                                                         *)
(* The host runs under _timed_benchmark_lock, so one `pc` stands for       *)
(* whichever thread has it: "idle" is the free lock.  Every other value is *)
(* a place where the host may be while workers run.                        *)
(***************************************************************************)
EXTENDS Integers, Sequences, FiniteSets

CONSTANTS
  Workers,   \* worker processes that can exist at a time, a bound
  MaxTasks,  \* bound on the task numbers
  None

ASSUME BenchmarkAssumption == MaxTasks \in Nat /\ None \notin Workers

VARIABLES
  pc,       \* where the host is
  stored,   \* _worker, the worker the next benchmark will use
  current,  \* the worker of this benchmark
  task,     \* task_id, the number of the last task
  large,    \* whether this request exceeds the buffer of a connection
  ending,   \* what to raise once the worker has been ended; "exit" at exit
  result,   \* what the last benchmark came to
  process,  \* the state of each worker process
  conn,     \* the host's side of its connection: "none", "open" or "closed"
  inbox,    \* what it has been sent and not received
  job,      \* the task it is working on
  outbox,   \* its answers the host has not received
  signal    \* the strongest signal it has been sent: "none", "term" or "kill"

host == <<pc, stored, current, task, large, ending, result>>
workers == <<process, conn, inbox, job, outbox, signal>>
vars == <<host, workers>>

Stop == 0      \* the request (_WORKER_STOP,); a task is a positive number
Partial == -1  \* the beginning of a request whose send was interrupted

Alive(w) == process[w] # "gone"
Attached(w) == process[w] \in {"idle", "busy"}
Has(s, v) == \E i \in DOMAIN s : s[i] = v

\* The task this benchmark is about, 0 if the host is not in one.
Asked ==
  IF pc \in {"idle", "exited"} \/ ending = "exit" THEN 0
  ELSE IF pc \in {"find", "accept", "send"} THEN task + 1
  ELSE task

-----------------------------------------------------------------------------
(* Ways for the host to go on.                                             *)

\* run returns or raises and the lock is released, or the exit handler is done.
Return(kind, value) ==
  /\ pc' = IF ending = "exit" THEN "exited" ELSE "idle"
  /\ current' = None
  /\ ending' = "none"
  /\ result' = IF ending = "exit" THEN result
               ELSE [kind |-> kind, task |-> Asked, value |-> value]

Closed(w) == conn' = [conn EXCEPT ![w] = "closed"]
Signalled(w, s) == signal' = [signal EXCEPT ![w] = s]

\* A mistake: the worker is forgotten only by the next benchmark that finds it dead.
TerminateLater(kind) ==
  /\ UNCHANGED stored
  /\ IF Alive(current)
     THEN /\ Signalled(current, "term")
          /\ pc' = "term"
          /\ ending' = kind
          /\ UNCHANGED <<current, conn, result>>
     ELSE /\ Closed(current)
          /\ Return(kind, 0)
          /\ UNCHANGED signal

\* terminate(graceful_shutdown=False), to raise `kind` when it is done: up to the
\* wait for the end of a process that has been told to terminate.
Terminate(kind) ==
  /\ stored' = None
  /\ IF Alive(current)
     THEN /\ Signalled(current, "term")
          /\ pc' = "term"
          /\ ending' = kind
          /\ UNCHANGED <<current, conn, result>>
     ELSE /\ Closed(current)
          /\ Return(kind, 0)
          /\ UNCHANGED signal

-----------------------------------------------------------------------------
(* The host.                                                               *)

\* benchmark_with_timeout takes the lock.
Run ==
  /\ pc = "idle"
  /\ task < MaxTasks
  /\ pc' = "find"
  /\ large' \in BOOLEAN
  /\ UNCHANGED <<workers, stored, current, task, ending, result>>

\* _get_or_start_worker finds its worker running.
FindStored ==
  /\ pc = "find"
  /\ stored # None
  /\ Alive(stored)
  /\ pc' = "send"
  /\ current' = stored
  /\ UNCHANGED <<workers, stored, task, large, ending, result>>

\* There is no worker, or it has died and is given up: a process is started, which
\* has yet to connect.
Start(w) ==
  /\ pc = "find"
  /\ stored # None => ~Alive(stored)
  /\ ~Alive(w)
  /\ stored' = None
  /\ pc' = "accept"
  /\ current' = w
  /\ process' = [process EXCEPT ![w] = "starting"]
  /\ conn' = [conn EXCEPT ![w] = "none"]
  /\ inbox' = [inbox EXCEPT ![w] = <<>>]
  /\ outbox' = [outbox EXCEPT ![w] = <<>>]
  /\ job' = [job EXCEPT ![w] = 0]
  /\ signal' = [signal EXCEPT ![w] = "none"]
  /\ UNCHANGED <<task, large, ending, result>>

\* The listener or the process cannot be made.
StartFails ==
  /\ pc = "find"
  /\ stored # None => ~Alive(stored)
  /\ stored' = None
  /\ Return("error", 0)
  /\ UNCHANGED <<workers, task, large>>

\* The accept thread has the connection.
Accepted ==
  /\ pc = "accept"
  /\ conn[current] = "open"
  /\ stored' = current
  /\ pc' = "send"
  /\ UNCHANGED <<workers, current, task, large, ending, result>>

\* A mistake: the process is left to itself when it did not connect.
NotAcceptedLeft ==
  /\ pc = "accept"
  /\ conn[current] # "open"
  /\ Return("error", 0)
  /\ UNCHANGED <<workers, stored, task, large>>

\* No connection in time, or the process died.  It is told to terminate and, unlike in
\* terminate(), not killed.
NotAccepted ==
  /\ pc = "accept"
  /\ conn[current] # "open"
  /\ Closed(current)
  /\ IF Alive(current) THEN Signalled(current, "term") ELSE UNCHANGED signal
  /\ Return("error", 0)
  /\ UNCHANGED <<stored, task, large, process, inbox, job, outbox>>

\* The worker has read all there is and waits for more.
Waits(w) == process[w] = "idle" /\ (inbox[w] # <<>> => Head(inbox[w]) = Partial)

\* A request is written without waiting if it fits into the buffer, or if the worker is
\* reading: it has nothing else to do, or it lacks the rest of a request.
CanSend(w) == Waits(w) \/ (~large /\ ~Has(inbox[w], Partial))

\* The request, or at exit the request to stop, is sent.  A worker that has gone since
\* it was polled refuses it; this is an error, except at exit.
Send ==
  /\ pc = "send"
  /\ task' = IF ending = "exit" THEN task ELSE task + 1
  /\ IF Attached(current)
     THEN /\ CanSend(current)
          /\ inbox' = [inbox EXCEPT ![current] =
                         Append(@, IF ending = "exit" THEN Stop ELSE task')]
          /\ pc' = IF ending = "exit" THEN "stop" ELSE "await"
     ELSE /\ pc' = IF ending = "exit" THEN "stop" ELSE "report"
          /\ UNCHANGED inbox
  /\ UNCHANGED <<stored, current, large, ending, result, process, conn, job, outbox, signal>>

Answered == Head(outbox[current])

\* A mistake: the number of the answer is not looked at.
ReceiveAny ==
  /\ pc = "await"
  /\ outbox[current] # <<>>
  /\ outbox' = [outbox EXCEPT ![current] = Tail(@)]
  /\ IF Answered.ok
     THEN Return("ok", Answered.task) /\ UNCHANGED <<stored, conn, signal>>
     ELSE Terminate("error")
  /\ UNCHANGED <<task, large, process, inbox, job>>

\* A mistake: a worker that reports an error is kept.
ReceiveKeeps ==
  /\ pc = "await"
  /\ outbox[current] # <<>>
  /\ outbox' = [outbox EXCEPT ![current] = Tail(@)]
  /\ IF Answered.task = task
     THEN /\ IF Answered.ok THEN Return("ok", task) ELSE Return("error", 0)
          /\ UNCHANGED <<stored, conn, signal>>
     ELSE Terminate("error")
  /\ UNCHANGED <<task, large, process, inbox, job>>

\* An answer is received.  It is the answer to another task if the benchmark before
\* this one was interrupted: then, and after an error, the worker is ended.
Receive ==
  /\ pc = "await"
  /\ outbox[current] # <<>>
  /\ outbox' = [outbox EXCEPT ![current] = Tail(@)]
  /\ IF Answered.task = task /\ Answered.ok
     THEN Return("ok", Answered.task) /\ UNCHANGED <<stored, conn, signal>>
     ELSE Terminate("error")
  /\ UNCHANGED <<task, large, process, inbox, job>>

\* A mistake: recv() without a timeout.
TimeoutNever == FALSE

\* wait() returns nothing within timeout_sec.
Timeout ==
  /\ pc = "await"
  /\ outbox[current] = <<>>
  /\ Attached(current)
  /\ Terminate("timeout")
  /\ UNCHANGED <<task, large, process, inbox, job, outbox>>

\* recv() finds the connection ended: the worker is given a second to exit.
Disconnected ==
  /\ pc = "await"
  /\ outbox[current] = <<>>
  /\ ~Attached(current)
  /\ pc' = "report"
  /\ UNCHANGED <<workers, stored, current, task, large, ending, result>>

\* _exit_worker_and_report_error, after that second or when the process has ended.
Report ==
  /\ pc = "report"
  /\ Terminate("error")
  /\ UNCHANGED <<task, large, process, inbox, job, outbox>>

\* terminate, when the process has ended or has had a second: it is killed.
Terminated ==
  /\ pc = "term"
  /\ IF Alive(current)
     THEN /\ Signalled(current, "kill")
          /\ pc' = "kill"
          /\ UNCHANGED <<conn, current, ending, result>>
     ELSE /\ Closed(current)
          /\ Return(ending, 0)
          /\ UNCHANGED signal
  /\ UNCHANGED <<stored, task, large, process, inbox, job, outbox>>

\* The wait after kill() raises TimeoutExpired if the process is still there.
Killed ==
  /\ pc = "kill"
  /\ Closed(current)
  /\ Return(IF Alive(current) THEN "expired" ELSE ending, 0)
  /\ UNCHANGED <<stored, task, large, process, inbox, job, outbox, signal>>

\* KeyboardInterrupt while the host waits.  terminate() closes the connection; where a
\* worker is started only the listener is closed, and a connection it has accepted is left
\* behind.  Otherwise the worker is kept, with a task it may still be working on or with a
\* part of a request, whose number is used up.
Interrupt ==
  /\ \/ /\ pc = "accept"
        /\ conn' = [conn EXCEPT ![current] = IF @ = "open" THEN "open" ELSE "closed"]
        /\ UNCHANGED <<task, inbox>>
     \/ pc \in {"term", "kill"} /\ Closed(current) /\ UNCHANGED <<task, inbox>>
     \/ pc \in {"await", "report", "stop"} /\ UNCHANGED <<task, conn, inbox>>
     \/ /\ pc = "send"
        /\ Attached(current)
        /\ ~CanSend(current)
        /\ inbox' = [inbox EXCEPT ![current] =
                       IF Has(@, Partial) THEN @ ELSE Append(@, Partial)]
        /\ task' = IF ending = "exit" THEN task ELSE task + 1
        /\ UNCHANGED conn
  /\ Return("interrupted", 0)
  /\ UNCHANGED <<stored, large, process, job, outbox, signal>>

\* A connection that an interrupted start has left behind is closed when its last reference,
\* which the exception holds, goes.
Collected(w) ==
  /\ w \notin {stored, current}
  /\ conn[w] = "open"
  /\ pc # "exited"
  /\ Closed(w)
  /\ UNCHANGED <<host, process, inbox, job, outbox, signal>>

\* _terminate_timed_benchmark_runner, when the interpreter exits.
AtExit ==
  /\ pc = "idle"
  /\ IF stored = None
     THEN pc' = "exited" /\ UNCHANGED <<current, ending>>
     ELSE pc' = "send" /\ current' = stored /\ ending' = "exit"
  /\ stored' = None
  /\ large' = FALSE
  /\ UNCHANGED <<workers, task, result>>

\* The worker has stopped, or a second has passed.
Stopped ==
  /\ pc = "stop"
  /\ Terminate("exit")
  /\ UNCHANGED <<task, large, process, inbox, job, outbox>>

-----------------------------------------------------------------------------
(* The workers.                                                            *)

\* The host's side of the connection, or its listener, is closed.
HungUp(w) == conn[w] = "closed" \/ pc = "exited"

Becomes(w, state) == process' = [process EXCEPT ![w] = state]

\* The worker's side of the connection ends, with what it has not received.
Exits(w, state) ==
  /\ Becomes(w, state)
  /\ inbox' = [inbox EXCEPT ![w] = <<>>]
  /\ job' = [job EXCEPT ![w] = 0]

\* _benchmark_worker.main connects.
Connect(w) ==
  /\ process[w] = "starting"
  /\ ~HungUp(w)
  /\ Becomes(w, "idle")
  /\ conn' = [conn EXCEPT ![w] = "open"]
  /\ UNCHANGED <<host, inbox, job, outbox, signal>>

\* A request is received.
WorkerReceive(w) ==
  /\ process[w] = "idle"
  /\ inbox[w] # <<>>
  /\ Head(inbox[w]) # Partial
  /\ IF Head(inbox[w]) = Stop
     THEN Exits(w, "exiting")
     ELSE /\ Becomes(w, "busy")
          /\ job' = [job EXCEPT ![w] = Head(inbox[w])]
          /\ inbox' = [inbox EXCEPT ![w] = Tail(@)]
  /\ UNCHANGED <<host, conn, outbox, signal>>

\* The kernel has run, or it failed.  The answer cannot be sent if the host has hung up.
WorkerDone(w) ==
  /\ process[w] = "busy"
  /\ IF HungUp(w)
     THEN Exits(w, "exiting") /\ UNCHANGED outbox
     ELSE /\ Becomes(w, "idle")
          /\ job' = [job EXCEPT ![w] = 0]
          /\ \E ok \in BOOLEAN :
               outbox' = [outbox EXCEPT ![w] = Append(@, [task |-> job[w], ok |-> ok])]
          /\ UNCHANGED inbox
  /\ UNCHANGED <<host, conn, signal>>

\* There is no listener to connect to, or recv() finds the connection ended.
WorkerEOF(w) ==
  /\ HungUp(w)
  /\ process[w] = "starting" \/ Waits(w)
  /\ Exits(w, "exiting")
  /\ UNCHANGED <<host, conn, outbox, signal>>

\* A fault of the kernel, Ctrl-C, or an exception: the connection ends.
Crash(w) ==
  /\ process[w] = "starting" \/ Attached(w)
  /\ Exits(w, "exiting")
  /\ UNCHANGED <<host, conn, outbox, signal>>

\* A process that exits, or has been sent a signal, comes to its end.
Ends(w) ==
  /\ process[w] = "exiting" \/ (Alive(w) /\ signal[w] # "none")
  /\ Exits(w, "gone")
  /\ UNCHANGED <<host, conn, outbox, signal>>

-----------------------------------------------------------------------------
Init ==
  /\ pc = "idle"
  /\ stored = None
  /\ current = None
  /\ task = 0
  /\ large = FALSE
  /\ ending = "none"
  /\ result = [kind |-> "none", task |-> 0, value |-> 0]
  /\ process = [w \in Workers |-> "gone"]
  /\ conn = [w \in Workers |-> "none"]
  /\ inbox = [w \in Workers |-> <<>>]
  /\ job = [w \in Workers |-> 0]
  /\ outbox = [w \in Workers |-> <<>>]
  /\ signal = [w \in Workers |-> "none"]

\* What the host does by itself: every wait but the one of Send has a timeout.
HostStep ==
  \/ FindStored
  \/ \E w \in Workers : Start(w)
  \/ StartFails
  \/ Accepted
  \/ NotAccepted
  \/ Send
  \/ Receive
  \/ Timeout
  \/ Disconnected
  \/ Report
  \/ Terminated
  \/ Killed
  \/ Stopped

Next ==
  \/ Run
  \/ AtExit
  \/ Interrupt
  \/ HostStep
  \/ \E w \in Workers :
       \/ Collected(w)
       \/ Connect(w)
       \/ WorkerReceive(w)
       \/ WorkerDone(w)
       \/ WorkerEOF(w)
       \/ Crash(w)
       \/ Ends(w)

\* The host goes on, a worker that waits for a request or for the end of the connection
\* sees it, and a process that should end does.  A kernel may run for ever.  The program
\* drops the exceptions it catches.
Fairness ==
  /\ WF_vars(HostStep)
  /\ \A w \in Workers :
       /\ WF_vars(WorkerReceive(w)) /\ WF_vars(WorkerEOF(w)) /\ WF_vars(Ends(w))
       /\ WF_vars(Collected(w))

Spec == Init /\ [][Next]_vars /\ Fairness

-----------------------------------------------------------------------------
(* Properties.                                                             *)

\* Every variable has its type; the worker that would be used next and the worker in
\* use are connected, unless they are starting or have been given up.
TypeOK ==
  /\ pc \in {"idle", "find", "accept", "send", "await", "report", "term", "kill", "stop", "exited"}
  /\ stored \in Workers \cup {None}
  /\ current \in Workers \cup {None}
  /\ (current = None) <=> (pc \in {"idle", "find", "exited"})
  /\ task \in 0..MaxTasks
  /\ large \in BOOLEAN
  /\ ending \in {"none", "error", "timeout", "exit"}
  /\ result \in [kind : {"none", "ok", "error", "timeout", "expired", "interrupted"},
                 task : 0..MaxTasks, value : 0..MaxTasks]
  /\ process \in [Workers -> {"starting", "idle", "busy", "exiting", "gone"}]
  /\ conn \in [Workers -> {"none", "open", "closed"}]
  /\ \A w \in Workers : \A i \in DOMAIN inbox[w] : inbox[w][i] \in -1..MaxTasks
  /\ job \in [Workers -> 0..MaxTasks]
  /\ \A w \in Workers : \A i \in DOMAIN outbox[w] :
       outbox[w][i] \in [task : 1..MaxTasks, ok : BOOLEAN]
  /\ signal \in [Workers -> {"none", "term", "kill"}]
  /\ stored # None => conn[stored] = "open" /\ signal[stored] = "none"

\* After a benchmark that raised anything but KeyboardInterrupt, the next one gets a
\* process that has not run anything: run, terminate and _get_or_start_worker.
ErrorsDropTheWorker ==
  pc = "idle" /\ result.kind \in {"error", "timeout", "expired"} => stored = None

\* The runner's record of its worker is right between any two of its waits (run, terminate).
RunnerInv == TypeOK /\ ErrorsDropTheWorker

\* A worker the runner has let go of, alive with a kernel that may run for ever or not yet
\* connected, does not stay while the host lives: terminate and _accept_worker_connection.
StrayWorkersGoAway ==
  \A w \in Workers :
    (Alive(w) /\ w \notin {stored, current}) ~> (~Alive(w) \/ pc = "exited")

\* The host is stopped in conn.send, by a worker that does not read.
SendBlocked == pc = "send" /\ Attached(current) /\ ~CanSend(current)

\* Every benchmark returns or raises, whatever its kernel does, unless the host is stopped
\* in conn.send, which has no timeout: run.
EveryRunEnds ==
  (pc \notin {"idle", "exited"}) ~> (pc \in {"idle", "exited"} \/ SendBlocked)

Service == INSTANCE BenchmarkService
  WITH asked <- Asked, reply <- <<result.task, result.value>>

\* A benchmark gets the measurement of its own task or an exception, although a worker may
\* still answer a task that was interrupted: the check of the task number in run.
ImplementsBenchmarkService == Service!ServiceSpec
=============================================================================
