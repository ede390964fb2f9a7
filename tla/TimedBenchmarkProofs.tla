---- MODULE TimedBenchmarkProofs ----
(***************************************************************************)
(* Proofs about TimedBenchmark: the runner's record of its worker is right *)
(* wherever the host waits, and a benchmark gets the measurement of its    *)
(* own task or an exception, for any number of workers and tasks and       *)
(* whatever the workers, signals and interrupts do.                        *)
(***************************************************************************)
EXTENDS TimedBenchmark, SequenceTheorems, TLAPS

-----------------------------------------------------------------------------
(* The inductive invariant.                                                *)

Answers == [task : 1..MaxTasks, ok : BOOLEAN]

\* The queues are sequences, and a worker that is busy has a task.
QueueInv ==
  /\ inbox \in [Workers -> Seq(-1..MaxTasks)]
  /\ outbox \in [Workers -> Seq(Answers)]
  /\ \A w \in Workers : process[w] = "busy" => job[w] > 0

\* What the host is about to raise, by where it is.
EndingInv ==
  /\ pc \in {"idle", "find", "accept", "await", "report", "exited"} => ending = "none"
  /\ pc = "send" => ending \in {"none", "exit"}
  /\ pc = "stop" => ending = "exit"
  /\ pc \in {"term", "kill"} => ending \in {"error", "timeout", "exit"}

\* The worker in use is the one the next benchmark would use, until it is given up.
WorkerInv ==
  /\ pc \in {"accept", "term", "kill", "stop"} \/ ending = "exit" => stored = None
  /\ pc \in {"send", "await", "report"} /\ ending = "none" => stored = current
  /\ pc = "accept" => signal[current] = "none"

\* There is a number for the task in progress.
TaskInv ==
  /\ pc \in {"find", "accept", "send"} /\ ending = "none" => task < MaxTasks
  /\ pc \in {"await", "report"} \/ ending \in {"error", "timeout"} => task > 0

IInv ==
  /\ RunnerInv
  /\ QueueInv
  /\ EndingInv
  /\ WorkerInv
  /\ TaskInv

Places == {"idle", "find", "accept", "send", "await", "report", "term", "kill", "stop", "exited"}

Kinds == {"none", "ok", "error", "timeout", "expired", "interrupted"}

Results == [kind : Kinds, task : 0..MaxTasks, value : 0..MaxTasks]

\* The types of the variables of the host, and of those of the workers.
HostType ==
  /\ pc \in Places
  /\ stored \in Workers \cup {None}
  /\ current \in Workers \cup {None}
  /\ (current = None) <=> (pc \in {"idle", "find", "exited"})
  /\ task \in 0..MaxTasks
  /\ large \in BOOLEAN
  /\ ending \in {"none", "error", "timeout", "exit"}
  /\ result \in Results

WorkerType ==
  /\ process \in [Workers -> {"starting", "idle", "busy", "exiting", "gone"}]
  /\ conn \in [Workers -> {"none", "open", "closed"}]
  /\ job \in [Workers -> 0..MaxTasks]
  /\ signal \in [Workers -> {"none", "term", "kill"}]

StoredInv == stored # None => conn[stored] = "open" /\ signal[stored] = "none"

\* The part about the host, and the part about the workers.
HostInv == HostType /\ StoredInv /\ ErrorsDropTheWorker /\ EndingInv /\ WorkerInv /\ TaskInv
PeerInv == WorkerType /\ QueueInv

\* The elements of a sequence.
LEMMA Elements ==
    ASSUME NEW S, NEW q \in Seq(S), NEW i \in DOMAIN q
    PROVE  q[i] \in S
OBVIOUS

LEMMA Parts == IInv <=> HostInv /\ PeerInv
<1>1. TypeOK /\ QueueInv <=> HostType /\ WorkerType /\ StoredInv /\ QueueInv
  <2>1. QueueInv => /\ \A w \in Workers : \A i \in DOMAIN inbox[w] : inbox[w][i] \in -1..MaxTasks
                    /\ \A w \in Workers : \A i \in DOMAIN outbox[w] :
                         outbox[w][i] \in [task : 1..MaxTasks, ok : BOOLEAN]
    BY Elements DEF QueueInv, Answers
  <2> QED BY <2>1 DEF TypeOK, HostType, WorkerType, StoredInv, Places, Results, Kinds
<1> QED BY <1>1 DEF IInv, HostInv, PeerInv, RunnerInv

LEMMA PartsNext == HostInv' /\ PeerInv' => IInv'
<1>1. QueueInv' => /\ \A w \in Workers : \A i \in DOMAIN inbox'[w] : inbox'[w][i] \in -1..MaxTasks
                   /\ \A w \in Workers : \A i \in DOMAIN outbox'[w] :
                        outbox'[w][i] \in [task : 1..MaxTasks, ok : BOOLEAN]
  BY Elements DEF QueueInv, Answers
<1>2. HostType' /\ WorkerType' /\ StoredInv' /\ QueueInv' => TypeOK'
  BY <1>1 DEF TypeOK, HostType, WorkerType, StoredInv, Places, Results, Kinds
<1> QED BY <1>2 DEF IInv, HostInv, PeerInv, RunnerInv

-----------------------------------------------------------------------------
(* The ways for the host to go on.                                         *)

\* In a benchmark there is a task, and its number is in bounds.
LEMMA AskedInRange ==
    ASSUME HostInv
    PROVE  /\ Asked \in 0..MaxTasks /\ Asked \in Nat
           /\ pc \notin {"idle", "exited"} /\ ending # "exit" => Asked # 0
<1>1. task \in Nat /\ task =< MaxTasks /\ MaxTasks \in Nat
  BY BenchmarkAssumption DEF HostInv, HostType
<1>2. CASE pc \in {"idle", "exited"} \/ ending = "exit"
  BY <1>1, <1>2 DEF Asked
<1>3. CASE ~(pc \in {"idle", "exited"} \/ ending = "exit") /\ pc \in {"find", "accept", "send"}
  <2>1. task < MaxTasks /\ Asked = task + 1
    BY <1>3 DEF Asked, HostInv, TaskInv, EndingInv
  <2> QED BY <1>1, <2>1
<1>4. CASE ~(pc \in {"idle", "exited"} \/ ending = "exit") /\ pc \notin {"find", "accept", "send"}
  <2>1. task > 0 /\ Asked = task
    BY <1>4 DEF Asked, HostInv, HostType, Places, TaskInv, EndingInv
  <2> QED BY <1>1, <2>1
<1> QED BY <1>2, <1>3, <1>4

\* A return leaves the host idle or exited, with a result of its type.  After an error no
\* worker is kept.
LEMMA Returns ==
    ASSUME HostInv, NEW kind \in Kinds, NEW value \in 0..MaxTasks, Return(kind, value),
           task' = task \/ task' \in 0..MaxTasks, large' \in BOOLEAN, stored' \in Workers \cup {None}, StoredInv',
           kind \in {"error", "timeout", "expired"} => stored' = None
    PROVE  HostInv'
<1>1. pc' \in {"idle", "exited"} /\ current' = None /\ ending' = "none"
  BY DEF Return
<1>2. pc' = "idle" => result' = [kind |-> kind, task |-> Asked, value |-> value]
  BY DEF Return
<1>3. result' \in Results
  BY AskedInRange DEF Return, Results, HostInv, HostType
<1>4. HostType'
  BY <1>1, <1>3 DEF HostInv, HostType, Places
<1>5. ErrorsDropTheWorker'
  BY <1>2 DEF ErrorsDropTheWorker
<1>6. EndingInv' /\ WorkerInv' /\ TaskInv'
  BY <1>1 DEF EndingInv, WorkerInv, TaskInv
<1> QED BY <1>4, <1>5, <1>6 DEF HostInv

\* terminate gives the worker up.
LEMMA Terminates ==
    ASSUME HostInv, WorkerType, current \in Workers, NEW kind \in {"error", "timeout", "exit"},
           Terminate(kind), kind = "exit" <=> ending = "exit", kind # "exit" => task > 0,
           UNCHANGED <<task, large>>
    PROVE  HostInv' /\ conn' \in [Workers -> {"none", "open", "closed"}]
           /\ signal' \in [Workers -> {"none", "term", "kill"}]
<1>0. stored' = None /\ StoredInv'
  BY DEF Terminate, StoredInv
<1>1. CASE Alive(current)
  <2>1. /\ Signalled(current, "term") /\ pc' = "term" /\ ending' = kind
        /\ UNCHANGED <<current, conn, result>>
    BY <1>1 DEF Terminate
  <2>2. HostType'
    BY <1>0, <2>1, BenchmarkAssumption DEF HostInv, HostType, Places
  <2>3. ErrorsDropTheWorker' /\ EndingInv' /\ WorkerInv' /\ TaskInv'
    BY <1>0, <2>1 DEF ErrorsDropTheWorker, EndingInv, WorkerInv, TaskInv
  <2>4. signal' \in [Workers -> {"none", "term", "kill"}]
    BY <2>1 DEF Signalled, WorkerType
  <2> QED BY <1>0, <2>1, <2>2, <2>3, <2>4 DEF HostInv, WorkerType
<1>2. CASE ~Alive(current)
  <2>1. Closed(current) /\ Return(kind, 0) /\ signal' = signal
    BY <1>2 DEF Terminate
  <2>2. CASE kind # "exit"
    <3>1. HostInv'
      BY <1>0, <2>1, <2>2, Returns, BenchmarkAssumption DEF Kinds, HostInv, HostType
    <3> QED BY <2>1, <3>1 DEF Closed, WorkerType
  <2>3. CASE kind = "exit"
    <3>1. Return("none", 0)
      BY <2>1, <2>3 DEF Return
    <3>2. HostInv'
      BY <1>0, <3>1, Returns, BenchmarkAssumption DEF Kinds, HostInv, HostType
    <3> QED BY <2>1, <3>2 DEF Closed, WorkerType
  <2> QED BY <2>2, <2>3
<1> QED BY <1>1, <1>2

-----------------------------------------------------------------------------
(* The host's steps.                                                       *)

\* A step that leaves the queues and the processes alone.
LEMMA PeersKept ==
    ASSUME PeerInv, UNCHANGED <<process, inbox, job, outbox>>,
           conn' \in [Workers -> {"none", "open", "closed"}], signal' \in [Workers -> {"none", "term", "kill"}]
    PROVE  PeerInv'
BY DEF PeerInv, WorkerType, QueueInv

LEMMA WorkersKept ==
    ASSUME PeerInv, UNCHANGED workers
    PROVE  PeerInv' /\ UNCHANGED <<conn, signal>>
BY PeersKept DEF workers, PeerInv, WorkerType

LEMMA RunStep == ASSUME HostInv, PeerInv, Run PROVE HostInv' /\ PeerInv'
<1>1. HostType' /\ StoredInv'
  BY WorkersKept DEF Run, HostInv, HostType, Places, StoredInv
<1>2. ErrorsDropTheWorker' /\ EndingInv' /\ WorkerInv' /\ TaskInv'
  BY DEF Run, HostInv, ErrorsDropTheWorker, EndingInv, WorkerInv, TaskInv
<1> QED BY <1>1, <1>2, WorkersKept DEF Run, HostInv

LEMMA FindStoredStep == ASSUME HostInv, PeerInv, FindStored PROVE HostInv' /\ PeerInv'
<1>1. HostType' /\ StoredInv'
  BY WorkersKept DEF FindStored, HostInv, HostType, Places, StoredInv
<1>2. ErrorsDropTheWorker' /\ EndingInv' /\ WorkerInv' /\ TaskInv'
  BY DEF FindStored, HostInv, ErrorsDropTheWorker, EndingInv, WorkerInv, TaskInv
<1> QED BY <1>1, <1>2, WorkersKept DEF FindStored, HostInv

LEMMA StartStep ==
    ASSUME HostInv, PeerInv, NEW w \in Workers, Start(w) PROVE HostInv' /\ PeerInv'
<1>1. HostType' /\ StoredInv'
  BY BenchmarkAssumption DEF Start, HostInv, HostType, Places, StoredInv
<1>2. signal'[w] = "none"
  BY DEF Start, PeerInv, WorkerType
<1>3. ErrorsDropTheWorker' /\ EndingInv' /\ WorkerInv' /\ TaskInv'
  BY <1>2 DEF Start, HostInv, ErrorsDropTheWorker, EndingInv, WorkerInv, TaskInv
<1>4. WorkerType'
  BY BenchmarkAssumption DEF Start, PeerInv, WorkerType
<1>5. QueueInv'
  <2>1. inbox' \in [Workers -> Seq(-1..MaxTasks)] /\ outbox' \in [Workers -> Seq(Answers)]
    BY DEF Start, PeerInv, QueueInv
  <2>2. \A u \in Workers : process'[u] = "busy" => job'[u] > 0
    BY DEF Start, PeerInv, QueueInv, WorkerType
  <2> QED BY <2>1, <2>2 DEF QueueInv
<1> QED BY <1>1, <1>3, <1>4, <1>5 DEF HostInv, PeerInv

LEMMA StartFailsStep == ASSUME HostInv, PeerInv, StartFails PROVE HostInv' /\ PeerInv'
<1>1. StoredInv' /\ stored' \in Workers \cup {None} /\ large' \in BOOLEAN /\ 0 \in 0..MaxTasks
  BY BenchmarkAssumption DEF StartFails, StoredInv, HostInv, HostType
<1> QED BY <1>1, Returns, WorkersKept DEF StartFails, Kinds

LEMMA AcceptedStep == ASSUME HostInv, PeerInv, Accepted PROVE HostInv' /\ PeerInv'
<1>1. current \in Workers /\ ending = "none" /\ signal[current] = "none"
  BY DEF Accepted, HostInv, HostType, EndingInv, WorkerInv
<1>2. HostType' /\ StoredInv'
  BY <1>1, WorkersKept DEF Accepted, HostInv, HostType, Places, StoredInv
<1>3. ErrorsDropTheWorker' /\ EndingInv' /\ WorkerInv' /\ TaskInv'
  BY <1>1 DEF Accepted, HostInv, ErrorsDropTheWorker, EndingInv, WorkerInv, TaskInv
<1> QED BY <1>2, <1>3, WorkersKept DEF Accepted, HostInv

LEMMA NotAcceptedStep == ASSUME HostInv, PeerInv, NotAccepted PROVE HostInv' /\ PeerInv'
<1>1. stored = None /\ stored' = None /\ current \in Workers
  BY DEF NotAccepted, HostInv, HostType, WorkerInv
<1>2. StoredInv' /\ large' \in BOOLEAN /\ 0 \in 0..MaxTasks
  BY <1>1, BenchmarkAssumption DEF NotAccepted, StoredInv, HostInv, HostType
<1>3. HostInv'
  BY <1>1, <1>2, Returns DEF NotAccepted, Kinds
<1>4. conn' \in [Workers -> {"none", "open", "closed"}] /\ signal' \in [Workers -> {"none", "term", "kill"}]
  BY DEF NotAccepted, Closed, Signalled, PeerInv, WorkerType
<1> QED BY <1>3, <1>4, PeersKept DEF NotAccepted

LEMMA SendStep == ASSUME HostInv, PeerInv, Send PROVE HostInv' /\ PeerInv'
<1>1. /\ pc = "send" /\ current \in Workers /\ task \in Nat /\ MaxTasks \in Nat /\ task =< MaxTasks
      /\ ending \in {"none", "exit"} /\ (ending = "none" => task < MaxTasks)
      /\ UNCHANGED <<stored, current, large, ending, result, process, conn, job, outbox, signal>>
  BY BenchmarkAssumption DEF Send, HostInv, HostType, EndingInv, TaskInv
<1>2. CASE ending = "exit"
  <2>1. task' = task /\ pc' = "stop"
    BY <1>2 DEF Send
  <2>2. inbox' \in [Workers -> Seq(-1..MaxTasks)]
    <3>1. \A w \in Workers : Append(inbox[w], 0) \in Seq(-1..MaxTasks)
      <4>1. 0 \in -1..MaxTasks
        BY <1>1
      <4> QED BY <4>1 DEF PeerInv, QueueInv
    <3> QED BY <1>1, <1>2, <3>1 DEF Send, Stop, PeerInv, QueueInv
  <2>3. PeerInv'
    BY <1>1, <2>2 DEF PeerInv, QueueInv, WorkerType
  <2>4. HostType' /\ StoredInv'
    BY <1>1, <2>1 DEF HostInv, HostType, Places, StoredInv
  <2>5. ErrorsDropTheWorker' /\ EndingInv' /\ WorkerInv' /\ TaskInv'
    BY <1>1, <1>2, <2>1 DEF HostInv, ErrorsDropTheWorker, EndingInv, WorkerInv, TaskInv
  <2> QED BY <2>3, <2>4, <2>5 DEF HostInv
<1>3. CASE ending = "none"
  <2>1. task' = task + 1 /\ pc' \in {"await", "report"} /\ task' \in 1..MaxTasks
    BY <1>1, <1>3 DEF Send
  <2>2. inbox' \in [Workers -> Seq(-1..MaxTasks)]
    <3>1. \A w \in Workers : Append(inbox[w], task') \in Seq(-1..MaxTasks)
      <4>1. task' \in -1..MaxTasks
        BY <1>1, <2>1
      <4> QED BY <4>1 DEF PeerInv, QueueInv
    <3> QED BY <1>1, <1>3, <3>1 DEF Send, PeerInv, QueueInv
  <2>3. PeerInv'
    BY <1>1, <2>2 DEF PeerInv, QueueInv, WorkerType
  <2>4. HostType' /\ StoredInv'
    BY <1>1, <2>1 DEF HostInv, HostType, Places, StoredInv
  <2>5. ErrorsDropTheWorker' /\ EndingInv' /\ WorkerInv' /\ TaskInv'
    BY <1>1, <1>3, <2>1 DEF HostInv, ErrorsDropTheWorker, EndingInv, WorkerInv, TaskInv
  <2> QED BY <2>3, <2>4, <2>5 DEF HostInv
<1> QED BY <1>1, <1>2, <1>3

LEMMA ReceiveStep == ASSUME HostInv, PeerInv, Receive PROVE HostInv' /\ PeerInv'
<1>1. /\ pc = "await" /\ current \in Workers /\ outbox[current] # <<>> /\ ending = "none" /\ task > 0
      /\ task \in 0..MaxTasks
      /\ outbox' = [outbox EXCEPT ![current] = Tail(@)]
      /\ UNCHANGED <<task, large, process, inbox, job>>
  BY DEF Receive, HostInv, HostType, EndingInv, TaskInv
<1>2. outbox' \in [Workers -> Seq(Answers)]
  <2>1. Tail(outbox[current]) \in Seq(Answers)
    BY <1>1 DEF PeerInv, QueueInv
  <2> QED BY <1>1, <2>1 DEF PeerInv, QueueInv
<1>3. CASE Answered.task = task /\ Answered.ok
  <2>1. Return("ok", task) /\ UNCHANGED <<stored, conn, signal>>
    BY <1>3 DEF Receive
  <2>2. HostInv'
    BY <1>1, <2>1, Returns DEF Kinds, HostInv, HostType, StoredInv
  <2> QED BY <1>1, <1>2, <2>1, <2>2 DEF PeerInv, QueueInv, WorkerType
<1>4. CASE ~(Answered.task = task /\ Answered.ok)
  <2>1. Terminate("error")
    BY <1>4 DEF Receive
  <2>2. /\ HostInv' /\ conn' \in [Workers -> {"none", "open", "closed"}]
        /\ signal' \in [Workers -> {"none", "term", "kill"}]
    BY <1>1, <2>1, Terminates DEF PeerInv
  <2> QED BY <1>1, <1>2, <2>2 DEF PeerInv, QueueInv, WorkerType
<1> QED BY <1>3, <1>4

LEMMA TimeoutStep == ASSUME HostInv, PeerInv, Timeout PROVE HostInv' /\ PeerInv'
<1>1. pc = "await" /\ current \in Workers /\ ending = "none" /\ task > 0
  BY DEF Timeout, HostInv, HostType, EndingInv, TaskInv
<1>2. /\ HostInv' /\ conn' \in [Workers -> {"none", "open", "closed"}]
      /\ signal' \in [Workers -> {"none", "term", "kill"}]
  BY <1>1, Terminates DEF Timeout, PeerInv
<1> QED BY <1>2, PeersKept DEF Timeout

LEMMA DisconnectedStep == ASSUME HostInv, PeerInv, Disconnected PROVE HostInv' /\ PeerInv'
<1>1. HostType' /\ StoredInv'
  BY WorkersKept DEF Disconnected, HostInv, HostType, Places, StoredInv
<1>2. ErrorsDropTheWorker' /\ EndingInv' /\ WorkerInv' /\ TaskInv'
  BY DEF Disconnected, HostInv, ErrorsDropTheWorker, EndingInv, WorkerInv, TaskInv
<1> QED BY <1>1, <1>2, WorkersKept DEF Disconnected, HostInv

LEMMA ReportStep == ASSUME HostInv, PeerInv, Report PROVE HostInv' /\ PeerInv'
<1>1. pc = "report" /\ current \in Workers /\ ending = "none" /\ task > 0
  BY DEF Report, HostInv, HostType, EndingInv, TaskInv
<1>2. /\ HostInv' /\ conn' \in [Workers -> {"none", "open", "closed"}]
      /\ signal' \in [Workers -> {"none", "term", "kill"}]
  BY <1>1, Terminates DEF Report, PeerInv
<1> QED BY <1>2, PeersKept DEF Report

LEMMA StoppedStep == ASSUME HostInv, PeerInv, Stopped PROVE HostInv' /\ PeerInv'
<1>1. pc = "stop" /\ current \in Workers /\ ending = "exit"
  BY DEF Stopped, HostInv, HostType, EndingInv
<1>2. /\ HostInv' /\ conn' \in [Workers -> {"none", "open", "closed"}]
      /\ signal' \in [Workers -> {"none", "term", "kill"}]
  BY <1>1, Terminates DEF Stopped, PeerInv
<1> QED BY <1>2, PeersKept DEF Stopped

\* The end of terminate: the connection is closed and what was kept to be raised is raised.
LEMMA Ended ==
    ASSUME HostInv, pc \in {"term", "kill"}, NEW kind \in {"error", "timeout", "expired", "exit"},
           kind = "exit" => ending = "exit", Return(kind, 0), UNCHANGED <<stored, task, large>>
    PROVE  HostInv'
<1>1. stored = None /\ stored' = None /\ StoredInv' /\ large' \in BOOLEAN /\ 0 \in 0..MaxTasks
  BY BenchmarkAssumption DEF HostInv, HostType, WorkerInv, StoredInv
<1>2. CASE kind # "exit"
  BY <1>1, <1>2, Returns DEF Kinds
<1>3. CASE kind = "exit"
  <2>1. Return("none", 0)
    BY <1>3 DEF Return
  <2> QED BY <1>1, <2>1, Returns DEF Kinds
<1> QED BY <1>2, <1>3

LEMMA TerminatedStep == ASSUME HostInv, PeerInv, Terminated PROVE HostInv' /\ PeerInv'
<1>1. /\ pc = "term" /\ current \in Workers /\ ending \in {"error", "timeout", "exit"} /\ stored = None
      /\ UNCHANGED <<stored, task, large, process, inbox, job, outbox>>
  BY DEF Terminated, HostInv, HostType, EndingInv, WorkerInv
<1>2. CASE Alive(current)
  <2>1. Signalled(current, "kill") /\ pc' = "kill" /\ UNCHANGED <<conn, current, ending, result>>
    BY <1>2 DEF Terminated
  <2>2. HostType' /\ StoredInv'
    BY <1>1, <2>1, BenchmarkAssumption DEF HostInv, HostType, Places, StoredInv
  <2>3. ErrorsDropTheWorker' /\ EndingInv' /\ WorkerInv' /\ TaskInv'
    BY <1>1, <2>1 DEF HostInv, ErrorsDropTheWorker, EndingInv, WorkerInv, TaskInv
  <2>4. signal' \in [Workers -> {"none", "term", "kill"}]
    BY <2>1 DEF Signalled, PeerInv, WorkerType
  <2> QED BY <1>1, <2>1, <2>2, <2>3, <2>4, PeersKept DEF HostInv, PeerInv, WorkerType
<1>3. CASE ~Alive(current)
  <2>1. Closed(current) /\ Return(ending, 0) /\ signal' = signal
    BY <1>3 DEF Terminated
  <2>2. HostInv'
    BY <1>1, <2>1, Ended
  <2>3. conn' \in [Workers -> {"none", "open", "closed"}]
    BY <2>1 DEF Closed, PeerInv, WorkerType
  <2> QED BY <1>1, <2>1, <2>2, <2>3, PeersKept DEF PeerInv, WorkerType
<1> QED BY <1>2, <1>3

LEMMA KilledStep == ASSUME HostInv, PeerInv, Killed PROVE HostInv' /\ PeerInv'
<1>1. /\ pc = "kill" /\ current \in Workers /\ ending \in {"error", "timeout", "exit"}
      /\ Closed(current) /\ UNCHANGED <<stored, task, large, process, inbox, job, outbox, signal>>
  BY DEF Killed, HostInv, HostType, EndingInv
<1>2. HostInv'
  <2>1. CASE Alive(current)
    BY <1>1, <2>1, Ended DEF Killed
  <2>2. CASE ~Alive(current)
    BY <1>1, <2>2, Ended DEF Killed
  <2> QED BY <2>1, <2>2
<1>3. conn' \in [Workers -> {"none", "open", "closed"}]
  BY <1>1 DEF Closed, PeerInv, WorkerType
<1> QED BY <1>1, <1>2, <1>3, PeersKept DEF PeerInv, WorkerType

\* An interrupt that closes the connection finds no worker stored; the others keep both.
\* The number of a request that was interrupted is one the bound allows.
LEMMA InterruptStep == ASSUME HostInv, PeerInv, Interrupt PROVE HostInv' /\ PeerInv'
<1>1. Return("interrupted", 0) /\ UNCHANGED <<stored, large, process, job, outbox, signal>>
  BY DEF Interrupt
<1>2. /\ StoredInv' /\ conn' \in [Workers -> {"none", "open", "closed"}]
      /\ inbox' \in [Workers -> Seq(-1..MaxTasks)]
      /\ task' = task \/ task' \in 0..MaxTasks
  <2>0. CASE /\ pc = "accept" /\ UNCHANGED <<task, inbox>>
             /\ conn' = [conn EXCEPT ![current] = IF @ = "open" THEN "open" ELSE "closed"]
    <3>1. stored = None /\ current \in Workers
      BY <2>0 DEF HostInv, HostType, WorkerInv
    <3> QED BY <1>1, <2>0, <3>1 DEF StoredInv, PeerInv, WorkerType, QueueInv
  <2>1. CASE pc \in {"term", "kill"} /\ Closed(current) /\ UNCHANGED <<task, inbox>>
    <3>1. stored = None /\ current \in Workers
      BY <2>1 DEF HostInv, HostType, WorkerInv
    <3> QED BY <1>1, <2>1, <3>1 DEF Closed, StoredInv, PeerInv, WorkerType, QueueInv
  <2>2. CASE pc \in {"await", "report", "stop"} /\ UNCHANGED <<task, conn, inbox>>
    BY <1>1, <2>2 DEF HostInv, StoredInv, PeerInv, WorkerType, QueueInv
  <2>3. CASE pc = "send" /\ UNCHANGED conn /\ task' = (IF ending = "exit" THEN task ELSE task + 1)
             /\ inbox' = [inbox EXCEPT ![current] = IF Has(@, Partial) THEN @ ELSE Append(@, Partial)]
    <3>1. current \in Workers
      BY <2>3 DEF HostInv, HostType
    <3>2. \A q \in Seq(-1..MaxTasks) : Append(q, Partial) \in Seq(-1..MaxTasks)
      <4>1. Partial \in -1..MaxTasks
        BY BenchmarkAssumption DEF Partial
      <4> QED BY <4>1
    <3>3. inbox' \in [Workers -> Seq(-1..MaxTasks)]
      BY <2>3, <3>1, <3>2 DEF PeerInv, QueueInv
    <3>4. task' = task \/ task' \in 0..MaxTasks
      BY <2>3, BenchmarkAssumption DEF HostInv, HostType, EndingInv, TaskInv
    <3> QED BY <1>1, <2>3, <3>3, <3>4 DEF HostInv, StoredInv, PeerInv, WorkerType
  <2> QED BY <2>0, <2>1, <2>2, <2>3 DEF Interrupt
<1>3. large' \in BOOLEAN /\ stored' \in Workers \cup {None} /\ 0 \in 0..MaxTasks
  BY <1>1, BenchmarkAssumption DEF HostInv, HostType
<1>4. HostInv'
  BY <1>1, <1>2, <1>3, Returns DEF Kinds
<1> QED BY <1>1, <1>2, <1>4 DEF PeerInv, WorkerType, QueueInv

LEMMA AtExitStep == ASSUME HostInv, PeerInv, AtExit PROVE HostInv' /\ PeerInv'
<1>1. /\ pc = "idle" /\ stored' = None /\ large' = FALSE /\ UNCHANGED <<workers, task, result>>
      /\ ending = "none" /\ current = None
  BY DEF AtExit, HostInv, HostType, EndingInv
<1>2. CASE stored = None
  <2>1. pc' = "exited" /\ UNCHANGED <<current, ending>>
    BY <1>2 DEF AtExit
  <2>2. HostType' /\ StoredInv'
    BY <1>1, <2>1 DEF HostInv, HostType, Places, StoredInv
  <2>3. ErrorsDropTheWorker' /\ EndingInv' /\ WorkerInv' /\ TaskInv'
    BY <1>1, <2>1 DEF HostInv, ErrorsDropTheWorker, EndingInv, WorkerInv, TaskInv
  <2> QED BY <1>1, <2>2, <2>3, WorkersKept DEF HostInv
<1>3. CASE stored # None
  <2>1. pc' = "send" /\ current' = stored /\ ending' = "exit"
    BY <1>3 DEF AtExit
  <2>2. HostType' /\ StoredInv'
    BY <1>1, <1>3, <2>1 DEF HostInv, HostType, Places, StoredInv
  <2>3. ErrorsDropTheWorker' /\ EndingInv' /\ WorkerInv' /\ TaskInv'
    BY <1>1, <2>1 DEF HostInv, ErrorsDropTheWorker, EndingInv, WorkerInv, TaskInv
  <2> QED BY <1>1, <2>2, <2>3, WorkersKept DEF HostInv
<1> QED BY <1>2, <1>3

-----------------------------------------------------------------------------
(* The workers' steps.                                                     *)

\* The host does not see the step of a worker, except that a connection opens.
LEMMA HostKept ==
    ASSUME HostInv, UNCHANGED <<host, signal>>,
           \A w \in Workers : conn[w] = "open" => conn'[w] = "open"
    PROVE  HostInv'
<1>1. HostType' /\ StoredInv'
  BY DEF host, HostInv, HostType, StoredInv
<1>2. ErrorsDropTheWorker' /\ EndingInv' /\ WorkerInv' /\ TaskInv'
  BY DEF host, HostInv, ErrorsDropTheWorker, EndingInv, WorkerInv, TaskInv
<1> QED BY <1>1, <1>2 DEF HostInv

\* A process that loses its connection leaves empty queues.
LEMMA ExitStep ==
    ASSUME HostInv, PeerInv, NEW w \in Workers, NEW state \in {"exiting", "gone"}, Exits(w, state),
           UNCHANGED <<host, conn, outbox, signal>>
    PROVE  HostInv' /\ PeerInv'
<1>1. WorkerType'
  BY BenchmarkAssumption DEF Exits, Becomes, PeerInv, WorkerType
<1>2. QueueInv'
  <2>1. inbox' \in [Workers -> Seq(-1..MaxTasks)]
    BY DEF Exits, PeerInv, QueueInv
  <2>2. \A u \in Workers : process'[u] = "busy" => job'[u] > 0
    BY DEF Exits, Becomes, PeerInv, QueueInv, WorkerType
  <2> QED BY <2>1, <2>2 DEF PeerInv, QueueInv
<1> QED BY <1>1, <1>2, HostKept DEF PeerInv

LEMMA ConnectStep ==
    ASSUME HostInv, PeerInv, NEW w \in Workers, Connect(w) PROVE HostInv' /\ PeerInv'
<1>1. HostInv'
  BY HostKept DEF Connect, PeerInv, WorkerType
<1>2. WorkerType' /\ QueueInv'
  BY DEF Connect, Becomes, PeerInv, WorkerType, QueueInv
<1> QED BY <1>1, <1>2 DEF PeerInv

\* The connection that is collected is not the one of the worker that is stored.
LEMMA CollectedStep ==
    ASSUME HostInv, PeerInv, NEW w \in Workers, Collected(w) PROVE HostInv' /\ PeerInv'
<1>1. /\ w # stored /\ Closed(w) /\ UNCHANGED <<host, process, inbox, job, outbox, signal>>
  BY DEF Collected
<1>2. conn' \in [Workers -> {"none", "open", "closed"}] /\ \A u \in Workers : u # w => conn'[u] = conn[u]
  BY <1>1 DEF Closed, PeerInv, WorkerType
<1>3. HostType' /\ StoredInv'
  BY <1>1, <1>2 DEF host, HostInv, HostType, StoredInv
<1>4. ErrorsDropTheWorker' /\ EndingInv' /\ WorkerInv' /\ TaskInv'
  BY <1>1 DEF host, HostInv, ErrorsDropTheWorker, EndingInv, WorkerInv, TaskInv
<1>5. HostInv'
  BY <1>3, <1>4 DEF HostInv
<1> QED BY <1>1, <1>2, <1>5, PeersKept DEF PeerInv, WorkerType

LEMMA WorkerReceiveStep ==
    ASSUME HostInv, PeerInv, NEW w \in Workers, WorkerReceive(w) PROVE HostInv' /\ PeerInv'
<1>1. CASE Head(inbox[w]) = Stop
  BY <1>1, ExitStep DEF WorkerReceive
<1>2. CASE Head(inbox[w]) # Stop
  <2>1. /\ Becomes(w, "busy") /\ job' = [job EXCEPT ![w] = Head(inbox[w])]
        /\ inbox' = [inbox EXCEPT ![w] = Tail(@)] /\ UNCHANGED <<host, conn, outbox, signal>>
        /\ inbox[w] # <<>> /\ Head(inbox[w]) # Partial
    BY <1>2 DEF WorkerReceive
  <2>2. Head(inbox[w]) \in -1..MaxTasks /\ Tail(inbox[w]) \in Seq(-1..MaxTasks)
    <3>1. inbox[w] \in Seq(-1..MaxTasks) /\ inbox[w] # <<>>
      BY <2>1 DEF PeerInv, QueueInv
    <3> QED BY <3>1, HeadTailProperties
  <2>3. Head(inbox[w]) \in 0..MaxTasks /\ Head(inbox[w]) > 0
    BY <1>2, <2>1, <2>2, BenchmarkAssumption DEF Stop, Partial
  <2>4. WorkerType'
    BY <2>1, <2>3 DEF Becomes, PeerInv, WorkerType
  <2>5. QueueInv'
    <3>1. inbox' \in [Workers -> Seq(-1..MaxTasks)]
      BY <2>1, <2>2 DEF PeerInv, QueueInv
    <3>2. \A u \in Workers : process'[u] = "busy" => job'[u] > 0
      BY <2>1, <2>3 DEF Becomes, PeerInv, QueueInv, WorkerType
    <3> QED BY <2>1, <3>1, <3>2 DEF PeerInv, QueueInv
  <2> QED BY <2>1, <2>4, <2>5, HostKept DEF PeerInv
<1> QED BY <1>1, <1>2

LEMMA WorkerDoneStep ==
    ASSUME HostInv, PeerInv, NEW w \in Workers, WorkerDone(w) PROVE HostInv' /\ PeerInv'
<1>1. CASE HungUp(w)
  BY <1>1, ExitStep DEF WorkerDone
<1>2. CASE ~HungUp(w)
  <2>1. /\ process[w] = "busy" /\ Becomes(w, "idle") /\ job' = [job EXCEPT ![w] = 0]
        /\ UNCHANGED <<inbox, host, conn, signal>>
    BY <1>2 DEF WorkerDone
  <2>2. PICK ok \in BOOLEAN : outbox' = [outbox EXCEPT ![w] = Append(@, [task |-> job[w], ok |-> ok])]
    BY <1>2 DEF WorkerDone
  <2>3. job[w] \in 1..MaxTasks
    BY <2>1, BenchmarkAssumption DEF PeerInv, QueueInv, WorkerType
  <2>4. [task |-> job[w], ok |-> ok] \in Answers
    BY <2>3 DEF Answers
  <2>5. outbox' \in [Workers -> Seq(Answers)]
    <3>1. Append(outbox[w], [task |-> job[w], ok |-> ok]) \in Seq(Answers)
      BY <2>4 DEF PeerInv, QueueInv
    <3> QED BY <2>2, <3>1 DEF PeerInv, QueueInv
  <2>6. WorkerType'
    BY <2>1, BenchmarkAssumption DEF Becomes, PeerInv, WorkerType
  <2>7. \A u \in Workers : process'[u] = "busy" => job'[u] > 0
    BY <2>1 DEF Becomes, PeerInv, QueueInv, WorkerType
  <2>8. QueueInv'
    BY <2>1, <2>5, <2>7 DEF PeerInv, QueueInv
  <2> QED BY <2>1, <2>6, <2>8, HostKept DEF PeerInv
<1> QED BY <1>1, <1>2

LEMMA WorkerStep ==
    ASSUME HostInv, PeerInv, NEW w \in Workers, WorkerEOF(w) \/ Crash(w) \/ Ends(w)
    PROVE  HostInv' /\ PeerInv'
BY ExitStep DEF WorkerEOF, Crash, Ends

-----------------------------------------------------------------------------
(* The theorems.                                                           *)

LEMMA InitInv == Init => IInv
<1> SUFFICES ASSUME Init PROVE HostInv /\ PeerInv
  BY Parts
<1> USE DEF Init
<1>1. HostType /\ StoredInv
  <2>1. result \in Results
    BY BenchmarkAssumption DEF Results, Kinds
  <2>2. large \in BOOLEAN
    BY Zenon
  <2>3. pc = "idle" /\ stored = None /\ current = None /\ task \in 0..MaxTasks /\ ending = "none"
    BY BenchmarkAssumption
  <2> HIDE DEF Init
  <2> QED BY <2>1, <2>2, <2>3 DEF HostType, StoredInv, Places
<1>2. ErrorsDropTheWorker /\ EndingInv /\ WorkerInv /\ TaskInv
  BY DEF ErrorsDropTheWorker, EndingInv, WorkerInv, TaskInv
<1>3. WorkerType /\ QueueInv
  BY BenchmarkAssumption DEF WorkerType, QueueInv
<1> QED BY <1>1, <1>2, <1>3 DEF HostInv, PeerInv

LEMMA NextInv == IInv /\ [Next]_vars => IInv'
<1> SUFFICES ASSUME HostInv, PeerInv, [Next]_vars PROVE HostInv' /\ PeerInv'
  BY Parts, PartsNext
<1>1. CASE UNCHANGED vars
  <2>1. UNCHANGED host /\ UNCHANGED workers
    BY <1>1 DEF vars
  <2> QED BY <2>1, HostKept, WorkersKept
<1>2. CASE HostStep
  BY <1>2, FindStoredStep, StartStep, StartFailsStep, AcceptedStep, NotAcceptedStep, SendStep,
     ReceiveStep, TimeoutStep, DisconnectedStep, ReportStep, TerminatedStep, KilledStep,
     StoppedStep DEF HostStep
<1>3. CASE Run \/ AtExit \/ Interrupt
  BY <1>3, RunStep, AtExitStep, InterruptStep
<1>4. ASSUME NEW w \in Workers,
             \/ Collected(w) \/ Connect(w) \/ WorkerReceive(w) \/ WorkerDone(w)
             \/ WorkerEOF(w) \/ Crash(w) \/ Ends(w)
      PROVE  HostInv' /\ PeerInv'
  BY <1>4, CollectedStep, ConnectStep, WorkerReceiveStep, WorkerDoneStep, WorkerStep
<1> QED BY <1>1, <1>2, <1>3, <1>4 DEF Next

\* The runner's record of its worker is right between any two of its waits: a worker that
\* is stored is connected and has been sent no signal, and after an error, a timeout or a
\* failed kill none is stored, so that the next benchmark starts another.
THEOREM RunnerIsRight == Spec => []RunnerInv
<1>1. IInv => RunnerInv
  BY DEF IInv
<1> QED BY <1>1, InitInv, NextInv, PTL DEF Spec

\* A return is the reply to the task in progress, with its measurement or an exception,
\* or belongs to no benchmark.
LEMMA ReturnRefines ==
    ASSUME HostInv, NEW kind, NEW value \in {0, Asked}, Return(kind, value), pc \notin {"idle", "exited"}
    PROVE  [Service!ServiceNext]_(Service!serviceVars)
<1>1. Asked' = 0
  BY DEF Asked, Return
<1>2. CASE ending = "exit"
  <2>1. Asked = 0 /\ result' = result
    BY <1>2 DEF Asked, Return
  <2> QED BY <1>1, <2>1 DEF Service!serviceVars
<1>3. CASE ending # "exit"
  <2>1. Asked # 0
    BY <1>3, AskedInRange
  <2>2. result'.task = Asked /\ result'.value = value
    BY <1>3 DEF Return
  <2> QED BY <1>1, <2>1, <2>2 DEF Service!ServiceNext, Service!Answer, Service!Refuse, Service!Reply
<1> QED BY <1>2, <1>3

\* terminate starts to end the worker, which no caller sees, or returns at once.
LEMMA TerminateRefines ==
    ASSUME HostInv, NEW kind \in {"error", "timeout", "exit"}, Terminate(kind), task' = task,
           pc \in {"await", "report", "stop"}, kind = "exit" <=> ending = "exit"
    PROVE  [Service!ServiceNext]_(Service!serviceVars)
<1>1. CASE Alive(current)
  <2>1. pc' = "term" /\ ending' = kind /\ result' = result
    BY <1>1 DEF Terminate
  <2>2. Asked' = Asked
    BY <2>1 DEF Asked
  <2> QED BY <2>1, <2>2 DEF Service!serviceVars
<1>2. CASE ~Alive(current)
  BY <1>2, ReturnRefines DEF Terminate
<1> QED BY <1>1, <1>2

LEMMA StepRefines == IInv /\ [Next]_vars => [Service!ServiceNext]_(Service!serviceVars)
<1> SUFFICES ASSUME HostInv, PeerInv, [Next]_vars
             PROVE  [Service!ServiceNext]_(Service!serviceVars)
  BY Parts
<1> DEFINE Goal == [Service!ServiceNext]_(Service!serviceVars)
<1>1. ASSUME Asked' = Asked, result' = result PROVE Goal
  BY <1>1 DEF Service!serviceVars
<1>2. CASE UNCHANGED host
  <2>1. Asked' = Asked /\ result' = result
    BY <1>2 DEF host, Asked
  <2> QED BY <1>1, <2>1
<1>3. CASE Run
  <2>1. Asked = 0 /\ result' = result
    BY <1>3 DEF Run, Asked
  <2>2. Asked' = task + 1 /\ task + 1 \in Nat \ {0}
    BY <1>3 DEF Run, Asked, HostInv, EndingInv, HostType
  <2> QED BY <2>1, <2>2 DEF Service!ServiceNext, Service!Ask
<1>4. CASE AtExit
  <2>1. Asked' = Asked /\ result' = result
    BY <1>4 DEF AtExit, Asked
  <2> QED BY <1>1, <2>1
<1>5. CASE Interrupt
  BY <1>5, ReturnRefines DEF Interrupt
<1>6. CASE FindStored \/ (\E w \in Workers : Start(w)) \/ Accepted \/ Disconnected
  <2>1. Asked' = Asked /\ result' = result
    BY <1>6 DEF FindStored, Start, Accepted, Disconnected, Asked
  <2> QED BY <1>1, <2>1
<1>7. CASE StartFails \/ NotAccepted \/ Killed
  BY <1>7, ReturnRefines DEF StartFails, NotAccepted, Killed
<1>8. CASE Send
  <2>1. Asked' = Asked /\ result' = result
    BY <1>8 DEF Send, Asked
  <2> QED BY <1>1, <2>1
<1>9. CASE Receive
  <2>1. pc = "await" /\ ending = "none" /\ Asked = task /\ task' = task
    BY <1>9 DEF Receive, Asked, HostInv, EndingInv
  <2>2. CASE Answered.task = task /\ Answered.ok
    BY <1>9, <2>1, <2>2, ReturnRefines DEF Receive
  <2>3. CASE ~(Answered.task = task /\ Answered.ok)
    BY <1>9, <2>1, <2>3, TerminateRefines DEF Receive
  <2> QED BY <2>2, <2>3
<1>10. CASE Timeout \/ Report \/ Stopped
  BY <1>10, TerminateRefines DEF Timeout, Report, Stopped, HostInv, EndingInv
<1>11. CASE Terminated
  <2>1. CASE Alive(current)
    <3>1. Asked' = Asked /\ result' = result
      BY <1>11, <2>1 DEF Terminated, Asked
    <3> QED BY <1>1, <3>1
  <2>2. CASE ~Alive(current)
    BY <1>11, <2>2, ReturnRefines DEF Terminated
  <2> QED BY <2>1, <2>2
<1>12. ASSUME NEW w \in Workers,
              \/ Collected(w) \/ Connect(w) \/ WorkerReceive(w) \/ WorkerDone(w)
              \/ WorkerEOF(w) \/ Crash(w) \/ Ends(w)
       PROVE  UNCHANGED host
  BY <1>12 DEF Collected, Connect, WorkerReceive, WorkerDone, WorkerEOF, Crash, Ends
<1>13. UNCHANGED vars => UNCHANGED host
  BY DEF vars
<1> HIDE DEF Goal
<1> QED BY <1>2, <1>3, <1>4, <1>5, <1>6, <1>7, <1>8, <1>9, <1>10, <1>11, <1>12, <1>13 DEF Next, HostStep, Goal

\* A benchmark gets the measurement of its own task or an exception, and only one is in
\* progress at a time: the runner implements BenchmarkService, although a worker may still
\* answer a task that was interrupted.
THEOREM RunnerServes == Spec => ImplementsBenchmarkService
<1>1. Init => Service!ServiceInit
  BY DEF Init, Service!ServiceInit, Asked
<1> QED BY <1>1, InitInv, NextInv, StepRefines, PTL
        DEF Spec, ImplementsBenchmarkService, Service!ServiceSpec
====
