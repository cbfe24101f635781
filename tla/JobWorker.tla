------------------------------ MODULE JobWorker ------------------------------
(***************************************************************************)
(* ProvisioningWorker: the in-process wakeup channel between the create    *)
(* requests and the runs of their jobs.  A request enqueues its job before *)
(* its transaction commits; a delayed task puts it on a bounded queue; the *)
(* pump turns each entry into a run; a semaphore bounds the runs at work;  *)
(* a start-up task puts the unfinished jobs on the queue again.            *)
(* provision_vps is kept to what a run makes of it (VpsControl details it). *)
(***************************************************************************)
EXTENDS Naturals, Sequences, FiniteSets

CONSTANTS
    Job,        \* jobs, one per VPS
    Slot,       \* bound on the runs alive at a time
    Permits,    \* MAX_CONCURRENT_PROVISIONS
    QueueMax,   \* maxsize of the queue
    MaxStops    \* bound on the times the process stops or dies

ASSUME WorkerAssumption ==
    /\ Permits \in Nat \ {0} /\ QueueMax \in Nat \ {0} /\ MaxStops \in Nat
    /\ IsFiniteSet(Slot)

VARIABLES
    request,    \* the create request of a job: new, open (enqueued), closed
    job,        \* provisioning_jobs.status as committed
    vps,        \* status of the job's VPS as committed
    inst,       \* the node has the instance
    started,    \* the worker is started
    recovering, \* _recover_stuck has not run yet
    delayed,    \* how many _delayed tasks hold the job
    queue,      \* the asyncio queue
    run,        \* the _run tasks
    dropped,    \* history: jobs this process has given up, with an error in its log
    stops       \* stops so far

vars == <<request, job, vps, inst, started, recovering, delayed, queue, run, dropped, stops>>
NoRun == [job |-> "none", pc |-> "none", ok |-> FALSE]
Unfinished == {j \in Job : job[j] \in {"queued", "running"}}
Working == {s \in Slot : run[s].pc \notin {"none", "waiting"}}   \* hold the semaphore

Init ==
    /\ request = [j \in Job |-> "new"] /\ job = [j \in Job |-> "none"]
    /\ vps = [j \in Job |-> "none"] /\ inst = [j \in Job |-> FALSE]
    /\ started = FALSE /\ recovering = FALSE
    /\ delayed = [j \in Job |-> 0] /\ queue = <<>> /\ run = [s \in Slot |-> NoRun]
    /\ dropped = {} /\ stops = 0

-----------------------------------------------------------------------------
Start ==
    /\ ~started /\ started' = TRUE /\ recovering' = TRUE
    /\ UNCHANGED <<request, job, vps, inst, delayed, queue, run, dropped, stops>>

\* create_vps has flushed its rows and calls enqueue; nothing is visible yet.
Enqueue(j) ==
    /\ started /\ request[j] = "new"
    /\ request' = [request EXCEPT ![j] = "open"]
    /\ delayed' = [delayed EXCEPT ![j] = @ + 1]
    /\ UNCHANGED <<job, vps, inst, started, recovering, queue, run, dropped, stops>>

\* get_db commits when the handler has returned, or rolls back.
Commit(j) ==
    /\ request[j] = "open" /\ request' = [request EXCEPT ![j] = "closed"]
    /\ job' = [job EXCEPT ![j] = "queued"] /\ vps' = [vps EXCEPT ![j] = "provisioning"]
    /\ UNCHANGED <<inst, started, recovering, delayed, queue, run, dropped, stops>>
Rollback(j) ==
    /\ request[j] = "open" /\ request' = [request EXCEPT ![j] = "closed"]
    /\ UNCHANGED <<job, vps, inst, started, recovering, delayed, queue, run, dropped, stops>>

\* _delayed wakes up; a full queue drops the job (until the next start).
PutDelayed(j) ==
    /\ delayed[j] > 0 /\ delayed' = [delayed EXCEPT ![j] = @ - 1]
    /\ IF Len(queue) < QueueMax
       THEN queue' = Append(queue, j) /\ UNCHANGED dropped
       ELSE dropped' = dropped \cup {j} /\ UNCHANGED queue
    /\ UNCHANGED <<request, job, vps, inst, started, recovering, run, stops>>

\* Seeded faults of RecoverStuck: only the jobs that were running are found, or
\* only the ones that no run had claimed.
RecoverRunning ==
    /\ recovering /\ recovering' = FALSE
    /\ delayed' = [j \in Job |-> delayed[j] + IF job[j] = "running" THEN 1 ELSE 0]
    /\ UNCHANGED <<request, job, vps, inst, started, queue, run, dropped, stops>>
RecoverQueued ==
    /\ recovering /\ recovering' = FALSE
    /\ delayed' = [j \in Job |-> delayed[j] + IF job[j] = "queued" THEN 1 ELSE 0]
    /\ UNCHANGED <<request, job, vps, inst, started, queue, run, dropped, stops>>

\* Two seconds after the start: every job that is not terminal, the ones this
\* process has on its own queue included.
RecoverStuck ==
    /\ recovering /\ recovering' = FALSE
    /\ delayed' = [j \in Job |-> delayed[j] + IF j \in Unfinished THEN 1 ELSE 0]
    /\ UNCHANGED <<request, job, vps, inst, started, queue, run, dropped, stops>>

\* The pump makes a run of the head of the queue.
Pump(s) ==
    /\ started /\ queue # <<>> /\ run[s] = NoRun
    /\ run' = [run EXCEPT ![s] = [job |-> Head(queue), pc |-> "waiting", ok |-> FALSE]]
    /\ queue' = Tail(queue)
    /\ UNCHANGED <<request, job, vps, inst, started, recovering, delayed, dropped, stops>>

-----------------------------------------------------------------------------
(* _run and _execute.                                                      *)
Move(s, from, to) == run[s].pc = from /\ run' = [run EXCEPT ![s].pc = to]
End(s, from) == run[s].pc = from /\ run' = [run EXCEPT ![s] = NoRun]
Control == <<request, started, recovering, delayed, queue, dropped, stops>>

Acquire(s) ==
    /\ Move(s, "waiting", "row") /\ Cardinality(Working) < Permits
    /\ UNCHANGED <<Control, job, vps, inst>>

\* _wait_for_row polls until the row is visible; a terminal job ends the run.
WaitForRow(s) ==
    LET j == run[s].job IN
    /\ run[s].pc = "row" /\ job[j] # "none"
    /\ IF j \in Unfinished THEN Move(s, "row", "claim") ELSE End(s, "row")
    /\ UNCHANGED <<Control, job, vps, inst>>

\* Seeded fault of RowVanished: the row is looked for once.
RowNotYet(s) ==
    /\ run[s].pc = "row" /\ job[run[s].job] = "none" /\ End(s, "row")
    /\ UNCHANGED <<Control, job, vps, inst>>

\* The row does not appear within 10 s: rolled back, or not committed yet.
RowVanished(s) ==
    LET j == run[s].job IN
    /\ End(s, "row") /\ job[j] = "none" /\ dropped' = dropped \cup {j}
    /\ UNCHANGED <<request, started, recovering, delayed, queue, stops, job, vps, inst>>

\* Seeded fault of Claim: the UPDATE without the status in its WHERE.
ClaimAnyway(s) ==
    /\ Move(s, "claim", "load") /\ job' = [job EXCEPT ![run[s].job] = "running"]
    /\ UNCHANGED <<Control, vps, inst>>

\* The conditional UPDATE to RUNNING, stage "preparing".
Claim(s) ==
    LET j == run[s].job IN
    /\ IF j \in Unfinished
       THEN Move(s, "claim", "load") /\ job' = [job EXCEPT ![j] = "running"]
       ELSE End(s, "claim") /\ UNCHANGED job
    /\ UNCHANGED <<Control, vps, inst>>

\* Stage "creating_instance"; provision_vps loads the row: it goes on only when
\* the VPS is PROVISIONING, and succeeds at once when it is RUNNING.
Load(s) ==
    LET s0 == vps[run[s].job] IN
    /\ run[s].pc = "load"
    /\ run' = [run EXCEPT ![s].pc = IF s0 = "provisioning" THEN "create" ELSE "finish",
                          ![s].ok = (s0 = "running")]
    /\ UNCHANGED <<Control, job, vps, inst>>

\* The node creates the instance, or the call fails: always when it exists
\* already, and possibly after it was created.
Create(s) ==
    LET j == run[s].job IN
    /\ run[s].pc = "create"
    /\ \E ok \in BOOLEAN, made \in BOOLEAN :
          /\ ok => made /\ ~inst[j]
          /\ inst' = [inst EXCEPT ![j] = @ \/ made]
          /\ run' = [run EXCEPT ![s].pc = "commit", ![s].ok = ok]
    /\ UNCHANGED <<Control, job, vps>>

\* RUNNING, or _fail_vps and mark_provision_failed, whatever the row is by now.
CommitOutcome(s) ==
    LET j == run[s].job IN
    /\ Move(s, "commit", "finish")
    /\ vps' = [vps EXCEPT ![j] = IF run[s].ok THEN "running" ELSE "error"]
    /\ UNCHANGED <<Control, job, inst>>

\* Seeded fault of Finish: a status that the enum does not have.
FinishDone(s) ==
    /\ End(s, "finish") /\ job' = [job EXCEPT ![run[s].job] = "done"]
    /\ UNCHANGED <<Control, vps, inst>>

\* _finish.  The UPDATE to FAILED sets progress to NULL, which the column does
\* not admit: it raises, _run logs it, and the status stays what it was.
Finish(s) ==
    LET j == run[s].job IN
    /\ End(s, "finish")
    /\ job' = IF run[s].ok THEN [job EXCEPT ![j] = "succeeded"] ELSE job
    /\ UNCHANGED <<Control, vps, inst>>

\* stop() cancels every task and the process ends, or it dies: sessions are
\* rolled back, what was in memory is gone, a call at the node may still create.
Stop ==
    /\ started /\ stops < MaxStops /\ stops' = stops + 1
    /\ started' = FALSE /\ recovering' = FALSE
    /\ request' = [j \in Job |-> IF request[j] = "open" THEN "closed" ELSE request[j]]
    /\ delayed' = [j \in Job |-> 0] /\ queue' = <<>> /\ run' = [s \in Slot |-> NoRun]
    /\ dropped' = {}
    /\ \E made \in SUBSET {run[s].job : s \in {u \in Slot : run[u].pc = "create"}} :
          inst' = [j \in Job |-> inst[j] \/ j \in made]
    /\ UNCHANGED <<job, vps>>

-----------------------------------------------------------------------------
RunStep(s) ==
    \/ Pump(s) \/ Acquire(s) \/ WaitForRow(s) \/ RowVanished(s) \/ Claim(s)
    \/ Load(s) \/ Create(s) \/ CommitOutcome(s) \/ Finish(s)

Next ==
    \/ Start \/ RecoverStuck \/ Stop
    \/ \E j \in Job : Enqueue(j) \/ Commit(j) \/ Rollback(j) \/ PutDelayed(j)
    \/ \E s \in Slot : RunStep(s)

Spec == Init /\ [][Next]_vars

\* The event loop runs what can run, requests end, the service is restarted, and
\* the semaphore and the queue serve in order (strong fairness of the steps that
\* wait for them).
Fairness ==
    /\ WF_vars(Start) /\ WF_vars(RecoverStuck)
    /\ \A j \in Job : WF_vars(Commit(j) \/ Rollback(j)) /\ WF_vars(PutDelayed(j))
    /\ \A s \in Slot : SF_vars(RunStep(s))
FairSpec == Spec /\ Fairness

-----------------------------------------------------------------------------
(* Properties.                                                             *)
Pc == {"waiting", "row", "claim", "load", "create", "commit", "finish"}
TypeOK ==
    /\ request \in [Job -> {"new", "open", "closed"}]
    /\ job \in [Job -> {"none", "queued", "running", "succeeded", "failed"}]
    /\ vps \in [Job -> {"none", "provisioning", "running", "error"}]
    /\ inst \in [Job -> BOOLEAN] /\ started \in BOOLEAN /\ recovering \in BOOLEAN
    /\ delayed \in [Job -> Nat] /\ queue \in Seq(Job) /\ Len(queue) <= QueueMax
    /\ run \in [Slot -> {NoRun} \cup [job : Job, pc : Pc, ok : BOOLEAN]]
    /\ dropped \in SUBSET Job /\ stops \in 0..MaxStops

\* While the worker is up, a committed job that no run has taken is on its way to
\* one, although it is enqueued before the commit that makes it visible, or this
\* process has said that it gives it up: no job is lost in silence (enqueue,
\* _delayed, _wait_for_row, _recover_stuck).
InHand(j) ==
    \/ delayed[j] > 0
    \/ \E i \in 1..Len(queue) : queue[i] = j
    \/ \E s \in Slot : run[s].job = j /\ run[s].pc \in {"waiting", "row", "claim"}
    \/ j \in dropped
QueuedIsOnItsWay == \A j \in Job : started /\ job[j] = "queued" => recovering \/ InHand(j)

\* While the worker is up, a VPS that is shown as PROVISIONING has a run that will
\* decide on it, or is on its way to one: the run that a stop took away halfway is
\* made up for, and a second run that finds the job ended, or leaves it to another,
\* never leaves the VPS behind (_recover_stuck, _wait_for_row, _execute, _finish).
Deciding(j) ==
    \E s \in Slot : run[s].job = j /\ run[s].pc \in {"load", "create", "commit"}
NoneAbandoned ==
    \A j \in Job : started /\ vps[j] = "provisioning"
                      => recovering \/ InHand(j) \/ Deciding(j)

\* Every committed job has its VPS provisioned or failed in the end, across
\* restarts, unless it is given up: a job queued before a stop, or given up before
\* it, is found again by _recover_stuck.
VpsSettles ==
    \A j \in Job : job[j] = "queued" ~> vps[j] \in {"running", "error"} \/ j \in dropped

\* The status column keeps the lifecycle a client is promised: the conditional
\* claim and the terminal check protect it from late and duplicate runs.
Lifecycle == INSTANCE JobLifecycle WITH Job <- Job, job <- job
KeepsLifecycle == Lifecycle!Spec

-----------------------------------------------------------------------------
(* What the documentation says and the code does not keep.                 *)

\* "the caller marks the job failed": a job ends, as a success or as a failure.
JobEnds == \A j \in Job : job[j] = "queued" ~> job[j] \in {"succeeded", "failed"}
=============================================================================
