--------------------------- MODULE JobWorkerProofs ---------------------------
(* Proofs about JobWorker, for any number of jobs, runs, permits and stops. *)
EXTENDS JobWorker, TLAPS

-----------------------------------------------------------------------------
(* The inductive invariant.                                                *)

\* The job of a request that has not committed is not there, and a run that has
\* claimed its job finds it running or succeeded ever after.
NotYetThere == \A j \in Job : request[j] \in {"new", "open"} => job[j] = "none"
Claimed ==
    \A s \in Slot : run[s].pc \in {"load", "create", "commit", "finish"}
                      => job[run[s].job] \in {"running", "succeeded"}
Inv == TypeOK /\ NotYetThere /\ Claimed

\* A job whose request is still open, and one that is queued, is in somebody's
\* hands while the worker is up; a run that is past its wait has seen the job.
OpenInHand == \A j \in Job : request[j] = "open" => started /\ InHand(j)
Seen == \A s \in Slot : run[s].pc = "claim" => job[run[s].job] # "none"
WayInv == Inv /\ OpenInHand /\ Seen /\ QueuedIsOnItsWay

-----------------------------------------------------------------------------
(* Type correctness.                                                       *)

LEMMA TypeInit == Init => TypeOK
<1> SUFFICES ASSUME Init PROVE TypeOK
  OBVIOUS
<1>1. queue \in Seq(Job) /\ Len(queue) <= QueueMax /\ stops \in 0..MaxStops
  BY WorkerAssumption DEF Init
<1> QED BY <1>1 DEF Init, TypeOK

\* A run that is there has a job.
LEMMA RunTyped ==
    ASSUME TypeOK, NEW s \in Slot, run[s].pc # "none"
    PROVE  run[s] \in [job : Job, pc : Pc, ok : BOOLEAN]
BY DEF TypeOK, NoRun

\* What the worker does outside its runs keeps the types.
LEMMA ControlTyped ==
    ASSUME TypeOK,
           \/ Start \/ RecoverStuck \/ Stop
           \/ \E j \in Job : Enqueue(j) \/ Commit(j) \/ Rollback(j) \/ PutDelayed(j)
    PROVE  TypeOK'
<1>1. CASE Start
  BY <1>1 DEF TypeOK, Start
<1>2. CASE RecoverStuck
  <2>1. \A j \in Job : delayed[j] + (IF j \in Unfinished THEN 1 ELSE 0) \in Nat
    BY DEF TypeOK
  <2>2. delayed' \in [Job -> Nat]
    BY <1>2, <2>1 DEF RecoverStuck
  <2> QED BY <1>2, <2>2 DEF TypeOK, RecoverStuck
<1>3. CASE Stop
  <2>1. stops' \in 0..MaxStops
    BY <1>3, WorkerAssumption DEF TypeOK, Stop
  <2>2. queue' \in Seq(Job) /\ Len(queue') <= QueueMax
    BY <1>3, WorkerAssumption DEF Stop
  <2>3. request' \in [Job -> {"new", "open", "closed"}] /\ inst' \in [Job -> BOOLEAN]
    BY <1>3 DEF TypeOK, Stop
  <2> QED BY <1>3, <2>1, <2>2, <2>3 DEF TypeOK, Stop
<1>4. ASSUME NEW j \in Job, Enqueue(j) PROVE TypeOK'
  BY <1>4 DEF TypeOK, Enqueue
<1>5. ASSUME NEW j \in Job, Commit(j) PROVE TypeOK'
  BY <1>5 DEF TypeOK, Commit
<1>6. ASSUME NEW j \in Job, Rollback(j) PROVE TypeOK'
  BY <1>6 DEF TypeOK, Rollback
<1>7. ASSUME NEW j \in Job, PutDelayed(j) PROVE TypeOK'
  <2>1. queue' \in Seq(Job) /\ Len(queue') <= QueueMax
    <3>1. Append(queue, j) \in Seq(Job) /\ Len(Append(queue, j)) = Len(queue) + 1
      BY DEF TypeOK
    <3>2. Len(queue) \in Nat
      BY DEF TypeOK
    <3>3. CASE Len(queue) < QueueMax
      BY <1>7, <3>1, <3>2, <3>3, WorkerAssumption DEF PutDelayed
    <3>4. CASE ~(Len(queue) < QueueMax)
      BY <1>7, <3>4 DEF TypeOK, PutDelayed
    <3> QED BY <3>3, <3>4
  <2>2. delayed' \in [Job -> Nat] /\ dropped' \in SUBSET Job
    BY <1>7 DEF TypeOK, PutDelayed
  <2> QED BY <1>7, <2>1, <2>2 DEF TypeOK, PutDelayed
<1> QED BY <1>1, <1>2, <1>3, <1>4, <1>5, <1>6, <1>7

\* Every step of a run keeps the types.
LEMMA RunStepTyped ==
    ASSUME TypeOK, NEW s \in Slot, RunStep(s)
    PROVE  TypeOK'
<1> DEFINE R == [job : Job, pc : Pc, ok : BOOLEAN]
<1>1. CASE Pump(s)
  <2>1. Head(queue) \in Job /\ Tail(queue) \in Seq(Job) /\ Len(Tail(queue)) <= QueueMax
    BY <1>1, WorkerAssumption DEF TypeOK, Pump
  <2>2. [job |-> Head(queue), pc |-> "waiting", ok |-> FALSE] \in R
    BY <2>1 DEF Pc
  <2> QED BY <1>1, <2>1, <2>2 DEF TypeOK, Pump
<1>2. CASE run[s].pc # "none"
  <2>1. run[s] \in R
    BY <1>2, RunTyped
  <2>2. \A from, to \in Pc : Move(s, from, to) => run' \in [Slot -> {NoRun} \cup R]
    <3>1. \A to \in Pc : [run[s] EXCEPT !.pc = to] \in R
      BY <2>1
    <3> QED BY <3>1 DEF TypeOK, Move
  <2>3. \A from \in Pc : End(s, from) => run' \in [Slot -> {NoRun} \cup R]
    BY DEF TypeOK, End
  <2>4. CASE Acquire(s)
    BY <2>4, <2>2 DEF TypeOK, Acquire, Control, Pc
  <2>5. CASE WaitForRow(s)
    BY <2>5, <2>2, <2>3 DEF TypeOK, WaitForRow, Control, Pc
  <2>6. CASE RowVanished(s)
    <3>1. run' \in [Slot -> {NoRun} \cup R]
      BY <2>6, <2>3 DEF RowVanished, Pc
    <3>2. dropped' \in SUBSET Job
      BY <2>6, <2>1 DEF TypeOK, RowVanished
    <3> QED BY <2>6, <3>1, <3>2 DEF TypeOK, RowVanished
  <2>7. CASE Claim(s)
    <3>1. run' \in [Slot -> {NoRun} \cup R]
      BY <2>7, <2>2, <2>3 DEF Claim, Pc
    <3>2. job' \in [Job -> {"none", "queued", "running", "succeeded", "failed"}]
      BY <2>7, <2>1 DEF TypeOK, Claim
    <3> QED BY <2>7, <3>1, <3>2 DEF TypeOK, Claim, Control
  <2>8. CASE Load(s)
    <3>1. run' \in [Slot -> {NoRun} \cup R]
      BY <2>8, <2>1 DEF TypeOK, Load, Pc
    <3> QED BY <2>8, <3>1 DEF TypeOK, Load, Control
  <2>9. CASE Create(s)
    <3>1. run' \in [Slot -> {NoRun} \cup R] /\ inst' \in [Job -> BOOLEAN]
      <4>1. PICK ok \in BOOLEAN, made \in BOOLEAN :
                /\ inst' = [inst EXCEPT ![run[s].job] = @ \/ made]
                /\ run' = [run EXCEPT ![s].pc = "commit", ![s].ok = ok]
        BY <2>9 DEF Create
      <4>2. [[run[s] EXCEPT !.pc = "commit"] EXCEPT !.ok = ok] \in R
        BY <2>1 DEF Pc
      <4>3. run' \in [Slot -> {NoRun} \cup R]
        BY <4>1, <4>2 DEF TypeOK
      <4>4. (inst[run[s].job] \/ made) \in BOOLEAN
        OBVIOUS
      <4>5. inst' \in [Job -> BOOLEAN]
        BY <4>1, <4>4, Zenon DEF TypeOK
      <4> QED BY <4>3, <4>5
    <3> QED BY <2>9, <3>1 DEF TypeOK, Create, Control
  <2>10. CASE CommitOutcome(s)
    <3>1. run' \in [Slot -> {NoRun} \cup R]
      BY <2>10, <2>2 DEF CommitOutcome, Pc
    <3>2. vps' \in [Job -> {"none", "provisioning", "running", "error"}]
      BY <2>10, <2>1 DEF TypeOK, CommitOutcome
    <3> QED BY <2>10, <3>1, <3>2 DEF TypeOK, CommitOutcome, Control
  <2>11. CASE Finish(s)
    <3>1. run' \in [Slot -> {NoRun} \cup R]
      BY <2>11, <2>3 DEF Finish, Pc
    <3>2. job' \in [Job -> {"none", "queued", "running", "succeeded", "failed"}]
      BY <2>11, <2>1 DEF TypeOK, Finish
    <3> QED BY <2>11, <3>1, <3>2 DEF TypeOK, Finish, Control
  <2>12. ~Pump(s)
    BY <1>2 DEF Pump, NoRun
  <2> QED BY <2>4, <2>5, <2>6, <2>7, <2>8, <2>9, <2>10, <2>11, <2>12 DEF RunStep
<1>3. CASE run[s].pc = "none" /\ ~Pump(s)
  BY <1>3 DEF RunStep, Acquire, WaitForRow, RowVanished, Claim, Load, Create, CommitOutcome,
              Finish, Move, End
<1> QED BY <1>1, <1>2, <1>3

LEMMA TypeInvariance == TypeOK /\ [Next]_vars => TypeOK'
<1> SUFFICES ASSUME TypeOK, [Next]_vars PROVE TypeOK'
  OBVIOUS
<1>1. CASE UNCHANGED vars
  BY <1>1 DEF TypeOK, vars
<1>2. CASE Next
  BY <1>2, ControlTyped, RunStepTyped DEF Next
<1> QED BY <1>1, <1>2

\* THEOREM: in every reachable state the worker's memory and the columns are well
\* typed, and the queue never exceeds its size.
THEOREM TypeCorrect == Spec => []TypeOK
<1> QED BY TypeInit, TypeInvariance, PTL DEF Spec

-----------------------------------------------------------------------------
(* The lifecycle of a job.                                                 *)

LEMMA InvInit == Init => Inv
<1>1. Init => NotYetThere /\ Claimed
  BY DEF Init, NotYetThere, Claimed, NoRun
<1> QED BY <1>1, TypeInit DEF Inv

LEMMA Invariance == Inv /\ [Next]_vars => Inv'
<1> SUFFICES ASSUME Inv, [Next]_vars PROVE NotYetThere' /\ Claimed'
  BY TypeInvariance DEF Inv
<1> USE DEF Inv
<1>1. CASE UNCHANGED vars
  BY <1>1 DEF vars, NotYetThere, Claimed
<1>2. CASE Start \/ RecoverStuck \/ Stop
  BY <1>2 DEF TypeOK, Start, RecoverStuck, Stop, NotYetThere, Claimed, NoRun
<1>3. ASSUME NEW j \in Job, Enqueue(j) \/ Rollback(j) \/ PutDelayed(j)
      PROVE  NotYetThere' /\ Claimed'
  BY <1>3 DEF TypeOK, Enqueue, Rollback, PutDelayed, NotYetThere, Claimed
<1>4. ASSUME NEW j \in Job, Commit(j) PROVE NotYetThere' /\ Claimed'
  BY <1>4 DEF TypeOK, Commit, NotYetThere, Claimed
<1>5. ASSUME NEW s \in Slot, RunStep(s) PROVE NotYetThere' /\ Claimed'
  <2>1. UNCHANGED request
    BY <1>5 DEF RunStep, Pump, Acquire, WaitForRow, RowVanished, Claim, Load, Create,
                CommitOutcome, Finish, Control
  <2>2. CASE Pump(s)
    BY <2>1, <2>2 DEF TypeOK, Pump, NotYetThere, Claimed
  <2>3. CASE Acquire(s) \/ WaitForRow(s) \/ RowVanished(s)
    <3>1. job' = job /\ run[s].pc \in {"waiting", "row"}
      BY <2>3 DEF Acquire, WaitForRow, RowVanished, Move, End
    <3>2. run'[s].pc \in {"row", "claim", "none"} /\ \A r \in Slot \ {s} : run'[r] = run[r]
      BY <2>3 DEF TypeOK, Acquire, WaitForRow, RowVanished, Move, End, NoRun
    <3>3. NotYetThere'
      BY <2>1, <3>1 DEF NotYetThere
    <3> QED BY <3>1, <3>2, <3>3 DEF Claimed
  <2>4. CASE Load(s) \/ Create(s) \/ CommitOutcome(s)
    <3>1. job' = job /\ run[s].pc \in {"load", "create", "commit"}
      BY <2>4 DEF Load, Create, CommitOutcome, Move
    <3>2. \A r \in Slot : run'[r].job = run[r].job /\ (r # s => run'[r] = run[r])
      BY <2>4, <3>1, RunTyped DEF TypeOK, Load, Create, CommitOutcome, Move
    <3>3. NotYetThere'
      BY <2>1, <3>1 DEF NotYetThere
    <3> QED BY <3>1, <3>2, <3>3 DEF Claimed
  <2>5. CASE Claim(s)
    <3>1. run[s].job \in Job
      BY <2>5, RunTyped DEF Claim, Move, End
    <3>2. NotYetThere'
      BY <2>1, <2>5, <3>1 DEF TypeOK, Claim, NotYetThere, Unfinished
    <3>3. CASE run[s].job \in Unfinished
      <4>1. job' = [job EXCEPT ![run[s].job] = "running"] /\ run' = [run EXCEPT ![s].pc = "load"]
        BY <2>5, <3>3 DEF Claim, Move
      <4>2. \A r \in Slot : run'[r].job = run[r].job /\ (r # s => run'[r] = run[r])
        BY <4>1 DEF TypeOK
      <4>3. job'[run[s].job] = "running"
        BY <3>1, <4>1 DEF TypeOK
      <4>4. \A j \in Job : job'[j] \in {job[j], "running"}
        BY <4>1 DEF TypeOK
      <4>5. \A r \in Slot : run[r].pc \in {"load", "create", "commit", "finish"} => run[r].job \in Job
        BY RunTyped
      <4>6. Claimed'
        BY <4>2, <4>3, <4>4, <4>5 DEF Claimed
      <4> QED BY <3>2, <4>6
    <3>4. CASE run[s].job \notin Unfinished
      <4>1. job' = job /\ run' = [run EXCEPT ![s] = NoRun]
        BY <2>5, <3>4 DEF Claim, End
      <4>2. Claimed'
        BY <4>1 DEF TypeOK, NoRun, Claimed
      <4> QED BY <3>2, <4>2
    <3> QED BY <3>2, <3>3, <3>4
  <2>6. CASE Finish(s)
    <3>1. run[s].job \in Job
      BY <2>6, RunTyped DEF Finish, End
    <3>2. job[run[s].job] \in {"running", "succeeded"}
      BY <2>6 DEF Finish, End, Claimed
    <3>3. NotYetThere'
      BY <2>1, <2>6, <3>1, <3>2 DEF TypeOK, Finish, NotYetThere
    <3>4. Claimed'
      BY <2>6, <3>1 DEF TypeOK, Finish, End, NoRun, Claimed
    <3> QED BY <3>3, <3>4
  <2> QED BY <1>5, <2>2, <2>3, <2>4, <2>5, <2>6 DEF RunStep
<1> QED BY <1>1, <1>2, <1>3, <1>4, <1>5 DEF Next

\* Every step of the worker is a step of the lifecycle of one job, or none.
LEMMA StepRefines == Inv /\ [Next]_vars => [Lifecycle!Next]_job
<1> SUFFICES ASSUME Inv, [Next]_vars, job' # job PROVE Lifecycle!Next
  OBVIOUS
<1> USE DEF Inv
<1>1. ASSUME NEW j \in Job, Commit(j) PROVE Lifecycle!Next
  <2>1. job[j] = "none"
    BY <1>1 DEF Commit, NotYetThere
  <2>2. Lifecycle!Submit(j)
    BY <1>1, <2>1 DEF Commit, Lifecycle!Submit
  <2> QED BY <2>2 DEF Lifecycle!Next
<1>2. ASSUME NEW s \in Slot, Claim(s) PROVE Lifecycle!Next
  <2> DEFINE j == run[s].job
  <2>1. j \in Job
    BY <1>2, RunTyped DEF Claim, Move, End
  <2>2. j \in Unfinished /\ job' = [job EXCEPT ![j] = "running"]
    BY <1>2 DEF Claim
  <2>3. job[j] = "queued"
    BY <2>1, <2>2 DEF TypeOK, Unfinished
  <2>4. Lifecycle!Claim(j)
    BY <2>2, <2>3 DEF Lifecycle!Claim
  <2> QED BY <2>1, <2>4 DEF Lifecycle!Next
<1>3. ASSUME NEW s \in Slot, Finish(s) PROVE Lifecycle!Next
  <2> DEFINE j == run[s].job
  <2>1. j \in Job /\ job[j] \in {"running", "succeeded"}
    BY <1>3, RunTyped DEF Finish, End, Claimed
  <2>2. job' = [job EXCEPT ![j] = "succeeded"]
    BY <1>3 DEF Finish
  <2>3. job[j] = "running"
    BY <2>1, <2>2 DEF TypeOK
  <2>4. Lifecycle!End(j, "succeeded")
    BY <2>2, <2>3 DEF Lifecycle!End
  <2> QED BY <2>1, <2>4 DEF Lifecycle!Next
<1>4. ASSUME NEW s \in Slot, RunStep(s), ~Claim(s), ~Finish(s) PROVE FALSE
  BY <1>4 DEF RunStep, Pump, Acquire, WaitForRow, RowVanished, Load, Create, CommitOutcome
<1>5. ASSUME NEW j \in Job, Enqueue(j) \/ Rollback(j) \/ PutDelayed(j) PROVE FALSE
  BY <1>5 DEF Enqueue, Rollback, PutDelayed
<1>6. ~(Start \/ RecoverStuck \/ Stop \/ UNCHANGED vars)
  BY DEF Start, RecoverStuck, Stop, vars
<1> QED BY <1>1, <1>2, <1>3, <1>4, <1>5, <1>6 DEF Next

\* THEOREM: the worker implements JobLifecycle: whatever crashes, late and duplicate
\* runs do, a job's status only moves as a client is promised.
THEOREM LifecycleKept == Spec => KeepsLifecycle
<1>1. Init => Lifecycle!Init
  BY DEF Init, Lifecycle!Init
<1> QED BY <1>1, InvInit, Invariance, StepRefines, PTL DEF Spec, KeepsLifecycle, Lifecycle!Spec
-----------------------------------------------------------------------------
(* No job is lost in silence.                                              *)

\* What moves an unfinished job on keeps it in hand, or its claim makes the run the
\* one that decides on its VPS.
LEMMA HandedOn ==
    ASSUME WayInv, [Next]_vars, ~Stop, NEW j \in Job, InHand(j),
           j \in Unfinished \/ (job[j] = "none" /\ request[j] = "open")
    PROVE  InHand(j)' \/ Deciding(j)'
<1> USE DEF WayInv, Inv
<1>1. CASE UNCHANGED vars
  BY <1>1 DEF vars, InHand
<1>2. CASE Start
  BY <1>2 DEF Start, InHand
<1>3. CASE RecoverStuck
  <2>1. UNCHANGED <<queue, run, dropped>> /\ (delayed[j] > 0 => delayed'[j] > 0)
    BY <1>3 DEF RecoverStuck, TypeOK
  <2> QED BY <2>1 DEF InHand
<1>4. ASSUME NEW k \in Job, Enqueue(k) \/ Commit(k) \/ Rollback(k) PROVE InHand(j)'
  <2>1. UNCHANGED <<queue, run, dropped>> /\ (delayed[j] > 0 => delayed'[j] > 0)
    <3>1. UNCHANGED <<queue, run, dropped>>
      BY <1>4 DEF Enqueue, Commit, Rollback
    <3>2. delayed' = delayed \/ delayed' = [delayed EXCEPT ![k] = @ + 1]
      BY <1>4 DEF Enqueue, Commit, Rollback
    <3>3. delayed \in [Job -> Nat]
      BY DEF TypeOK
    <3> QED BY <3>1, <3>2, <3>3
  <2> QED BY <2>1 DEF InHand
<1>5. ASSUME NEW k \in Job, PutDelayed(k) PROVE InHand(j)'
  <2>1. run' = run /\ dropped \subseteq dropped'
    BY <1>5 DEF PutDelayed
  <2>2. \A i \in 1..Len(queue) : i \in 1..Len(queue') /\ queue'[i] = queue[i]
    <3>1. queue \in Seq(Job)
      BY DEF TypeOK
    <3>2. queue' = queue \/ queue' = Append(queue, k)
      BY <1>5 DEF PutDelayed
    <3> QED BY <3>1, <3>2
  <2>3. CASE j # k
    <3>1. delayed'[j] = delayed[j]
      BY <1>5, <2>3 DEF PutDelayed, TypeOK
    <3> QED BY <2>1, <2>2, <3>1 DEF InHand
  <2>4. CASE j = k /\ Len(queue) < QueueMax
    <3>1. Len(queue) + 1 \in 1..Len(queue') /\ queue'[Len(queue) + 1] = j
      BY <1>5, <2>4 DEF PutDelayed, TypeOK
    <3> QED BY <3>1 DEF InHand
  <2>5. CASE j = k /\ ~(Len(queue) < QueueMax)
    BY <1>5, <2>5 DEF PutDelayed, InHand
  <2> QED BY <2>3, <2>4, <2>5
<1>6. ASSUME NEW s \in Slot, Pump(s) PROVE InHand(j)'
  <2>1. UNCHANGED <<delayed, dropped>> /\ run[s] = NoRun
    BY <1>6 DEF Pump
  <2>2. \A r \in Slot : run[r].pc # "none" => run'[r] = run[r]
    BY <1>6, <2>1 DEF Pump, TypeOK, NoRun
  <2>3. run'[s].job = Head(queue) /\ run'[s].pc = "waiting"
    BY <1>6 DEF Pump, TypeOK
  <2>4. ASSUME NEW i \in 1..Len(queue), queue[i] = j PROVE InHand(j)'
    <3>1. CASE i = 1
      <4>1. Head(queue) = j
        BY <1>6, <2>4, <3>1 DEF Pump, TypeOK
      <4> QED BY <2>3, <4>1 DEF InHand
    <3>2. CASE i # 1
      <4>1. i - 1 \in 1..Len(queue') /\ queue'[i - 1] = j
        BY <1>6, <2>4, <3>2 DEF Pump, TypeOK
      <4> QED BY <4>1 DEF InHand
    <3> QED BY <3>1, <3>2
  <2> QED BY <2>1, <2>2, <2>4 DEF InHand
<1>7. ASSUME NEW s \in Slot, RunStep(s), ~Pump(s) PROVE InHand(j)' \/ Deciding(j)'
  <2>1. UNCHANGED <<delayed, queue>> /\ dropped \subseteq dropped'
    BY <1>7 DEF RunStep, Acquire, WaitForRow, RowVanished, Claim, Load, Create, CommitOutcome,
                Finish, Control
  <2>2. \A r \in Slot \ {s} : run'[r] = run[r]
    BY <1>7 DEF TypeOK, RunStep, Acquire, WaitForRow, RowVanished, Claim, Load, Create,
                CommitOutcome, Finish, Move, End
  <2>3. ASSUME run[s].job = j, run[s].pc \in {"waiting", "row", "claim"}
        PROVE  InHand(j)' \/ Deciding(j)'
    <3>1. CASE Acquire(s)
      <4>1. run'[s].job = j /\ run'[s].pc = "row"
        BY <2>3, <3>1, RunTyped DEF Acquire, Move, TypeOK
      <4> QED BY <4>1 DEF InHand
    <3>2. CASE WaitForRow(s)
      <4>1. j \in Unfinished
        BY <2>3, <3>2 DEF WaitForRow, Unfinished
      <4>2. run'[s].job = j /\ run'[s].pc = "claim"
        BY <2>3, <3>2, <4>1, RunTyped DEF WaitForRow, Move, TypeOK
      <4> QED BY <4>2 DEF InHand
    <3>3. CASE RowVanished(s)
      BY <2>3, <3>3 DEF RowVanished, InHand
    <3>4. CASE Claim(s)
      <4>1. j \in Unfinished
        BY <2>3, <3>4 DEF Claim, Move, End, Seen, Unfinished
      <4>2. run'[s].job = j /\ run'[s].pc = "load"
        BY <2>3, <3>4, <4>1, RunTyped DEF Claim, Move, TypeOK
      <4> QED BY <4>2 DEF Deciding
    <3>5. ~(Load(s) \/ Create(s) \/ CommitOutcome(s) \/ Finish(s))
      BY <2>3 DEF Load, Create, CommitOutcome, Finish, Move, End
    <3> QED BY <1>7, <3>1, <3>2, <3>3, <3>4, <3>5 DEF RunStep
  <2> QED BY <2>1, <2>2, <2>3 DEF InHand
<1> QED BY <1>1, <1>2, <1>3, <1>4, <1>5, <1>6, <1>7 DEF Next

\* A queued job, or one that is not committed yet, is nobody's to decide on: it stays
\* in hand as long as it is not claimed.
LEMMA InHandKept ==
    ASSUME WayInv, [Next]_vars, ~Stop, NEW j \in Job, InHand(j),
           job[j] \in {"none", "queued"}, job'[j] \in {"none", "queued"},
           job[j] = "none" => request[j] = "open"
    PROVE  InHand(j)'
<1>1. Inv'
  BY Invariance DEF WayInv
<1>2. ~Deciding(j)'
  BY <1>1 DEF Inv, Claimed, Deciding
<1> QED BY <1>2, HandedOn DEF Unfinished

\* A job is queued by its commit alone, and a request is opened by enqueue alone.
LEMMA QueuedSteps ==
    ASSUME Inv, [Next]_vars, NEW j \in Job
    PROVE  /\ job'[j] = "queued" => job[j] = "queued" \/ (job[j] = "none" /\ request[j] = "open")
           /\ request'[j] = "open" => request[j] = "open" \/ Enqueue(j)
<1> USE DEF Inv, TypeOK
<1>1. CASE UNCHANGED vars \/ Start \/ RecoverStuck \/ Stop
  BY <1>1 DEF vars, Start, RecoverStuck, Stop
<1>2. ASSUME NEW k \in Job, Enqueue(k) \/ Commit(k) \/ Rollback(k) \/ PutDelayed(k)
      PROVE  /\ job'[j] = "queued" => job[j] = "queued" \/ (job[j] = "none" /\ request[j] = "open")
             /\ request'[j] = "open" => request[j] = "open" \/ Enqueue(j)
  BY <1>2 DEF Enqueue, Commit, Rollback, PutDelayed, NotYetThere
<1>3. ASSUME NEW s \in Slot, RunStep(s)
      PROVE  request' = request /\ (job'[j] = "queued" => job[j] = "queued")
  BY <1>3 DEF RunStep, Pump, Acquire, WaitForRow, RowVanished, Claim, Load, Create,
              CommitOutcome, Finish, Control
<1> QED BY <1>1, <1>2, <1>3 DEF Next

\* A run reaches its claim only through its wait, and no job goes back to "none".
LEMMA SeenStep == Inv /\ Seen /\ [Next]_vars => Seen'
<1> SUFFICES ASSUME Inv, Seen, [Next]_vars PROVE Seen'
  OBVIOUS
<1> USE DEF Inv
<1>1. CASE UNCHANGED vars
  BY <1>1 DEF vars, Seen
<1>2. CASE Start \/ RecoverStuck \/ Stop
  BY <1>2 DEF Start, RecoverStuck, Stop, Seen, NoRun
<1>3. ASSUME NEW j \in Job, Enqueue(j) \/ Commit(j) \/ Rollback(j) \/ PutDelayed(j) PROVE Seen'
  <2>1. run' = run /\ \A k \in Job : job[k] # "none" => job'[k] # "none"
    BY <1>3 DEF TypeOK, Enqueue, Commit, Rollback, PutDelayed
  <2> QED BY <2>1, RunTyped DEF Seen
<1>4. ASSUME NEW s \in Slot, RunStep(s) PROVE Seen'
  <2>1. \A k \in Job : job[k] # "none" => job'[k] # "none"
    BY <1>4 DEF TypeOK, RunStep, Pump, Acquire, WaitForRow, RowVanished, Claim, Load, Create,
                CommitOutcome, Finish
  <2>2. \A r \in Slot \ {s} : run'[r] = run[r]
    BY <1>4 DEF TypeOK, RunStep, Pump, Acquire, WaitForRow, RowVanished, Claim, Load, Create,
                CommitOutcome, Finish, Move, End
  <2>3. ASSUME run'[s].pc = "claim" PROVE job'[run'[s].job] # "none"
    <3>1. CASE WaitForRow(s)
      <4>1. run'[s].job = run[s].job /\ job[run[s].job] # "none" /\ job' = job
        BY <2>3, <3>1, RunTyped DEF WaitForRow, Move, End, TypeOK, NoRun
      <4> QED BY <4>1
    <3>2. CASE ~WaitForRow(s)
      BY <1>4, <2>3, <3>2 DEF TypeOK, RunStep, Pump, Acquire, RowVanished, Claim, Load, Create,
                              CommitOutcome, Finish, Move, End, NoRun
    <3> QED BY <3>1, <3>2
  <2> QED BY <2>1, <2>2, <2>3, RunTyped DEF Seen
<1> QED BY <1>1, <1>2, <1>3, <1>4 DEF Next

LEMMA WayStep == WayInv /\ [Next]_vars => WayInv'
<1> SUFFICES ASSUME WayInv, [Next]_vars PROVE WayInv'
  OBVIOUS
<1>1. Inv' /\ Seen'
  BY Invariance, SeenStep DEF WayInv
<1>2. CASE Stop
  <2>1. ~started' /\ \A j \in Job : request'[j] # "open"
    BY <1>2 DEF Stop, WayInv, Inv, TypeOK
  <2> QED BY <1>1, <2>1 DEF WayInv, OpenInHand, QueuedIsOnItsWay
<1>3. CASE ~Stop
  <2>1. started => started'
    BY <1>3 DEF Next, vars, Start, RecoverStuck, Enqueue, Commit, Rollback, PutDelayed, RunStep,
                Pump, Acquire, WaitForRow, RowVanished, Claim, Load, Create, CommitOutcome,
                Finish, Control
  <2>2. started' /\ ~started => recovering'
    BY <1>3 DEF Next, vars, Start, RecoverStuck, Enqueue, Commit, Rollback, PutDelayed, RunStep,
                Pump, Acquire, WaitForRow, RowVanished, Claim, Load, Create, CommitOutcome,
                Finish, Control
  <2>3. recovering /\ ~recovering' => RecoverStuck
    BY <1>3 DEF Next, vars, Start, RecoverStuck, Enqueue, Commit, Rollback, PutDelayed, RunStep,
                Pump, Acquire, WaitForRow, RowVanished, Claim, Load, Create, CommitOutcome,
                Finish, Control
  <2>4. OpenInHand'
    <3> SUFFICES ASSUME NEW j \in Job, request'[j] = "open" PROVE started' /\ InHand(j)'
      BY DEF OpenInHand
    <3>1. CASE request[j] = "open"
      <4>1. started /\ InHand(j) /\ job[j] = "none"
        BY <3>1 DEF WayInv, OpenInHand, Inv, NotYetThere
      <4>2. job'[j] = "none"
        BY <1>1 DEF Inv, NotYetThere
      <4> QED BY <1>3, <2>1, <3>1, <4>1, <4>2, InHandKept
    <3>2. CASE Enqueue(j)
      <4>1. started' /\ delayed'[j] > 0
        BY <3>2 DEF Enqueue, WayInv, Inv, TypeOK
      <4> QED BY <4>1 DEF InHand
    <3> QED BY <3>1, <3>2, QueuedSteps DEF WayInv
  <2>5. QueuedIsOnItsWay'
    <3> SUFFICES ASSUME NEW j \in Job, started', job'[j] = "queued", ~recovering'
                 PROVE  InHand(j)'
      BY DEF QueuedIsOnItsWay
    <3>1. started
      BY <2>2
    <3>2. CASE job[j] = "queued" /\ RecoverStuck
      <4>1. delayed'[j] > 0
        BY <3>2 DEF RecoverStuck, Unfinished, WayInv, Inv, TypeOK
      <4> QED BY <4>1 DEF InHand
    <3>3. CASE job[j] = "queued" /\ ~RecoverStuck
      <4>1. InHand(j)
        BY <2>3, <3>1, <3>3 DEF WayInv, QueuedIsOnItsWay
      <4> QED BY <1>3, <3>3, <4>1, InHandKept
    <3>4. CASE job[j] = "none" /\ request[j] = "open"
      <4>1. InHand(j)
        BY <3>4 DEF WayInv, OpenInHand
      <4> QED BY <1>3, <3>4, <4>1, InHandKept
    <3> QED BY <3>2, <3>3, <3>4, QueuedSteps DEF WayInv
  <2> QED BY <1>1, <2>4, <2>5 DEF WayInv
<1> QED BY <1>2, <1>3

\* THEOREM: for any number of jobs, places and restarts, a queued job is on its way
\* to a run, or the process has said that it gives it up.
THEOREM NoneLostInSilence == Spec => []QueuedIsOnItsWay
<1>1. Init => WayInv
  <2>1. Init => OpenInHand /\ Seen /\ QueuedIsOnItsWay
    BY DEF Init, OpenInHand, Seen, QueuedIsOnItsWay, NoRun
  <2> QED BY <2>1, InvInit DEF WayInv
<1>2. WayInv => QueuedIsOnItsWay
  BY DEF WayInv
<1> QED BY <1>1, <1>2, WayStep, PTL DEF Spec

-----------------------------------------------------------------------------
(* No VPS is abandoned as PROVISIONING.                                    *)

\* A request that is open has shown nothing; a VPS is PROVISIONING only while its job
\* is not terminal; and a run that is done with its VPS has decided on it, for good.
Decided ==
    /\ \A j \in Job : /\ request[j] \in {"new", "open"} => vps[j] = "none"
                      /\ vps[j] = "provisioning" => j \in Unfinished
                      /\ job[j] # "none" => vps[j] # "none"
    /\ \A s \in Slot : run[s].pc = "finish" => vps[run[s].job] \in {"running", "error"}

LEMMA DecidedStep == Inv /\ Decided /\ [Next]_vars => Decided'
<1> SUFFICES ASSUME Inv, Decided, [Next]_vars PROVE Decided'
  OBVIOUS
<1> USE DEF Inv
<1>1. CASE UNCHANGED vars \/ Start \/ RecoverStuck
  BY <1>1 DEF vars, Start, RecoverStuck, Decided, Unfinished
<1>2. CASE Stop
  <2>1. \A j \in Job : request'[j] \in {"new", "open"} => request[j] \in {"new", "open"}
    BY <1>2 DEF Stop, TypeOK
  <2> QED BY <1>2, <2>1 DEF Stop, NoRun, Decided, Unfinished
<1>3. ASSUME NEW j \in Job, Enqueue(j) \/ Rollback(j) \/ PutDelayed(j) PROVE Decided'
  BY <1>3 DEF TypeOK, Enqueue, Rollback, PutDelayed, Decided, Unfinished
<1>4. ASSUME NEW j \in Job, Commit(j) PROVE Decided'
  BY <1>4 DEF TypeOK, Commit, Decided, Unfinished
<1>5. ASSUME NEW s \in Slot, RunStep(s) PROVE Decided'
  <2>0. UNCHANGED request /\ \A r \in Slot \ {s} : run'[r] = run[r]
    BY <1>5 DEF TypeOK, RunStep, Pump, Acquire, WaitForRow, RowVanished, Claim, Load, Create,
                CommitOutcome, Finish, Move, End, Control
  <2>1. CASE Pump(s) \/ Acquire(s) \/ WaitForRow(s) \/ RowVanished(s) \/ Create(s)
    <3>1. UNCHANGED <<job, vps>>
      BY <2>1 DEF Pump, Acquire, WaitForRow, RowVanished, Create
    <3>2. run'[s].pc # "finish"
      BY <2>1, RunTyped DEF TypeOK, Pump, Acquire, WaitForRow, RowVanished, Create, Move, End, NoRun
    <3> QED BY <2>0, <3>1, <3>2 DEF Decided, Unfinished
  <2>2. CASE Claim(s)
    <3>1. UNCHANGED vps /\ run[s].job \in Job /\ run'[s].pc # "finish"
      BY <2>2, RunTyped DEF TypeOK, Claim, Move, End, NoRun
    <3>2. \A j \in Job : \/ job'[j] = job[j]
                         \/ j \in Unfinished /\ job'[j] = "running"
      BY <2>2, <3>1 DEF TypeOK, Claim
    <3> QED BY <2>0, <3>1, <3>2 DEF Decided, Unfinished
  <2>3. CASE Load(s)
    <3>1. UNCHANGED <<job, vps>> /\ run[s].job \in Job /\ run'[s].job = run[s].job
      BY <2>3, RunTyped DEF TypeOK, Load
    <3>2. vps[run[s].job] # "none"
      BY <2>3, <3>1 DEF Load, Claimed, Decided
    <3>3. run'[s].pc = "finish" => vps[run[s].job] # "provisioning"
      BY <2>3, <3>1 DEF TypeOK, Load
    <3>4. run'[s].pc = "finish" => vps'[run'[s].job] \in {"running", "error"}
      BY <3>1, <3>2, <3>3 DEF TypeOK
    <3> QED BY <2>0, <3>1, <3>4 DEF Decided, Unfinished
  <2>4. CASE CommitOutcome(s)
    <3>1. UNCHANGED job /\ run[s].job \in Job /\ run'[s].job = run[s].job
      BY <2>4, RunTyped DEF TypeOK, CommitOutcome, Move
    <3>2. /\ vps'[run[s].job] \in {"running", "error"}
          /\ \A j \in Job \ {run[s].job} : vps'[j] = vps[j]
      BY <2>4, <3>1 DEF TypeOK, CommitOutcome
    <3>3. \A r \in Slot : run[r].pc = "finish" => run[r].job \in Job
      BY RunTyped
    <3>4. job[run[s].job] # "none"
      BY <2>4 DEF CommitOutcome, Move, Claimed
    <3>5. request[run[s].job] \notin {"new", "open"}
      BY <3>1, <3>4 DEF NotYetThere
    <3> QED BY <2>0, <3>1, <3>2, <3>3, <3>5 DEF Decided, Unfinished
  <2>5. CASE Finish(s)
    <3>1. UNCHANGED vps /\ run[s].job \in Job /\ run'[s].pc # "finish"
      BY <2>5, RunTyped DEF TypeOK, Finish, End, NoRun
    <3>2. vps[run[s].job] \in {"running", "error"}
      BY <2>5 DEF Finish, End, Decided
    <3>3. \A j \in Job \ {run[s].job} : job'[j] = job[j]
      BY <2>5, <3>1 DEF TypeOK, Finish
    <3> QED BY <2>0, <3>1, <3>2, <3>3 DEF Decided, Unfinished
  <2> QED BY <1>5, <2>1, <2>2, <2>3, <2>4, <2>5 DEF RunStep
<1> QED BY <1>1, <1>2, <1>3, <1>4, <1>5 DEF Next

\* The run that decides on a VPS goes on until it has decided.
LEMMA DecidingKept ==
    ASSUME Inv, [Next]_vars, ~Stop, NEW j \in Job, Deciding(j), vps'[j] = "provisioning"
    PROVE  Deciding(j)'
<1> USE DEF Inv
<1>0. PICK s \in Slot : run[s].job = j /\ run[s].pc \in {"load", "create", "commit"}
  BY DEF Deciding
<1>1. CASE run'[s] = run[s]
  BY <1>0, <1>1 DEF Deciding
<1>2. CASE RunStep(s)
  <2>1. CASE Load(s)
    <3>1. vps[j] = "provisioning"
      BY <2>1 DEF Load
    <3>2. run'[s].job = j /\ run'[s].pc = "create"
      BY <1>0, <2>1, <3>1, RunTyped DEF Load, TypeOK
    <3> QED BY <3>2 DEF Deciding
  <2>2. CASE Create(s)
    <3>1. run'[s].job = j /\ run'[s].pc = "commit"
      BY <1>0, <2>2, RunTyped DEF Create, TypeOK
    <3> QED BY <3>1 DEF Deciding
  <2>3. ~CommitOutcome(s)
    BY <1>0 DEF CommitOutcome, TypeOK
  <2> QED
    BY <1>0, <1>2, <2>1, <2>2, <2>3
       DEF RunStep, Pump, Acquire, WaitForRow, RowVanished, Claim, Finish, Move, End, NoRun
<1>3. ASSUME NEW r \in Slot, RunStep(r), r # s PROVE run'[s] = run[s]
  BY <1>3 DEF TypeOK, RunStep, Pump, Acquire, WaitForRow, RowVanished, Claim, Load, Create,
              CommitOutcome, Finish, Move, End
<1>4. UNCHANGED run \/ \E r \in Slot : RunStep(r)
  BY DEF Next, vars, Start, RecoverStuck, Enqueue, Commit, Rollback, PutDelayed
<1> QED BY <1>1, <1>2, <1>3, <1>4

\* A VPS becomes PROVISIONING by the commit of its open request only.
LEMMA ProvisioningSteps ==
    ASSUME Inv, [Next]_vars, NEW j \in Job, vps'[j] = "provisioning"
    PROVE  vps[j] = "provisioning" \/ (job[j] = "none" /\ request[j] = "open")
<1> USE DEF Inv, TypeOK
<1>1. CASE UNCHANGED vps
  BY <1>1
<1>2. ASSUME NEW k \in Job, Commit(k)
      PROVE  vps[j] = "provisioning" \/ (job[j] = "none" /\ request[j] = "open")
  BY <1>2 DEF Commit, NotYetThere
<1>3. ASSUME NEW s \in Slot, CommitOutcome(s) PROVE vps[j] = "provisioning"
  BY <1>3, RunTyped DEF CommitOutcome, Move
<1> QED
  BY <1>1, <1>2, <1>3 DEF Next, vars, Start, RecoverStuck, Stop, Enqueue, Rollback, PutDelayed,
     RunStep, Pump, Acquire, WaitForRow, RowVanished, Claim, Load, Create, Finish, Control

LEMMA AbandonedStep ==
    WayInv /\ Decided /\ NoneAbandoned /\ [Next]_vars => NoneAbandoned'
<1> SUFFICES ASSUME WayInv, Decided, NoneAbandoned, [Next]_vars, NEW j \in Job,
                    started', vps'[j] = "provisioning", ~recovering'
             PROVE  InHand(j)' \/ Deciding(j)'
  BY DEF NoneAbandoned
<1> USE DEF WayInv
<1>1. ~Stop
  BY DEF Stop
<1>2. started
  BY <1>1 DEF Next, vars, Start, RecoverStuck, Enqueue, Commit, Rollback, PutDelayed, RunStep,
              Pump, Acquire, WaitForRow, RowVanished, Claim, Load, Create, CommitOutcome,
              Finish, Control
<1>3. recovering => RecoverStuck
  BY <1>1 DEF Next, vars, Start, RecoverStuck, Enqueue, Commit, Rollback, PutDelayed, RunStep,
              Pump, Acquire, WaitForRow, RowVanished, Claim, Load, Create, CommitOutcome,
              Finish, Control
<1>4. CASE job[j] = "none" /\ request[j] = "open"
  <2>1. InHand(j)
    BY <1>4 DEF OpenInHand
  <2> QED BY <1>1, <1>4, <2>1, HandedOn
<1>5. CASE vps[j] = "provisioning"
  <2>1. j \in Unfinished
    BY <1>5 DEF Decided
  <2>2. CASE RecoverStuck
    <3>1. delayed'[j] > 0
      BY <2>1, <2>2 DEF RecoverStuck, Inv, TypeOK
    <3> QED BY <3>1 DEF InHand
  <2>3. CASE ~RecoverStuck
    <3>1. InHand(j) \/ Deciding(j)
      BY <1>2, <1>3, <1>5, <2>3 DEF NoneAbandoned
    <3> QED BY <1>1, <2>1, <3>1, HandedOn, DecidingKept
  <2> QED BY <2>2, <2>3
<1> QED BY <1>4, <1>5, ProvisioningSteps

\* THEOREM: for any number of jobs, places, permits and restarts, no VPS is left
\* PROVISIONING without a run that will decide on it, or a job that will get one, unless
\* the process has said that it gives the job up.
THEOREM NoVpsAbandoned == Spec => []NoneAbandoned
<1>1. Init => WayInv /\ Decided /\ NoneAbandoned
  <2>1. Init => OpenInHand /\ Seen /\ QueuedIsOnItsWay /\ NoneAbandoned
    BY DEF Init, OpenInHand, Seen, QueuedIsOnItsWay, NoneAbandoned, NoRun
  <2>2. Init => Decided
    BY DEF Init, Decided, NoRun
  <2> QED BY <2>1, <2>2, InvInit DEF WayInv
<1>2. WayInv => Inv
  BY DEF WayInv
<1> QED BY <1>1, <1>2, WayStep, DecidedStep, AbandonedStep, PTL DEF Spec
=============================================================================
