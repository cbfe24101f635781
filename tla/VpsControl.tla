----------------------------- MODULE VpsControl -----------------------------
(***************************************************************************)
(* The life of a VPS: the rows of the control plane (vps, ip_addresses,    *)
(* provisioning_jobs), the asyncio tasks that work on them (API handlers   *)
(* and provisioning-worker runs), the LXD instances of one node, and the   *)
(* heartbeats that reconcile the rows with the instances.                  *)
(*                                                                         *)
(* A task is a sequence of database transactions and calls to the node;    *)
(* whatever it reads before an await is kept in its record and used after  *)
(* it.  A transaction is a load step and a commit step: sessions do not    *)
(* autoflush, the ORM writes by primary key only the attributes whose      *)
(* value differs from the loaded one, and PostgreSQL runs at READ          *)
(* COMMITTED, so a commit overwrites what others committed in between.     *)
(***************************************************************************)
EXTENDS Naturals, FiniteSets

CONSTANTS
    Vps,        \* identities of VPS rows, each used by at most one create
    Addr,       \* static IPv4 addresses of the node's pool
    Task,       \* asyncio tasks: a bound on what is in flight at a time
    NoVps, NoAddr,
    Capacity,   \* how many VPS the node's storage holds (each asks for one unit)
    ForUpdate,  \* whether SELECT ... FOR UPDATE locks (PostgreSQL) or is ignored
    MaxLate,    \* bound on the abandoned calls the node may still serve
    Env         \* what the environment of this instance does, a subset of Events

Events == {"create", "delete", "start", "stop", "provision",
           "reserve", "release", "heartbeat", "age", "timeout", "crash"}

ASSUME ConstantsAssumption ==
    /\ NoVps \notin Vps /\ NoAddr \notin Addr
    /\ Capacity \in Nat /\ MaxLate \in Nat /\ ForUpdate \in BOOLEAN /\ Env \subseteq Events

VARIABLES
    \* the database, as committed
    status,     \* vps.status, "none" before the row exists
    ipv4,       \* vps.ipv4 (the static address asked for at creation)
    aged,       \* vps.updated_at is older than the 30 minutes of the sweep
    ipStatus, ipOwner,  \* ip_addresses.status and .vps_id
    job,        \* provisioning_jobs.status of the VPS's job
    \* the control plane's tasks and the heartbeat in flight
    task, hb,
    \* the node
    inst,       \* LXD's instance of the VPS
    late,       \* calls whose client gave up and which the node may still serve
    created     \* history: the VPS's instance has run at some time

db    == <<status, ipv4, aged, ipStatus, ipOwner, job>>
node  == <<inst, late, created>>
vars  == <<db, task, hb, node>>

Status       == {"none", "provisioning", "running", "stopped", "error",
                 "deleting", "deleted"}
Transitional == {"provisioning", "deleting"}   \* CREATING is never assigned
Inst         == {"absent", "running", "stopped"}
NodeOps      == {"provision", "delete", "start", "stop"}

\* A task at rest; a task at work overrides the fields its handler uses.
Idle == [op |-> "none", pc |-> "idle", vps |-> NoVps, addr |-> NoAddr,
         loaded |-> "none", reply |-> "none", ips |-> {}]
Begin(t, op, pc, v, a, s) ==
    /\ task[t] = Idle
    /\ op \in Env
    /\ task' = [task EXCEPT ![t] = [Idle EXCEPT !.op = op, !.pc = pc, !.vps = v,
                                                !.addr = a, !.loaded = s]]

NoBeat == [pc |-> "idle", inv |-> [v \in Vps |-> "absent"], new |-> [v \in Vps |-> "keep"]]

At(t, op, pc) == task[t].op = op /\ task[t].pc = pc

Used == Cardinality({v \in Vps : status[v] \notin {"none", "deleted", "error"}})

\* The limits of _check_node_capacity, one unit of storage standing for all three.
Fits == Used + 1 <= Capacity

\* delete_vps holds the row lock of its VPS from the flush of DELETING to the
\* end of its transaction; another writer of the row waits.
RowFree(v) ==
    \A u \in Task : ~(task[u].op = "delete" /\ task[u].pc \in {"call", "commit"}
                      /\ task[u].vps = v)
\* prepare_vps holds the lock of the address it selected until it commits.
AddrFree(a) == ForUpdate => \A u \in Task : ~(At(u, "create", "claim") /\ task[u].addr = a)

\* Seeded fault of AddressesOf: only the assigned addresses are selected.
AssignedAddressesOf(v) == {a \in Addr : ipOwner[a] = v /\ ipStatus[a] = "assigned"}
AddressesOf(v) == {a \in Addr : ipOwner[a] = v}

\* UPDATE vps SET status = new, emitted when it differs from the loaded value;
\* the same UPDATE refreshes updated_at.
WriteStatus(v, loaded, new) ==
    IF loaded = new THEN UNCHANGED <<status, aged>>
    ELSE status' = [status EXCEPT ![v] = new] /\ aged' = [aged EXCEPT ![v] = FALSE]
\* Seeded faults of FreeAddresses: a status outside the enum; vps_id is kept.
FreeToUnknown(S) ==
    /\ ipStatus' = [a \in Addr |-> IF a \in S THEN "free" ELSE ipStatus[a]]
    /\ ipOwner'  = [a \in Addr |-> IF a \in S THEN NoVps ELSE ipOwner[a]]
FreeStatusOnly(S) ==
    /\ ipStatus' = [a \in Addr |-> IF a \in S THEN "available" ELSE ipStatus[a]]
    /\ UNCHANGED ipOwner
FreeAddresses(S) ==
    /\ ipStatus' = [a \in Addr |-> IF a \in S THEN "available" ELSE ipStatus[a]]
    /\ ipOwner'  = [a \in Addr |-> IF a \in S THEN NoVps ELSE ipOwner[a]]

\* Nobody waits any more for the calls of S, which the node may serve yet.
Unserved(S) == {<<task[t].op, task[t].vps>> :
                   t \in {u \in S : task[u].pc = "call" /\ task[u].reply = "none"}}
Abandon(S) == late' = late \cup Unserved(S) /\ Cardinality(late') <= MaxLate

Init ==
    /\ status = [v \in Vps |-> "none"] /\ ipv4 = [v \in Vps |-> NoAddr]
    /\ aged = [v \in Vps |-> FALSE]
    /\ ipStatus = [a \in Addr |-> "available"] /\ ipOwner = [a \in Addr |-> NoVps]
    /\ job = [v \in Vps |-> "none"]
    /\ task = [t \in Task |-> Idle] /\ hb = NoBeat
    /\ inst = [v \in Vps |-> "absent"] /\ late = {} /\ created = [v \in Vps |-> FALSE]

-----------------------------------------------------------------------------
(* POST /vps: prepare_vps, the job row and the commit of the request.      *)

\* Seeded fault of PrepareVps: the claim is committed before the VPS is.
EagerPrepare(t, v, a) ==
    /\ status[v] = "none" /\ \A u \in Task : task[u].vps # v
    /\ a # NoAddr => ipStatus[a] = "available" /\ AddrFree(a)
    /\ Begin(t, "create", "claim", v, a, "none")
    /\ ipOwner' = [b \in Addr |-> IF b = a THEN v ELSE ipOwner[b]]
    /\ UNCHANGED <<status, ipv4, aged, ipStatus, job, hb, node>>

\* Capacity check and SELECT of the wanted address, if one is wanted.
PrepareVps(t, v, a) ==
    /\ status[v] = "none" /\ \A u \in Task : task[u].vps # v
    /\ Fits
    /\ a # NoAddr => ipStatus[a] = "available" /\ AddrFree(a)
    /\ Begin(t, "create", "claim", v, a, "none")
    /\ UNCHANGED <<db, hb, node>>

\* The conditional UPDATE that claims the address, then the commit of the VPS,
\* the address and the job.
BlindClaim(a) == TRUE   \* seeded fault: an UPDATE without its WHERE
ClaimSucceeds(a) == a # NoAddr => ipStatus[a] = "available" /\ ipOwner[a] = NoVps
CommitCreate(t) ==
    LET v == task[t].vps  a == task[t].addr IN
    /\ At(t, "create", "claim") /\ ClaimSucceeds(a)
    /\ status' = [status EXCEPT ![v] = "provisioning"]
    /\ ipv4' = [ipv4 EXCEPT ![v] = a]
    /\ ipStatus' = [b \in Addr |-> IF b = a THEN "assigned" ELSE ipStatus[b]]
    /\ ipOwner'  = [b \in Addr |-> IF b = a THEN v ELSE ipOwner[b]]
    /\ job' = [job EXCEPT ![v] = "queued"]
    /\ task' = [task EXCEPT ![t] = Idle]
    /\ UNCHANGED <<aged, hb, node>>

\* rowcount # 1: 422 and rollback, nothing of the request remains.
LoseClaim(t) ==
    /\ At(t, "create", "claim") /\ ~ClaimSucceeds(task[t].addr)
    /\ task' = [task EXCEPT ![t] = Idle]
    /\ UNCHANGED <<db, hb, node>>

-----------------------------------------------------------------------------
(* The worker's run of a job; several may run the same job.                *)

\* _wait_for_row: the job is not in a terminal state.
StartRun(t, v) ==
    /\ job[v] \in {"queued", "running"}
    /\ Begin(t, "provision", "claim", v, NoAddr, "none")
    /\ UNCHANGED <<db, hb, node>>

\* Seeded fault of ClaimJob: the UPDATE without the status in its WHERE.
ClaimAnyJob(t) ==
    /\ At(t, "provision", "claim")
    /\ job' = [job EXCEPT ![task[t].vps] = "running"]
    /\ task' = [task EXCEPT ![t].pc = "load"]
    /\ UNCHANGED <<status, ipv4, aged, ipStatus, ipOwner, hb, node>>
\* UPDATE ... SET status = RUNNING WHERE status IN (QUEUED, RUNNING).
ClaimJob(t) ==
    LET v == task[t].vps IN
    /\ At(t, "provision", "claim")
    /\ IF job[v] \in {"queued", "running"}
       THEN job' = [job EXCEPT ![v] = "running"] /\ task' = [task EXCEPT ![t].pc = "load"]
       ELSE task' = [task EXCEPT ![t] = Idle] /\ UNCHANGED job
    /\ UNCHANGED <<status, ipv4, aged, ipStatus, ipOwner, hb, node>>

\* Seeded fault of ProvisionInSession: what is not RUNNING is provisioned.
ProvisionWhatever(t) ==
    LET s == status[task[t].vps] IN
    /\ At(t, "provision", "load")
    /\ task' = [task EXCEPT ![t] = [@ EXCEPT
          !.pc     = IF s = "running" THEN "finish" ELSE "call",
          !.loaded = s,
          !.reply  = IF s = "running" THEN "ok" ELSE "none"]]
    /\ UNCHANGED <<db, hb, node>>

\* _provision_in_session loads the row: RUNNING ends the run as a success, any
\* other state but PROVISIONING as a failure, PROVISIONING calls the node.
ProvisionInSession(t) ==
    LET s == status[task[t].vps] IN
    /\ At(t, "provision", "load")
    /\ task' = [task EXCEPT ![t] = [@ EXCEPT
          !.pc     = IF s = "provisioning" THEN "call" ELSE "finish",
          !.loaded = s,
          !.reply  = IF s = "running" THEN "ok"
                     ELSE IF s = "provisioning" THEN "none" ELSE "err"]]
    /\ UNCHANGED <<db, hb, node>>

\* The call returned an instance: RUNNING.
CommitProvisioned(t) ==
    LET v == task[t].vps IN
    /\ At(t, "provision", "commit") /\ task[t].reply = "ok" /\ RowFree(v)
    /\ WriteStatus(v, task[t].loaded, "running")
    /\ task' = [task EXCEPT ![t].pc = "finish"]
    /\ UNCHANGED <<ipv4, ipStatus, ipOwner, job, hb, node>>

\* _fail_vps and its commit: ERROR, and the addresses it had selected are freed.
FailVps(t) ==
    LET v == task[t].vps IN
    /\ At(t, "provision", "commit") /\ task[t].reply # "ok" /\ RowFree(v)
    /\ \A a \in task[t].ips : AddrFree(a)
    /\ WriteStatus(v, task[t].loaded, "error")
    /\ FreeAddresses(task[t].ips)
    /\ task' = [task EXCEPT ![t].pc = "finish"]
    /\ UNCHANGED <<ipv4, job, hb, node>>

\* wait_for gave up after 20 minutes and mark_provision_failed loaded the row
\* again, in a session of its own and whatever its status.
MarkProvisionFailed(t) ==
    LET v == task[t].vps IN
    /\ At(t, "provision", "call") /\ "timeout" \in Env
    /\ Abandon({t})
    /\ task' = [task EXCEPT ![t] = [@ EXCEPT !.pc = "commit", !.reply = "err",
                                        !.loaded = status[v], !.ips = AddressesOf(v)]]
    /\ UNCHANGED <<db, hb, inst, created>>

\* Seeded fault of Finish: the error string is not looked at.
FinishSucceeded(t) ==
    /\ At(t, "provision", "finish")
    /\ job' = [job EXCEPT ![task[t].vps] = "succeeded"]
    /\ task' = [task EXCEPT ![t] = Idle]
    /\ UNCHANGED <<status, ipv4, aged, ipStatus, ipOwner, hb, node>>

\* _finish.  For FAILED it writes progress = NULL into a NOT NULL column: the
\* statement fails, _run logs the exception and the row keeps its status.
Finish(t) ==
    LET v == task[t].vps IN
    /\ At(t, "provision", "finish")
    /\ job' = IF task[t].reply = "ok" THEN [job EXCEPT ![v] = "succeeded"] ELSE job
    /\ task' = [task EXCEPT ![t] = Idle]
    /\ UNCHANGED <<status, ipv4, aged, ipStatus, ipOwner, hb, node>>

-----------------------------------------------------------------------------
(* DELETE /vps/{id} and POST /vps/{id}/{action}.                           *)

\* get_vps_checked.
Visible(v) == status[v] \notin {"none", "deleted"}

DeleteVps(t, v) ==
    /\ Visible(v)
    /\ Begin(t, "delete", "flush", v, NoAddr, status[v])
    /\ UNCHANGED <<db, hb, node>>

\* status = DELETING is flushed, not committed: it only takes the row lock.
FlushDeleting(t) ==
    /\ At(t, "delete", "flush") /\ RowFree(task[t].vps)
    /\ task' = [task EXCEPT ![t].pc = "call"]
    /\ UNCHANGED <<db, hb, node>>

\* The node deleted the instance: DELETED, and the addresses selected are freed.
CommitDelete(t) ==
    LET v == task[t].vps IN
    /\ At(t, "delete", "commit") /\ \A a \in task[t].ips : AddrFree(a)
    /\ status' = [status EXCEPT ![v] = "deleted"] /\ aged' = [aged EXCEPT ![v] = FALSE]
    /\ FreeAddresses(task[t].ips)
    /\ task' = [task EXCEPT ![t] = Idle]
    /\ UNCHANGED <<ipv4, job, hb, node>>

\* start and restart end in RUNNING, stop and shutdown in STOPPED.
LifecycleAction(t, v, op) ==
    /\ Visible(v) /\ status[v] # "deleting"
    /\ Begin(t, op, "call", v, NoAddr, status[v])
    /\ UNCHANGED <<db, hb, node>>

CommitLifecycle(t) ==
    LET v == task[t].vps IN
    /\ task[t].op \in {"start", "stop"} /\ task[t].pc = "commit" /\ RowFree(v)
    /\ WriteStatus(v, task[t].loaded, IF task[t].op = "start" THEN "running" ELSE "stopped")
    /\ task' = [task EXCEPT ![t] = Idle]
    /\ UNCHANGED <<ipv4, ipStatus, ipOwner, job, hb, node>>

-----------------------------------------------------------------------------
(* Calls to the node.                                                      *)

\* What the agent may make of a call: the instance it leaves and its answer.
\* create starts what it created, so it may fail and leave the instance behind;
\* delete stops first, and is an error when there is no instance (LXD's 404).
Effects(op, i) ==
    {<<i, "err">>} \cup
    CASE op = "provision" /\ i = "absent" ->
            {<<"running", "ok">>, <<"running", "err">>, <<"stopped", "err">>}
      [] op = "provision" -> {<<i, "exists">>}
      [] op = "delete" /\ i # "absent" -> {<<"absent", "ok">>, <<"stopped", "err">>}
      [] op = "start"  /\ i # "absent" -> {<<"running", "ok">>}
      [] op = "stop"   /\ i # "absent" -> {<<"stopped", "ok">>}
      [] OTHER -> {}

SetInst(v, i) ==
    /\ inst' = [inst EXCEPT ![v] = i]
    /\ created' = [created EXCEPT ![v] = @ \/ i = "running"]

NodeServes(t) ==
    LET v == task[t].vps IN
    /\ task[t].pc = "call" /\ task[t].reply = "none"
    /\ \E e \in Effects(task[t].op, inst[v]) :
          SetInst(v, e[1]) /\ task' = [task EXCEPT ![t].reply = e[2]]
    /\ UNCHANGED <<db, hb, late>>

\* The agent finishes, or drops, a call its client no longer waits for.
NodeServesLate(m) ==
    /\ m \in late /\ late' = late \ {m}
    /\ \E e \in Effects(m[1], inst[m[2]]) : SetInst(m[2], e[1])
    /\ UNCHANGED <<db, task, hb>>

NoTimeout(t) == FALSE   \* seeded fault: a client without a timeout

\* The agent client's HTTP timeout (15 s, the agent waits up to 60 s), or a
\* connection lost before or after the call was served.
CallTimesOut(t) ==
    /\ "timeout" \in Env /\ task[t].pc = "call" /\ task[t].reply \in {"none", "ok"}
    /\ Abandon({t})
    /\ task' = [task EXCEPT ![t].reply = "err"]
    /\ UNCHANGED <<db, hb, inst, created>>

\* Seeded fault of CallReturns: a ProviderError is logged and swallowed.
CallGoesOn(t) ==
    /\ task[t].pc = "call" /\ task[t].reply # "none"
    /\ task' = [task EXCEPT ![t].pc = "commit", ![t].ips = AddressesOf(task[t].vps)]
    /\ UNCHANGED <<db, hb, node>>

\* A call of a request failed: delete_vps and lifecycle_action set ERROR and raise
\* ProviderError, which rolls that back with the rest; a run goes on and fails.
Refused(c) == c.op # "provision" /\ c.reply # "ok"

\* The answer: a refused request ends with nothing written; otherwise the handler
\* goes on, delete and the failure path selecting the addresses to free.
CallReturns(t) ==
    LET c == task[t] IN
    /\ c.pc = "call" /\ c.reply # "none"
    /\ task' = [task EXCEPT ![t] =
          IF Refused(c) THEN Idle
          ELSE [c EXCEPT !.pc = "commit",
                  !.ips = IF c.op = "delete" \/ c.reply # "ok" THEN AddressesOf(c.vps) ELSE {}]]
    /\ UNCHANGED <<db, hb, node>>

-----------------------------------------------------------------------------
(* POST /ips/{id}/reserve and /release: the loaded row is kept in the task. *)

ReserveIp(t, a) ==
    /\ ipStatus[a] # "assigned"
    /\ Begin(t, "reserve", "commit", ipOwner[a], a, ipStatus[a])
    /\ UNCHANGED <<db, hb, node>>

ReleaseIp(t, a) ==
    /\ Begin(t, "release", "commit", ipOwner[a], a, ipStatus[a])
    /\ UNCHANGED <<db, hb, node>>

CommitIp(t) ==
    LET c == task[t]  new == IF c.op = "reserve" THEN "reserved" ELSE "available" IN
    /\ c.op \in {"reserve", "release"} /\ c.pc = "commit" /\ AddrFree(c.addr)
    /\ ipStatus' = IF c.loaded = new THEN ipStatus ELSE [ipStatus EXCEPT ![c.addr] = new]
    /\ ipOwner' = IF c.op = "release" /\ c.vps # NoVps
                  THEN [ipOwner EXCEPT ![c.addr] = NoVps] ELSE ipOwner
    /\ task' = [task EXCEPT ![t] = Idle]
    /\ UNCHANGED <<status, ipv4, aged, job, hb, node>>

-----------------------------------------------------------------------------
(* The heartbeat: the agent lists its instances, posts the list, and the   *)
(* control plane reconciles its rows with it and sweeps the stuck ones.    *)

HeartbeatInventory ==
    /\ hb.pc = "idle" /\ "heartbeat" \in Env
    /\ hb' = [hb EXCEPT !.pc = "sent", !.inv = inst]
    /\ UNCHANGED <<db, task, node>>

\* Seeded faults of Reconciled: transitional rows are not set apart; they are
\* never swept; an instance that is not reported is not looked at.
ReconciledAlways(v) ==
    IF status[v] \in {"none", "deleted", "error"} \/ hb.inv[v] = status[v] THEN "keep"
    ELSE IF hb.inv[v] = "absent" THEN "error" ELSE hb.inv[v]
ReconciledUnswept(v) ==
    IF status[v] \in Transitional THEN "keep" ELSE ReconciledAlways(v)
ReconciledReported(v) ==
    IF hb.inv[v] = "absent" THEN "keep" ELSE ReconciledAlways(v)

\* The status NodeService.heartbeat decides on for a row, or "keep".
Reconciled(v) ==
    LET cur == status[v]
        rep == hb.inv[v]
        swept == IF cur = "deleting" /\ rep = "absent" THEN "deleted" ELSE "error"
    IN IF cur \in Transitional THEN IF aged[v] THEN swept ELSE "keep"
       ELSE IF \/ cur = "none" \/ rep = cur
               \/ rep = "absent" /\ cur \in {"deleted", "error"} THEN "keep"
       ELSE IF rep = "absent" THEN "error" ELSE rep

Heartbeat ==
    /\ hb.pc = "sent"
    /\ hb' = [hb EXCEPT !.pc = "write", !.new = [v \in Vps |-> Reconciled(v)]]
    /\ UNCHANGED <<db, task, node>>

\* The commit of the request.  Only a completed deletion frees addresses.
CommitHeartbeat ==
    LET Written == {v \in Vps : hb.new[v] # "keep"} IN
    /\ hb.pc = "write" /\ \A v \in Written : RowFree(v)
    /\ status' = [v \in Vps |-> IF v \in Written THEN hb.new[v] ELSE status[v]]
    /\ aged' = [v \in Vps |-> v \notin Written /\ aged[v]]
    /\ FreeAddresses({a \in Addr : ipOwner[a] \in {v \in Vps : hb.new[v] = "deleted"}})
    /\ hb' = NoBeat
    /\ UNCHANGED <<ipv4, job, task, node>>

\* The post is lost, or refused by the control plane.
LoseHeartbeat == hb.pc = "sent" /\ hb' = NoBeat /\ UNCHANGED <<db, task, node>>

\* Thirty minutes pass without an update of the row.
Age(v) ==
    /\ "age" \in Env /\ status[v] \in Transitional /\ ~aged[v]
    /\ aged' = [aged EXCEPT ![v] = TRUE]
    /\ UNCHANGED <<status, ipv4, ipStatus, ipOwner, job, task, hb, node>>

\* The control plane dies and restarts: transactions are rolled back, the calls
\* the node had not served yet may still be served, jobs are found again.
Crash ==
    /\ "crash" \in Env /\ \E t \in Task : task[t] # Idle
    /\ Abandon(Task)
    /\ task' = [t \in Task |-> Idle] /\ hb' = NoBeat
    /\ UNCHANGED <<db, inst, created>>

-----------------------------------------------------------------------------
Request(t) ==
    \/ \E v \in Vps, a \in Addr \cup {NoAddr} : PrepareVps(t, v, a)
    \/ CommitCreate(t) \/ LoseClaim(t)
    \/ \E v \in Vps : DeleteVps(t, v)
    \/ FlushDeleting(t) \/ CommitDelete(t)
    \/ \E v \in Vps, op \in {"start", "stop"} : LifecycleAction(t, v, op)
    \/ CommitLifecycle(t)
    \/ \E a \in Addr : ReserveIp(t, a) \/ ReleaseIp(t, a)
    \/ CommitIp(t)

Run(t) ==
    \/ \E v \in Vps : StartRun(t, v)
    \/ ClaimJob(t) \/ ProvisionInSession(t) \/ CommitProvisioned(t)
    \/ FailVps(t) \/ MarkProvisionFailed(t) \/ Finish(t)

Call(t) == NodeServes(t) \/ CallTimesOut(t) \/ CallReturns(t)

Reconcile == HeartbeatInventory \/ Heartbeat \/ CommitHeartbeat \/ LoseHeartbeat

Next ==
    \/ \E t \in Task : Request(t) \/ Run(t) \/ Call(t)
    \/ \E m \in late : NodeServesLate(m)
    \/ Reconcile
    \/ \E v \in Vps : Age(v)
    \/ Crash

Spec == Init /\ [][Next]_vars

\* The event loop runs every task that can run; row locks and addresses are
\* granted in turn, hence strong fairness.  Nothing is assumed of the node: a
\* call it does not serve times out.  The agent posts every 30 s; a post may be
\* lost, but not every one of them.
Step(t) ==
    \/ CommitCreate(t) \/ LoseClaim(t) \/ FlushDeleting(t) \/ CommitDelete(t)
    \/ CommitLifecycle(t) \/ CommitIp(t) \/ ClaimJob(t) \/ ProvisionInSession(t)
    \/ CommitProvisioned(t) \/ FailVps(t) \/ Finish(t)
    \/ CallTimesOut(t) \/ CallReturns(t)
Fairness ==
    /\ \A t \in Task : SF_vars(Step(t))
    /\ WF_vars(HeartbeatInventory) /\ SF_vars(Heartbeat) /\ SF_vars(CommitHeartbeat)
    /\ \A v \in Vps : WF_vars(Age(v))
FairSpec == Spec /\ Fairness

-----------------------------------------------------------------------------
(* Properties.                                                             *)

TaskRecord ==
    [op : Events \cup {"none"},
     pc : {"idle", "claim", "load", "flush", "call", "commit", "finish"},
     vps : Vps \cup {NoVps}, addr : Addr \cup {NoAddr},
     loaded : Status \cup {"available", "reserved", "assigned"},
     reply : {"none", "ok", "err", "exists"}, ips : SUBSET Addr]
Beat == [pc : {"idle", "sent", "write"}, inv : [Vps -> Inst],
         new : [Vps -> Status \cup {"keep"}]]
TypeOK ==
    /\ status \in [Vps -> Status] /\ ipv4 \in [Vps -> Addr \cup {NoAddr}]
    /\ aged \in [Vps -> BOOLEAN]
    /\ ipStatus \in [Addr -> {"available", "reserved", "assigned"}]
    /\ ipOwner \in [Addr -> Vps \cup {NoVps}]
    /\ job \in [Vps -> {"none", "queued", "running", "succeeded", "failed"}]
    /\ task \in [Task -> TaskRecord] /\ hb \in Beat
    /\ inst \in [Vps -> Inst] /\ late \in SUBSET (NodeOps \X Vps)
    /\ created \in [Vps -> BOOLEAN]

\* An address names as its holder only a VPS whose row carries that address:
\* whatever releases and claims interleave, the two tables never disagree on
\* who was given an address (prepare_vps, _fail_vps, delete_vps, ips routes).
OwnerAgrees ==
    \A a \in Addr : ipOwner[a] # NoVps =>
        status[ipOwner[a]] # "none" /\ ipv4[ipOwner[a]] = a

\* A deleted VPS holds no address of the pool: a deletion gives back everything,
\* whatever failures, reservations or reconciliations happened around it.
DeletedHoldsNoAddress ==
    \A a \in Addr : ipOwner[a] # NoVps => status[ipOwner[a]] # "deleted"

\* ip_addresses.vps_id implements AddressPool: whatever creates, failures, deletions,
\* sweeps and releases interleave, an address is given only while nobody holds it,
\* to a VPS that holds none, and passes from one VPS to another by being free.
Pool == INSTANCE AddressPool WITH Addr <- Addr, Holder <- Vps, Nobody <- NoVps, holder <- ipOwner
KeepsPool == Pool!Spec

\* Without the administrator's reserve and release, an address is available
\* exactly when no VPS holds it: nothing is lost from the pool or offered twice.
PoolConsistent == \A a \in Addr : (ipStatus[a] = "available") <=> (ipOwner[a] = NoVps)

\* A job reported as succeeded has brought its instance up on the node at some
\* time, also when the run that reports it is a second one after a crash.
SucceededWasCreated == \A v \in Vps : job[v] = "succeeded" => created[v]

\* The job's status implements JobLifecycle whatever the runs do to the VPS: it is
\* submitted once, claimed once, ended only by a run that was claimed, and never
\* taken back by a run that read it before it ended (the conditional UPDATE).
Lifecycle == INSTANCE JobLifecycle WITH Job <- Vps, job <- job
KeepsLifecycle == Lifecycle!Spec

\* A fresh PROVISIONING row moves to ERROR only by _fail_vps, and then the VPS
\* holds no address any more, whatever happened since the run selected them.
FailureFreesAddresses ==
    [][\A v \in Vps : status[v] = "provisioning" /\ ~aged[v] /\ status'[v] = "error"
          => \A a \in Addr : ipOwner'[a] # v]_vars

\* Reconciliation leaves fresh PROVISIONING rows to the run that owns them, also
\* when the inventory it works with, or its own read of the rows, is old.
ReconcileSparesFresh ==
    [][CommitHeartbeat => \A v \in Vps :
          status[v] = "provisioning" /\ ~aged[v] => status'[v] = "provisioning"]_vars

\* A row becomes DELETED only after the node confirmed that it has deleted the
\* instance: a failed or unanswered deletion leaves the VPS listed.
DeletedAfterNode ==
    [][\A v \in Vps : status[v] # "deleted" /\ status'[v] = "deleted"
          => \E t \in Task : At(t, "delete", "commit") /\ task[t].vps = v
                             /\ task[t].reply = "ok"]_vars

\* A run or a lifecycle request that will write the status of its VPS.
Writing(c) == c.op \in {"provision", "start", "stop"} /\ c.pc \in {"call", "commit"}

\* A VPS is deleted and nothing that began before is left: no such task, no call
\* that may still create its instance, no heartbeat that reports it or that has
\* decided on its row.
Settled(v) ==
    /\ status[v] = "deleted" /\ inst[v] = "absent" /\ <<"provision", v>> \notin late
    /\ hb.inv[v] = "absent" /\ hb.new[v] = "keep"
    /\ \A t \in Task : task[t].vps = v => ~Writing(task[t])

\* A deletion may be undone only by what was under way when it was committed: once
\* that is over the VPS is gone for good, in its row and on the node, although its
\* job may be left "running" (by a crash, or by _finish) and is then run again, and
\* although heartbeats, the sweep and late calls go on (_provision_in_session,
\* get_vps_checked, NodeService.heartbeat).
DeletedStaysSettled == [][\A v \in Vps : Settled(v) => Settled(v)']_vars

\* Every request and every run ends, with the node up or not: calls time out, and
\* a task waits for a row lock only while a deletion's call is out.
\* (checked without crashes, which end all tasks by themselves)
EveryTaskEnds == \A t \in Task : task[t] # Idle ~> task[t] = Idle

\* A VPS does not stay PROVISIONING for ever, also when its run died or its job
\* was lost: the sweep ends what nothing else ends.
ProvisioningEnds == \A v \in Vps : status[v] = "provisioning" ~> status[v] # "provisioning"

\* A row that shows another state than the node's instance does not stay so:
\* instances stopped, started or removed behind the panel are found out.
Drift(v) == status[v] \in {"running", "stopped"} /\ inst[v] # status[v]
DriftHeals == \A v \in Vps : Drift(v) ~> ~Drift(v)

-----------------------------------------------------------------------------
(* What the documentation says and the code does not keep.                 *)

\* "Status machine: provisioning -> running/stopped/error -> deleted": nothing
\* leads out of DELETED.
DeletedIsFinal ==
    [][\A v \in Vps : status[v] = "deleted" => status'[v] = "deleted"]_vars

\* No two live VPS carry the same static address.
Live == {"provisioning", "running", "stopped"}
LiveAddressesDistinct ==
    \A v, w \in Vps : v # w /\ status[v] \in Live /\ status[w] \in Live
                      => ipv4[v] = NoAddr \/ ipv4[v] # ipv4[w]

\* A run started again after a crash never finds its own instance in the way:
\* re-enqueueing is idempotent.
RerunIsIdempotent == \A t \in Task : task[t].reply # "exists"

\* The VPS counted on the node never exceed its storage.
WithinCapacity == Used <= Capacity
=============================================================================
