-------------------------- MODULE VpsControlProofs --------------------------
(* Proofs about VpsControl, for any number of VPS, addresses and tasks.     *)
EXTENDS VpsControl, TLAPS

-----------------------------------------------------------------------------
(* The inductive invariant.                                                *)

\* What a task's step says of its operation and of the rows it names.
TaskShape ==
    \A t \in Task :
        /\ task[t].pc = "call" => task[t].op \in NodeOps
        /\ task[t].op \in NodeOps \cup {"create"} => task[t].vps \in Vps
TypeInv == TypeOK /\ TaskShape

\* The rows that jobs, tasks and the heartbeat in flight speak of exist, the one
\* a create is about to insert does not, and no other task has its identity.
RowsExist ==
    /\ \A v \in Vps : job[v] # "none" => status[v] # "none"
    /\ \A t \in Task : task[t].op \in NodeOps => status[task[t].vps] # "none"
    /\ \A v \in Vps : hb.new[v] # "keep" => status[v] # "none"
CreatesAreNew ==
    \A t \in Task : task[t].op = "create" =>
        /\ status[task[t].vps] = "none"
        /\ \A u \in Task \ {t} : task[u].vps # task[t].vps

\* DELETING is never committed, so reconciliation never completes a deletion, and
\* what it is about to write spares the fresh PROVISIONING rows.
NeverDeleting == \A v \in Vps : status[v] # "deleting"
BeatWrites ==
    \A v \in Vps :
        /\ hb.new[v] \in {"keep", "running", "stopped", "error"}
        /\ hb.new[v] # "keep" => status[v] # "provisioning" \/ aged[v]

\* A deletion or a failed run that is about to commit has selected every address
\* of its VPS, and the node has confirmed the deletion.
Releases(c) ==
    /\ c.pc = "commit"
    /\ c.op = "delete" \/ (c.op = "provision" /\ c.reply # "ok")
FreesAll ==
    \A t \in Task : Releases(task[t]) => AddressesOf(task[t].vps) \subseteq task[t].ips
DeletionConfirmed == \A t \in Task : At(t, "delete", "commit") => task[t].reply = "ok"

Inv ==
    /\ TypeInv /\ RowsExist /\ CreatesAreNew /\ NeverDeleting /\ BeatWrites
    /\ FreesAll /\ DeletionConfirmed /\ OwnerAgrees /\ DeletedHoldsNoAddress

-----------------------------------------------------------------------------
(* Lemmas about the operators.                                             *)

\* A task begins with a well-typed record, and the others keep theirs.
LEMMA BeginTyped ==
    ASSUME TypeOK, NEW t \in Task, NEW op \in Events,
           NEW pc \in {"claim", "flush", "call", "commit"},
           NEW v \in Vps \cup {NoVps}, NEW a \in Addr \cup {NoAddr},
           NEW s \in Status \cup {"available", "reserved", "assigned"},
           Begin(t, op, pc, v, a, s)
    PROVE  /\ task' \in [Task -> TaskRecord]
           /\ task'[t].op = op /\ task'[t].pc = pc /\ task'[t].vps = v
           /\ \A u \in Task \ {t} : task'[u] = task[u]
BY DEF TypeOK, Begin, TaskRecord, Idle

\* A task at rest is well typed.
LEMMA IdleTyped == Idle \in TaskRecord
BY DEF Idle, TaskRecord, Status

\* Whatever the node makes of a call, it leaves an instance and gives an answer.
LEMMA EffectsTyped ==
    ASSUME NEW op \in NodeOps, NEW i \in Inst, NEW e \in Effects(op, i)
    PROVE  e[1] \in Inst /\ e[2] \in {"ok", "err", "exists"}
BY DEF Effects, NodeOps, Inst

\* Writing a status, freeing addresses and setting an instance keep the types.
LEMMA WritesTyped ==
    ASSUME TypeOK
    PROVE  /\ \A v \in Vps, s \in Status, new \in Status :
                  WriteStatus(v, s, new) => /\ status' \in [Vps -> Status]
                                            /\ aged' \in [Vps -> BOOLEAN]
           /\ \A S \in SUBSET Addr :
                  FreeAddresses(S) =>
                      /\ ipStatus' \in [Addr -> {"available", "reserved", "assigned"}]
                      /\ ipOwner' \in [Addr -> Vps \cup {NoVps}]
           /\ \A v \in Vps, i \in Inst :
                  SetInst(v, i) => inst' \in [Vps -> Inst] /\ created' \in [Vps -> BOOLEAN]
BY DEF TypeOK, WriteStatus, FreeAddresses, SetInst

\* The calls a group of tasks gives up are calls of the node.
LEMMA AbandonTyped ==
    ASSUME TypeInv, NEW S \in SUBSET Task, Abandon(S)
    PROVE  late' \in SUBSET (NodeOps \X Vps)
<1>1. \A t \in S : task[t].pc = "call" => task[t].op \in NodeOps /\ task[t].vps \in Vps
  BY DEF TypeInv, TaskShape
<1>2. Unserved(S) \subseteq NodeOps \X Vps
  BY <1>1 DEF Unserved
<1> QED BY <1>2 DEF Abandon, TypeInv, TypeOK

\* Reconciliation decides on a status or keeps the row's.
LEMMA ReconciledTyped ==
    ASSUME TypeOK, NEW v \in Vps
    PROVE  Reconciled(v) \in Status \cup {"keep"}
BY DEF TypeOK, Beat, Reconciled, Status, Inst, Transitional

-----------------------------------------------------------------------------
(* Type correctness.                                                       *)

LEMMA TypeInit == Init => TypeInv
<1> SUFFICES ASSUME Init PROVE TypeInv
  OBVIOUS
<1>1. task \in [Task -> TaskRecord]
  BY IdleTyped DEF Init
<1>2. hb \in Beat
  BY DEF Init, NoBeat, Beat, Inst
<1>3. TypeOK
  BY <1>1, <1>2 DEF Init, TypeOK, Status, Inst
<1>4. TaskShape
  BY DEF Init, Idle, TaskShape, NodeOps
<1> QED BY <1>3, <1>4 DEF TypeInv

\* Every step of a request keeps the types.
LEMMA RequestTyped ==
    ASSUME TypeInv, NEW t \in Task, Request(t)
    PROVE  TypeInv'
<1> USE DEF TypeInv
<1>0. /\ {"create", "delete", "start", "stop", "reserve", "release"} \subseteq Events
      /\ "none" \in Status
  BY IdleTyped DEF Events, Status
<1>1. ASSUME NEW v \in Vps, NEW a \in Addr \cup {NoAddr}, PrepareVps(t, v, a)
      PROVE  TypeInv'
  <2>1. Begin(t, "create", "claim", v, a, "none")
    BY <1>1 DEF PrepareVps
  <2>2. /\ task' \in [Task -> TaskRecord]
        /\ task'[t].op = "create" /\ task'[t].pc = "claim" /\ task'[t].vps = v
        /\ \A u \in Task \ {t} : task'[u] = task[u]
    BY <1>0, <2>1, BeginTyped
  <2>3. TypeOK'
    BY <1>1, <2>2 DEF PrepareVps, TypeOK, db, node
  <2>4. TaskShape'
    BY <2>2 DEF TaskShape, NodeOps
  <2> QED BY <2>3, <2>4
<1>2. ASSUME CommitCreate(t) PROVE TypeInv'
  <2>1. TypeOK'
    BY <1>2, IdleTyped DEF CommitCreate, TypeOK, TaskShape, Status, At, node, TaskRecord, NodeOps
  <2>2. TaskShape'
    BY <1>2 DEF CommitCreate, TypeOK, TaskShape, NodeOps, Idle
  <2> QED BY <2>1, <2>2
<1>3. ASSUME LoseClaim(t) PROVE TypeInv'
  <2>1. TypeOK'
    BY <1>3, IdleTyped DEF LoseClaim, TypeOK, db, node
  <2>2. TaskShape'
    BY <1>3 DEF LoseClaim, TypeOK, TaskShape, NodeOps, Idle
  <2> QED BY <2>1, <2>2
<1>4. ASSUME NEW v \in Vps, DeleteVps(t, v) PROVE TypeInv'
  <2>1. Begin(t, "delete", "flush", v, NoAddr, status[v]) /\ status[v] \in Status
    BY <1>4 DEF DeleteVps, TypeOK
  <2>2. /\ task' \in [Task -> TaskRecord]
        /\ task'[t].op = "delete" /\ task'[t].pc = "flush" /\ task'[t].vps = v
        /\ \A u \in Task \ {t} : task'[u] = task[u]
    BY <1>0, <2>1, BeginTyped
  <2>3. TypeOK'
    BY <1>4, <2>2 DEF DeleteVps, TypeOK, db, node
  <2>4. TaskShape'
    BY <2>2 DEF TaskShape, NodeOps
  <2> QED BY <2>3, <2>4
<1>5. ASSUME FlushDeleting(t) PROVE TypeInv'
  <2>1. TypeOK'
    <3>1. task' \in [Task -> TaskRecord]
      BY <1>5 DEF FlushDeleting, TypeOK, TaskRecord
    <3> QED BY <1>5, <3>1 DEF FlushDeleting, TypeOK, db, node
  <2>2. TaskShape'
    BY <1>5 DEF FlushDeleting, At, TypeOK, TaskRecord, TaskShape, NodeOps
  <2> QED BY <2>1, <2>2
<1>6. ASSUME CommitDelete(t) PROVE TypeInv'
  <2>1. TypeOK'
    BY <1>6, IdleTyped, WritesTyped DEF CommitDelete, TypeOK, node, TaskRecord, Status
  <2>2. TaskShape'
    BY <1>6 DEF CommitDelete, TypeOK, TaskShape, NodeOps, Idle
  <2> QED BY <2>1, <2>2
<1>7. ASSUME NEW v \in Vps, NEW op \in {"start", "stop"}, LifecycleAction(t, v, op)
      PROVE  TypeInv'
  <2>1. Begin(t, op, "call", v, NoAddr, status[v]) /\ status[v] \in Status
    BY <1>7 DEF LifecycleAction, TypeOK
  <2>2. /\ task' \in [Task -> TaskRecord]
        /\ task'[t].op = op /\ task'[t].pc = "call" /\ task'[t].vps = v
        /\ \A u \in Task \ {t} : task'[u] = task[u]
    BY <1>0, <2>1, BeginTyped
  <2>3. TypeOK'
    BY <1>7, <2>2 DEF LifecycleAction, TypeOK, db, node
  <2>4. TaskShape'
    BY <2>2 DEF TaskShape, NodeOps
  <2> QED BY <2>3, <2>4
<1>8. ASSUME CommitLifecycle(t) PROVE TypeInv'
  <2>1. TypeOK'
    BY <1>8, IdleTyped DEF CommitLifecycle, WriteStatus, TypeOK, node, TaskRecord, Status
  <2>2. TaskShape'
    BY <1>8 DEF CommitLifecycle, TypeOK, TaskShape, NodeOps, Idle
  <2> QED BY <2>1, <2>2
<1>9. ASSUME NEW a \in Addr, ReserveIp(t, a) \/ ReleaseIp(t, a) PROVE TypeInv'
  <2>1. PICK op \in {"reserve", "release"} :
            Begin(t, op, "commit", ipOwner[a], a, ipStatus[a])
    BY <1>9 DEF ReserveIp, ReleaseIp
  <2>2. ipOwner[a] \in Vps \cup {NoVps} /\ ipStatus[a] \in {"available", "reserved", "assigned"}
    BY DEF TypeOK
  <2>3. /\ task' \in [Task -> TaskRecord]
        /\ task'[t].op = op /\ task'[t].pc = "commit"
        /\ \A u \in Task \ {t} : task'[u] = task[u]
    BY <1>0, <2>1, <2>2, BeginTyped
  <2>4. TypeOK'
    BY <1>9, <2>3 DEF ReserveIp, ReleaseIp, TypeOK, db, node
  <2>5. TaskShape'
    BY <2>3 DEF TaskShape, NodeOps
  <2> QED BY <2>4, <2>5
<1>10. ASSUME CommitIp(t) PROVE TypeInv'
  <2>1. TypeOK'
    BY <1>10, IdleTyped DEF CommitIp, TypeOK, node, TaskRecord
  <2>2. TaskShape'
    BY <1>10 DEF CommitIp, TypeOK, TaskShape, NodeOps, Idle
  <2> QED BY <2>1, <2>2
<1> QED BY <1>1, <1>2, <1>3, <1>4, <1>5, <1>6, <1>7, <1>8, <1>9, <1>10 DEF Request

\* Every step of a run keeps the types.
LEMMA RunTyped ==
    ASSUME TypeInv, NEW t \in Task, Run(t)
    PROVE  TypeInv'
<1> USE DEF TypeInv
<1>0. "provision" \in Events /\ {"none", "running", "error"} \subseteq Status
  BY DEF Events, Status
<1>1. ASSUME NEW v \in Vps, StartRun(t, v) PROVE TypeInv'
  <2>1. Begin(t, "provision", "claim", v, NoAddr, "none")
    BY <1>1 DEF StartRun
  <2>2. /\ task' \in [Task -> TaskRecord]
        /\ task'[t].op = "provision" /\ task'[t].pc = "claim" /\ task'[t].vps = v
        /\ \A u \in Task \ {t} : task'[u] = task[u]
    BY <1>0, <2>1, BeginTyped
  <2>3. TypeOK'
    BY <1>1, <2>2 DEF StartRun, TypeOK, db, node
  <2>4. TaskShape'
    BY <2>2 DEF TaskShape, NodeOps
  <2> QED BY <2>3, <2>4
<1>2. ASSUME ClaimJob(t) PROVE TypeInv'
  <2>1. task' \in [Task -> TaskRecord]
    BY <1>2, IdleTyped DEF ClaimJob, TypeOK, TaskRecord
  <2>2. job' \in [Vps -> {"none", "queued", "running", "succeeded", "failed"}]
    BY <1>2 DEF ClaimJob, TypeOK
  <2>3. TypeOK'
    BY <1>2, <2>1, <2>2 DEF ClaimJob, TypeOK, node
  <2>4. TaskShape'
    BY <1>2 DEF ClaimJob, At, TypeOK, TaskRecord, TaskShape, NodeOps, Idle
  <2> QED BY <2>3, <2>4
<1>3. ASSUME ProvisionInSession(t) PROVE TypeInv'
  <2>1. status[task[t].vps] \in Status
    BY <1>3 DEF ProvisionInSession, At, TypeOK, TaskShape, NodeOps
  <2>2. task' \in [Task -> TaskRecord]
    <3> DEFINE r == [task[t] EXCEPT
          !.pc     = IF status[task[t].vps] = "provisioning" THEN "call" ELSE "finish",
          !.loaded = status[task[t].vps],
          !.reply  = IF status[task[t].vps] = "running" THEN "ok"
                     ELSE IF status[task[t].vps] = "provisioning" THEN "none" ELSE "err"]
    <3>0. task[t] \in TaskRecord
      BY DEF TypeOK
    <3>1. r \in TaskRecord
      BY <2>1, <3>0 DEF TaskRecord
    <3>2. task' = [task EXCEPT ![t] = r]
      BY <1>3 DEF ProvisionInSession
    <3> QED BY <3>1, <3>2 DEF TypeOK
  <2>3. TypeOK'
    BY <1>3, <2>2 DEF ProvisionInSession, TypeOK, db, node
  <2>4. TaskShape'
    BY <1>3 DEF ProvisionInSession, At, TypeOK, TaskRecord, TaskShape, NodeOps
  <2> QED BY <2>3, <2>4
<1>4. ASSUME CommitProvisioned(t) PROVE TypeInv'
  <2>1. task' \in [Task -> TaskRecord]
    <3>1. task' = [task EXCEPT ![t].pc = "finish"]
      BY <1>4 DEF CommitProvisioned
    <3> QED BY <3>1 DEF TypeOK, TaskRecord
  <2>2. TypeOK'
    BY <1>0, <1>4, <2>1 DEF CommitProvisioned, WriteStatus, TypeOK, node
  <2>3. TaskShape'
    BY <1>4 DEF CommitProvisioned, At, TypeOK, TaskRecord, TaskShape, NodeOps
  <2> QED BY <2>2, <2>3
<1>5. ASSUME FailVps(t) PROVE TypeInv'
  <2>1. task' \in [Task -> TaskRecord] /\ task[t].ips \in SUBSET Addr
    BY <1>5 DEF FailVps, TypeOK, TaskRecord
  <2>2. TypeOK'
    BY <1>0, <1>5, <2>1, WritesTyped DEF FailVps, WriteStatus, TypeOK, node
  <2>3. TaskShape'
    BY <1>5 DEF FailVps, At, TypeOK, TaskRecord, TaskShape, NodeOps
  <2> QED BY <2>2, <2>3
<1>6. ASSUME MarkProvisionFailed(t) PROVE TypeInv'
  <2>1. status[task[t].vps] \in Status /\ AddressesOf(task[t].vps) \subseteq Addr
    BY <1>6 DEF MarkProvisionFailed, At, TypeOK, TaskShape, NodeOps, AddressesOf
  <2>2. task' \in [Task -> TaskRecord]
    <3> DEFINE r == [task[t] EXCEPT !.pc = "commit", !.reply = "err",
                        !.loaded = status[task[t].vps], !.ips = AddressesOf(task[t].vps)]
    <3>0. task[t] \in TaskRecord
      BY DEF TypeOK
    <3>1. r \in TaskRecord
      BY <2>1, <3>0 DEF TaskRecord
    <3>2. task' = [task EXCEPT ![t] = r]
      BY <1>6 DEF MarkProvisionFailed
    <3> QED BY <3>1, <3>2 DEF TypeOK
  <2>3. late' \in SUBSET (NodeOps \X Vps)
    BY <1>6, AbandonTyped DEF MarkProvisionFailed
  <2>4. TypeOK'
    BY <1>6, <2>2, <2>3 DEF MarkProvisionFailed, TypeOK, db
  <2>5. TaskShape'
    BY <1>6 DEF MarkProvisionFailed, At, TypeOK, TaskRecord, TaskShape, NodeOps
  <2> QED BY <2>4, <2>5
<1>7. ASSUME Finish(t) PROVE TypeInv'
  <2>1. job' \in [Vps -> {"none", "queued", "running", "succeeded", "failed"}]
    BY <1>7 DEF Finish, TypeOK
  <2>2. TypeOK'
    BY <1>7, <2>1, IdleTyped DEF Finish, TypeOK, node
  <2>3. TaskShape'
    BY <1>7 DEF Finish, TypeOK, TaskShape, NodeOps, Idle
  <2> QED BY <2>2, <2>3
<1> QED BY <1>1, <1>2, <1>3, <1>4, <1>5, <1>6, <1>7 DEF Run

\* So does every step of a call.
LEMMA CallTyped ==
    ASSUME TypeInv, NEW t \in Task, Call(t)
    PROVE  TypeInv'
<1> USE DEF TypeInv
<1>1. ASSUME NodeServes(t) PROVE TypeInv'
  <2> DEFINE v == task[t].vps
  <2>1. task[t].op \in NodeOps /\ v \in Vps /\ inst[v] \in Inst
    BY <1>1 DEF NodeServes, TypeOK, TaskShape
  <2>2. PICK e \in Effects(task[t].op, inst[v]) :
            SetInst(v, e[1]) /\ task' = [task EXCEPT ![t].reply = e[2]]
    BY <1>1 DEF NodeServes
  <2>3. e[1] \in Inst /\ e[2] \in {"ok", "err", "exists"}
    BY <2>1, EffectsTyped
  <2>4. task' \in [Task -> TaskRecord]
    <3>0. task[t] \in TaskRecord
      BY DEF TypeOK
    <3>1. [task[t] EXCEPT !.reply = e[2]] \in TaskRecord
      BY <2>3, <3>0 DEF TaskRecord
    <3>2. task' = [task EXCEPT ![t] = [task[t] EXCEPT !.reply = e[2]]]
      BY <2>2
    <3> QED BY <3>1, <3>2 DEF TypeOK
  <2>5. inst' \in [Vps -> Inst] /\ created' \in [Vps -> BOOLEAN]
    BY <2>1, <2>2, <2>3, WritesTyped
  <2>6. TypeOK'
    BY <1>1, <2>4, <2>5 DEF NodeServes, TypeOK, db
  <2>7. TaskShape'
    BY <2>2 DEF TypeOK, TaskRecord, TaskShape, NodeOps
  <2> QED BY <2>6, <2>7
<1>2. ASSUME CallTimesOut(t) PROVE TypeInv'
  <2>1. task' \in [Task -> TaskRecord]
    <3>0. task[t] \in TaskRecord
      BY DEF TypeOK
    <3>1. [task[t] EXCEPT !.reply = "err"] \in TaskRecord
      BY <3>0 DEF TaskRecord
    <3>2. task' = [task EXCEPT ![t] = [task[t] EXCEPT !.reply = "err"]]
      BY <1>2 DEF CallTimesOut
    <3> QED BY <3>1, <3>2 DEF TypeOK
  <2>2. late' \in SUBSET (NodeOps \X Vps)
    BY <1>2, AbandonTyped DEF CallTimesOut
  <2>3. TypeOK'
    BY <1>2, <2>1, <2>2 DEF CallTimesOut, TypeOK, db
  <2>4. TaskShape'
    BY <1>2 DEF CallTimesOut, TypeOK, TaskRecord, TaskShape, NodeOps
  <2> QED BY <2>3, <2>4
<1>3. ASSUME CallReturns(t) PROVE TypeInv'
  <2>1. AddressesOf(task[t].vps) \subseteq Addr
    BY DEF AddressesOf
  <2>2. task' \in [Task -> TaskRecord]
    <3> DEFINE S == IF task[t].op = "delete" \/ task[t].reply # "ok"
                    THEN AddressesOf(task[t].vps) ELSE {}
               r == [task[t] EXCEPT !.pc = "commit", !.ips = S]
    <3>0. task[t] \in TaskRecord
      BY DEF TypeOK
    <3>1. r \in TaskRecord
      BY <2>1, <3>0 DEF TaskRecord
    <3>2. task' = [task EXCEPT ![t] = Idle] \/ task' = [task EXCEPT ![t] = r]
      BY <1>3 DEF CallReturns
    <3> QED BY <3>1, <3>2, IdleTyped DEF TypeOK
  <2>3. TypeOK'
    BY <1>3, <2>2 DEF CallReturns, TypeOK, db, node
  <2>4. TaskShape'
    BY <1>3 DEF CallReturns, Refused, TypeOK, TaskRecord, TaskShape, NodeOps, Idle
  <2> QED BY <2>3, <2>4
<1> QED BY <1>1, <1>2, <1>3 DEF Call

\* And the steps of the node, the heartbeat, time and a crash.
LEMMA RestTyped ==
    ASSUME TypeInv,
           \/ \E m \in late : NodeServesLate(m)
           \/ Reconcile \/ (\E v \in Vps : Age(v)) \/ Crash
    PROVE  TypeInv'
<1> USE DEF TypeInv
<1>1. ASSUME NEW m \in late, NodeServesLate(m) PROVE TypeInv'
  <2>1. m[1] \in NodeOps /\ m[2] \in Vps /\ inst[m[2]] \in Inst
    BY DEF TypeOK
  <2>2. PICK e \in Effects(m[1], inst[m[2]]) : SetInst(m[2], e[1])
    BY <1>1 DEF NodeServesLate
  <2>3. e[1] \in Inst
    BY <2>1, EffectsTyped
  <2>4. inst' \in [Vps -> Inst] /\ created' \in [Vps -> BOOLEAN]
    BY <2>1, <2>2, <2>3, WritesTyped
  <2>5. TypeOK' /\ TaskShape'
    BY <1>1, <2>4 DEF NodeServesLate, TypeOK, db, TaskShape
  <2> QED BY <2>5
<1>2. ASSUME HeartbeatInventory \/ LoseHeartbeat PROVE TypeInv'
  <2>1. hb' \in Beat
    <3>1. CASE HeartbeatInventory
      BY <3>1 DEF HeartbeatInventory, Beat, TypeOK
    <3>2. CASE LoseHeartbeat
      BY <3>2 DEF LoseHeartbeat, NoBeat, Beat, Inst
    <3> QED BY <1>2, <3>1, <3>2
  <2>2. TypeOK' /\ TaskShape'
    BY <1>2, <2>1 DEF HeartbeatInventory, LoseHeartbeat, TypeOK, TaskShape, db, node
  <2> QED BY <2>2
<1>3. ASSUME Heartbeat PROVE TypeInv'
  <2>1. hb' \in Beat
    BY <1>3, ReconciledTyped DEF Heartbeat, Beat, TypeOK
  <2>2. TypeOK' /\ TaskShape'
    BY <1>3, <2>1 DEF Heartbeat, TypeOK, TaskShape, db, node
  <2> QED BY <2>2
<1>4. ASSUME CommitHeartbeat PROVE TypeInv'
  <2>1. hb' \in Beat
    BY <1>4 DEF CommitHeartbeat, NoBeat, Beat, Inst
  <2>2. /\ ipStatus' \in [Addr -> {"available", "reserved", "assigned"}]
        /\ ipOwner' \in [Addr -> Vps \cup {NoVps}]
    BY <1>4, WritesTyped DEF CommitHeartbeat
  <2>3. status' \in [Vps -> Status] /\ aged' \in [Vps -> BOOLEAN]
    BY <1>4 DEF CommitHeartbeat, TypeOK, Beat
  <2>4. TypeOK' /\ TaskShape'
    BY <1>4, <2>1, <2>2, <2>3 DEF CommitHeartbeat, TypeOK, TaskShape, node
  <2> QED BY <2>4
<1>5. ASSUME NEW v \in Vps, Age(v) PROVE TypeInv'
  BY <1>5 DEF Age, TypeOK, TaskShape, node
<1>6. ASSUME Crash PROVE TypeInv'
  <2>1. task' \in [Task -> TaskRecord] /\ hb' \in Beat
    BY <1>6, IdleTyped DEF Crash, NoBeat, Beat, Inst
  <2>2. late' \in SUBSET (NodeOps \X Vps)
    BY <1>6, AbandonTyped DEF Crash
  <2>3. TypeOK'
    BY <1>6, <2>1, <2>2 DEF Crash, TypeOK, db
  <2>4. TaskShape'
    BY <1>6 DEF Crash, TaskShape, Idle, NodeOps
  <2> QED BY <2>3, <2>4
<1> QED BY <1>1, <1>2, <1>3, <1>4, <1>5, <1>6 DEF Reconcile

LEMMA TypeStep == TypeInv /\ [Next]_vars => TypeInv'
<1> SUFFICES ASSUME TypeInv, [Next]_vars PROVE TypeInv'
  OBVIOUS
<1>1. ASSUME NEW t \in Task, Request(t) \/ Run(t) \/ Call(t) PROVE TypeInv'
  BY <1>1, RequestTyped, RunTyped, CallTyped
<1>2. ASSUME UNCHANGED vars PROVE TypeInv'
  BY <1>2 DEF vars, db, node, TypeInv, TypeOK, TaskShape
<1> QED BY <1>1, <1>2, RestTyped DEF Next

\* Whatever requests, runs, heartbeats and failures interleave, every row, task
\* and instance of the control plane keeps to its type.
THEOREM TypeCorrect == Spec => []TypeOK
<1>1. TypeInv => TypeOK
  BY DEF TypeInv
<1> QED BY <1>1, TypeInit, TypeStep, PTL DEF Spec

-----------------------------------------------------------------------------
(* What a step may do to a row, an address and a task.                     *)

\* A row is inserted by the commit of its create, deleted by the commit of its
\* deletion, and otherwise only moves between RUNNING, STOPPED and ERROR.
LEMMA StatusSteps ==
    ASSUME Inv, [Next]_vars, NEW v \in Vps
    PROVE  \/ status'[v] = status[v] /\ (aged'[v] = aged[v] \/ aged'[v])
           \/ \E t \in Task : CommitCreate(t) /\ v = task[t].vps
           \/ \E t \in Task : CommitDelete(t) /\ v = task[t].vps
           \/ status[v] # "none" /\ status'[v] \in {"running", "stopped", "error"}
<1> DEFINE Goal == \/ status'[v] = status[v] /\ (aged'[v] = aged[v] \/ aged'[v])
                   \/ \E t \in Task : CommitCreate(t) /\ v = task[t].vps
                   \/ \E t \in Task : CommitDelete(t) /\ v = task[t].vps
                   \/ status[v] # "none" /\ status'[v] \in {"running", "stopped", "error"}
<1>0. TypeInv /\ TypeOK /\ TaskShape /\ RowsExist /\ BeatWrites
  BY DEF Inv, TypeInv
<1>1. ASSUME NEW t \in Task, Request(t) PROVE Goal
  <2>1. CASE CommitCreate(t)
    BY <2>1, <1>0 DEF CommitCreate, TypeOK
  <2>2. CASE CommitDelete(t)
    BY <2>2, <1>0 DEF CommitDelete, TypeOK
  <2>3. CASE CommitLifecycle(t)
    BY <2>3, <1>0 DEF CommitLifecycle, WriteStatus, TypeOK, TaskShape, RowsExist, NodeOps
  <2>4. CASE UNCHANGED <<status, aged>>
    BY <2>4
  <2> QED
    BY <1>1, <2>1, <2>2, <2>3, <2>4 DEF Request, PrepareVps, LoseClaim, DeleteVps,
       FlushDeleting, LifecycleAction, ReserveIp, ReleaseIp, CommitIp, db
<1>2. ASSUME NEW t \in Task, Run(t) PROVE Goal
  <2>1. CASE CommitProvisioned(t)
    BY <2>1, <1>0 DEF CommitProvisioned, WriteStatus, At, TypeOK, TaskShape, RowsExist, NodeOps
  <2>2. CASE FailVps(t)
    BY <2>2, <1>0 DEF FailVps, WriteStatus, At, TypeOK, TaskShape, RowsExist, NodeOps
  <2>3. CASE UNCHANGED <<status, aged>>
    BY <2>3
  <2> QED
    BY <1>2, <2>1, <2>2, <2>3 DEF Run, StartRun, ClaimJob, ProvisionInSession,
       MarkProvisionFailed, Finish, db
<1>3. CASE CommitHeartbeat
  BY <1>3, <1>0 DEF CommitHeartbeat, TypeOK, RowsExist, BeatWrites
<1>4. ASSUME NEW w \in Vps, Age(w) PROVE Goal
  BY <1>4, <1>0 DEF Age, TypeOK
<1>5. CASE UNCHANGED <<status, aged>>
  BY <1>5
<1> QED
  BY <1>1, <1>2, <1>3, <1>4, <1>5 DEF Next, Call, NodeServes, CallTimesOut, CallReturns,
     NodeServesLate, Reconcile, HeartbeatInventory, Heartbeat, LoseHeartbeat, Crash, db, vars

\* An address keeps its holder, loses it, or is taken, free, by a create.
LEMMA OwnerSteps ==
    ASSUME Inv, [Next]_vars, NEW a \in Addr
    PROVE  \/ ipOwner'[a] = ipOwner[a]
           \/ ipOwner'[a] = NoVps
           \/ \E t \in Task : /\ CommitCreate(t) /\ a = task[t].addr
                               /\ ipOwner[a] = NoVps /\ ipOwner'[a] = task[t].vps
<1> DEFINE Goal == \/ ipOwner'[a] = ipOwner[a]
                   \/ ipOwner'[a] = NoVps
                   \/ \E t \in Task : /\ CommitCreate(t) /\ a = task[t].addr
                                       /\ ipOwner[a] = NoVps /\ ipOwner'[a] = task[t].vps
<1>0. TypeOK /\ NoAddr \notin Addr
  BY ConstantsAssumption DEF Inv, TypeInv, ConstantsAssumption
<1>1. ASSUME NEW t \in Task, CommitCreate(t) PROVE Goal
  BY <1>1, <1>0 DEF CommitCreate, ClaimSucceeds
<1>2. ASSUME NEW t \in Task, CommitDelete(t) \/ FailVps(t) PROVE Goal
  BY <1>2 DEF CommitDelete, FailVps, FreeAddresses
<1>3. ASSUME NEW t \in Task, CommitIp(t) PROVE Goal
  BY <1>3, <1>0 DEF CommitIp, TypeOK
<1>4. CASE CommitHeartbeat
  BY <1>4 DEF CommitHeartbeat, FreeAddresses
<1>5. CASE UNCHANGED ipOwner
  BY <1>5
<1> QED
  BY <1>1, <1>2, <1>3, <1>4, <1>5 DEF Next, Request, PrepareVps, LoseClaim, DeleteVps,
     FlushDeleting, LifecycleAction, CommitLifecycle, ReserveIp, ReleaseIp, Run, StartRun,
     ClaimJob, ProvisionInSession, CommitProvisioned, MarkProvisionFailed, Finish, Call,
     NodeServes, CallTimesOut, CallReturns, NodeServesLate, Reconcile, HeartbeatInventory,
     Heartbeat, LoseHeartbeat, Age, Crash, db, vars

\* A task ends, keeps its operation and its row, or begins: with a row that exists,
\* or, a create, with one that does not and that no task names.
LEMMA TaskSteps ==
    ASSUME Inv, [Next]_vars, NEW u \in Task
    PROVE  \/ task'[u] = Idle
           \/ task'[u].op = task[u].op /\ task'[u].vps = task[u].vps
           \/ /\ task'[u].op # "create" /\ UNCHANGED status
              /\ task'[u].vps = NoVps \/ status[task'[u].vps] # "none"
              /\ task'[u].op \in NodeOps => status[task'[u].vps] # "none"
           \/ /\ task'[u].op = "create" /\ status[task'[u].vps] = "none" /\ UNCHANGED status
              /\ \A w \in Task : task[w].vps # task'[u].vps
              /\ \A w \in Task \ {u} : task'[w] = task[w]
<1> DEFINE Same == task'[u].op = task[u].op /\ task'[u].vps = task[u].vps
           BeginsOther == /\ task'[u].op # "create" /\ UNCHANGED status
                          /\ task'[u].vps = NoVps \/ status[task'[u].vps] # "none"
                          /\ task'[u].op \in NodeOps => status[task'[u].vps] # "none"
           BeginsCreate == /\ task'[u].op = "create" /\ status[task'[u].vps] = "none"
                           /\ UNCHANGED status
                           /\ \A w \in Task : task[w].vps # task'[u].vps
                           /\ \A w \in Task \ {u} : task'[w] = task[w]
           Goal == task'[u] = Idle \/ Same \/ BeginsOther \/ BeginsCreate
<1>0. /\ TypeOK /\ TaskShape /\ RowsExist /\ OwnerAgrees
      /\ task \in [Task -> TaskRecord] /\ task[u] \in TaskRecord
  BY DEF Inv, TypeInv, TypeOK
<1>1. ASSUME NEW t \in Task, Request(t) PROVE Goal
  <2>1. ASSUME NEW v \in Vps, NEW a \in Addr \cup {NoAddr}, PrepareVps(t, v, a) PROVE Goal
    <3>1. CASE u = t
      BY <2>1, <3>1, <1>0 DEF PrepareVps, Begin, Idle, db
    <3>2. CASE u # t
      BY <2>1, <3>2, <1>0 DEF PrepareVps, Begin
    <3> QED BY <3>1, <3>2
  <2>2. ASSUME CommitCreate(t) \/ LoseClaim(t) \/ CommitDelete(t) \/ CommitLifecycle(t)
               \/ CommitIp(t)
        PROVE  Goal
    BY <2>2, <1>0 DEF CommitCreate, LoseClaim, CommitDelete, CommitLifecycle, CommitIp
  <2>3. ASSUME NEW v \in Vps, DeleteVps(t, v) PROVE Goal
    <3>1. CASE u = t
      BY <2>3, <3>1, <1>0 DEF DeleteVps, Visible, Begin, Idle, db
    <3>2. CASE u # t
      BY <2>3, <3>2, <1>0 DEF DeleteVps, Begin
    <3> QED BY <3>1, <3>2
  <2>4. ASSUME FlushDeleting(t) PROVE Goal
    BY <2>4, <1>0 DEF FlushDeleting, TaskRecord
  <2>5. ASSUME NEW v \in Vps, NEW op \in {"start", "stop"}, LifecycleAction(t, v, op)
        PROVE  Goal
    <3>1. CASE u = t
      BY <2>5, <3>1, <1>0 DEF LifecycleAction, Visible, Begin, Idle, db
    <3>2. CASE u # t
      BY <2>5, <3>2, <1>0 DEF LifecycleAction, Begin
    <3> QED BY <3>1, <3>2
  <2>6. ASSUME NEW a \in Addr, ReserveIp(t, a) \/ ReleaseIp(t, a) PROVE Goal
    <3>1. ipOwner[a] = NoVps \/ status[ipOwner[a]] # "none"
      BY <1>0 DEF OwnerAgrees
    <3>2. CASE u = t
      <4>1. PICK op \in {"reserve", "release"} :
                Begin(t, op, "commit", ipOwner[a], a, ipStatus[a]) /\ UNCHANGED status
        BY <2>6 DEF ReserveIp, ReleaseIp, db
      <4>2. task'[u].op = op /\ task'[u].vps = ipOwner[a]
        BY <3>2, <4>1, <1>0 DEF Begin, Idle
      <4> QED BY <3>1, <4>1, <4>2 DEF NodeOps
    <3>3. CASE u # t
      BY <2>6, <3>3, <1>0 DEF ReserveIp, ReleaseIp, Begin
    <3> QED BY <3>2, <3>3
  <2> QED BY <1>1, <2>1, <2>2, <2>3, <2>4, <2>5, <2>6 DEF Request
<1>2. ASSUME NEW t \in Task, Run(t) PROVE Goal
  <2>1. ASSUME NEW v \in Vps, StartRun(t, v) PROVE Goal
    <3>1. status[v] # "none"
      BY <2>1, <1>0 DEF StartRun, RowsExist
    <3>2. CASE u = t
      BY <2>1, <3>1, <3>2, <1>0 DEF StartRun, Begin, Idle, db
    <3>3. CASE u # t
      BY <2>1, <3>3, <1>0 DEF StartRun, Begin
    <3> QED BY <3>2, <3>3
  <2>2. ASSUME ClaimJob(t) PROVE Goal
    BY <2>2, <1>0 DEF ClaimJob, TaskRecord
  <2>3. ASSUME ProvisionInSession(t) PROVE Goal
    BY <2>3, <1>0 DEF ProvisionInSession, TaskRecord
  <2>4. ASSUME CommitProvisioned(t) \/ FailVps(t) PROVE Goal
    <3>1. task' = [task EXCEPT ![t].pc = "finish"]
      BY <2>4 DEF CommitProvisioned, FailVps
    <3> QED BY <3>1, <1>0 DEF TaskRecord
  <2>5. ASSUME MarkProvisionFailed(t) PROVE Goal
    BY <2>5, <1>0 DEF MarkProvisionFailed, TaskRecord
  <2>6. ASSUME Finish(t) PROVE Goal
    BY <2>6, <1>0 DEF Finish
  <2> QED BY <1>2, <2>1, <2>2, <2>3, <2>4, <2>5, <2>6 DEF Run
<1>3. ASSUME NEW t \in Task, Call(t) PROVE Goal
  <2>1. ASSUME NodeServes(t) PROVE Same
    BY <2>1, <1>0 DEF NodeServes, TaskRecord
  <2>2. ASSUME CallTimesOut(t) PROVE Same
    BY <2>2, <1>0 DEF CallTimesOut, TaskRecord
  <2>3. ASSUME CallReturns(t) PROVE Goal
    BY <2>3, <1>0 DEF CallReturns, Refused, TaskRecord
  <2> QED BY <1>3, <2>1, <2>2, <2>3 DEF Call
<1>4. CASE Crash
  BY <1>4 DEF Crash
<1>5. CASE UNCHANGED task
  BY <1>5
<1> QED
  BY <1>1, <1>2, <1>3, <1>4, <1>5 DEF Next, NodeServesLate, Reconcile, HeartbeatInventory,
     Heartbeat, CommitHeartbeat, LoseHeartbeat, Age, vars

\* A job's status is written by its create, by claims and by the ends of runs.
LEMMA JobWriters ==
    ASSUME [Next]_vars
    PROVE  UNCHANGED job \/ \E t \in Task : CommitCreate(t) \/ ClaimJob(t) \/ Finish(t)
BY DEF Next, Request, PrepareVps, LoseClaim, DeleteVps, CommitDelete, FlushDeleting,
   LifecycleAction, CommitLifecycle, ReserveIp, ReleaseIp, CommitIp, Run, StartRun,
   ProvisionInSession, CommitProvisioned, FailVps, MarkProvisionFailed, Call, NodeServes,
   CallTimesOut, CallReturns, NodeServesLate, Reconcile, HeartbeatInventory, Heartbeat,
   CommitHeartbeat, LoseHeartbeat, Age, Crash, db, vars

\* A job's status is only written for a row that exists afterwards.
LEMMA JobSteps ==
    ASSUME Inv, [Next]_vars, NEW v \in Vps
    PROVE  job'[v] = job[v] \/ status'[v] # "none"
<1>0. TypeOK /\ TaskShape /\ RowsExist
  BY DEF Inv, TypeInv
<1>1. ASSUME NEW t \in Task, CommitCreate(t) PROVE job'[v] = job[v] \/ status'[v] # "none"
  BY <1>1, <1>0 DEF CommitCreate, TypeOK
<1>2. ASSUME NEW t \in Task, ClaimJob(t) \/ Finish(t)
      PROVE  job'[v] = job[v] \/ status'[v] # "none"
  BY <1>2, <1>0 DEF ClaimJob, Finish, At, TypeOK, RowsExist, NodeOps
<1> QED BY <1>1, <1>2, JobWriters

\* Reconciliation decides to move only rows that exist and are not fresh.
LEMMA BeatSteps ==
    ASSUME Inv, [Next]_vars, NEW v \in Vps
    PROVE  \/ hb'.new[v] = "keep"
           \/ hb'.new[v] = hb.new[v] /\ hb.new[v] # "keep" /\ ~CommitHeartbeat
           \/ /\ hb'.new[v] \in {"running", "stopped", "error"} /\ status[v] # "none"
              /\ status[v] # "provisioning" \/ aged[v]
              /\ UNCHANGED <<status, aged>>
<1> DEFINE Goal == \/ hb'.new[v] = "keep"
                   \/ hb'.new[v] = hb.new[v] /\ hb.new[v] # "keep" /\ ~CommitHeartbeat
                   \/ /\ hb'.new[v] \in {"running", "stopped", "error"} /\ status[v] # "none"
                      /\ status[v] # "provisioning" \/ aged[v]
                      /\ UNCHANGED <<status, aged>>
<1>0. TypeOK /\ NeverDeleting /\ BeatWrites
  BY DEF Inv, TypeInv
<1>1. CASE Heartbeat
  <2>1. hb.inv[v] \in Inst /\ status[v] # "deleting"
    BY <1>0 DEF TypeOK, Beat, NeverDeleting
  <2>2. hb'.new[v] = Reconciled(v) /\ UNCHANGED <<status, aged>>
    BY <1>1, <1>0 DEF Heartbeat, TypeOK, Beat, db
  <2> QED BY <2>1, <2>2 DEF Reconciled, Transitional, Inst
<1>2. CASE CommitHeartbeat \/ LoseHeartbeat \/ Crash
  BY <1>2 DEF CommitHeartbeat, LoseHeartbeat, Crash, NoBeat
<1>3. CASE hb'.new = hb.new /\ ~CommitHeartbeat
  BY <1>3
<1>4. CASE HeartbeatInventory
  BY <1>4, <1>0 DEF HeartbeatInventory, CommitHeartbeat, TypeOK, Beat
<1> QED
  BY <1>1, <1>2, <1>3, <1>4 DEF Next, Request, PrepareVps, CommitCreate, LoseClaim, DeleteVps,
     CommitDelete, FlushDeleting, LifecycleAction, CommitLifecycle, ReserveIp, ReleaseIp,
     CommitIp, Run, StartRun, ClaimJob, ProvisionInSession, CommitProvisioned, FailVps,
     MarkProvisionFailed, Finish, Call, NodeServes, CallTimesOut, CallReturns, NodeServesLate,
     Reconcile, Age, vars

\* A row that exists is never removed, and one that appears is a create's.
LEMMA RowsStay ==
    ASSUME Inv, [Next]_vars, NEW v \in Vps
    PROVE  /\ status[v] # "none" => status'[v] # "none"
           /\ status[v] = "none" /\ status'[v] # "none" =>
                  \E t \in Task : CommitCreate(t) /\ v = task[t].vps
<1>0. TypeOK /\ TaskShape /\ RowsExist
  BY DEF Inv, TypeInv
<1>1. ASSUME NEW t \in Task, CommitCreate(t), v = task[t].vps
      PROVE  status'[v] = "provisioning"
  BY <1>1, <1>0 DEF CommitCreate, TypeOK
<1>2. ASSUME NEW t \in Task, CommitDelete(t), v = task[t].vps
      PROVE  status'[v] = "deleted" /\ status[v] # "none"
  BY <1>2, <1>0 DEF CommitDelete, At, TypeOK, RowsExist, NodeOps
<1> QED BY <1>1, <1>2, StatusSteps

\* The address a row carries is written by its create alone.
LEMMA Ipv4Steps ==
    ASSUME Inv, [Next]_vars
    PROVE  UNCHANGED ipv4 \/ \E t \in Task : CommitCreate(t)
BY DEF Next, Request, PrepareVps, LoseClaim, DeleteVps, CommitDelete, FlushDeleting,
   LifecycleAction, CommitLifecycle, ReserveIp, ReleaseIp, CommitIp, Run, StartRun, ClaimJob,
   ProvisionInSession, CommitProvisioned, FailVps, MarkProvisionFailed, Finish, Call,
   NodeServes, CallTimesOut, CallReturns, NodeServesLate, Reconcile, HeartbeatInventory,
   Heartbeat, CommitHeartbeat, LoseHeartbeat, Age, Crash, db, vars

\* A deletion or a run reaches its commit from its call, selecting the addresses it
\* will free in that step; a deletion does so only with the node's confirmation.
LEMMA CommitSteps ==
    ASSUME Inv, [Next]_vars, NEW u \in Task,
           task'[u].pc = "commit", task'[u].op \in {"delete", "provision"}
    PROVE  \/ task'[u] = task[u]
           \/ /\ UNCHANGED ipOwner
              /\ task'[u].op = task[u].op /\ task'[u].vps = task[u].vps
              /\ Releases(task'[u]) => task'[u].ips = AddressesOf(task[u].vps)
              /\ task'[u].op = "delete" => task'[u].reply = "ok"
<1> DEFINE Selects == /\ UNCHANGED ipOwner
                      /\ task'[u].op = task[u].op /\ task'[u].vps = task[u].vps
                      /\ Releases(task'[u]) => task'[u].ips = AddressesOf(task[u].vps)
                      /\ task'[u].op = "delete" => task'[u].reply = "ok"
           Goal == task'[u] = task[u] \/ Selects
<1>0. TypeOK /\ TaskShape /\ task \in [Task -> TaskRecord] /\ task[u] \in TaskRecord
  BY DEF Inv, TypeInv, TypeOK
<1>1. ASSUME NEW t \in Task, t # u, Request(t) \/ Run(t) \/ Call(t)
      PROVE  task'[u] = task[u]
  <2>1. ASSUME NEW op, NEW pc, NEW v, NEW a, NEW s, Begin(t, op, pc, v, a, s)
        PROVE  task'[u] = task[u]
    BY <1>1, <2>1, <1>0 DEF Begin
  <2>2. CASE Request(t)
    BY <1>1, <2>1, <2>2, <1>0 DEF Request, PrepareVps, CommitCreate, LoseClaim, DeleteVps,
       CommitDelete, FlushDeleting, LifecycleAction, CommitLifecycle, ReserveIp, ReleaseIp,
       CommitIp
  <2>3. CASE Run(t)
    BY <1>1, <2>1, <2>3, <1>0 DEF Run, StartRun, ClaimJob, ProvisionInSession,
       CommitProvisioned, FailVps, MarkProvisionFailed, Finish
  <2>4. CASE Call(t)
    BY <1>1, <2>4, <1>0 DEF Call, NodeServes, CallTimesOut, CallReturns
  <2> QED BY <1>1, <2>2, <2>3, <2>4
<1>2. ASSUME Request(u) PROVE Goal
  <2>1. task'[u].pc # "commit" \/ task'[u].op \in {"reserve", "release"}
    <3>1. ASSUME NEW op \in Events, NEW pc \in {"claim", "flush", "call", "commit"},
                 NEW v \in Vps \cup {NoVps}, NEW a \in Addr \cup {NoAddr},
                 NEW s \in Status \cup {"available", "reserved", "assigned"},
                 Begin(u, op, pc, v, a, s)
          PROVE  task'[u].pc = pc /\ task'[u].op = op
      BY <3>1, <1>0 DEF Begin, Idle
    <3>2. ASSUME NEW v \in Vps, NEW a \in Addr \cup {NoAddr}, PrepareVps(u, v, a)
          PROVE  task'[u].pc # "commit"
      BY <3>1, <3>2 DEF PrepareVps, Events, Status
    <3>3. ASSUME NEW v \in Vps, DeleteVps(u, v) PROVE task'[u].pc # "commit"
      BY <3>1, <3>3, <1>0 DEF DeleteVps, Events, Status, TypeOK
    <3>4. ASSUME NEW v \in Vps, NEW op \in {"start", "stop"}, LifecycleAction(u, v, op)
          PROVE  task'[u].pc # "commit"
      BY <3>1, <3>4, <1>0 DEF LifecycleAction, Events, Status, TypeOK
    <3>5. ASSUME NEW a \in Addr, ReserveIp(u, a) \/ ReleaseIp(u, a)
          PROVE  task'[u].op \in {"reserve", "release"}
      BY <3>1, <3>5, <1>0 DEF ReserveIp, ReleaseIp, Events, TypeOK
    <3>6. ASSUME FlushDeleting(u) PROVE task'[u].pc # "commit"
      BY <3>6, <1>0 DEF FlushDeleting, TaskRecord
    <3>7. ASSUME CommitCreate(u) \/ LoseClaim(u) \/ CommitDelete(u) \/ CommitLifecycle(u)
                 \/ CommitIp(u)
          PROVE  task'[u].pc # "commit"
      <4>1. task'[u] = Idle
        BY <3>7, <1>0 DEF CommitCreate, LoseClaim, CommitDelete, CommitLifecycle, CommitIp
      <4> QED BY <4>1 DEF Idle
    <3> QED BY <1>2, <3>2, <3>3, <3>4, <3>5, <3>6, <3>7 DEF Request
  <2> QED BY <2>1
<1>3. ASSUME Run(u) PROVE Goal
  <2>1. ASSUME NEW v \in Vps, StartRun(u, v) PROVE task'[u].pc # "commit"
    <3>1. Begin(u, "provision", "claim", v, NoAddr, "none")
      BY <2>1 DEF StartRun
    <3> QED BY <3>1, <1>0, BeginTyped DEF Events, Status
  <2>2. ASSUME ClaimJob(u) \/ Finish(u) PROVE task'[u].pc # "commit"
    BY <2>2, <1>0 DEF ClaimJob, Finish, Idle, TaskRecord
  <2>3. ASSUME ProvisionInSession(u) PROVE task'[u].pc # "commit"
    BY <2>3, <1>0 DEF ProvisionInSession, TaskRecord
  <2>4. ASSUME CommitProvisioned(u) \/ FailVps(u) PROVE task'[u].pc # "commit"
    <3>1. task' = [task EXCEPT ![u].pc = "finish"]
      BY <2>4 DEF CommitProvisioned, FailVps
    <3> QED BY <3>1, <1>0 DEF TaskRecord
  <2>5. ASSUME MarkProvisionFailed(u) PROVE Selects
    BY <2>5, <1>0 DEF MarkProvisionFailed, At, TaskRecord, db
  <2> QED BY <1>3, <2>1, <2>2, <2>3, <2>4, <2>5 DEF Run
<1>4. ASSUME Call(u) PROVE Goal
  <2>1. ASSUME NodeServes(u) \/ CallTimesOut(u) PROVE task'[u].pc # "commit"
    BY <2>1, <1>0 DEF NodeServes, CallTimesOut, TaskRecord
  <2>2. ASSUME CallReturns(u) PROVE Selects
    <3>1. task'[u] # Idle
      BY DEF Idle
    <3> DEFINE S == IF task[u].op = "delete" \/ task[u].reply # "ok"
                    THEN AddressesOf(task[u].vps) ELSE {}
               r == [task[u] EXCEPT !.pc = "commit", !.ips = S]
    <3>2. /\ task[u].reply = "ok" \/ task[u].op = "provision"
          /\ task'[u] = r
          /\ UNCHANGED ipOwner
      BY <2>2, <3>1, <1>0 DEF CallReturns, Refused, db
    <3> QED BY <3>2, <1>0 DEF Releases, TaskRecord
  <2> QED BY <1>4, <2>1, <2>2 DEF Call
<1>5. CASE Crash
  BY <1>5 DEF Crash, Idle
<1>6. CASE UNCHANGED task
  BY <1>6
<1> QED
  BY <1>1, <1>2, <1>3, <1>4, <1>5, <1>6 DEF Next, NodeServesLate, Reconcile,
     HeartbeatInventory, Heartbeat, CommitHeartbeat, LoseHeartbeat, Age, vars

-----------------------------------------------------------------------------
(* The invariant holds initially and is kept by every step.                *)

LEMMA InvInit == Init => Inv
<1> SUFFICES ASSUME Init PROVE Inv
  OBVIOUS
<1>1. TypeInv
  BY TypeInit
<1>2. RowsExist /\ CreatesAreNew /\ NeverDeleting /\ BeatWrites
  BY DEF Init, Idle, NoBeat, NodeOps, RowsExist, CreatesAreNew, NeverDeleting, BeatWrites
<1>3. FreesAll /\ DeletionConfirmed /\ OwnerAgrees /\ DeletedHoldsNoAddress
  BY DEF Init, Idle, FreesAll, Releases, DeletionConfirmed, At, OwnerAgrees,
     DeletedHoldsNoAddress
<1> QED BY <1>1, <1>2, <1>3 DEF Inv

LEMMA RowsExistStep == Inv /\ [Next]_vars => RowsExist'
<1> SUFFICES ASSUME Inv, [Next]_vars PROVE RowsExist'
  OBVIOUS
<1>0. RowsExist /\ TypeOK /\ TaskShape
  BY DEF Inv, TypeInv
<1>1. ASSUME NEW v \in Vps, job'[v] # "none" PROVE status'[v] # "none"
  BY <1>1, <1>0, JobSteps, RowsStay DEF RowsExist
<1>2. ASSUME NEW t \in Task, task'[t].op \in NodeOps PROVE status'[task'[t].vps] # "none"
  <2>1. CASE task'[t].op = task[t].op /\ task'[t].vps = task[t].vps
    BY <1>0, <1>2, <2>1, RowsStay DEF RowsExist, TaskShape
  <2>2. task'[t] # Idle /\ task'[t].op # "create"
    BY <1>2 DEF Idle, NodeOps
  <2> QED BY <1>2, <2>1, <2>2, TaskSteps
<1>3. ASSUME NEW v \in Vps, hb'.new[v] # "keep" PROVE status'[v] # "none"
  BY <1>0, <1>3, BeatSteps, RowsStay DEF RowsExist
<1> QED BY <1>1, <1>2, <1>3 DEF RowsExist

\* Two creates never share an identity, and none has the identity of a row.
LEMMA CreatesAreNewStep == Inv /\ [Next]_vars => CreatesAreNew'
<1> SUFFICES ASSUME Inv, [Next]_vars, NEW t \in Task, task'[t].op = "create"
             PROVE  /\ status'[task'[t].vps] = "none"
                    /\ \A u \in Task \ {t} : task'[u].vps # task'[t].vps
  BY DEF CreatesAreNew
<1>0. /\ TypeOK /\ TaskShape /\ TaskShape' /\ RowsExist /\ CreatesAreNew
      /\ task \in [Task -> TaskRecord]
  BY TypeStep DEF Inv, TypeInv, TypeOK
<1>1. task'[t] # Idle
  BY DEF Idle
<1>2. CASE task'[t].op = task[t].op /\ task'[t].vps = task[t].vps
  <2> DEFINE v == task[t].vps
  <2>1. v \in Vps /\ status[v] = "none" /\ v # NoVps
    BY <1>0, <1>2, ConstantsAssumption DEF TaskShape, CreatesAreNew, ConstantsAssumption
  <2>2. ASSUME NEW w \in Task, CommitCreate(w) PROVE task[w].vps # v
    <3>1. task'[w] = Idle /\ At(w, "create", "claim")
      BY <2>2, <1>0 DEF CommitCreate
    <3> QED BY <3>1, <1>0, <1>1, <1>2 DEF CreatesAreNew, At
  <2>3. status'[v] = "none"
    BY <2>1, <2>2, RowsStay
  <2>4. ASSUME NEW u \in Task \ {t} PROVE task'[u].vps # v
    <3>1. task[u].vps # v
      BY <1>0, <1>2 DEF CreatesAreNew
    <3>2. CASE task'[u] = Idle
      BY <3>2, <2>1 DEF Idle
    <3> QED BY <3>1, <3>2, <2>1, TaskSteps
  <2> QED BY <1>2, <2>3, <2>4
<1>3. CASE /\ status[task'[t].vps] = "none" /\ UNCHANGED status
           /\ \A w \in Task : task[w].vps # task'[t].vps
           /\ \A w \in Task \ {t} : task'[w] = task[w]
  BY <1>3
<1> QED BY <1>1, <1>2, <1>3, TaskSteps

LEMMA BeatStep == Inv /\ [Next]_vars => NeverDeleting' /\ BeatWrites'
<1> SUFFICES ASSUME Inv, [Next]_vars, NEW v \in Vps
             PROVE  /\ status'[v] # "deleting"
                    /\ hb'.new[v] \in {"keep", "running", "stopped", "error"}
                    /\ hb'.new[v] # "keep" => status'[v] # "provisioning" \/ aged'[v]
  BY DEF NeverDeleting, BeatWrites
<1>0. TypeOK /\ RowsExist /\ CreatesAreNew /\ NeverDeleting /\ BeatWrites
  BY DEF Inv, TypeInv
<1>1. ASSUME NEW t \in Task, CommitCreate(t), v = task[t].vps
      PROVE  status[v] = "none" /\ status'[v] = "provisioning"
  BY <1>1, <1>0 DEF CommitCreate, At, CreatesAreNew, TypeOK
<1>2. ASSUME NEW t \in Task, CommitDelete(t), v = task[t].vps
      PROVE  status'[v] = "deleted"
  BY <1>2, <1>0 DEF CommitDelete, TypeOK
<1>3. status'[v] # "deleting"
  BY <1>0, <1>1, <1>2, StatusSteps DEF NeverDeleting
<1>4. hb'.new[v] \in {"keep", "running", "stopped", "error"}
  BY <1>0, BeatSteps DEF BeatWrites
<1>5. ASSUME hb'.new[v] # "keep" PROVE status'[v] # "provisioning" \/ aged'[v]
  <2>1. CASE hb'.new[v] = hb.new[v] /\ hb.new[v] # "keep"
    <3>1. status[v] # "none" /\ (status[v] # "provisioning" \/ aged[v])
      BY <2>1, <1>0 DEF RowsExist, BeatWrites
    <3> QED BY <3>1, <1>1, <1>2, StatusSteps
  <2> QED BY <1>5, <2>1, BeatSteps
<1> QED BY <1>3, <1>4, <1>5

\* What a deletion or a failing run has selected stays all its VPS holds: a row's
\* only create is over when they begin.
LEMMA FreesAllStep == Inv /\ [Next]_vars => FreesAll' /\ DeletionConfirmed'
<1> SUFFICES ASSUME Inv, [Next]_vars PROVE FreesAll' /\ DeletionConfirmed'
  OBVIOUS
<1>0. TypeOK /\ TaskShape /\ RowsExist /\ CreatesAreNew /\ FreesAll /\ DeletionConfirmed
  BY DEF Inv, TypeInv
<1>1. ASSUME NEW t \in Task, Releases(task'[t])
      PROVE  \A a \in Addr : ipOwner'[a] = task'[t].vps => a \in task'[t].ips
  <2>1. task'[t].pc = "commit" /\ task'[t].op \in {"delete", "provision"}
    BY <1>1 DEF Releases
  <2>2. /\ task'[t].op = task[t].op /\ task'[t].vps = task[t].vps
        /\ AddressesOf(task[t].vps) \subseteq task'[t].ips
    BY <1>0, <1>1, <2>1, CommitSteps DEF FreesAll
  <2>3. /\ task[t].vps \in Vps /\ status[task[t].vps] # "none" /\ task[t].vps # NoVps
    BY <1>0, <2>1, <2>2, ConstantsAssumption
       DEF TaskShape, RowsExist, NodeOps, ConstantsAssumption
  <2>4. ASSUME NEW a \in Addr, ipOwner'[a] = task[t].vps PROVE ipOwner[a] = task[t].vps
    <3>1. ASSUME NEW w \in Task, CommitCreate(w) PROVE task[w].vps # task[t].vps
      BY <3>1, <2>3, <1>0 DEF CommitCreate, At, CreatesAreNew
    <3> QED BY <2>3, <2>4, <3>1, OwnerSteps
  <2> QED BY <2>2, <2>4 DEF AddressesOf
<1>2. ASSUME NEW t \in Task, task'[t].op = "delete", task'[t].pc = "commit"
      PROVE  task'[t].reply = "ok"
  BY <1>0, <1>2, CommitSteps DEF At, DeletionConfirmed
<1>3. FreesAll'
  BY <1>1 DEF FreesAll, Releases, AddressesOf
<1> QED BY <1>2, <1>3 DEF DeletionConfirmed, At

LEMMA OwnerStep == Inv /\ [Next]_vars => OwnerAgrees' /\ DeletedHoldsNoAddress'
<1> SUFFICES ASSUME Inv, [Next]_vars, NEW a \in Addr, ipOwner'[a] # NoVps
             PROVE  /\ status'[ipOwner'[a]] \notin {"none", "deleted"}
                    /\ ipv4'[ipOwner'[a]] = a
  BY DEF OwnerAgrees, DeletedHoldsNoAddress
<1> DEFINE v == ipOwner'[a]
<1>0. /\ TypeOK /\ TaskShape /\ CreatesAreNew /\ FreesAll /\ DeletionConfirmed
      /\ OwnerAgrees /\ DeletedHoldsNoAddress
  BY DEF Inv, TypeInv
<1>1. ASSUME NEW t \in Task, CommitCreate(t)
      PROVE  /\ task[t].vps \in Vps /\ status[task[t].vps] = "none"
             /\ status'[task[t].vps] = "provisioning"
             /\ ipv4' = [ipv4 EXCEPT ![task[t].vps] = task[t].addr]
  BY <1>1, <1>0 DEF CommitCreate, At, TypeOK, TaskShape, CreatesAreNew
<1>2. CASE ipOwner'[a] = ipOwner[a]
  <2>1. v \in Vps /\ status[v] \notin {"none", "deleted"} /\ ipv4[v] = a
    BY <1>0, <1>2 DEF TypeOK, OwnerAgrees, DeletedHoldsNoAddress
  <2>2. ipv4'[v] = a
    BY <1>0, <1>1, <2>1, Ipv4Steps DEF TypeOK
  <2>3. ASSUME NEW t \in Task, CommitDelete(t), v = task[t].vps PROVE FALSE
    <3>1. a \in task[t].ips
      BY <1>0, <1>2, <2>3 DEF CommitDelete, At, FreesAll, Releases, AddressesOf
    <3>2. ipOwner'[a] = NoVps
      BY <2>3, <3>1 DEF CommitDelete, FreeAddresses
    <3> QED BY <3>2
  <2>4. status'[v] \notin {"none", "deleted"}
    BY <1>1, <2>1, <2>3, StatusSteps
  <2> QED BY <2>2, <2>4
<1>3. ASSUME NEW t \in Task, CommitCreate(t), a = task[t].addr, v = task[t].vps
      PROVE  status'[v] \notin {"none", "deleted"} /\ ipv4'[v] = a
  BY <1>0, <1>1, <1>3 DEF TypeOK
<1> QED BY <1>2, <1>3, OwnerSteps

LEMMA InvStep == Inv /\ [Next]_vars => Inv'
BY TypeStep, RowsExistStep, CreatesAreNewStep, BeatStep, FreesAllStep, OwnerStep DEF Inv

LEMMA Invariance == Spec => []Inv
BY InvInit, InvStep, PTL DEF Spec

-----------------------------------------------------------------------------
(* The theorems.                                                           *)

\* For any number of requests, runs and heartbeats in flight, the holder of an
\* address is a VPS whose row exists and carries that address.
THEOREM OwnersAgree == Spec => []OwnerAgrees
<1>1. Inv => OwnerAgrees
  BY DEF Inv
<1> QED BY <1>1, Invariance, PTL

\* No deletion, however it interleaves, leaves an address with a deleted VPS.
THEOREM DeletedHoldNone == Spec => []DeletedHoldsNoAddress
<1>1. Inv => DeletedHoldsNoAddress
  BY DEF Inv
<1> QED BY <1>1, Invariance, PTL

\* A step of the system is a grant, a giving back or a stutter of the pool.
LEMMA PoolSteps == Inv /\ [Next]_vars => [Pool!Next]_ipOwner
<1> SUFFICES ASSUME Inv, [Next]_vars, ipOwner' # ipOwner PROVE Pool!Next
  OBVIOUS
<1>0. /\ TypeOK /\ TaskShape /\ CreatesAreNew /\ OwnerAgrees /\ NoVps \notin Vps
      /\ \A t \in Task : task[t].ips \in SUBSET Addr /\ task[t].addr \in Addr \cup {NoAddr}
  BY ConstantsAssumption DEF Inv, TypeInv, TypeOK, TaskRecord, ConstantsAssumption
<1>1. ASSUME NEW t \in Task, CommitCreate(t) PROVE Pool!Next
  <2> DEFINE v == task[t].vps
             a == task[t].addr
  <2>1. v \in Vps /\ status[v] = "none"
    BY <1>0, <1>1 DEF CommitCreate, At, TaskShape, CreatesAreNew
  <2>2. ipOwner' = [b \in Addr |-> IF b = a THEN v ELSE ipOwner[b]]
    BY <1>1 DEF CommitCreate
  <2>3. a \in Addr
    <3>1. CASE a \notin Addr
      BY <1>0, <2>2, <3>1 DEF TypeOK
    <3> QED BY <3>1
  <2>4. ipOwner[a] = NoVps
    BY <1>1, <2>3, ConstantsAssumption DEF CommitCreate, ClaimSucceeds, ConstantsAssumption
  <2>5. ipOwner' = [ipOwner EXCEPT ![a] = v]
    BY <1>0, <2>2 DEF TypeOK
  <2>6. Pool!HeldBy(v) = {}
    BY <1>0, <2>1 DEF Pool!HeldBy, OwnerAgrees
  <2>7. Pool!Grant(a, v)
    BY <2>3, <2>4, <2>5, <2>6 DEF Pool!Grant, Pool!HeldBy
  <2> QED BY <2>1, <2>3, <2>7 DEF Pool!Next
<1>2. ASSUME NEW t \in Task, CommitDelete(t) \/ FailVps(t) PROVE Pool!Next
  <2>1. Pool!GiveBack(task[t].ips)
    BY <1>2 DEF CommitDelete, FailVps, FreeAddresses, Pool!GiveBack
  <2> QED BY <1>0, <2>1 DEF Pool!Next
<1>3. ASSUME NEW t \in Task, CommitIp(t) PROVE Pool!Next
  <2>1. ipOwner' = [ipOwner EXCEPT ![task[t].addr] = NoVps]
    BY <1>3 DEF CommitIp
  <2>2. Pool!GiveBack({task[t].addr} \cap Addr)
    BY <1>0, <2>1 DEF Pool!GiveBack, TypeOK
  <2> QED BY <2>2 DEF Pool!Next
<1>4. CASE CommitHeartbeat
  <2> DEFINE S == {a \in Addr : ipOwner[a] \in {v \in Vps : hb.new[v] = "deleted"}}
  <2>1. Pool!GiveBack(S)
    BY <1>4 DEF CommitHeartbeat, FreeAddresses, Pool!GiveBack
  <2> QED BY <2>1 DEF Pool!Next
<1> QED
  BY <1>1, <1>2, <1>3, <1>4 DEF Next, Request, PrepareVps, LoseClaim, DeleteVps,
     FlushDeleting, LifecycleAction, CommitLifecycle, ReserveIp, ReleaseIp, Run, StartRun,
     ClaimJob, ProvisionInSession, CommitProvisioned, MarkProvisionFailed, Finish, Call,
     NodeServes, CallTimesOut, CallReturns, NodeServesLate, Reconcile, HeartbeatInventory,
     Heartbeat, LoseHeartbeat, Age, Crash, db, vars

\* The pool implements AddressPool: no interleaving gives an address away under its
\* holder, or a second one to a VPS.
THEOREM PoolImplemented == Spec => KeepsPool
<1>1. Init => Pool!Init
  BY DEF Init, Pool!Init
<1> QED BY <1>1, PoolSteps, Invariance, PTL DEF Spec, KeepsPool, Pool!Spec

\* DELETED is never written without the node's confirmation.
THEOREM DeletedAfterTheNode == Spec => DeletedAfterNode
<1> DEFINE Confirmed == \A v \in Vps : status[v] # "deleted" /\ status'[v] = "deleted"
              => \E t \in Task : At(t, "delete", "commit") /\ task[t].vps = v
                                 /\ task[t].reply = "ok"
<1>1. Inv /\ [Next]_vars => Confirmed
  <2> SUFFICES ASSUME Inv, [Next]_vars, NEW v \in Vps,
                      status[v] # "deleted", status'[v] = "deleted"
               PROVE  \E t \in Task : At(t, "delete", "commit") /\ task[t].vps = v
                                      /\ task[t].reply = "ok"
    OBVIOUS
  <2>1. ASSUME NEW t \in Task, CommitCreate(t), v = task[t].vps PROVE FALSE
    BY <2>1 DEF CommitCreate, Inv, TypeInv, TypeOK
  <2>2. PICK t \in Task : CommitDelete(t) /\ v = task[t].vps
    BY <2>1, StatusSteps
  <2> QED BY <2>2 DEF CommitDelete, Inv, DeletionConfirmed, At
<1> QED BY <1>1, Invariance, PTL DEF Spec, DeletedAfterNode

\* Reconciliation never takes a fresh PROVISIONING row from its run.
THEOREM ReconciliationSparesFresh == Spec => ReconcileSparesFresh
<1> DEFINE Spares == CommitHeartbeat => \A v \in Vps :
              status[v] = "provisioning" /\ ~aged[v] => status'[v] = "provisioning"
<1>1. Inv => Spares
  BY DEF Inv, BeatWrites, CommitHeartbeat
<1> QED BY <1>1, Invariance, PTL DEF Spec, ReconcileSparesFresh

\* A run past its claim works for a job that was claimed.
PastClaim == {"load", "call", "commit", "finish"}
Claimed ==
    \A t \in Task : task[t].op = "provision" /\ task[t].pc \in PastClaim
                      => job[task[t].vps] \in {"running", "succeeded"}

\* A run is past its claim because it was before, or because this step claims its job.
LEMMA ClaimSteps ==
    ASSUME Inv, [Next]_vars, NEW u \in Task,
           task'[u].op = "provision", task'[u].pc \in PastClaim
    PROVE  /\ task[u].op = "provision" /\ task'[u].vps = task[u].vps
           /\ task[u].pc \in PastClaim \/ (ClaimJob(u) /\ job'[task[u].vps] = "running")
<1> DEFINE Same == task[u].op = "provision" /\ task'[u].vps = task[u].vps
           Goal == /\ Same
                   /\ task[u].pc \in PastClaim \/ (ClaimJob(u) /\ job'[task[u].vps] = "running")
<1>0. TypeOK /\ TaskShape /\ task \in [Task -> TaskRecord] /\ task[u] \in TaskRecord
  BY DEF Inv, TypeInv, TypeOK
<1>1. task'[u] # Idle
  BY DEF Idle
<1>2. ASSUME NEW t \in Task, NEW op, NEW pc, NEW v, NEW a, NEW s,
             Begin(t, op, pc, v, a, s), op # "provision" \/ pc = "claim"
      PROVE  Goal
  <2>1. u # t
    BY <1>0, <1>2 DEF Begin, Idle, PastClaim
  <2> QED BY <1>0, <1>2, <2>1 DEF Begin
<1>3. ASSUME NEW t \in Task, Request(t) PROVE Goal
  <2>1. CASE FlushDeleting(t)
    BY <1>0, <2>1 DEF FlushDeleting, At, TaskRecord
  <2>2. CASE CommitCreate(t) \/ LoseClaim(t) \/ CommitDelete(t) \/ CommitLifecycle(t)
             \/ CommitIp(t)
    BY <1>0, <1>1, <2>2
       DEF CommitCreate, LoseClaim, CommitDelete, CommitLifecycle, CommitIp
  <2> QED
    BY <1>2, <1>3, <2>1, <2>2 DEF Request, PrepareVps, DeleteVps, LifecycleAction, ReserveIp,
       ReleaseIp
<1>4. ASSUME NEW t \in Task, Run(t) PROVE Goal
  <2>1. CASE \E v \in Vps : StartRun(t, v)
    BY <1>2, <2>1 DEF StartRun
  <2>2. CASE ClaimJob(t)
    <3>1. CASE t = u
      BY <1>0, <1>1, <2>2, <3>1 DEF ClaimJob, At, TypeOK, TaskRecord, TaskShape, NodeOps
    <3>2. CASE t # u
      BY <1>0, <2>2, <3>2 DEF ClaimJob
    <3> QED BY <3>1, <3>2
  <2>3. CASE MarkProvisionFailed(t)
    BY <1>0, <2>3 DEF MarkProvisionFailed, At, TaskRecord, PastClaim
  <2>4. CASE ProvisionInSession(t)
    BY <1>0, <2>4 DEF ProvisionInSession, At, TaskRecord, PastClaim
  <2>5. CASE CommitProvisioned(t) \/ FailVps(t)
    <3>1. At(t, "provision", "commit") /\ task' = [task EXCEPT ![t].pc = "finish"]
      BY <2>5 DEF CommitProvisioned, FailVps
    <3> QED BY <1>0, <3>1 DEF At, TaskRecord, PastClaim
  <2>6. CASE Finish(t)
    BY <1>0, <1>1, <2>6 DEF Finish
  <2> QED BY <1>4, <2>1, <2>2, <2>3, <2>4, <2>5, <2>6 DEF Run
<1>5. ASSUME NEW t \in Task, Call(t) PROVE Goal
  <2>1. CASE NodeServes(t)
    BY <1>0, <2>1 DEF NodeServes, TaskRecord
  <2>2. CASE CallTimesOut(t)
    BY <1>0, <2>2 DEF CallTimesOut, TaskRecord
  <2>3. CASE CallReturns(t)
    BY <1>0, <1>1, <2>3 DEF CallReturns, Refused, TaskRecord, PastClaim
  <2> QED BY <1>5, <2>1, <2>2, <2>3 DEF Call
<1>6. CASE Crash
  BY <1>1, <1>6 DEF Crash
<1>7. CASE UNCHANGED task
  BY <1>7
<1> QED
  BY <1>3, <1>4, <1>5, <1>6, <1>7 DEF Next, NodeServesLate, Reconcile, HeartbeatInventory,
     Heartbeat, CommitHeartbeat, LoseHeartbeat, Age, vars

\* A step of the system is a step or a stutter of every job's life.
LEMMA LifecycleSteps == Inv /\ Claimed /\ [Next]_vars => [Lifecycle!Next]_job
<1> SUFFICES ASSUME Inv, Claimed, [Next]_vars, job' # job PROVE Lifecycle!Next
  OBVIOUS
<1>0. TypeOK /\ TaskShape /\ RowsExist /\ CreatesAreNew
  BY DEF Inv, TypeInv
<1>1. ASSUME NEW t \in Task, CommitCreate(t) PROVE Lifecycle!Next
  <2>1. task[t].vps \in Vps /\ job[task[t].vps] = "none"
    BY <1>0, <1>1 DEF CommitCreate, At, TaskShape, RowsExist, CreatesAreNew
  <2>2. Lifecycle!Submit(task[t].vps)
    BY <1>1, <2>1 DEF CommitCreate, Lifecycle!Submit
  <2> QED BY <2>1, <2>2 DEF Lifecycle!Next
<1>2. ASSUME NEW t \in Task, ClaimJob(t) PROVE Lifecycle!Next
  <2> DEFINE v == task[t].vps
  <2>1. v \in Vps
    BY <1>0, <1>2 DEF ClaimJob, At, TaskShape, NodeOps
  <2>2. job[v] \in {"queued", "running"} /\ job' = [job EXCEPT ![v] = "running"]
    BY <1>2 DEF ClaimJob
  <2>3. job[v] = "queued"
    BY <1>0, <2>1, <2>2 DEF TypeOK
  <2>4. Lifecycle!Claim(v)
    BY <2>2, <2>3 DEF Lifecycle!Claim
  <2> QED BY <2>1, <2>4 DEF Lifecycle!Next
<1>3. ASSUME NEW t \in Task, Finish(t) PROVE Lifecycle!Next
  <2> DEFINE v == task[t].vps
  <2>1. v \in Vps /\ job[v] \in {"running", "succeeded"}
    BY <1>0, <1>3 DEF Finish, At, TaskShape, NodeOps, Claimed, PastClaim
  <2>2. job' = [job EXCEPT ![v] = "succeeded"]
    BY <1>3 DEF Finish
  <2>3. job[v] = "running"
    BY <1>0, <2>1, <2>2 DEF TypeOK
  <2>4. Lifecycle!End(v, "succeeded")
    BY <2>2, <2>3 DEF Lifecycle!End
  <2> QED BY <2>1, <2>4 DEF Lifecycle!Next
<1> QED BY <1>1, <1>2, <1>3, JobWriters

LEMMA ClaimedStep == Inv /\ Claimed /\ [Next]_vars => Claimed'
<1> SUFFICES ASSUME Inv, Claimed, [Next]_vars, NEW u \in Task,
                    task'[u].op = "provision", task'[u].pc \in PastClaim
             PROVE  job'[task'[u].vps] \in {"running", "succeeded"}
  BY DEF Claimed, PastClaim
<1>0. TypeOK /\ TaskShape /\ RowsExist /\ CreatesAreNew
  BY DEF Inv, TypeInv
<1>1. CASE ClaimJob(u) /\ job'[task[u].vps] = "running"
  BY <1>1, ClaimSteps
<1>2. CASE task[u].pc \in PastClaim
  <2>1. /\ task[u].vps \in Vps /\ task'[u].vps = task[u].vps
        /\ job[task[u].vps] \in {"running", "succeeded"}
    BY <1>0, <1>2, ClaimSteps DEF Claimed, TaskShape, NodeOps
  <2> DEFINE v == task[u].vps
  <2>2. ASSUME NEW t \in Task, CommitCreate(t) PROVE task[t].vps # v
    <3>1. task[t].vps \in Vps /\ job[task[t].vps] = "none"
      BY <1>0, <2>2 DEF CommitCreate, At, TaskShape, RowsExist, CreatesAreNew
    <3> QED BY <2>1, <3>1
  <2>3. ASSUME NEW t \in Task, CommitCreate(t) PROVE job'[v] = job[v]
    BY <1>0, <2>1, <2>2, <2>3 DEF CommitCreate, TypeOK
  <2>4. ASSUME NEW t \in Task, ClaimJob(t) \/ Finish(t)
        PROVE  job'[v] \in {job[v], "running", "succeeded"}
    BY <1>0, <2>1, <2>4 DEF ClaimJob, Finish, TypeOK
  <2> QED BY <2>1, <2>3, <2>4, JobWriters
<1> QED BY <1>1, <1>2, ClaimSteps

\* The runs, however many work for one job and whatever befalls its VPS, implement
\* JobLifecycle.
THEOREM LifecycleKept == Spec => KeepsLifecycle
<1>1. Init => Claimed /\ Lifecycle!Init
  BY DEF Init, Idle, Claimed, Lifecycle!Init
<1>2. Spec => []Claimed
  BY <1>1, Invariance, ClaimedStep, PTL DEF Spec
<1> QED BY <1>1, <1>2, LifecycleSteps, Invariance, PTL DEF Spec, KeepsLifecycle, Lifecycle!Spec

\* A run that fails gives back every address of its VPS.
THEOREM FailuresFree == Spec => FailureFreesAddresses
<1> DEFINE Frees == \A v \in Vps : status[v] = "provisioning" /\ ~aged[v] /\ status'[v] = "error"
                       => \A a \in Addr : ipOwner'[a] # v
<1>1. Inv /\ [Next]_vars => Frees
  <2> SUFFICES ASSUME Inv, [Next]_vars, NEW v \in Vps, NEW a \in Addr,
                      status[v] = "provisioning", ~aged[v], status'[v] = "error"
               PROVE  ipOwner'[a] # v
    OBVIOUS
  <2>0. /\ TypeOK /\ FreesAll /\ BeatWrites
        /\ \A t \in Task : task[t].op = "start" \/ task[t].op = "stop" => task[t].vps \in Vps
    BY DEF Inv, TypeInv, TaskShape, NodeOps
  <2>1. ASSUME NEW t \in Task, FailVps(t), v = task[t].vps PROVE ipOwner'[a] # v
    <3>1. AddressesOf(v) \subseteq task[t].ips /\ v # NoVps
      BY <2>0, <2>1, ConstantsAssumption
         DEF FailVps, At, FreesAll, Releases, ConstantsAssumption
    <3> QED BY <2>1, <3>1 DEF FailVps, FreeAddresses, AddressesOf
  <2>2. CASE \E t \in Task : Request(t)
    <3>1. ASSUME NEW t \in Task, CommitCreate(t) \/ CommitDelete(t) PROVE FALSE
      BY <2>0, <3>1 DEF CommitCreate, CommitDelete, TypeOK
    <3>2. ASSUME NEW t \in Task, CommitLifecycle(t) PROVE FALSE
      BY <2>0, <3>2 DEF CommitLifecycle, WriteStatus, TypeOK
    <3> QED
      BY <2>2, <3>1, <3>2 DEF Request, PrepareVps, LoseClaim, DeleteVps, FlushDeleting,
         LifecycleAction, ReserveIp, ReleaseIp, CommitIp, db
  <2>3. CASE \E t \in Task : Run(t)
    <3>1. ASSUME NEW t \in Task, CommitProvisioned(t) PROVE FALSE
      BY <2>0, <3>1 DEF CommitProvisioned, WriteStatus, TypeOK
    <3>2. ASSUME NEW t \in Task, FailVps(t) PROVE v = task[t].vps
      BY <2>0, <3>2 DEF FailVps, WriteStatus, TypeOK
    <3> QED
      BY <2>1, <2>3, <3>1, <3>2 DEF Run, StartRun, ClaimJob, ProvisionInSession,
         MarkProvisionFailed, Finish, db
  <2>4. CASE CommitHeartbeat
    BY <2>0, <2>4 DEF CommitHeartbeat, BeatWrites
  <2>5. CASE UNCHANGED status
    BY <2>5
  <2> QED
    BY <2>2, <2>3, <2>4, <2>5 DEF Next, Call, NodeServes, CallTimesOut, CallReturns,
       NodeServesLate, Reconcile, HeartbeatInventory, Heartbeat, LoseHeartbeat, Age, Crash,
       db, vars
<1> QED BY <1>1, Invariance, PTL DEF Spec, FailureFreesAddresses

-----------------------------------------------------------------------------
(* What shows that an instance has run: LXD's own state, a row or a report  *)
(* that says so, the answer to a call.                                      *)
Tells(c) == c.op \in {"provision", "start"} /\ (c.reply = "ok" \/ (c.op = "start" /\ c.pc = "commit"))
Ran == {v \in Vps : created[v]}
Evidence ==
    /\ \A v \in Vps : inst[v] = "running" => v \in Ran
    /\ \A v \in Vps : status[v] = "running" => v \in Ran
    /\ \A v \in Vps : hb.inv[v] = "running" \/ hb.new[v] = "running" => v \in Ran
    /\ \A t \in Task : Tells(task[t]) => task[t].vps \in Ran
    /\ \A v \in Vps : job[v] = "succeeded" => v \in Ran

LEMMA EvidenceInit == Init => Evidence
BY DEF Init, Evidence, Tells, Idle, NoBeat

LEMMA RanGrows == ASSUME UNCHANGED created PROVE Ran' = Ran
BY DEF Ran

\* What the node makes of a call it answers with ok, and what SetInst records.
LEMMA ServedHasRun ==
    ASSUME TypeInv, Evidence, NEW op \in NodeOps, NEW v \in Vps,
           NEW e \in Effects(op, inst[v]), SetInst(v, e[1])
    PROVE  /\ Ran \subseteq Ran'
           /\ \A w \in Vps : inst'[w] = "running" => w \in Ran'
           /\ op \in {"provision", "start"} /\ e[2] = "ok" => v \in Ran'
<1>1. inst' = [inst EXCEPT ![v] = e[1]] /\ inst \in [Vps -> Inst]
  BY DEF TypeInv, TypeOK, SetInst
<1>2. Ran' = IF e[1] = "running" THEN Ran \cup {v} ELSE Ran
  BY DEF TypeInv, TypeOK, SetInst, Ran
<1>3. op \in {"provision", "start"} /\ e[2] = "ok" => e[1] = "running"
  BY DEF Effects, NodeOps
<1>4. \A w \in Vps : inst'[w] = "running" => w \in Ran'
  BY <1>1, <1>2 DEF Evidence
<1> QED BY <1>2, <1>3, <1>4

LEMMA EvidenceRequest ==
    ASSUME TypeInv, Evidence, NEW t \in Task, Request(t)
    PROVE  Evidence'
<1>0. /\ status \in [Vps -> Status] /\ job \in [Vps -> {"none", "queued", "running", "succeeded", "failed"}]
      /\ task \in [Task -> TaskRecord] /\ TaskShape
  BY DEF TypeInv, TypeOK
<1>1. UNCHANGED <<inst, hb>> /\ Ran' = Ran
  BY RanGrows DEF Request, PrepareVps, CommitCreate, LoseClaim, DeleteVps, FlushDeleting, CommitDelete,
     LifecycleAction, CommitLifecycle, ReserveIp, ReleaseIp, CommitIp, node
<1>2. \A u \in Task : Tells(task'[u]) => Tells(task[u]) /\ task'[u].vps = task[u].vps
  <2>1. ASSUME NEW op, NEW pc, NEW v, NEW a, NEW s, Begin(t, op, pc, v, a, s),
               op = "start" => pc # "commit"
        PROVE  \A u \in Task : Tells(task'[u]) => Tells(task[u]) /\ task'[u].vps = task[u].vps
    <3>1. task' = [task EXCEPT ![t] = [Idle EXCEPT !.op = op, !.pc = pc, !.vps = v, !.addr = a, !.loaded = s]]
      BY <2>1 DEF Begin
    <3>2. ~Tells(task'[t])
      BY <1>0, <2>1, <3>1 DEF Tells, Idle
    <3> QED BY <1>0, <3>1, <3>2
  <2>2. CASE FlushDeleting(t)
    BY <1>0, <2>2 DEF FlushDeleting, At, Tells, TaskRecord
  <2>3. CASE task' = [task EXCEPT ![t] = Idle]
    BY <1>0, <2>3 DEF Tells, Idle
  <2> QED
    BY <2>1, <2>2, <2>3 DEF Request, PrepareVps, CommitCreate, LoseClaim, DeleteVps, CommitDelete,
       LifecycleAction, CommitLifecycle, ReserveIp, ReleaseIp, CommitIp
<1>3. \A v \in Vps : status'[v] = "running" => v \in Ran
  <2>1. CASE CommitCreate(t) \/ CommitDelete(t)
    BY <1>0, <2>1 DEF Evidence, CommitCreate, CommitDelete
  <2>2. CASE CommitLifecycle(t)
    BY <1>0, <2>2 DEF CommitLifecycle, WriteStatus, Evidence, Tells
  <2>3. CASE UNCHANGED status
    BY <2>3 DEF Evidence
  <2> QED
    BY <2>1, <2>2, <2>3 DEF Request, PrepareVps, LoseClaim, DeleteVps, FlushDeleting,
       LifecycleAction, ReserveIp, ReleaseIp, CommitIp, db
<1>4. \A v \in Vps : job'[v] = "succeeded" => v \in Ran
  BY <1>0 DEF Evidence, Request, PrepareVps, CommitCreate, LoseClaim, DeleteVps, FlushDeleting, CommitDelete,
     LifecycleAction, CommitLifecycle, ReserveIp, ReleaseIp, CommitIp, db
<1> QED BY <1>1, <1>2, <1>3, <1>4 DEF Evidence

LEMMA EvidenceRun ==
    ASSUME TypeInv, Evidence, NEW t \in Task, Run(t)
    PROVE  Evidence'
<1>0. /\ status \in [Vps -> Status] /\ job \in [Vps -> {"none", "queued", "running", "succeeded", "failed"}]
      /\ task \in [Task -> TaskRecord] /\ TaskShape
  BY DEF TypeInv, TypeOK
<1>1. UNCHANGED <<inst, hb>> /\ Ran' = Ran
  BY RanGrows DEF Run, StartRun, ClaimJob, ProvisionInSession, CommitProvisioned, FailVps,
     MarkProvisionFailed, Finish, node
<1>2. \A u \in Task : Tells(task'[u]) => task'[u].vps \in Ran
  <2>1. CASE \E v \in Vps : StartRun(t, v)
    BY <1>0, <2>1 DEF StartRun, Begin, Idle, Tells, Evidence
  <2>2. CASE ClaimJob(t) \/ Finish(t)
    BY <1>0, <2>2 DEF ClaimJob, Finish, At, Idle, Tells, Evidence, TaskRecord
  <2>3. CASE ProvisionInSession(t)
    BY <1>0, <2>3 DEF ProvisionInSession, At, Tells, Evidence, TaskRecord, TaskShape, NodeOps
  <2>4. CASE CommitProvisioned(t) \/ FailVps(t)
    <3>1. task' = [task EXCEPT ![t].pc = "finish"] /\ task[t].op = "provision"
      BY <2>4 DEF CommitProvisioned, FailVps, At
    <3> QED BY <1>0, <3>1 DEF Tells, Evidence, TaskRecord
  <2>5. CASE MarkProvisionFailed(t)
    BY <1>0, <2>5 DEF MarkProvisionFailed, At, Tells, Evidence, TaskRecord
  <2> QED BY <2>1, <2>2, <2>3, <2>4, <2>5 DEF Run
<1>3. \A v \in Vps : status'[v] = "running" => v \in Ran
  <2>1. CASE CommitProvisioned(t)
    BY <1>0, <2>1 DEF CommitProvisioned, WriteStatus, At, Evidence, Tells
  <2>2. CASE FailVps(t)
    BY <1>0, <2>2 DEF Evidence, FailVps, WriteStatus
  <2>3. CASE UNCHANGED status
    BY <2>3 DEF Evidence
  <2> QED
    BY <2>1, <2>2, <2>3 DEF Run, StartRun, ClaimJob, ProvisionInSession, MarkProvisionFailed,
       Finish, db
<1>4. \A v \in Vps : job'[v] = "succeeded" => v \in Ran
  <2>1. CASE ClaimJob(t) \/ Finish(t)
    BY <1>0, <2>1 DEF ClaimJob, Finish, At, Evidence, Tells
  <2>2. CASE UNCHANGED job
    BY <2>2 DEF Evidence
  <2> QED
    BY <2>1, <2>2 DEF Run, StartRun, ProvisionInSession, CommitProvisioned, FailVps,
       MarkProvisionFailed, db
<1> QED BY <1>1, <1>2, <1>3, <1>4 DEF Evidence

LEMMA EvidenceCall ==
    ASSUME TypeInv, Evidence, NEW t \in Task, Call(t)
    PROVE  Evidence'
<1>0. task \in [Task -> TaskRecord] /\ TaskShape
  BY DEF TypeInv, TypeOK
<1>1. CASE NodeServes(t)
  <2>1. task[t].op \in NodeOps /\ task[t].vps \in Vps
    BY <1>0, <1>1 DEF NodeServes, TaskShape
  <2>2. PICK e \in Effects(task[t].op, inst[task[t].vps]) :
               SetInst(task[t].vps, e[1]) /\ task' = [task EXCEPT ![t].reply = e[2]]
    BY <1>1 DEF NodeServes
  <2>3. /\ Ran \subseteq Ran'
        /\ \A w \in Vps : inst'[w] = "running" => w \in Ran'
        /\ task[t].op \in {"provision", "start"} /\ e[2] = "ok" => task[t].vps \in Ran'
    BY <2>1, <2>2, ServedHasRun
  <2>4. \A u \in Task : Tells(task'[u]) => task'[u].vps \in Ran'
    <3>1. ASSUME NEW u \in Task, Tells(task[u]) PROVE task[u].vps \in Ran'
      BY <1>0, <2>3, <3>1 DEF Evidence, Tells, TaskShape, NodeOps
    <3>2. /\ task'[t].op = task[t].op /\ task'[t].vps = task[t].vps
          /\ task'[t].pc = "call" /\ task'[t].reply = e[2]
          /\ \A u \in Task \ {t} : task'[u] = task[u]
      BY <1>0, <1>1, <2>2 DEF NodeServes, TaskRecord
    <3> QED BY <2>3, <3>1, <3>2 DEF Tells
  <2>5. UNCHANGED <<status, job, hb>>
    BY <1>1 DEF NodeServes, db
  <2> QED BY <2>3, <2>4, <2>5 DEF Evidence
<1>2. CASE CallTimesOut(t) \/ CallReturns(t)
  <2>1. UNCHANGED <<status, job, hb, inst>> /\ Ran' = Ran
    BY <1>2, RanGrows DEF CallTimesOut, CallReturns, db, node
  <2>2. \A u \in Task : Tells(task'[u]) => Tells(task[u]) /\ task'[u].vps = task[u].vps
    <3>1. CASE CallTimesOut(t)
      BY <1>0, <3>1 DEF CallTimesOut, Tells, TaskRecord
    <3>2. CASE CallReturns(t)
      BY <1>0, <3>2 DEF CallReturns, Refused, Tells, Idle, TaskRecord
    <3> QED BY <1>2, <3>1, <3>2
  <2> QED BY <2>1, <2>2 DEF Evidence
<1> QED BY <1>1, <1>2 DEF Call

LEMMA EvidenceRest ==
    ASSUME TypeInv, Evidence,
           \/ \E m \in late : NodeServesLate(m)
           \/ Reconcile \/ (\E v \in Vps : Age(v)) \/ Crash \/ UNCHANGED vars
    PROVE  Evidence'
<1>1. ASSUME NEW m \in late, NodeServesLate(m) PROVE Evidence'
  <2>1. m[1] \in NodeOps /\ m[2] \in Vps
    BY DEF TypeInv, TypeOK
  <2>2. PICK e \in Effects(m[1], inst[m[2]]) : SetInst(m[2], e[1])
    BY <1>1 DEF NodeServesLate
  <2>3. /\ Ran \subseteq Ran'
        /\ \A w \in Vps : inst'[w] = "running" => w \in Ran'
    BY <2>1, <2>2, ServedHasRun
  <2>4. UNCHANGED <<status, job, hb, task>>
    BY <1>1 DEF NodeServesLate, db
  <2>5. \A u \in Task : Tells(task[u]) => task[u].vps \in Vps
    BY DEF Tells, TypeInv, TaskShape, NodeOps
  <2> QED BY <2>3, <2>4, <2>5 DEF Evidence
<1>0. UNCHANGED created => Ran' = Ran
  BY RanGrows
<1>2. CASE HeartbeatInventory \/ LoseHeartbeat
  <2>1. UNCHANGED <<status, job, task, inst>> /\ Ran' = Ran
    BY <1>0, <1>2 DEF HeartbeatInventory, LoseHeartbeat, db, node
  <2>2. \A v \in Vps : hb'.inv[v] = "running" \/ hb'.new[v] = "running" => v \in Ran
    <3>1. CASE HeartbeatInventory
      <4>1. hb'.inv = inst /\ hb'.new = hb.new
        BY <3>1 DEF HeartbeatInventory, TypeInv, TypeOK, Beat
      <4> QED BY <4>1 DEF Evidence
    <3>2. CASE LoseHeartbeat
      BY <3>2 DEF LoseHeartbeat, NoBeat
    <3> QED BY <1>2, <3>1, <3>2
  <2> QED BY <2>1, <2>2 DEF Evidence
<1>3. CASE Heartbeat
  <2>1. \A v \in Vps : hb'.new[v] = "running" => hb.inv[v] = "running"
    BY <1>3 DEF Heartbeat, Reconciled, Transitional, TypeInv, TypeOK, Beat
  <2>2. hb'.inv = hb.inv
    BY <1>3 DEF Heartbeat, TypeInv, TypeOK, Beat
  <2>3. UNCHANGED <<status, job, task, inst>> /\ Ran' = Ran
    BY <1>0, <1>3 DEF Heartbeat, db, node
  <2> QED BY <2>1, <2>2, <2>3 DEF Evidence
<1>4. CASE CommitHeartbeat
  BY <1>0, <1>4 DEF CommitHeartbeat, NoBeat, Evidence, node
<1>5. CASE (\E v \in Vps : Age(v)) \/ UNCHANGED vars
  BY <1>0, <1>5 DEF Age, Evidence, vars, db, node
<1>6. CASE Crash
  BY <1>0, <1>6 DEF Crash, NoBeat, Idle, Tells, Evidence, db
<1> QED BY <1>1, <1>2, <1>3, <1>4, <1>5, <1>6 DEF Reconcile

\* A job is reported as succeeded only when its instance has run.
THEOREM SuccessIsReal == Spec => []SucceededWasCreated
<1>1. TypeInv /\ Evidence /\ [Next]_vars => Evidence'
  BY EvidenceRequest, EvidenceRun, EvidenceCall, EvidenceRest DEF Next
<1>2. Evidence => SucceededWasCreated
  BY DEF Evidence, Ran, SucceededWasCreated
<1> QED BY <1>1, <1>2, EvidenceInit, TypeInit, TypeStep, PTL DEF Spec

-----------------------------------------------------------------------------
(* The pool, when the administrator leaves it alone.                        *)
OpsAllowed == \A t \in Task : task[t].op \in Env \cup {"none"}

LEMMA OpsStep == TypeInv /\ OpsAllowed /\ [Next]_vars => OpsAllowed'
<1> SUFFICES ASSUME TypeInv, OpsAllowed, [Next]_vars PROVE OpsAllowed'
  OBVIOUS
<1>0. task \in [Task -> TaskRecord]
  BY DEF TypeInv, TypeOK
<1>1. ASSUME NEW t \in Task, NEW c, task' = [task EXCEPT ![t] = c], c.op \in Env \cup {"none"}
      PROVE  OpsAllowed'
  BY <1>0, <1>1 DEF OpsAllowed
<1>2. ASSUME NEW t \in Task, NEW op, NEW pc, NEW v, NEW a, NEW s, Begin(t, op, pc, v, a, s)
      PROVE  OpsAllowed'
  <2>1. [Idle EXCEPT !.op = op, !.pc = pc, !.vps = v, !.addr = a, !.loaded = s].op = op
    BY DEF Idle
  <2> QED BY <1>1, <1>2, <2>1 DEF Begin
<1>3. ASSUME NEW t \in Task, task' = [task EXCEPT ![t] = Idle] PROVE OpsAllowed'
  BY <1>1, <1>3 DEF Idle
<1>4. ASSUME NEW t \in Task, NEW c \in TaskRecord, task' = [task EXCEPT ![t] = c], c.op = task[t].op
      PROVE  OpsAllowed'
  BY <1>1, <1>4 DEF OpsAllowed
<1>5. ASSUME NEW t \in Task, Request(t) PROVE OpsAllowed'
  <2>1. CASE FlushDeleting(t)
    BY <1>0, <2>1 DEF FlushDeleting, OpsAllowed, TaskRecord
  <2> QED
    BY <1>2, <1>3, <1>5, <2>1 DEF Request, PrepareVps, CommitCreate, LoseClaim, DeleteVps,
       CommitDelete, LifecycleAction, CommitLifecycle, ReserveIp, ReleaseIp, CommitIp
<1>6. ASSUME NEW t \in Task, Run(t) PROVE OpsAllowed'
  <2>1. CASE MarkProvisionFailed(t)
    BY <1>0, <2>1 DEF MarkProvisionFailed, OpsAllowed, TaskRecord
  <2>4. CASE ProvisionInSession(t)
    BY <1>0, <2>4 DEF ProvisionInSession, OpsAllowed, TaskRecord
  <2>3. CASE CommitProvisioned(t) \/ FailVps(t)
    <3>1. task' = [task EXCEPT ![t].pc = "finish"]
      BY <2>3 DEF CommitProvisioned, FailVps
    <3> QED BY <1>0, <3>1 DEF OpsAllowed, TaskRecord
  <2>2. CASE ClaimJob(t)
    BY <1>0, <1>3, <2>2 DEF ClaimJob, OpsAllowed, TaskRecord
  <2> QED BY <1>2, <1>3, <1>6, <2>1, <2>2, <2>3, <2>4 DEF Run, StartRun, Finish
<1>7. ASSUME NEW t \in Task, Call(t) PROVE OpsAllowed'
  <2>1. CASE NodeServes(t) \/ CallTimesOut(t)
    BY <1>0, <2>1 DEF NodeServes, CallTimesOut, OpsAllowed, TaskRecord
  <2>2. CASE CallReturns(t)
    BY <1>0, <1>3, <2>2 DEF CallReturns, Refused, OpsAllowed, TaskRecord
  <2> QED BY <1>7, <2>1, <2>2 DEF Call
<1>8. CASE Crash
  BY <1>8 DEF Crash, OpsAllowed, Idle
<1>9. CASE UNCHANGED task
  BY <1>9 DEF OpsAllowed
<1> QED
  BY <1>5, <1>6, <1>7, <1>8, <1>9 DEF Next, NodeServesLate, Reconcile, HeartbeatInventory,
     Heartbeat, CommitHeartbeat, LoseHeartbeat, Age, vars

LEMMA PoolStep ==
    ASSUME "reserve" \notin Env, "release" \notin Env
    PROVE  TypeInv /\ OpsAllowed /\ PoolConsistent /\ [Next]_vars => PoolConsistent'
<1> SUFFICES ASSUME TypeInv, OpsAllowed, PoolConsistent, [Next]_vars PROVE PoolConsistent'
  OBVIOUS
<1>1. ASSUME NEW S, FreeAddresses(S) PROVE PoolConsistent'
  BY <1>1 DEF FreeAddresses, PoolConsistent
<1>2. ASSUME NEW t \in Task, CommitCreate(t) PROVE PoolConsistent'
  <2>1. task[t].vps \in Vps
    BY <1>2 DEF CommitCreate, At, TypeInv, TaskShape
  <2> QED BY <1>2, <2>1, ConstantsAssumption DEF CommitCreate, PoolConsistent, TypeInv, TypeOK
<1>3. ASSUME NEW t \in Task, CommitIp(t) PROVE PoolConsistent'
  BY <1>3 DEF CommitIp, OpsAllowed
<1>4. CASE UNCHANGED <<ipStatus, ipOwner>>
  BY <1>4 DEF PoolConsistent
<1>5. ASSUME NEW t \in Task, Request(t) PROVE PoolConsistent'
  BY <1>1, <1>2, <1>3, <1>4, <1>5 DEF Request, PrepareVps, LoseClaim, DeleteVps, FlushDeleting,
     CommitDelete, LifecycleAction, CommitLifecycle, ReserveIp, ReleaseIp, db
<1>6. ASSUME NEW t \in Task, Run(t) PROVE PoolConsistent'
  BY <1>1, <1>4, <1>6 DEF Run, StartRun, ClaimJob, ProvisionInSession, CommitProvisioned, FailVps,
     MarkProvisionFailed, Finish, db
<1> QED
  BY <1>1, <1>4, <1>5, <1>6 DEF Next, Call, NodeServes, CallTimesOut, CallReturns, NodeServesLate,
     Reconcile, HeartbeatInventory, Heartbeat, CommitHeartbeat, LoseHeartbeat, Age, Crash, db, vars

\* Claims, failures, deletions and sweeps lose no address and offer none twice.
THEOREM PoolKept ==
    ASSUME "reserve" \notin Env, "release" \notin Env
    PROVE  Spec => []PoolConsistent
<1>1. Init => OpsAllowed /\ PoolConsistent
  BY DEF Init, OpsAllowed, Idle, PoolConsistent
<1> QED BY <1>1, OpsStep, PoolStep, TypeInit, TypeStep, PTL DEF Spec
-----------------------------------------------------------------------------
(* What happens to a row, and to an address, besides.                      *)

\* DELETING is flushed and never committed: no heartbeat ever sees it, and the sweep
\* of NodeService.heartbeat never completes a deletion.
THEOREM DeletingIsNeverSeen == Spec => []NeverDeleting
<1>1. Inv => NeverDeleting
  BY DEF Inv
<1> QED BY <1>1, Invariance, PTL

\* A heartbeat gives no address back: a VPS that the sweep declares failed keeps its
\* address until it is deleted.
SweepFreesNothing == [][CommitHeartbeat => UNCHANGED <<ipStatus, ipOwner>>]_vars
THEOREM SweptKeepTheirAddresses == Spec => SweepFreesNothing
<1> DEFINE Frees == CommitHeartbeat => UNCHANGED <<ipStatus, ipOwner>>
<1>1. Inv => Frees
  <2> SUFFICES ASSUME Inv, CommitHeartbeat PROVE UNCHANGED <<ipStatus, ipOwner>>
    OBVIOUS
  <2>1. {v \in Vps : hb.new[v] = "deleted"} = {}
    BY DEF Inv, BeatWrites
  <2>2. FreeAddresses({})
    BY <2>1 DEF CommitHeartbeat
  <2> QED BY <2>2 DEF FreeAddresses, Inv, TypeInv, TypeOK
<1> QED BY <1>1, Invariance, PTL DEF Spec, SweepFreesNothing

\* A VPS is PROVISIONING once in its life, from its create on: neither a run that
\* comes late nor a heartbeat or a lifecycle request takes it back there.
ProvisionedOnce ==
    [][\A v \in Vps : status[v] # "none" /\ status'[v] = "provisioning"
          => status[v] = "provisioning"]_vars
THEOREM ProvisioningIsNeverResumed == Spec => ProvisionedOnce
<1> DEFINE Once == \A v \in Vps : status[v] # "none" /\ status'[v] = "provisioning"
                                    => status[v] = "provisioning"
<1>1. Inv /\ [Next]_vars => Once
  <2> SUFFICES ASSUME Inv, [Next]_vars, NEW v \in Vps, status[v] # "none",
                      status'[v] = "provisioning"
               PROVE  status[v] = "provisioning"
    OBVIOUS
  <2>1. ASSUME NEW t \in Task, CommitCreate(t) PROVE v # task[t].vps
    BY <2>1 DEF CommitCreate, At, Inv, CreatesAreNew
  <2>2. ASSUME NEW t \in Task, CommitDelete(t), v = task[t].vps PROVE FALSE
    BY <2>2 DEF CommitDelete, Inv, TypeInv, TypeOK
  <2> QED BY <2>1, <2>2, StatusSteps
<1> QED BY <1>1, Invariance, PTL DEF Spec, ProvisionedOnce

\* An instance on the node, also one that a call made which nobody waited for, and
\* one that such a call may make yet, has a row that its identity leads to.
InstancesHaveRows ==
    /\ \A v \in Vps : inst[v] # "absent" => status[v] # "none"
    /\ \A m \in late : status[m[2]] # "none"
THEOREM InstancesAreKnown == Spec => []InstancesHaveRows
<1>1. Init => InstancesHaveRows
  BY DEF Init, InstancesHaveRows
<1>2. Inv /\ InstancesHaveRows /\ [Next]_vars => InstancesHaveRows'
  <2> SUFFICES ASSUME Inv, InstancesHaveRows, [Next]_vars PROVE InstancesHaveRows'
    OBVIOUS
  <2>0. /\ TypeOK /\ TaskShape /\ RowsExist
        /\ \A m \in late : m[2] \in Vps
        /\ \A t \in Task : task[t].pc = "call" =>
              task[t].vps \in Vps /\ status[task[t].vps] # "none"
    BY DEF Inv, TypeInv, TypeOK, TaskShape, RowsExist
  <2>1. \A v \in Vps : status[v] # "none" => status'[v] # "none"
    BY RowsStay
  <2>2. ASSUME NEW v \in Vps, NEW i, SetInst(v, i), status[v] # "none"
        PROVE  \A w \in Vps : inst'[w] # "absent" => status'[w] # "none"
    BY <2>0, <2>1, <2>2 DEF SetInst, TypeOK, InstancesHaveRows
  <2>3. ASSUME NEW t \in Task, NodeServes(t) PROVE InstancesHaveRows'
    BY <2>0, <2>1, <2>2, <2>3 DEF NodeServes, InstancesHaveRows
  <2>4. ASSUME NEW m \in late, NodeServesLate(m) PROVE InstancesHaveRows'
    BY <2>0, <2>1, <2>2, <2>4 DEF NodeServesLate, InstancesHaveRows
  <2>5. ASSUME NEW S \in SUBSET Task, Abandon(S), UNCHANGED inst PROVE InstancesHaveRows'
    <3>1. \A m \in late' : m \in late \/ \E t \in Task : task[t].pc = "call" /\ m[2] = task[t].vps
      BY <2>5 DEF Abandon, Unserved
    <3> QED BY <2>0, <2>1, <2>5, <3>1 DEF InstancesHaveRows
  <2>6. CASE UNCHANGED <<inst, late>>
    BY <2>0, <2>1, <2>6 DEF InstancesHaveRows
  <2>7. ASSUME NEW t \in Task, CallTimesOut(t) \/ MarkProvisionFailed(t) PROVE InstancesHaveRows'
    BY <2>5, <2>7 DEF CallTimesOut, MarkProvisionFailed
  <2>8. CASE Crash
    BY <2>5, <2>8 DEF Crash
  <2> QED
    BY <2>3, <2>4, <2>6, <2>7, <2>8 DEF Next, Request, PrepareVps, CommitCreate, LoseClaim,
       DeleteVps, FlushDeleting, CommitDelete, LifecycleAction, CommitLifecycle, ReserveIp,
       ReleaseIp, CommitIp, Run, StartRun, ClaimJob, ProvisionInSession, CommitProvisioned,
       FailVps, Finish, Call, CallReturns, Reconcile, HeartbeatInventory, Heartbeat,
       CommitHeartbeat, LoseHeartbeat, Age, vars, node
<1> QED BY <1>1, <1>2, Invariance, PTL DEF Spec

\* A task selects the addresses to free once, those its VPS holds then, and keeps them.
LEMMA SelectionSteps ==
    ASSUME Inv, [Next]_vars, NEW u \in Task, task'[u].ips # {}
    PROVE  /\ task'[u].vps = task[u].vps
           /\ \/ task'[u].ips = task[u].ips
              \/ task[u].op \in NodeOps /\ task'[u].ips = AddressesOf(task[u].vps)
<1> DEFINE Keeps == task'[u].vps = task[u].vps /\ task'[u].ips = task[u].ips
           Goal == /\ task'[u].vps = task[u].vps
                   /\ \/ task'[u].ips = task[u].ips
                      \/ task[u].op \in NodeOps /\ task'[u].ips = AddressesOf(task[u].vps)
<1>0. TypeOK /\ TaskShape /\ task \in [Task -> TaskRecord] /\ task[u] \in TaskRecord
  BY DEF Inv, TypeInv, TypeOK
<1>1. task'[u] # Idle
  BY DEF Idle
<1>2. ASSUME NEW t \in Task, NEW op, NEW pc, NEW v, NEW a, NEW s, Begin(t, op, pc, v, a, s)
      PROVE  Goal
  <2>1. u # t
    BY <1>0, <1>2 DEF Begin, Idle
  <2> QED BY <1>0, <1>2, <2>1 DEF Begin
<1>3. ASSUME NEW t \in Task, Request(t) PROVE Goal
  <2>1. CASE FlushDeleting(t)
    BY <1>0, <2>1 DEF FlushDeleting, TaskRecord
  <2>2. CASE CommitCreate(t) \/ LoseClaim(t) \/ CommitDelete(t) \/ CommitLifecycle(t)
             \/ CommitIp(t)
    BY <1>0, <1>1, <2>2
       DEF CommitCreate, LoseClaim, CommitDelete, CommitLifecycle, CommitIp
  <2> QED
    BY <1>2, <1>3, <2>1, <2>2 DEF Request, PrepareVps, DeleteVps, LifecycleAction, ReserveIp,
       ReleaseIp
<1>4. ASSUME NEW t \in Task, Run(t) PROVE Goal
  <2>1. CASE \E v \in Vps : StartRun(t, v)
    BY <1>2, <2>1 DEF StartRun
  <2>2. CASE MarkProvisionFailed(t)
    BY <1>0, <2>2 DEF MarkProvisionFailed, At, TaskRecord, NodeOps
  <2>3. CASE ClaimJob(t) \/ Finish(t)
    BY <1>0, <1>1, <2>3 DEF ClaimJob, Finish, TaskRecord
  <2>4. CASE ProvisionInSession(t)
    BY <1>0, <2>4 DEF ProvisionInSession, TaskRecord
  <2>5. CASE CommitProvisioned(t) \/ FailVps(t)
    <3>1. task' = [task EXCEPT ![t].pc = "finish"]
      BY <2>5 DEF CommitProvisioned, FailVps
    <3> QED BY <1>0, <3>1 DEF TaskRecord
  <2> QED BY <1>4, <2>1, <2>2, <2>3, <2>4, <2>5 DEF Run
<1>5. ASSUME NEW t \in Task, Call(t) PROVE Goal
  <2>1. CASE NodeServes(t)
    BY <1>0, <2>1 DEF NodeServes, TaskRecord
  <2>2. CASE CallTimesOut(t)
    BY <1>0, <2>2 DEF CallTimesOut, TaskRecord
  <2>3. CASE CallReturns(t)
    BY <1>0, <1>1, <2>3 DEF CallReturns, TaskShape, TaskRecord
  <2> QED BY <1>5, <2>1, <2>2, <2>3 DEF Call
<1>6. CASE Crash
  BY <1>1, <1>6 DEF Crash
<1>7. CASE UNCHANGED task
  BY <1>7
<1> QED
  BY <1>3, <1>4, <1>5, <1>6, <1>7 DEF Next, NodeServesLate, Reconcile, HeartbeatInventory,
     Heartbeat, CommitHeartbeat, LoseHeartbeat, Age, vars

\* What a task is about to free, its VPS carries in its row.
Carries(v, a) == v \in Vps /\ status[v] # "none" /\ ipv4[v] = a
SelectedCarried == \A t \in Task : \A a \in task[t].ips : Carries(task[t].vps, a)

LEMMA SelectedStep == Inv /\ SelectedCarried /\ [Next]_vars => SelectedCarried'
<1> SUFFICES ASSUME Inv, SelectedCarried, [Next]_vars, NEW u \in Task, NEW a \in task'[u].ips
             PROVE  /\ task'[u].vps \in Vps /\ status'[task'[u].vps] # "none"
                    /\ ipv4'[task'[u].vps] = a
  BY DEF SelectedCarried, Carries
<1>0. TypeOK /\ TaskShape /\ RowsExist /\ CreatesAreNew /\ OwnerAgrees /\ NoVps \notin Vps
  BY ConstantsAssumption DEF Inv, TypeInv, ConstantsAssumption
<1>1. task'[u].vps = task[u].vps /\ Carries(task[u].vps, a)
  <2>1. CASE task'[u].ips = task[u].ips
    BY <2>1, SelectionSteps DEF SelectedCarried
  <2>2. CASE task[u].op \in NodeOps /\ task'[u].ips = AddressesOf(task[u].vps)
    BY <1>0, <2>2, SelectionSteps DEF TaskShape, RowsExist, OwnerAgrees, AddressesOf, Carries
  <2> QED BY <2>1, <2>2, SelectionSteps
<1>2. ASSUME NEW t \in Task, CommitCreate(t), task[t].vps = task[u].vps PROVE FALSE
  BY <1>1, <1>2 DEF CommitCreate, At, Inv, CreatesAreNew, Carries
<1>3. ipv4'[task[u].vps] = ipv4[task[u].vps]
  <2>1. CASE UNCHANGED ipv4
    BY <2>1
  <2>2. ASSUME NEW t \in Task, CommitCreate(t) PROVE ipv4'[task[u].vps] = ipv4[task[u].vps]
    BY <1>0, <1>1, <1>2, <2>2 DEF CommitCreate, TypeOK, Carries
  <2> QED BY <2>1, <2>2, Ipv4Steps
<1> QED BY <1>1, <1>3, RowsStay DEF Carries

\* A VPS loses its address by its own failure or deletion, by the administrator's
\* release, or by the failure or deletion of a VPS that was given the address before
\* it, gave it back, and writes once more what it had selected (_fail_vps and
\* delete_vps select the rows and commit later).
LostOnlyByRace ==
    [][\A a \in Addr : ipOwner[a] # NoVps /\ ipOwner'[a] # ipOwner[a] =>
          \E t \in Task :
             \/ CommitIp(t) /\ task[t].addr = a
             \/ /\ CommitDelete(t) \/ FailVps(t)
                /\ Carries(task[t].vps, a)]_vars
THEOREM AddressesLostOnlyByRace == Spec => LostOnlyByRace
<1> DEFINE Explained == \A a \in Addr : ipOwner[a] # NoVps /\ ipOwner'[a] # ipOwner[a] =>
              \E t \in Task : \/ CommitIp(t) /\ task[t].addr = a
                              \/ /\ CommitDelete(t) \/ FailVps(t)
                                 /\ Carries(task[t].vps, a)
<1>1. Inv /\ SelectedCarried /\ [Next]_vars => Explained
  <2> SUFFICES ASSUME Inv, SelectedCarried, [Next]_vars, NEW a \in Addr,
                      ipOwner[a] # NoVps, ipOwner'[a] # ipOwner[a]
               PROVE  \E t \in Task : \/ CommitIp(t) /\ task[t].addr = a
                                      \/ /\ CommitDelete(t) \/ FailVps(t)
                                         /\ Carries(task[t].vps, a)
    OBVIOUS
  <2>1. ASSUME NEW t \in Task, CommitDelete(t) \/ FailVps(t) PROVE Carries(task[t].vps, a)
    <3>1. a \in task[t].ips
      BY <2>1 DEF CommitDelete, FailVps, FreeAddresses
    <3> QED BY <3>1 DEF SelectedCarried
  <2>2. ASSUME NEW t \in Task, CommitIp(t) PROVE task[t].addr = a
    BY <2>2 DEF CommitIp, Inv, TypeInv, TypeOK
  <2>3. ASSUME NEW t \in Task, CommitCreate(t) PROVE FALSE
    BY <2>3, ConstantsAssumption, OwnerSteps
       DEF CommitCreate, ClaimSucceeds, ConstantsAssumption
  <2>4. CASE CommitHeartbeat
    <3>1. {v \in Vps : hb.new[v] = "deleted"} = {}
      BY DEF Inv, BeatWrites
    <3> QED BY <2>4, <3>1 DEF CommitHeartbeat, FreeAddresses
  <2> QED
    BY <2>1, <2>2, <2>3, <2>4 DEF Next, Request, PrepareVps, LoseClaim, DeleteVps,
       FlushDeleting, LifecycleAction, CommitLifecycle, ReserveIp, ReleaseIp, Run, StartRun,
       ClaimJob, ProvisionInSession, CommitProvisioned, MarkProvisionFailed, Finish, Call,
       NodeServes, CallTimesOut, CallReturns, NodeServesLate, Reconcile, HeartbeatInventory,
       Heartbeat, LoseHeartbeat, Age, Crash, db, vars
<1>2. Init => SelectedCarried
  BY DEF Init, Idle, SelectedCarried
<1>3. Spec => []SelectedCarried
  BY <1>2, Invariance, SelectedStep, PTL DEF Spec
<1> QED BY <1>1, <1>3, Invariance, PTL DEF Spec, LostOnlyByRace
-----------------------------------------------------------------------------
(* Deletion, for good.                                                     *)

\* A task comes to write the status of a VPS only by loading one that is not deleted.
LEMMA WritingSteps ==
    ASSUME TypeInv, [Next]_vars, NEW u \in Task, Writing(task'[u])
    PROVE  \/ Writing(task[u]) /\ task'[u].vps = task[u].vps
           \/ status[task'[u].vps] # "deleted"
<1> DEFINE Goal == \/ Writing(task[u]) /\ task'[u].vps = task[u].vps
                   \/ status[task'[u].vps] # "deleted"
<1>0. TypeOK /\ TaskShape /\ task \in [Task -> TaskRecord] /\ task[u] \in TaskRecord
  BY DEF TypeInv, TypeOK
<1>1. ASSUME NEW t \in Task, t # u, Request(t) \/ Run(t) \/ Call(t) PROVE Goal
  <2>1. task'[u] = task[u]
    <3>1. ASSUME NEW op, NEW pc, NEW v, NEW a, NEW s, Begin(t, op, pc, v, a, s)
          PROVE  task'[u] = task[u]
      BY <1>1, <3>1, <1>0 DEF Begin
    <3>2. CASE Request(t)
      BY <1>1, <3>1, <3>2, <1>0 DEF Request, PrepareVps, CommitCreate, LoseClaim, DeleteVps,
         CommitDelete, FlushDeleting, LifecycleAction, CommitLifecycle, ReserveIp, ReleaseIp,
         CommitIp
    <3>3. CASE Run(t)
      BY <1>1, <3>1, <3>3, <1>0 DEF Run, StartRun, ClaimJob, ProvisionInSession,
         CommitProvisioned, FailVps, MarkProvisionFailed, Finish
    <3>4. CASE Call(t)
      BY <1>1, <3>4, <1>0 DEF Call, NodeServes, CallTimesOut, CallReturns
    <3> QED BY <1>1, <3>2, <3>3, <3>4
  <2> QED BY <2>1
<1>2. ASSUME Request(u) PROVE Goal
  <2>1. ASSUME NEW v \in Vps, NEW op \in {"start", "stop"}, LifecycleAction(u, v, op)
        PROVE  Goal
    BY <2>1, <1>0 DEF LifecycleAction, Visible, Begin, Idle
  <2>2. ASSUME NEW v \in Vps, NEW a \in Addr \cup {NoAddr}, PrepareVps(u, v, a) PROVE Goal
    BY <2>2, <1>0 DEF PrepareVps, Begin, Idle, Writing
  <2>3. ASSUME NEW v \in Vps, DeleteVps(u, v) PROVE Goal
    BY <2>3, <1>0 DEF DeleteVps, Begin, Idle, Writing
  <2>4. ASSUME NEW a \in Addr, ReserveIp(u, a) \/ ReleaseIp(u, a) PROVE Goal
    <3>1. PICK op \in {"reserve", "release"} :
              Begin(u, op, "commit", ipOwner[a], a, ipStatus[a])
      BY <2>4 DEF ReserveIp, ReleaseIp
    <3>2. task'[u].op = op
      BY <3>1, <1>0 DEF Begin, Idle
    <3> QED BY <3>2 DEF Writing
  <2>5. ASSUME FlushDeleting(u) PROVE Goal
    BY <2>5, <1>0 DEF FlushDeleting, At, TaskRecord, Writing
  <2>6. ASSUME CommitCreate(u) \/ LoseClaim(u) \/ CommitDelete(u) \/ CommitLifecycle(u)
               \/ CommitIp(u)
        PROVE  Goal
    <3>1. task'[u] = Idle
      BY <2>6, <1>0 DEF CommitCreate, LoseClaim, CommitDelete, CommitLifecycle, CommitIp
    <3> QED BY <3>1 DEF Idle, Writing
  <2> QED BY <1>2, <2>1, <2>2, <2>3, <2>4, <2>5, <2>6 DEF Request
<1>3. ASSUME Run(u) PROVE Goal
  <2>1. ASSUME NEW v \in Vps, StartRun(u, v) PROVE Goal
    BY <2>1, <1>0 DEF StartRun, Begin, Idle, Writing
  <2>2. ASSUME ClaimJob(u) \/ Finish(u) PROVE Goal
    BY <2>2, <1>0 DEF ClaimJob, Finish, Idle, TaskRecord, Writing
  <2>3. ASSUME ProvisionInSession(u) PROVE Goal
    BY <2>3, <1>0 DEF ProvisionInSession, TaskRecord, Writing
  <2>4. ASSUME CommitProvisioned(u) \/ FailVps(u) PROVE Goal
    <3>1. task' = [task EXCEPT ![u].pc = "finish"]
      BY <2>4 DEF CommitProvisioned, FailVps
    <3> QED BY <3>1, <1>0 DEF TaskRecord, Writing
  <2>5. ASSUME MarkProvisionFailed(u) PROVE Goal
    BY <2>5, <1>0 DEF MarkProvisionFailed, At, TaskRecord, Writing
  <2> QED BY <1>3, <2>1, <2>2, <2>3, <2>4, <2>5 DEF Run
<1>4. ASSUME Call(u) PROVE Goal
  <2>1. ASSUME NodeServes(u) \/ CallTimesOut(u) PROVE Goal
    BY <2>1, <1>0 DEF NodeServes, CallTimesOut, TaskRecord, Writing
  <2>2. ASSUME CallReturns(u) PROVE Goal
    BY <2>2, <1>0 DEF CallReturns, Idle, TaskRecord, Writing
  <2> QED BY <1>4, <2>1, <2>2 DEF Call
<1>5. CASE Crash
  BY <1>5 DEF Crash, Idle, Writing
<1>6. CASE UNCHANGED task
  BY <1>6
<1> QED
  BY <1>1, <1>2, <1>3, <1>4, <1>5, <1>6 DEF Next, NodeServesLate, Reconcile,
     HeartbeatInventory, Heartbeat, CommitHeartbeat, LoseHeartbeat, Age, vars

\* The node does not make an instance of a settled VPS again.
LEMMA SettledNode ==
    ASSUME TypeInv, [Next]_vars, NEW v \in Vps, Settled(v)
    PROVE  inst'[v] = "absent" /\ <<"provision", v>> \notin late'
<1>0. TypeOK /\ TaskShape
  BY DEF TypeInv
<1>1. ASSUME NEW op, op # "provision", NEW e \in Effects(op, "absent")
      PROVE  e[1] = "absent"
  BY <1>1 DEF Effects
<1>2. ASSUME NEW t \in Task, NodeServes(t) PROVE inst'[v] = "absent"
  <2>1. PICK e \in Effects(task[t].op, inst[task[t].vps]) : SetInst(task[t].vps, e[1])
    BY <1>2 DEF NodeServes
  <2>2. CASE task[t].vps = v
    <3>1. task[t].op # "provision"
      BY <1>2, <2>2 DEF NodeServes, Settled, Writing
    <3> QED BY <1>0, <1>1, <2>1, <2>2, <3>1 DEF SetInst, Settled, TypeOK
  <2>3. CASE task[t].vps # v
    BY <1>0, <2>1, <2>3 DEF SetInst, Settled, TypeOK
  <2> QED BY <2>2, <2>3
<1>3. ASSUME NEW m \in late, NodeServesLate(m) PROVE inst'[v] = "absent" /\ late' \subseteq late
  <2>1. PICK e \in Effects(m[1], inst[m[2]]) : SetInst(m[2], e[1])
    BY <1>3 DEF NodeServesLate
  <2>2. m = <<m[1], m[2]>>
    BY <1>0 DEF TypeOK
  <2>3. CASE m[2] = v
    <3>1. m[1] # "provision"
      BY <2>2, <2>3 DEF Settled
    <3> QED BY <1>0, <1>1, <1>3, <2>1, <2>3, <3>1 DEF NodeServesLate, SetInst, Settled, TypeOK
  <2>4. CASE m[2] # v
    BY <1>0, <1>3, <2>1, <2>4 DEF NodeServesLate, SetInst, Settled, TypeOK
  <2> QED BY <2>3, <2>4
<1>4. ASSUME NEW S \in SUBSET Task, Abandon(S) PROVE <<"provision", v>> \notin late'
  <2>1. <<"provision", v>> \notin Unserved(S)
    BY DEF Unserved, Settled, Writing
  <2> QED BY <1>4, <2>1 DEF Abandon, Settled
<1>5. ASSUME NEW t \in Task, CallTimesOut(t) \/ MarkProvisionFailed(t)
      PROVE  inst' = inst /\ <<"provision", v>> \notin late'
  BY <1>4, <1>5 DEF CallTimesOut, MarkProvisionFailed
<1>6. CASE Crash
  BY <1>4, <1>6 DEF Crash, Settled
<1>7. CASE UNCHANGED <<inst, late>>
  BY <1>7 DEF Settled
<1>8. ASSUME NEW t \in Task, NodeServes(t) PROVE late' = late
  BY <1>8 DEF NodeServes
<1> QED
  BY <1>2, <1>3, <1>5, <1>6, <1>7, <1>8 DEF Next, Request, PrepareVps, CommitCreate, LoseClaim,
     DeleteVps, FlushDeleting, CommitDelete, LifecycleAction, CommitLifecycle, ReserveIp,
     ReleaseIp, CommitIp, Run, StartRun, ClaimJob, ProvisionInSession, CommitProvisioned,
     FailVps, Finish, Call, CallReturns, Reconcile, HeartbeatInventory, Heartbeat,
     CommitHeartbeat, LoseHeartbeat, Age, vars, node, Settled

\* No heartbeat reports a settled VPS or decides on its row.
LEMMA SettledBeat ==
    ASSUME TypeInv, [Next]_vars, NEW v \in Vps, Settled(v)
    PROVE  hb'.inv[v] = "absent" /\ hb'.new[v] = "keep"
<1>0. hb \in Beat /\ hb.inv[v] = "absent" /\ hb.new[v] = "keep"
  BY DEF TypeInv, TypeOK, Settled
<1>1. CASE HeartbeatInventory
  BY <1>0, <1>1 DEF HeartbeatInventory, Beat, Settled
<1>2. CASE Heartbeat
  <2>1. hb'.new[v] = Reconciled(v) /\ hb'.inv = hb.inv
    BY <1>0, <1>2 DEF Heartbeat, Beat
  <2>2. Reconciled(v) = "keep"
    BY <1>0 DEF Reconciled, Transitional, Settled
  <2> QED BY <1>0, <2>1, <2>2
<1>3. CASE CommitHeartbeat \/ LoseHeartbeat \/ Crash
  BY <1>3 DEF CommitHeartbeat, LoseHeartbeat, Crash, NoBeat
<1>4. CASE UNCHANGED hb
  BY <1>0, <1>4
<1> QED
  BY <1>1, <1>2, <1>3, <1>4 DEF Next, Request, PrepareVps, CommitCreate, LoseClaim, DeleteVps,
     CommitDelete, FlushDeleting, LifecycleAction, CommitLifecycle, ReserveIp, ReleaseIp,
     CommitIp, Run, StartRun, ClaimJob, ProvisionInSession, CommitProvisioned, FailVps,
     MarkProvisionFailed, Finish, Call, NodeServes, CallTimesOut, CallReturns, NodeServesLate,
     Reconcile, Age, vars

\* No step takes a settled VPS out of DELETED.
LEMMA SettledRow ==
    ASSUME Inv, [Next]_vars, NEW v \in Vps, Settled(v)
    PROVE  status'[v] = "deleted"
<1>0. TypeOK /\ CreatesAreNew /\ status[v] = "deleted" /\ hb.new[v] = "keep"
  BY DEF Inv, TypeInv, Settled
<1>1. ASSUME NEW t \in Task, CommitCreate(t) \/ CommitDelete(t) PROVE status'[v] = "deleted"
  BY <1>0, <1>1 DEF CommitCreate, CommitDelete, At, CreatesAreNew, TypeOK
<1>2. ASSUME NEW t \in Task, CommitProvisioned(t) \/ FailVps(t) \/ CommitLifecycle(t)
      PROVE  status'[v] = "deleted"
  <2>1. Writing(task[t])
    BY <1>2 DEF CommitProvisioned, FailVps, CommitLifecycle, At, Writing
  <2>2. task[t].vps # v
    BY <2>1 DEF Settled
  <2>3. \A l, new : WriteStatus(task[t].vps, l, new) => status'[v] = status[v]
    BY <1>0, <2>2 DEF WriteStatus, TypeOK
  <2> QED BY <1>0, <1>2, <2>3 DEF CommitProvisioned, FailVps, CommitLifecycle
<1>3. CASE CommitHeartbeat
  BY <1>0, <1>3 DEF CommitHeartbeat
<1>4. CASE UNCHANGED status
  BY <1>0, <1>4
<1> QED
  BY <1>1, <1>2, <1>3, <1>4 DEF Next, Request, PrepareVps, LoseClaim, DeleteVps, FlushDeleting,
     LifecycleAction, ReserveIp, ReleaseIp, CommitIp, Run, StartRun, ClaimJob,
     ProvisionInSession, MarkProvisionFailed, Finish, Call, NodeServes, CallTimesOut,
     CallReturns, NodeServesLate, Reconcile, HeartbeatInventory, Heartbeat, LoseHeartbeat, Age,
     Crash, db, vars

\* Nothing that a step does unsettles a settled deletion.
LEMMA SettledStep ==
    ASSUME Inv, [Next]_vars, NEW v \in Vps, Settled(v)
    PROVE  Settled(v)'
<1>1. TypeInv
  BY DEF Inv
<1>2. ASSUME NEW t \in Task, task'[t].vps = v PROVE ~Writing(task'[t])
  BY <1>1, <1>2, WritingSteps DEF Settled
<1>3. status'[v] = "deleted"
  BY SettledRow
<1>4. inst'[v] = "absent" /\ <<"provision", v>> \notin late'
  BY <1>1, SettledNode
<1>5. hb'.inv[v] = "absent" /\ hb'.new[v] = "keep"
  BY <1>1, SettledBeat
<1> QED BY <1>2, <1>3, <1>4, <1>5 DEF Settled, Writing

\* DELETED is not final by itself (get_vps_checked refuses a deleted VPS, but what had
\* loaded it before commits over it), and it is final once all of that is done: no step
\* of runs of its job that begin later, creates, heartbeats, sweeps or crashes undoes it.
THEOREM SettledIsFinal == Spec => DeletedStaysSettled
<1>1. Inv /\ [Next]_vars => [\A v \in Vps : Settled(v) => Settled(v)']_vars
  BY SettledStep
<1> QED BY <1>1, Invariance, PTL DEF Spec, DeletedStaysSettled

\* The same over a whole behaviour: a deletion that is settled stays so for ever.
THEOREM SettledStaysDeleted ==
    ASSUME NEW v \in Vps
    PROVE  Spec => [](Settled(v) => []Settled(v))
<1>1. Inv /\ Settled(v) /\ [Next]_vars => Settled(v)'
  BY SettledStep
<1> QED BY <1>1, Invariance, PTL DEF Spec
=============================================================================
