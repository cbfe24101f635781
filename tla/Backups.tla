------------------------------- MODULE Backups -------------------------------
(***************************************************************************)
(* The backups of the VPS of one node: the rows of the control plane and   *)
(* the archives that LXD keeps with the instances.  A request loads its    *)
(* rows, calls the node and commits when the answer is good; after any     *)
(* failure it is rolled back, the row it had flushed included.  The node   *)
(* looks an archive up by its name alone, on every instance.               *)
(*                                                                         *)
(* A call may be served although it failed for its caller, at once or      *)
(* later.  How LXD stores archives is external.                            *)
(***************************************************************************)
EXTENDS Naturals, FiniteSets

CONSTANTS
    Vps, Name,
    Row,            \* rows ever made: a bound
    Task,           \* requests in flight: a bound
    MaxLate,        \* bound on the calls that time out and are served later
    NoVps, NoName, NoRow

ASSUME BackupsAssumption ==
    MaxLate \in Nat /\ NoVps \notin Vps /\ NoName \notin Name /\ NoRow \notin Row

VARIABLES
    row,        \* the committed rows: none, completed or gone, of a VPS and a name
    deleted,    \* the VPS that are deleted
    inst, data, \* the instances, and the VPS whose data each holds
    arch,       \* the archives: of an instance and a name, the VPS whose data it is
    task, late, \* requests in flight; calls that may still be served
    used, tried, failed     \* history: names asked for, deleted, failed, per VPS

node == <<inst, data, arch>>
past == <<used, tried, failed>>
vars == <<row, deleted, node, task, late, past>>

NoCall == [op |-> "none", vps |-> NoVps, name |-> NoName]
NoneYet == [vps |-> NoVps, name |-> NoName, state |-> "none"]
Gone == [NoneYet EXCEPT !.state = "gone"]
Idle == [call |-> NoCall, row |-> NoRow, pc |-> "idle"]

Init ==
    /\ row = [r \in Row |-> NoneYet]
    /\ deleted = {} /\ inst = [v \in Vps |-> TRUE] /\ data = [v \in Vps |-> v]
    /\ arch = [a \in Vps \X Name |-> NoVps]
    /\ task = [t \in Task |-> Idle] /\ late = {} /\ used = {} /\ tried = {} /\ failed = {}

Completed(r) == row[r].state = "completed"
Begin(t, op, v, n, r) ==
    /\ task[t] = Idle
    /\ task' = [task EXCEPT ![t] = [call |-> [op |-> op, vps |-> v, name |-> n],
                                    row |-> r, pc |-> "calling"]]
Unused(r) == row[r].state = "none" /\ \A t \in Task : task[t].row # r
NewRow(r) == Unused(r) /\ r = CHOOSE s \in Row : Unused(s)

-----------------------------------------------------------------------------
(* The requests, up to their call.                                         *)

\* The row is flushed as RUNNING; nobody else sees it.
LoadCreate(t, v, n, r) ==
    /\ v \notin deleted /\ NewRow(r) /\ Begin(t, "create", v, n, r)
    /\ used' = used \cup {<<v, n>>}
    /\ UNCHANGED <<row, deleted, node, late, tried, failed>>

\* Seeded fault of LoadRestore: the backup need not be one of the VPS.
LoadRestoreAny(t, v, r) ==
    /\ v \notin deleted /\ Completed(r) /\ Begin(t, "restore", v, row[r].name, r)
    /\ UNCHANGED <<row, deleted, node, late, past>>
\* Only a completed backup of the VPS, by the path that its name makes.
LoadRestore(t, v, r) ==
    /\ v \notin deleted /\ Completed(r) /\ row[r].vps = v
    /\ Begin(t, "restore", v, row[r].name, r)
    /\ UNCHANGED <<row, deleted, node, late, past>>

\* The call carries the name of the backup and nothing else.
LoadDelete(t, v, r) ==
    /\ v \notin deleted /\ Completed(r) /\ row[r].vps = v
    /\ Begin(t, "delete", v, row[r].name, r) /\ tried' = tried \cup {<<v, row[r].name>>}
    /\ UNCHANGED <<row, deleted, node, late, used, failed>>

-----------------------------------------------------------------------------
(* The node.                                                               *)

\* LXD refuses a second archive of one name on one instance.
ServesCreate(c) ==
    /\ inst[c.vps] /\ arch[<<c.vps, c.name>>] = NoVps
    /\ arch' = [arch EXCEPT ![<<c.vps, c.name>>] = data[c.vps]] /\ UNCHANGED <<inst, data>>
\* The first instance that LXD lists and that has an archive of the name.
ServesDelete(c) ==
    \E v \in Vps : /\ inst[v] /\ arch[<<v, c.name>>] # NoVps
                   /\ arch' = [arch EXCEPT ![<<v, c.name>>] = NoVps] /\ UNCHANGED <<inst, data>>
\* lxc import --force of the file of that name makes or replaces the instance.
ServesRestore(c) ==
    \E v \in Vps : /\ arch[<<v, c.name>>] # NoVps
                   /\ data' = [data EXCEPT ![c.vps] = arch[<<v, c.name>>]]
                   /\ inst' = [inst EXCEPT ![c.vps] = TRUE] /\ UNCHANGED arch
Serves(c) ==
    \/ c.op = "create" /\ ServesCreate(c)
    \/ c.op = "delete" /\ ServesDelete(c)
    \/ c.op = "restore" /\ ServesRestore(c)

Calling(t) == task[t].pc = "calling"
Answer(t) == task' = [task EXCEPT ![t].pc = "ok"]
End(t) == task' = [task EXCEPT ![t] = Idle]
Known == <<row, deleted, used, tried>>
\* The request is rolled back: a failed call, a failed commit, the end of the process.
Rollback(t) == End(t) /\ failed' = failed \cup {<<task[t].call.vps, task[t].call.name>>}

CallSucceeds(t) ==
    /\ Calling(t) /\ Answer(t) /\ Serves(task[t].call) /\ UNCHANGED <<Known, late, failed>>
\* Seeded fault of CallFails: the error is not raised.
CallIgnored(t) == Calling(t) /\ Answer(t) /\ UNCHANGED <<Known, node, late, failed>>
\* Refused, lost, or served although the answer is an error or lost.
CallFails(t) ==
    /\ Calling(t) /\ Rollback(t) /\ (Serves(task[t].call) \/ UNCHANGED node)
    /\ UNCHANGED <<Known, late>>
CallTimesOut(t) ==
    /\ Calling(t) /\ Rollback(t) /\ Cardinality(late) < MaxLate
    /\ late' = late \cup {task[t].call} /\ UNCHANGED <<Known, node>>
\* Or never: it then stays where it is.
ServeLate(c) == late' = late \ {c} /\ Serves(c) /\ UNCHANGED <<Known, task, failed>>

-----------------------------------------------------------------------------
(* The requests, after their call.                                         *)

CommitCreate(t) ==
    LET c == task[t].call IN
    /\ c.op = "create" /\ task[t].pc = "ok" /\ End(t)
    /\ row' = [row EXCEPT ![task[t].row] = [vps |-> c.vps, name |-> c.name, state |-> "completed"]]
    /\ UNCHANGED <<deleted, node, late, past>>

\* restored_at and the audit record.
CommitRestore(t) ==
    /\ task[t].call.op = "restore" /\ task[t].pc = "ok" /\ End(t)
    /\ UNCHANGED <<row, deleted, node, late, past>>

\* Seeded fault of CommitDelete: the row is deleted before the node has answered.
CommitDeleteEarly(t) ==
    /\ task[t].call.op = "delete" /\ End(t)
    /\ row' = [row EXCEPT ![task[t].row] = Gone] /\ UNCHANGED <<deleted, node, late, past>>
\* A row that another request has deleted meanwhile fails the commit.
CommitDelete(t) ==
    /\ task[t].call.op = "delete" /\ task[t].pc = "ok" /\ Completed(task[t].row) /\ End(t)
    /\ row' = [row EXCEPT ![task[t].row] = Gone] /\ UNCHANGED <<deleted, node, late, past>>

CommitFails(t) == task[t].pc = "ok" /\ Rollback(t) /\ UNCHANGED <<Known, node, late>>

\* VpsControl details it: LXD removes the instance and what it keeps with it.
DeleteVps(v) ==
    /\ v \notin deleted /\ deleted' = deleted \cup {v} /\ inst' = [inst EXCEPT ![v] = FALSE]
    /\ arch' = [a \in Vps \X Name |-> IF a[1] = v THEN NoVps ELSE arch[a]]
    /\ UNCHANGED <<row, data, task, late, past>>

Next ==
    \/ \E t \in Task :
          \/ \E v \in Vps, r \in Row :
                LoadRestore(t, v, r) \/ LoadDelete(t, v, r) \/ \E n \in Name : LoadCreate(t, v, n, r)
          \/ CallSucceeds(t) \/ CallFails(t) \/ CallTimesOut(t)
          \/ CommitCreate(t) \/ CommitRestore(t) \/ CommitDelete(t) \/ CommitFails(t)
    \/ \E c \in late : ServeLate(c)
    \/ \E v \in Vps : DeleteVps(v)

Spec == Init /\ [][Next]_vars

-----------------------------------------------------------------------------
(* Properties.                                                             *)
\* "the control plane always names backups uniquely": two VPS never had a backup,
\* or asked for one, of the same name.
NamesUnique == \A a, b \in used : a[2] = b[2] => a[1] = b[1]
Kept(v, n) == arch[<<v, n>>] # NoVps

\* If names are unique, a completed backup can be relied on: its archive is on the
\* node until its own deletion is tried or its VPS is deleted, whatever calls
\* fail, are lost or come late.
BackedUntilDeleted ==
    NamesUnique => \A r \in Row : Completed(r) =>
        \/ Kept(row[r].vps, row[r].name)
        \/ <<row[r].vps, row[r].name>> \in tried \/ row[r].vps \in deleted

\* If names are unique, a restore never brings in the data of another VPS.
OwnData == NamesUnique => \A v \in Vps : data[v] = v

\* If names are unique, every archive on the node has a row or a request in flight
\* that it belongs to, unless a call or a commit about it has failed: then nothing
\* in the control plane knows it.
ArchivesListed ==
    NamesUnique => \A v \in Vps, n \in Name : Kept(v, n) =>
        \/ \E r \in Row : Completed(r) /\ row[r].vps = v /\ row[r].name = n
        \/ \E t \in Task : task[t].call.vps = v /\ task[t].call.name = n
        \/ <<v, n>> \in failed

-----------------------------------------------------------------------------
(* What the documentation says and the code does not keep.                 *)

\* "the control plane always names backups uniquely": deleting a backup leaves the
\* archives of other VPS alone.
DeletesOwnArchive ==
    [][\A v \in Vps, n \in Name : v \notin deleted' /\ Kept(v, n) /\ ~Kept(v, n)' => <<v, n>> \in tried]_vars
=============================================================================
