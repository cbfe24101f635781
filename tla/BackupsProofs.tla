---------------------------- MODULE BackupsProofs ----------------------------
(* Proofs about Backups, for any number of VPS, names, rows and requests    *)
(* and any number of late calls.                                            *)
EXTENDS Backups, TLAPS

-----------------------------------------------------------------------------
(* Types.                                                                  *)
Call == [op : {"create", "restore", "delete"}, vps : Vps, name : Name]
Record == [call : Call \cup {NoCall}, row : Row \cup {NoRow}, pc : {"idle", "calling", "ok"}]
Backup == [vps : Vps \cup {NoVps}, name : Name \cup {NoName}, state : {"none", "completed", "gone"}]
NodeTyped ==
    /\ inst \in [Vps -> BOOLEAN] /\ data \in [Vps -> Vps] /\ arch \in [Vps \X Name -> Vps \cup {NoVps}]
TypeOK ==
    /\ row \in [Row -> Backup] /\ task \in [Task -> Record] /\ late \subseteq Call /\ NodeTyped

-----------------------------------------------------------------------------
(* The inductive invariant.                                                *)

\* Whatever the node is asked to do, or keeps, was asked for.
CallGood(c) == <<c.vps, c.name>> \in used /\ (c.op = "delete" => <<c.vps, c.name>> \in tried)
ArchivesAskedFor == \A v \in Vps, n \in Name : Kept(v, n) => <<v, n>> \in used
LateGood == \A c \in late : CallGood(c) /\ <<c.vps, c.name>> \in failed

\* The instances, and the archives of an instance, hold its own data.
Own == NamesUnique => \A v \in Vps : data[v] = v /\ \A n \in Name : Kept(v, n) => arch[<<v, n>>] = v

\* What may be relied on: nothing is missing on the node that nobody deleted.
Safe(v, n) == Kept(v, n) \/ <<v, n>> \in tried \/ v \in deleted
Does(t, op, v, n) == task[t].call = [op |-> op, vps |-> v, name |-> n]
RowOf(r, v, n) == Completed(r) /\ row[r].vps = v /\ row[r].name = n

\* A request in flight: a create's row is still its own, and what a request means by
\* its row is what its call says.
TaskGood(t) ==
    /\ task[t].pc = "idle" => task[t] = Idle
    /\ task[t].pc # "idle" => /\ task[t].call \in Call /\ CallGood(task[t].call)
                              /\ task[t].row \in Row
    /\ task[t].call.op = "create" =>
          /\ row[task[t].row].state = "none"
          /\ \A u \in Task : u # t => task[u].row # task[t].row
    /\ task[t].call.op # "create" /\ task[t].pc # "idle" /\ Completed(task[t].row) =>
          RowOf(task[t].row, task[t].call.vps, task[t].call.name)
Created(t, v, n) == Does(t, "create", v, n) /\ task[t].pc = "ok"
CreatedSafe == NamesUnique => \A t \in Task, v \in Vps, n \in Name : Created(t, v, n) => Safe(v, n)
RowsGood == \A r \in Row : Completed(r) => /\ row[r].vps \in Vps /\ row[r].name \in Name
                                           /\ <<row[r].vps, row[r].name>> \in used

\* A row that no answered deletion is about to remove.
Stays(r) == \A t \in Task : ~(task[t].call.op = "delete" /\ task[t].pc = "ok" /\ task[t].row = r)
Accounted(v, n) ==
    \/ <<v, n>> \in failed
    \/ \E t \in Task : Created(t, v, n)
    \/ \E r \in Row : RowOf(r, v, n) /\ Stays(r)
AllAccounted == NamesUnique => \A v \in Vps, n \in Name : Kept(v, n) => Accounted(v, n)

Inv ==
    /\ TypeOK /\ ArchivesAskedFor /\ LateGood /\ RowsGood /\ (\A t \in Task : TaskGood(t))
    /\ Own /\ CreatedSafe /\ BackedUntilDeleted /\ AllAccounted

-----------------------------------------------------------------------------
(* The node.                                                               *)

LEMMA UniqueMeans ==
    ASSUME NamesUnique, NEW v, NEW w, NEW n, <<v, n>> \in used, <<w, n>> \in used PROVE v = w
BY DEF NamesUnique

\* What a call does, if names are unique: it concerns the archive it names, alone.
Only(v, n) == \A w \in Vps, m \in Name : w # v \/ m # n => (Kept(w, m)' <=> Kept(w, m))
LEMMA ServesTyped ==
    ASSUME NodeTyped, ArchivesAskedFor, Own, NEW c \in Call, CallGood(c), Serves(c), used' = used
    PROVE  /\ NodeTyped' /\ ArchivesAskedFor' /\ Own'
           /\ NamesUnique => Only(c.vps, c.name)
           /\ NamesUnique /\ c.op = "delete" => ~Kept(c.vps, c.name)'
           /\ c.op # "delete" => (Kept(c.vps, c.name) => Kept(c.vps, c.name)')
           /\ c.op = "create" => Kept(c.vps, c.name)'
           /\ c.op = "restore" => UNCHANGED arch
<1>1. c.vps \in Vps /\ c.name \in Name /\ <<c.vps, c.name>> \in used
  BY DEF Call, CallGood
<1>2. NamesUnique' <=> NamesUnique
  BY DEF NamesUnique
<1>3. CASE c.op = "create" /\ ServesCreate(c)
  <2>1. data[c.vps] \in Vps /\ data[c.vps] # NoVps
    BY <1>1, BackupsAssumption DEF NodeTyped
  <2>2. /\ arch' \in [Vps \X Name -> Vps \cup {NoVps}] /\ arch'[<<c.vps, c.name>>] = data[c.vps]
        /\ \A w \in Vps, m \in Name : w # c.vps \/ m # c.name => arch'[<<w, m>>] = arch[<<w, m>>]
    BY <1>1, <1>3, <2>1 DEF ServesCreate, NodeTyped
  <2>3. UNCHANGED <<inst, data>>
    BY <1>3 DEF ServesCreate
  <2>4. NodeTyped'
    BY <2>2, <2>3 DEF NodeTyped
  <2>5. ArchivesAskedFor'
    BY <1>1, <2>2 DEF ArchivesAskedFor, Kept
  <2>6. Own'
    BY <1>1, <1>2, <2>2, <2>3 DEF Own, Kept
  <2>7. Only(c.vps, c.name) /\ Kept(c.vps, c.name)'
    BY <2>1, <2>2 DEF Only, Kept
  <2> QED BY <1>3, <2>4, <2>5, <2>6, <2>7
<1>4. CASE c.op = "delete" /\ ServesDelete(c)
  <2>1. PICK v \in Vps : /\ Kept(v, c.name) /\ inst' = inst /\ data' = data
                         /\ arch' = [arch EXCEPT ![<<v, c.name>>] = NoVps]
    BY <1>4 DEF ServesDelete, Kept
  <2>2. /\ arch' \in [Vps \X Name -> Vps \cup {NoVps}] /\ arch'[<<v, c.name>>] = NoVps
        /\ \A w \in Vps, m \in Name : w # v \/ m # c.name => arch'[<<w, m>>] = arch[<<w, m>>]
    BY <1>1, <2>1 DEF NodeTyped, Kept
  <2>3. NodeTyped'
    BY <2>1, <2>2 DEF NodeTyped
  <2>4. ArchivesAskedFor'
    BY <1>1, <2>2 DEF ArchivesAskedFor, Kept
  <2>5. Own'
    BY <1>1, <1>2, <2>1, <2>2 DEF Own, Kept
  <2>6. ASSUME NamesUnique PROVE Only(c.vps, c.name) /\ ~Kept(c.vps, c.name)'
    <3>1. v = c.vps
      BY <1>1, <2>1, <2>6, UniqueMeans DEF ArchivesAskedFor, Kept
    <3> QED BY <2>2, <3>1 DEF Only, Kept
  <2> QED BY <1>4, <2>3, <2>4, <2>5, <2>6
<1>5. CASE c.op = "restore" /\ ServesRestore(c)
  <2>1. PICK v \in Vps : /\ Kept(v, c.name) /\ arch' = arch
                         /\ data' = [data EXCEPT ![c.vps] = arch[<<v, c.name>>]]
                         /\ inst' = [inst EXCEPT ![c.vps] = TRUE]
    BY <1>5 DEF ServesRestore, Kept
  <2>2. arch[<<v, c.name>>] \in Vps
    BY <1>1, <2>1 DEF NodeTyped, Kept
  <2>3. NodeTyped'
    BY <1>1, <2>1, <2>2 DEF NodeTyped
  <2>4. ArchivesAskedFor' /\ Only(c.vps, c.name) /\ (Kept(c.vps, c.name) => Kept(c.vps, c.name)')
    BY <2>1 DEF ArchivesAskedFor, Only, Kept
  <2>5. Own'
    <3> SUFFICES ASSUME NamesUnique PROVE Own'
      BY <1>2 DEF Own
    <3>1. v = c.vps
      BY <1>1, <2>1, UniqueMeans DEF ArchivesAskedFor, Kept
    <3>2. arch[<<v, c.name>>] = c.vps
      BY <1>1, <2>1, <3>1 DEF Own, Kept
    <3>3. data' = data
      BY <1>1, <2>1, <3>2 DEF Own, NodeTyped
    <3> QED BY <2>1, <3>3 DEF Own, Kept
  <2> QED BY <1>5, <2>1, <2>3, <2>4, <2>5
<1> QED BY <1>3, <1>4, <1>5 DEF Serves

\* What was safe stays so: only a deletion that was asked for removes an archive.
LEMMA ServesSafely ==
    ASSUME NodeTyped, ArchivesAskedFor, Own, NamesUnique, NEW c \in Call, CallGood(c), Serves(c),
           used' = used, tried' = tried, deleted' = deleted, NEW v \in Vps, NEW n \in Name, Safe(v, n)
    PROVE  Safe(v, n)'
<1>1. /\ Only(c.vps, c.name) /\ (c.op # "delete" => (Kept(c.vps, c.name) => Kept(c.vps, c.name)'))
  BY ServesTyped
<1>2. CASE v = c.vps /\ n = c.name
  BY <1>1, <1>2 DEF Safe, CallGood
<1>3. CASE v # c.vps \/ n # c.name
  BY <1>1, <1>3 DEF Safe, Only
<1> QED BY <1>2, <1>3

-----------------------------------------------------------------------------
(* The records of requests.                                                *)

LEMMA IdleTyped ==
    /\ Idle \in Record /\ Idle.pc = "idle" /\ Idle.call.op = "none" /\ Idle.row = NoRow
BY DEF Idle, NoCall, Record

LEMMA BeginTyped ==
    ASSUME TypeOK, NEW t \in Task, NEW op \in {"create", "restore", "delete"}, NEW v \in Vps,
           NEW n \in Name, NEW r \in Row, Begin(t, op, v, n, r)
    PROVE  /\ task' \in [Task -> Record] /\ task[t] = Idle
           /\ task'[t].call = [op |-> op, vps |-> v, name |-> n] /\ task'[t].call \in Call
           /\ task'[t].row = r /\ task'[t].pc = "calling"
           /\ \A u \in Task \ {t} : task'[u] = task[u]
BY DEF TypeOK, Begin, Record, Call

LEMMA AnswerTyped ==
    ASSUME TypeOK, NEW t \in Task, Answer(t)
    PROVE  /\ task' \in [Task -> Record] /\ task'[t].pc = "ok" /\ task'[t].call = task[t].call
           /\ task'[t].row = task[t].row /\ \A u \in Task \ {t} : task'[u] = task[u]
BY DEF TypeOK, Answer, Record

LEMMA EndTyped ==
    ASSUME TypeOK, NEW t \in Task, End(t)
    PROVE  /\ task' \in [Task -> Record] /\ task'[t] = Idle
           /\ \A u \in Task \ {t} : task'[u] = task[u]
BY IdleTyped DEF TypeOK, End

\* What t does to a row that another request has: nothing, or it ends it.
RowsStay(t) ==
    \A r \in Row : \/ row'[r] = row[r]
                   \/ row'[r].state = "gone" /\ row[r].state # "none"
                   \/ \A u \in Task \ {t} : task[u].row # r
Answered(t) ==
    /\ task'[t].pc = "ok" /\ task[t].pc # "idle" /\ task'[t].call = task[t].call
    /\ task'[t].row = task[t].row /\ row' = row

\* The requests in flight stay good when one ends, or is answered.
LEMMA TasksStay ==
    ASSUME Inv, NEW t \in Task, UNCHANGED <<used, tried>>,
           task'[t] = Idle \/ Answered(t), RowsStay(t),
           \A u \in Task \ {t} : task'[u] = task[u]
    PROVE  \A x \in Task : TaskGood(x)'
<1> SUFFICES ASSUME NEW x \in Task PROVE TaskGood(x)'
  OBVIOUS
<1>1. TaskGood(x)
  BY DEF Inv
<1>2. CASE task'[x] = Idle
  BY <1>2, IdleTyped DEF TaskGood
<1>3. CASE task'[x] # Idle /\ x # t
  <2>1. task'[x] = task[x]
    BY <1>3
  <2>2. task[x].pc # "idle" /\ task[x].call \in Call /\ CallGood(task[x].call) /\ task[x].row \in Row
    BY <1>1, <1>3, <2>1 DEF TaskGood
  <2>3. task[x].call.op = "create" => \A u \in Task : u # x => task'[u].row # task[x].row
    BY <1>1, <2>2, IdleTyped, BackupsAssumption DEF TaskGood, Answered
  <2>4. \/ row'[task[x].row] = row[task[x].row]
        \/ row'[task[x].row].state = "gone" /\ row[task[x].row].state # "none"
    BY <1>3, <2>2 DEF RowsStay
  <2> QED BY <1>1, <2>1, <2>2, <2>3, <2>4 DEF TaskGood, CallGood, RowOf, Completed
<1>4. CASE task'[x] # Idle /\ x = t
  <2>1. Answered(t)
    BY <1>4
  <2> QED BY <1>1, <1>4, <2>1 DEF Answered, TaskGood, CallGood, RowOf, Completed
<1> QED BY <1>2, <1>3, <1>4

-----------------------------------------------------------------------------
(* The requests begin.                                                     *)

\* What a request's beginning leaves alone, and what only grows.
LEMMA LoadKeeps ==
    ASSUME Inv, NEW t \in Task, NEW op \in {"create", "restore", "delete"}, NEW v \in Vps,
           NEW n \in Name, NEW r \in Row, Begin(t, op, v, n, r),
           UNCHANGED <<row, deleted, node, late, failed>>, used \subseteq used', tried \subseteq tried',
           <<v, n>> \in used', op = "delete" => <<v, n>> \in tried',
           op = "create" => row[r].state = "none" /\ \A u \in Task : task[u].row # r,
           op # "create" => RowOf(r, v, n)
    PROVE  Inv'
<1>1. /\ task' \in [Task -> Record] /\ task[t] = Idle
      /\ task'[t].call = [op |-> op, vps |-> v, name |-> n] /\ task'[t].call \in Call
      /\ task'[t].row = r /\ task'[t].pc = "calling"
      /\ \A u \in Task \ {t} : task'[u] = task[u]
  BY BeginTyped DEF Inv
<1>2. UNCHANGED <<inst, data, arch>>
  BY DEF node
<1>3. TypeOK'
  BY <1>1, <1>2 DEF Inv, TypeOK, NodeTyped
<1>4. NamesUnique' => NamesUnique
  BY DEF NamesUnique
<1>5. \A w \in Vps, m \in Name : Kept(w, m)' <=> Kept(w, m)
  BY <1>2 DEF Kept
<1>6. ArchivesAskedFor' /\ LateGood' /\ RowsGood'
  BY <1>5 DEF Inv, ArchivesAskedFor, LateGood, CallGood, RowsGood, Completed
<1>7. ASSUME NEW x \in Task PROVE TaskGood(x)'
  <2>1. TaskGood(x)
    BY DEF Inv
  <2>2. CASE x = t
    <3>1. CallGood(task[t].call)'
      BY <1>1 DEF CallGood
    <3>2. op = "create" => \A u \in Task : u # t => task'[u].row # r
      BY <1>1
    <3> QED BY <1>1, <2>2, <3>1, <3>2 DEF TaskGood, RowOf, Completed, CallGood
  <2>3. CASE x # t
    <3>1. task'[x] = task[x]
      BY <1>1, <2>3
    <3>2. task[x].call.op = "create" => task[x].row # r
      BY <2>1 DEF TaskGood, RowOf, Completed
    <3>3. task[x].call.op = "create" => \A u \in Task : u # x => task'[u].row # task[x].row
      BY <1>1, <2>1, <3>2 DEF TaskGood
    <3> QED BY <2>1, <3>1, <3>3 DEF TaskGood, RowOf, Completed, CallGood
  <2> QED BY <2>2, <2>3
<1>8. \A x \in Task, w \in Vps, m \in Name : Created(x, w, m)' <=> Created(x, w, m)
  BY <1>1, IdleTyped DEF Created, Does
<1>9. Own'
  BY <1>2, <1>4 DEF Inv, Own, Kept
<1>10. CreatedSafe'
  BY <1>4, <1>5, <1>8 DEF Inv, CreatedSafe, Safe
<1>11. BackedUntilDeleted'
  BY <1>4, <1>5 DEF Inv, BackedUntilDeleted, RowsGood, Completed
<1>12. \A s \in Row : Stays(s) => Stays(s)'
  BY <1>1 DEF Stays
<1>13. AllAccounted'
  BY <1>4, <1>5, <1>8, <1>12 DEF Inv, AllAccounted, Accounted, RowOf, Completed
<1> QED BY <1>3, <1>6, <1>7, <1>9, <1>10, <1>11, <1>13 DEF Inv

LEMMA LoadsKeep ==
    ASSUME Inv, NEW t \in Task, NEW v \in Vps, NEW r \in Row,
           LoadRestore(t, v, r) \/ LoadDelete(t, v, r) \/ \E n \in Name : LoadCreate(t, v, n, r)
    PROVE  Inv'
<1>1. CASE LoadRestore(t, v, r)
  <2>1. /\ row[r].name \in Name /\ <<v, row[r].name>> \in used /\ RowOf(r, v, row[r].name)
        /\ Begin(t, "restore", v, row[r].name, r)
        /\ UNCHANGED <<row, deleted, node, late, used, tried, failed>>
    BY <1>1 DEF LoadRestore, Inv, RowsGood, RowOf, past
  <2> DEFINE n == row[r].name
  <2> HIDE DEF n
  <2>2. n \in Name /\ <<v, n>> \in used /\ RowOf(r, v, n) /\ Begin(t, "restore", v, n, r)
    BY <2>1 DEF n
  <2> QED BY <2>1, <2>2, LoadKeeps
<1>2. CASE LoadDelete(t, v, r)
  <2> DEFINE n == row[r].name
  <2>1. /\ n \in Name /\ <<v, n>> \in used /\ RowOf(r, v, n) /\ Begin(t, "delete", v, n, r)
        /\ UNCHANGED <<row, deleted, node, late, used, failed>> /\ tried' = tried \cup {<<v, n>>}
    BY <1>2 DEF LoadDelete, Inv, RowsGood, RowOf
  <2> HIDE DEF n
  <2> QED BY <2>1, LoadKeeps
<1>3. ASSUME NEW n \in Name, LoadCreate(t, v, n, r) PROVE Inv'
  <2>1. row[r].state = "none" /\ \A u \in Task : task[u].row # r
    BY <1>3 DEF LoadCreate, NewRow, Unused
  <2> QED BY <1>3, <2>1, LoadKeeps DEF LoadCreate
<1> QED BY <1>1, <1>2, <1>3

-----------------------------------------------------------------------------
(* The calls.                                                              *)

\* What the node's service of a call does to the invariant; the records of requests
\* may say more afterwards, never less.
LEMMA NodeKeeps ==
    ASSUME Inv, NEW c \in Call, CallGood(c), Serves(c) \/ UNCHANGED node,
           UNCHANGED <<row, deleted, used, tried>>
    PROVE  /\ NodeTyped' /\ ArchivesAskedFor' /\ Own' /\ RowsGood' /\ BackedUntilDeleted'
           /\ NamesUnique =>
                 /\ Only(c.vps, c.name)
                 /\ \A v \in Vps, n \in Name : Safe(v, n) => Safe(v, n)'
<1>1. NamesUnique' <=> NamesUnique
  BY DEF NamesUnique
<1>2. /\ NodeTyped' /\ ArchivesAskedFor' /\ Own'
      /\ NamesUnique => /\ Only(c.vps, c.name)
                        /\ \A v \in Vps, n \in Name : Safe(v, n) => Safe(v, n)'
  <2>1. CASE Serves(c)
    BY <2>1, ServesTyped, ServesSafely DEF Inv, TypeOK
  <2>2. CASE UNCHANGED node
    <3>1. UNCHANGED <<inst, data, arch>>
      BY <2>2 DEF node
    <3> QED BY <1>1, <3>1 DEF Inv, TypeOK, NodeTyped, ArchivesAskedFor, Own, Only, Safe, Kept
  <2> QED BY <2>1, <2>2
<1>3. RowsGood'
  BY DEF Inv, RowsGood, Completed
<1>4. BackedUntilDeleted'
  <2> SUFFICES ASSUME NamesUnique, NEW r \in Row, Completed(r)
               PROVE  Safe(row[r].vps, row[r].name)'
    BY <1>1 DEF BackedUntilDeleted, Completed, Safe
  <2>1. row[r].vps \in Vps /\ row[r].name \in Name /\ Safe(row[r].vps, row[r].name)
    BY DEF Inv, RowsGood, BackedUntilDeleted, Safe
  <2> QED BY <1>2, <2>1 DEF Safe
<1> QED BY <1>2, <1>3, <1>4

LEMMA CallSucceedsKeeps ==
    ASSUME Inv, NEW t \in Task, CallSucceeds(t), NEW c, task[t].call = c
    PROVE  Inv'
<1>1. /\ c \in Call /\ CallGood(c) /\ task[t].row \in Row /\ task[t].pc = "calling" /\ TaskGood(t)
      /\ Serves(c) /\ UNCHANGED <<row, deleted, used, tried, late, failed>>
  BY DEF CallSucceeds, Calling, Inv, TaskGood, Known
<1>2. /\ task' \in [Task -> Record] /\ task'[t].pc = "ok" /\ task'[t].call = c
      /\ task'[t].row = task[t].row /\ \A u \in Task \ {t} : task'[u] = task[u]
  BY AnswerTyped DEF CallSucceeds, Inv
<1>3. \A x \in Task : TaskGood(x)'
  <2>1. Answered(t) /\ RowsStay(t) /\ UNCHANGED <<used, tried>>
    BY <1>1, <1>2 DEF Answered, RowsStay
  <2> QED BY <1>2, <2>1, TasksStay
<1>4. c = [op |-> c.op, vps |-> c.vps, name |-> c.name] /\ c.vps \in Vps /\ c.name \in Name
      /\ c.op \in {"create", "restore", "delete"}
  BY <1>1 DEF Call
<1>5. /\ NodeTyped' /\ ArchivesAskedFor' /\ Own' /\ RowsGood' /\ BackedUntilDeleted'
      /\ NamesUnique => /\ Only(c.vps, c.name)
                        /\ \A v \in Vps, n \in Name : Safe(v, n) => Safe(v, n)'
  BY <1>1, NodeKeeps
<1>6. /\ NamesUnique /\ c.op = "delete" => ~Kept(c.vps, c.name)'
      /\ c.op = "create" => Kept(c.vps, c.name)'
      /\ c.op = "restore" => UNCHANGED arch
  <2>1. NodeTyped /\ ArchivesAskedFor /\ Own /\ used' = used
    BY <1>1 DEF Inv, TypeOK
  <2> QED BY <1>1, <2>1, ServesTyped
<1>7. (NamesUnique' <=> NamesUnique) /\ TypeOK' /\ LateGood'
  BY <1>1, <1>2, <1>5 DEF NamesUnique, Inv, TypeOK, LateGood, CallGood
<1>8. ASSUME NEW x \in Task, NEW v \in Vps, NEW n \in Name
      PROVE  Created(x, v, n)' <=> (Created(x, v, n) \/ (x = t /\ Does(t, "create", v, n)))
  BY <1>1, <1>2 DEF Created, Does
<1>9. CreatedSafe'
  <2> SUFFICES ASSUME NamesUnique, NEW x \in Task, NEW v \in Vps, NEW n \in Name, Created(x, v, n)'
               PROVE  Safe(v, n)'
    BY <1>7 DEF CreatedSafe
  <2>1. CASE Created(x, v, n)
    BY <1>5, <2>1 DEF Inv, CreatedSafe
  <2>2. CASE Does(t, "create", v, n)
    <3>1. c = [op |-> "create", vps |-> v, name |-> n]
      BY <2>2 DEF Does
    <3>2. c.op = "create" /\ c.vps = v /\ c.name = n
      BY <3>1
    <3> QED BY <1>6, <3>2 DEF Safe
  <2> QED BY <1>8, <2>1, <2>2
<1>10. AllAccounted'
  <2> SUFFICES ASSUME NamesUnique, NEW v \in Vps, NEW n \in Name, Kept(v, n)' PROVE Accounted(v, n)'
    BY <1>7 DEF AllAccounted
  <2>1. CASE c.op = "create" /\ v = c.vps /\ n = c.name
    BY <1>2, <1>4, <2>1 DEF Accounted, Created, Does
  <2>2. CASE ~(c.op = "create" /\ v = c.vps /\ n = c.name)
    <3>1. Kept(v, n) /\ ~(c.op = "delete" /\ v = c.vps /\ n = c.name)
      <4>1. CASE v = c.vps /\ n = c.name
        <5>1. c.op = "restore"
          BY <1>4, <1>6, <2>2, <4>1
        <5> QED BY <1>6, <5>1 DEF Kept
      <4>2. CASE v # c.vps \/ n # c.name
        BY <1>5, <4>2 DEF Only
      <4> QED BY <4>1, <4>2
    <3>2. Accounted(v, n)
      BY <3>1 DEF Inv, AllAccounted
    <3>3. ASSUME NEW r \in Row, RowOf(r, v, n), Stays(r) PROVE RowOf(r, v, n)' /\ Stays(r)'
      <4>1. RowOf(r, v, n)'
        BY <1>1, <3>3 DEF RowOf, Completed
      <4>2. ~(c.op = "delete" /\ task[t].row = r)
        BY <1>1, <3>1, <3>3 DEF TaskGood, RowOf
      <4> QED BY <1>2, <3>3, <4>1, <4>2 DEF Stays
    <3> QED BY <1>1, <1>8, <3>2, <3>3 DEF Accounted
  <2> QED BY <2>1, <2>2
<1> QED BY <1>3, <1>5, <1>7, <1>9, <1>10 DEF Inv

\* A call that the node may serve and nobody hears of: it counts as failed.
LEMMA UnheardKeeps ==
    ASSUME Inv, NEW c \in Call, CallGood(c), Serves(c) \/ UNCHANGED node,
           UNCHANGED <<row, deleted, used, tried>>, failed \subseteq failed',
           <<c.vps, c.name>> \in failed', late' \subseteq late \cup {c},
           task' \in [Task -> Record], \A x \in Task : TaskGood(x)',
           \A x \in Task : task'[x] = Idle \/ task'[x] = task[x],
           \A x \in Task : task'[x] # task[x] => task[x].call = c
    PROVE  Inv'
<1>1. /\ NodeTyped' /\ ArchivesAskedFor' /\ Own' /\ RowsGood' /\ BackedUntilDeleted'
      /\ NamesUnique => /\ Only(c.vps, c.name)
                        /\ \A v \in Vps, n \in Name : Safe(v, n) => Safe(v, n)'
  BY NodeKeeps
<1>2. (NamesUnique' <=> NamesUnique) /\ TypeOK' /\ LateGood'
  BY <1>1 DEF NamesUnique, Inv, TypeOK, LateGood, CallGood
<1>3. \A x \in Task, v \in Vps, n \in Name : Created(x, v, n)' => Created(x, v, n)
  BY IdleTyped DEF Created, Does
<1>4. CreatedSafe'
  BY <1>1, <1>2, <1>3 DEF Inv, CreatedSafe
<1>5. AllAccounted'
  <2> SUFFICES ASSUME NamesUnique, NEW v \in Vps, NEW n \in Name, Kept(v, n)' PROVE Accounted(v, n)'
    BY <1>2 DEF AllAccounted
  <2>1. CASE v = c.vps /\ n = c.name
    BY <2>1 DEF Accounted
  <2>2. CASE v # c.vps \/ n # c.name
    <3>1. Accounted(v, n)
      BY <1>1, <2>2 DEF Only, Inv, AllAccounted
    <3>2. ASSUME NEW x \in Task, Created(x, v, n) PROVE Created(x, v, n)'
      <4>1. task[x].call # c
        BY <2>2, <3>2 DEF Created, Does
      <4>2. task'[x] = task[x]
        BY <4>1
      <4> QED BY <3>2, <4>2 DEF Created, Does
    <3>3. ASSUME NEW r \in Row, RowOf(r, v, n), Stays(r) PROVE RowOf(r, v, n)' /\ Stays(r)'
      BY <3>3, IdleTyped DEF RowOf, Completed, Stays
    <3> QED BY <3>1, <3>2, <3>3 DEF Accounted
  <2> QED BY <2>1, <2>2
<1> QED BY <1>1, <1>2, <1>4, <1>5 DEF Inv

\* A request fails: its call, in time or too late, or its commit.
LEMMA FailureKeeps ==
    ASSUME Inv, NEW t \in Task, CallFails(t) \/ CallTimesOut(t) \/ CommitFails(t)
    PROVE  Inv'
<1> DEFINE c == task[t].call
<1>1. /\ c \in Call /\ CallGood(c) /\ Rollback(t) /\ UNCHANGED <<row, deleted, used, tried>>
      /\ (Serves(c) \/ UNCHANGED node) /\ late' \subseteq late \cup {c}
  BY DEF CallFails, CallTimesOut, CommitFails, Calling, Known, Inv, TaskGood
<1>2. /\ task' \in [Task -> Record] /\ task'[t] = Idle
      /\ \A u \in Task \ {t} : task'[u] = task[u]
  BY <1>1, EndTyped DEF Rollback, Inv
<1>3. \A x \in Task : TaskGood(x)'
  <2>1. RowsStay(t) /\ UNCHANGED <<used, tried>>
    BY <1>1 DEF RowsStay
  <2> QED BY <1>2, <2>1, TasksStay
<1>4. failed \subseteq failed' /\ <<c.vps, c.name>> \in failed'
  BY <1>1 DEF Rollback
<1> HIDE DEF c
<1>5. task[t].call = c
  BY DEF c
<1> QED BY <1>1, <1>2, <1>3, <1>4, <1>5, UnheardKeeps

LEMMA ServeLateKeeps == ASSUME Inv, NEW c \in late, ServeLate(c) PROVE Inv'
<1>1. /\ c \in Call /\ CallGood(c) /\ <<c.vps, c.name>> \in failed /\ Serves(c)
      /\ UNCHANGED <<row, deleted, used, tried, task, failed>> /\ late' = late \ {c}
  BY DEF ServeLate, Known, Inv, TypeOK, LateGood
<1>2. \A x \in Task : TaskGood(x)'
  BY <1>1 DEF Inv, TaskGood, CallGood, RowOf, Completed
<1> QED BY <1>1, <1>2, UnheardKeeps DEF Inv, TypeOK

-----------------------------------------------------------------------------
(* The commits.                                                            *)

\* The create's row becomes what accounts for the archive, and is what is relied on.
LEMMA CommitCreateKeeps ==
    ASSUME Inv, NEW t \in Task, CommitCreate(t), NEW c, task[t].call = c, NEW r, task[t].row = r
    PROVE  Inv'
<1> DEFINE b == [vps |-> c.vps, name |-> c.name, state |-> "completed"]
<1>1. /\ c.op = "create" /\ c \in Call /\ CallGood(c) /\ r \in Row /\ task[t].pc = "ok"
      /\ row[r].state = "none" /\ \A u \in Task : u # t => task[u].row # r
  BY DEF CommitCreate, Inv, TaskGood, TypeOK, Record
<1>2. c = [op |-> "create", vps |-> c.vps, name |-> c.name] /\ c.vps \in Vps /\ c.name \in Name
  BY <1>1 DEF Call
<1>3. row' = [row EXCEPT ![r] = b] /\ UNCHANGED <<deleted, node, late, used, tried, failed>>
  BY DEF CommitCreate, past
<1>4. /\ task' \in [Task -> Record] /\ task'[t] = Idle
      /\ \A u \in Task \ {t} : task'[u] = task[u]
  BY EndTyped DEF CommitCreate, Inv
<1>5. row' \in [Row -> Backup] /\ row'[r] = b /\ \A s \in Row \ {r} : row'[s] = row[s]
  <2>1. b \in Backup
    BY <1>2 DEF Backup
  <2> QED BY <1>1, <1>3, <2>1 DEF Inv, TypeOK
<1>6. RowsStay(t)
  BY <1>1, <1>5 DEF RowsStay
<1>7. \A x \in Task : TaskGood(x)'
  BY <1>3, <1>4, <1>6, TasksStay
<1>8. /\ UNCHANGED <<inst, data, arch>> /\ (NamesUnique' <=> NamesUnique)
      /\ \A v \in Vps, n \in Name : (Kept(v, n)' <=> Kept(v, n)) /\ (Safe(v, n)' <=> Safe(v, n))
  BY <1>3 DEF node, NamesUnique, Kept, Safe
<1>9. TypeOK' /\ ArchivesAskedFor' /\ LateGood' /\ Own'
  BY <1>3, <1>4, <1>5, <1>8 DEF Inv, TypeOK, NodeTyped, ArchivesAskedFor, LateGood, CallGood, Own
<1>10. RowsGood'
  BY <1>1, <1>2, <1>3, <1>5 DEF Inv, RowsGood, Completed, CallGood
<1>11. \A x \in Task, v \in Vps, n \in Name :
          Created(x, v, n) <=> Created(x, v, n)' \/ (x = t /\ v = c.vps /\ n = c.name)
  BY <1>1, <1>2, <1>4, IdleTyped DEF Created, Does
<1>12. CreatedSafe'
  BY <1>8, <1>11 DEF Inv, CreatedSafe
<1>13. BackedUntilDeleted'
  <2> SUFFICES ASSUME NamesUnique, NEW s \in Row, Completed(s)'
               PROVE  Safe(row[s].vps, row[s].name)'
    BY <1>8 DEF BackedUntilDeleted, Safe
  <2>1. CASE s = r
    <3>1. Safe(c.vps, c.name)
      BY <1>2, <1>11 DEF Inv, CreatedSafe
    <3>2. Safe(c.vps, c.name)'
      BY <1>2, <1>8, <3>1
    <3> QED BY <1>5, <2>1, <3>2 DEF Safe, Kept
  <2>2. CASE s # r
    <3>1. row'[s] = row[s] /\ Completed(s)
      BY <1>5, <2>2 DEF Completed
    <3>2. /\ row[s].vps \in Vps /\ row[s].name \in Name /\ Safe(row[s].vps, row[s].name)
      BY <3>1 DEF Inv, RowsGood, BackedUntilDeleted, Safe
    <3> QED BY <1>3, <1>8, <3>1, <3>2 DEF Safe, Kept
  <2> QED BY <2>1, <2>2
<1>14. \A s \in Row : Stays(s) => Stays(s)'
  BY <1>4, IdleTyped DEF Stays
<1>15. AllAccounted'
  <2> SUFFICES ASSUME NamesUnique, NEW v \in Vps, NEW n \in Name, Kept(v, n) PROVE Accounted(v, n)'
    BY <1>8 DEF AllAccounted
  <2>1. Accounted(v, n)
    BY DEF Inv, AllAccounted
  <2>2. CASE v = c.vps /\ n = c.name
    <3>1. RowOf(r, v, n)'
      BY <1>5, <2>2 DEF RowOf, Completed
    <3>2. Stays(r)'
      BY <1>1, <1>4, IdleTyped DEF Stays
    <3> QED BY <1>1, <3>1, <3>2 DEF Accounted
  <2>3. CASE v # c.vps \/ n # c.name
    <3>1. ASSUME NEW s \in Row, RowOf(s, v, n), Stays(s) PROVE RowOf(s, v, n)' /\ Stays(s)'
      <4>1. s # r
        BY <1>1, <3>1 DEF RowOf, Completed
      <4> QED BY <1>5, <1>14, <3>1, <4>1 DEF RowOf, Completed
    <3> QED BY <1>3, <1>11, <2>1, <2>3, <3>1 DEF Accounted
  <2> QED BY <2>2, <2>3
<1> QED BY <1>7, <1>9, <1>10, <1>12, <1>13, <1>15 DEF Inv

\* A restore only ends.
LEMMA CommitRestoreKeeps == ASSUME Inv, NEW t \in Task, CommitRestore(t) PROVE Inv'
<1>1. UNCHANGED <<row, deleted, inst, data, arch, late, used, tried, failed>>
  BY DEF CommitRestore, past, node
<1>2. /\ task' \in [Task -> Record] /\ task'[t] = Idle /\ task[t].call.op = "restore"
      /\ \A u \in Task \ {t} : task'[u] = task[u]
  BY EndTyped DEF CommitRestore, Inv
<1>3. RowsStay(t)
  BY <1>1 DEF RowsStay
<1>4. \A x \in Task : TaskGood(x)'
  BY <1>1, <1>2, <1>3, TasksStay
<1>5. (NamesUnique' <=> NamesUnique) /\ \A v \in Vps, n \in Name : Kept(v, n)' <=> Kept(v, n)
  BY <1>1 DEF NamesUnique, Kept
<1>6. TypeOK' /\ ArchivesAskedFor' /\ LateGood' /\ Own' /\ RowsGood'
  BY <1>1, <1>2, <1>5 DEF Inv, TypeOK, NodeTyped, ArchivesAskedFor, LateGood, CallGood, Own,
                          RowsGood, Completed
<1>7. \A x \in Task, v \in Vps, n \in Name : Created(x, v, n)' <=> Created(x, v, n)
  <2> SUFFICES ASSUME NEW v \in Vps, NEW n \in Name PROVE ~Created(t, v, n)' /\ ~Created(t, v, n)
    BY <1>2 DEF Created, Does
  <2> QED BY <1>2, IdleTyped DEF Created, Does
<1>8. CreatedSafe' /\ BackedUntilDeleted'
  BY <1>1, <1>5, <1>7 DEF Inv, CreatedSafe, BackedUntilDeleted, Safe, Completed, Kept
<1>9. \A s \in Row : Stays(s) => Stays(s)'
  BY <1>2, IdleTyped DEF Stays
<1>10. AllAccounted'
  BY <1>1, <1>5, <1>7, <1>9 DEF Inv, AllAccounted, Accounted, RowOf, Completed
<1> QED BY <1>4, <1>6, <1>8, <1>10 DEF Inv

\* The row of a deletion that the node has answered accounts for no archive.
LEMMA CommitDeleteKeeps ==
    ASSUME Inv, NEW t \in Task, CommitDelete(t), NEW r, task[t].row = r
    PROVE  Inv'
<1>1. /\ task[t].call.op = "delete" /\ task[t].pc = "ok" /\ r \in Row /\ Completed(r)
  BY DEF CommitDelete, Inv, TaskGood
<1>2. row' = [row EXCEPT ![r] = Gone] /\ UNCHANGED <<deleted, inst, data, arch, late, used, tried, failed>>
  BY DEF CommitDelete, past, node
<1>3. /\ task' \in [Task -> Record] /\ task'[t] = Idle
      /\ \A u \in Task \ {t} : task'[u] = task[u]
  BY EndTyped DEF CommitDelete, Inv
<1>4. /\ row' \in [Row -> Backup] /\ row'[r].state = "gone"
      /\ \A s \in Row \ {r} : row'[s] = row[s]
  <2>1. Gone \in Backup /\ Gone.state = "gone"
    BY DEF Gone, NoneYet, Backup
  <2> QED BY <1>1, <1>2, <2>1 DEF Inv, TypeOK
<1>5. RowsStay(t)
  BY <1>1, <1>4 DEF RowsStay, Completed
<1>6. \A x \in Task : TaskGood(x)'
  BY <1>2, <1>3, <1>5, TasksStay
<1>7. \A s \in Row : Completed(s)' => s # r /\ Completed(s) /\ row'[s] = row[s]
  BY <1>1, <1>4 DEF Completed
<1>8. (NamesUnique' <=> NamesUnique) /\ \A v \in Vps, n \in Name : Kept(v, n)' <=> Kept(v, n)
  BY <1>2 DEF NamesUnique, Kept
<1>9. TypeOK' /\ ArchivesAskedFor' /\ LateGood' /\ Own' /\ RowsGood'
  BY <1>2, <1>3, <1>4, <1>7, <1>8 DEF Inv, TypeOK, NodeTyped, ArchivesAskedFor, LateGood, CallGood,
                                      Own, RowsGood
<1>10. \A x \in Task, v \in Vps, n \in Name : Created(x, v, n)' <=> Created(x, v, n)
  <2> SUFFICES ASSUME NEW v \in Vps, NEW n \in Name PROVE ~Created(t, v, n)' /\ ~Created(t, v, n)
    BY <1>3 DEF Created, Does
  <2> QED BY <1>1, <1>3, IdleTyped DEF Created, Does
<1>11. CreatedSafe'
  BY <1>2, <1>8, <1>10 DEF Inv, CreatedSafe, Safe
<1>12. BackedUntilDeleted'
  BY <1>2, <1>7, <1>8 DEF Inv, BackedUntilDeleted, Kept
<1>13. ASSUME NEW s \in Row, NEW v \in Vps, NEW n \in Name, RowOf(s, v, n), Stays(s)
       PROVE  RowOf(s, v, n)' /\ Stays(s)'
  <2>1. s # r
    BY <1>1, <1>13 DEF Stays
  <2> QED BY <1>3, <1>4, <1>13, <2>1, IdleTyped DEF RowOf, Completed, Stays
<1>14. AllAccounted'
  BY <1>2, <1>8, <1>10, <1>13 DEF Inv, AllAccounted, Accounted
<1> QED BY <1>6, <1>9, <1>11, <1>12, <1>14 DEF Inv

LEMMA DeleteVpsKeeps == ASSUME Inv, NEW v \in Vps, DeleteVps(v) PROVE Inv'
<1>1. UNCHANGED <<row, data, task, late, used, tried, failed>> /\ deleted' = deleted \cup {v}
  BY DEF DeleteVps, past
<1>2. /\ inst' \in [Vps -> BOOLEAN] /\ arch' \in [Vps \X Name -> Vps \cup {NoVps}]
      /\ \A w \in Vps, n \in Name : w # v => arch'[<<w, n>>] = arch[<<w, n>>]
      /\ \A n \in Name : arch'[<<v, n>>] = NoVps
  BY DEF DeleteVps, Inv, TypeOK, NodeTyped
<1>3. \A w \in Vps, n \in Name : /\ Kept(w, n)' => Kept(w, n) /\ arch'[<<w, n>>] = arch[<<w, n>>]
                                 /\ Safe(w, n) => Safe(w, n)'
  BY <1>1, <1>2 DEF Kept, Safe
<1>4. NamesUnique' <=> NamesUnique
  BY <1>1 DEF NamesUnique
<1>5. TypeOK' /\ ArchivesAskedFor' /\ LateGood' /\ Own' /\ RowsGood'
  BY <1>1, <1>2, <1>3, <1>4 DEF Inv, TypeOK, NodeTyped, ArchivesAskedFor, LateGood, CallGood, Own,
                                RowsGood, Completed
<1>6. \A x \in Task : TaskGood(x)'
  BY <1>1 DEF Inv, TaskGood, CallGood, RowOf, Completed
<1>7. CreatedSafe'
  BY <1>1, <1>3, <1>4 DEF Inv, CreatedSafe, Created, Does
<1>8. BackedUntilDeleted'
  <2> SUFFICES ASSUME NamesUnique, NEW r \in Row, Completed(r)
               PROVE  Safe(row[r].vps, row[r].name)'
    BY <1>1, <1>4 DEF BackedUntilDeleted, Completed, Safe
  <2>1. row[r].vps \in Vps /\ row[r].name \in Name /\ Safe(row[r].vps, row[r].name)
    BY DEF Inv, RowsGood, BackedUntilDeleted, Safe
  <2> QED BY <1>1, <1>2, <2>1 DEF Safe, Kept
<1>9. AllAccounted'
  <2>1. \A w \in Vps, n \in Name : Accounted(w, n) => Accounted(w, n)'
    BY <1>1 DEF Accounted, Created, Does, RowOf, Completed, Stays
  <2> QED BY <1>3, <1>4, <2>1 DEF Inv, AllAccounted
<1> QED BY <1>5, <1>6, <1>7, <1>8, <1>9 DEF Inv

-----------------------------------------------------------------------------
LEMMA InitInv == Init => Inv
<1> SUFFICES ASSUME Init PROVE Inv
  OBVIOUS
<1>1. NoneYet \in Backup /\ NoneYet.state = "none"
  BY DEF NoneYet, Backup
<1>2. TypeOK
  BY <1>1, IdleTyped DEF Init, TypeOK, NodeTyped
<1>3. (\A v \in Vps, n \in Name : ~Kept(v, n)) /\ (\A r \in Row : ~Completed(r)) /\ late = {}
  BY <1>1 DEF Init, Kept, Completed
<1>4. \A t \in Task : task[t] = Idle
  BY DEF Init
<1>5. \A t \in Task : TaskGood(t) /\ \A v \in Vps, n \in Name : ~Created(t, v, n)
  BY <1>4, IdleTyped DEF TaskGood, Created
<1>6. ArchivesAskedFor /\ LateGood /\ RowsGood /\ CreatedSafe /\ BackedUntilDeleted /\ AllAccounted
  BY <1>3, <1>5 DEF ArchivesAskedFor, LateGood, RowsGood, CreatedSafe, BackedUntilDeleted, AllAccounted
<1>7. Own
  BY <1>3 DEF Init, Own
<1> QED BY <1>2, <1>5, <1>6, <1>7 DEF Inv

LEMMA NextKeeps == Inv /\ [Next]_vars => Inv'
<1> SUFFICES ASSUME Inv, [Next]_vars PROVE Inv'
  OBVIOUS
<1>1. ASSUME NEW t \in Task, NEW v \in Vps, NEW r \in Row,
             LoadRestore(t, v, r) \/ LoadDelete(t, v, r) \/ \E n \in Name : LoadCreate(t, v, n, r)
      PROVE  Inv'
  BY <1>1, LoadsKeep
<1>2. ASSUME NEW t \in Task, CallSucceeds(t) \/ CallFails(t) \/ CallTimesOut(t) \/ CommitFails(t)
      PROVE  Inv'
  BY <1>2, CallSucceedsKeeps, FailureKeeps
<1>3. ASSUME NEW t \in Task, CommitCreate(t) \/ CommitRestore(t) \/ CommitDelete(t) PROVE Inv'
  BY <1>3, CommitCreateKeeps, CommitRestoreKeeps, CommitDeleteKeeps
<1>4. CASE UNCHANGED vars
  <2>1. UNCHANGED <<row, deleted, inst, data, arch, task, late, used, tried, failed>>
    BY <1>4 DEF vars, node, past
  <2>2. TypeOK' /\ ArchivesAskedFor' /\ LateGood' /\ RowsGood' /\ Own'
    BY <2>1 DEF Inv, TypeOK, NodeTyped, ArchivesAskedFor, LateGood, CallGood, RowsGood, Completed,
                Own, Kept, NamesUnique
  <2>3. \A x \in Task : TaskGood(x)'
    BY <2>1 DEF Inv, TaskGood, CallGood, RowOf, Completed
  <2>4. CreatedSafe' /\ BackedUntilDeleted'
    BY <2>1 DEF Inv, CreatedSafe, BackedUntilDeleted, Safe, Created, Does, Kept, NamesUnique, Completed
  <2>5. AllAccounted'
    <3>1. \A w \in Vps, n \in Name : Accounted(w, n) => Accounted(w, n)'
      BY <2>1 DEF Accounted, Created, Does, RowOf, Completed, Stays
    <3> QED BY <2>1, <3>1 DEF Inv, AllAccounted, Kept, NamesUnique
  <2> QED BY <2>2, <2>3, <2>4, <2>5 DEF Inv
<1> QED BY <1>1, <1>2, <1>3, <1>4, ServeLateKeeps, DeleteVpsKeeps DEF Next

LEMMA Invariance == Spec => []Inv
BY InitInv, NextKeeps, PTL DEF Spec

-----------------------------------------------------------------------------
(* The theorems.                                                           *)

\* If names are unique, a restore never brings in another VPS's data, whatever calls
\* fail or come late (restore_backup, LXDProvider.restore_backup).
THEOREM RestoresBringOwnData == Spec => []OwnData
<1>1. Inv => OwnData
  BY DEF Inv, Own, OwnData
<1> QED BY <1>1, Invariance, PTL

\* If names are unique, a completed backup is on the node until its own deletion is
\* tried or its VPS is deleted (create_backup, delete_backup).
THEOREM CompletedMeansKept == Spec => []BackedUntilDeleted
<1>1. Inv => BackedUntilDeleted
  BY DEF Inv
<1> QED BY <1>1, Invariance, PTL

\* If names are unique, an archive that nothing in the control plane knows comes from
\* a call or a commit that failed.
THEOREM UnlistedComeFromFailures == Spec => []ArchivesListed
<1>1. Inv => ArchivesListed
  <2> SUFFICES ASSUME Inv, NamesUnique, NEW v \in Vps, NEW n \in Name, Kept(v, n)
               PROVE  \/ \E r \in Row : Completed(r) /\ row[r].vps = v /\ row[r].name = n
                      \/ \E t \in Task : task[t].call.vps = v /\ task[t].call.name = n
                      \/ <<v, n>> \in failed
    BY DEF ArchivesListed
  <2>1. Accounted(v, n)
    BY DEF Inv, AllAccounted
  <2> QED BY <2>1 DEF Accounted, Created, Does, RowOf
<1> QED BY <1>1, Invariance, PTL
=============================================================================
