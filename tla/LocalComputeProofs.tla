------------------------- MODULE LocalComputeProofs -------------------------
(* Proofs about LocalCompute, for any number of requests.                   *)
EXTENDS LocalCompute, SequenceTheorems, TLAPS

-----------------------------------------------------------------------------
(* Types.                                                                  *)
Pc == {"idle", "check", "wait", "noSocket", "daemon", "inspect", "answered", "capacity",
       "insert", "inserted"}
State == {"none", "not_configured", "unavailable", "degraded", "ready"}
Request == [kind : Kind \cup {"none"}, pc : Pc, row : BOOLEAN, state : State, after : SUBSET Task]
TypeOK ==
    /\ cache \in [state : State, fresh : BOOLEAN, after : SUBSET Task]
    /\ task \in [Task -> Request] /\ rows \in Nat

\* What the beginning of a request does to the others, and a step to its own.
LEMMA BeginTyped ==
    ASSUME TypeOK, NEW t \in Task, NEW kind \in Kind, NEW pc \in Pc, NEW row \in BOOLEAN,
           Begin(t, kind, pc, row)
    PROVE  /\ task' \in [Task -> Request] /\ At(t, "idle")
           /\ task'[t].kind = kind /\ task'[t].pc = pc
           /\ \A u \in Task \ {t} : /\ task'[u].kind = task[u].kind /\ task'[u].pc = task[u].pc
                                    /\ task'[u].after = task[u].after \ {t}
<1>1. [Idle EXCEPT !.kind = kind, !.pc = pc, !.row = row] \in Request
  BY DEF Idle, Request, Pc, State
<1>2. \A u \in Task : Forget(t, task[u]) \in Request
  BY DEF TypeOK, Request, Forget
<1>3. task' \in [Task -> Request]
  BY <1>1, <1>2 DEF Begin
<1>4. At(t, "idle")
  BY DEF Begin, At, Idle
<1>5. task'[t].kind = kind /\ task'[t].pc = pc
  BY DEF Begin, Idle
<1>6. \A u \in Task \ {t} : task'[u] = Forget(t, task[u])
  BY DEF Begin
<1>7. \A u \in Task \ {t} : /\ task'[u].kind = task[u].kind /\ task'[u].pc = task[u].pc
                            /\ task'[u].after = task[u].after \ {t}
  <2> SUFFICES ASSUME NEW u \in Task \ {t}
               PROVE  /\ Forget(t, task[u]).kind = task[u].kind /\ Forget(t, task[u]).pc = task[u].pc
                      /\ Forget(t, task[u]).after = task[u].after \ {t}
    BY <1>6
  <2> task[u] \in Request
    BY DEF TypeOK
  <2> QED BY DEF Request, Forget
<1> QED BY <1>3, <1>4, <1>5, <1>7

LEMMA GotoTyped ==
    ASSUME TypeOK, NEW t \in Task, NEW pc \in Pc, Goto(t, pc)
    PROVE  /\ task' \in [Task -> Request] /\ task'[t].pc = pc /\ task'[t].kind = task[t].kind
           /\ task'[t].after = task[t].after /\ \A u \in Task \ {t} : task'[u] = task[u]
BY DEF TypeOK, Goto, Request

LEMMA EndTyped ==
    ASSUME TypeOK, NEW t \in Task, End(t)
    PROVE  /\ task' \in [Task -> Request] /\ task'[t].pc = "idle"
           /\ \A u \in Task \ {t} : task'[u] = task[u]
<1>1. Idle \in Request /\ Idle.pc = "idle"
  BY DEF Idle, Request, Pc, State
<1> QED BY <1>1 DEF TypeOK, End

LEMMA KnownTyped ==
    ASSUME TypeOK, NEW t \in Task, NEW state \in State, NEW after \in SUBSET Task,
           Known(t, state, after)
    PROVE  /\ task' \in [Task -> Request] /\ task'[t].pc = "answered"
           /\ task'[t].kind = task[t].kind /\ task'[t].after = after
           /\ \A u \in Task \ {t} : task'[u] = task[u]
<1> DEFINE r == [task[t] EXCEPT !.pc = "answered", !.state = state, !.after = after]
<1>1. task[t] \in Request
  BY DEF TypeOK
<1>2. /\ r \in Request /\ r.pc = "answered" /\ r.kind = task[t].kind /\ r.after = after
  BY <1>1 DEF Request, Pc
<1>3. task' = [task EXCEPT ![t] = r]
  BY <1>1 DEF TypeOK, Known, Request
<1> QED BY <1>2, <1>3 DEF TypeOK

-----------------------------------------------------------------------------
(* The inductive invariant.                                                *)

\* Who probes holds the lock, and had asked before its probe began.
ProbesAlone == \A t \in Task : Probing(t) => holder = t /\ t \in task[t].after
Inv == TypeOK /\ ProbesAlone /\ RefreshHolds

\* What a refresh that has been answered asks of the rest.
Current(t) ==
    /\ t \in task[t].after /\ (cache = None \/ t \in cache.after)
    /\ \A u \in Task : Probing(u) => t \in task[u].after
LEMMA RefreshIsCurrent ==
    RefreshHolds <=> \A t \in Task : task[t].kind = "refresh" /\ At(t, "answered") => Current(t)
BY DEF RefreshHolds, Current, Probing

\* A request begins: none that was answered is forgotten.
LEMMA BeginKeeps ==
    ASSUME Inv, NEW t \in Task, NEW kind \in Kind, NEW pc \in {"check", "wait", "capacity"},
           NEW row \in BOOLEAN, Begin(t, kind, pc, row),
           cache' \in {Forget(t, cache), None}, UNCHANGED <<holder, rows>>
    PROVE  Inv'
<1>1. /\ task' \in [Task -> Request] /\ At(t, "idle")
      /\ task'[t].kind = kind /\ task'[t].pc = pc
      /\ \A u \in Task \ {t} : /\ task'[u].kind = task[u].kind /\ task'[u].pc = task[u].pc
                               /\ task'[u].after = task[u].after \ {t}
  BY BeginTyped DEF Inv, Pc
<1>2. cache' \in [state : State, fresh : BOOLEAN, after : SUBSET Task]
  <2>1. Forget(t, cache) \in [state : State, fresh : BOOLEAN, after : SUBSET Task]
    BY DEF Inv, TypeOK, Forget
  <2>2. None \in [state : State, fresh : BOOLEAN, after : SUBSET Task]
    BY DEF None, State
  <2> QED BY <2>1, <2>2
<1>3. cache' = None \/ cache'.after = cache.after \ {t}
  BY DEF Inv, TypeOK, Forget
<1>4. cache = None => cache' = None
  BY DEF None, Forget
<1>5. TypeOK'
  BY <1>1, <1>2 DEF Inv, TypeOK
<1>6. ProbesAlone'
  BY <1>1 DEF Inv, ProbesAlone, Probing
<1>9. ASSUME NEW r \in Task, task'[r].kind = "refresh", At(r, "answered")' PROVE Current(r)'
  <2>1. r # t /\ task[r].kind = "refresh" /\ At(r, "answered")
    BY <1>1, <1>9 DEF At
  <2>2. Current(r)
    BY <2>1, RefreshIsCurrent DEF Inv
  <2> QED BY <1>1, <1>3, <1>4, <2>1, <2>2 DEF Current, Probing
<1>10. RefreshHolds'
  BY <1>9 DEF RefreshHolds, Current, Probing
<1> QED BY <1>5, <1>6, <1>10 DEF Inv

\* A request goes on, and neither begins nor ends a probe nor is answered.
LEMMA QuietKeeps ==
    ASSUME Inv, NEW t \in Task, task' \in [Task -> Request],
           \A u \in Task \ {t} : task'[u] = task[u],
           task[t].pc \in {"check", "answered", "capacity", "insert", "inserted"},
           task'[t].pc \in {"idle", "wait", "capacity", "insert", "inserted"},
           UNCHANGED <<cache, holder>>, rows' \in Nat
    PROVE  Inv'
<1>1. TypeOK'
  BY DEF Inv, TypeOK
<1>2. ProbesAlone'
  BY DEF Inv, ProbesAlone, Probing
<1>3. ASSUME NEW r \in Task, task'[r].kind = "refresh", At(r, "answered")' PROVE Current(r)'
  <2>1. r # t /\ task[r].kind = "refresh" /\ At(r, "answered")
    BY <1>3 DEF At
  <2>2. Current(r)
    BY <2>1, RefreshIsCurrent DEF Inv
  <2> QED BY <2>1, <2>2 DEF Current, Probing
<1>4. RefreshHolds'
  BY <1>3 DEF RefreshHolds, Current, Probing
<1> QED BY <1>1, <1>2, <1>4 DEF Inv

-----------------------------------------------------------------------------
(* The steps of the capability.                                            *)

\* Nobody probes while the lock is free.
LEMMA FreeIsQuiet ==
    ASSUME Inv, holder = NoTask
    PROVE  \A t \in Task : ~Probing(t)
BY LocalAssumption DEF Inv, ProbesAlone

LEMMA ServedKeeps == ASSUME Inv, NEW t \in Task, Served(t) PROVE Inv'
<1>1. cache.state \in State /\ cache.after \in SUBSET Task
  BY DEF Inv, TypeOK
<1>2. /\ task' \in [Task -> Request] /\ task'[t].pc = "answered"
      /\ task'[t].kind = task[t].kind /\ \A u \in Task \ {t} : task'[u] = task[u]
  BY <1>1, KnownTyped DEF Inv, Served
<1>3. TypeOK'
  BY <1>2 DEF Inv, TypeOK, Served, Database
<1>4. ProbesAlone'
  BY <1>2 DEF Inv, ProbesAlone, Probing, Served
<1>6. ASSUME NEW r \in Task, task'[r].kind = "refresh", At(r, "answered")' PROVE Current(r)'
  <2>1. r # t /\ task[r].kind = "refresh" /\ At(r, "answered")
    BY <1>2, <1>6 DEF At, Served, FromCache
  <2>2. Current(r)
    BY <2>1, RefreshIsCurrent DEF Inv
  <2> QED BY <1>2, <2>1, <2>2 DEF Current, Probing, Served
<1>7. RefreshHolds'
  BY <1>6 DEF RefreshHolds, Current, Probing
<1> QED BY <1>3, <1>4, <1>7 DEF Inv

LEMMA StartProbeKeeps == ASSUME Inv, NEW t \in Task, StartProbe(t) PROVE Inv'
<1> DEFINE r == [task[t] EXCEPT !.pc = IF Present THEN "daemon" ELSE "noSocket", !.after = Asked]
<1>1. task[t] \in Request /\ Asked \in SUBSET Task /\ task[t].pc = "wait"
  BY DEF Inv, TypeOK, Asked, StartProbe, At
<1>2. /\ r \in Request /\ r.pc \in {"daemon", "noSocket"} /\ r.after = Asked
  BY <1>1 DEF Request, Pc
<1>3. task' = [task EXCEPT ![t] = r]
  BY <1>1 DEF Inv, TypeOK, StartProbe, Request
<1>4. /\ task' \in [Task -> Request] /\ task'[t] = r
      /\ \A u \in Task \ {t} : task'[u] = task[u]
  BY <1>2, <1>3 DEF Inv, TypeOK
<1>5. TypeOK'
  BY <1>4 DEF Inv, TypeOK, StartProbe, Database
<1>6. \A u \in Task : ~Probing(u)
  BY FreeIsQuiet DEF StartProbe, MayProbe
<1>7. ProbesAlone'
  <2>1. t \in Asked
    BY <1>1 DEF Asked, At
  <2> QED BY <1>2, <1>4, <1>6, <2>1 DEF ProbesAlone, Probing, StartProbe
<1>9. ASSUME NEW q \in Task, task'[q].kind = "refresh", At(q, "answered")' PROVE Current(q)'
  <2>1. q # t /\ task[q].kind = "refresh" /\ At(q, "answered")
    BY <1>2, <1>4, <1>9 DEF At
  <2>2. Current(q) /\ q \in Asked
    BY <2>1, RefreshIsCurrent DEF Inv, Asked, At
  <2> QED BY <1>2, <1>4, <1>6, <2>1, <2>2 DEF Current, Probing, StartProbe
<1>10. RefreshHolds'
  BY <1>9 DEF RefreshHolds, Current, Probing
<1> QED BY <1>5, <1>7, <1>10 DEF Inv

\* A probe ends: its answer is as new as every refresh that was answered, because
\* it held the lock when the last of them was.
LEMMA StoresKeeps ==
    ASSUME Inv, NEW t \in Task, NEW state \in State, Probing(t), Stores(t, state), Unlocks
    PROVE  Inv'
<1>1. task[t].after \in SUBSET Task /\ t \in task[t].after /\ holder = t
  BY DEF Inv, TypeOK, Request, ProbesAlone
<1>2. /\ task' \in [Task -> Request] /\ task'[t].pc = "answered"
      /\ task'[t].kind = task[t].kind /\ task'[t].after = task[t].after
      /\ \A u \in Task \ {t} : task'[u] = task[u]
  BY <1>1, KnownTyped DEF Inv, Stores
<1>3. /\ cache' \in [state : State, fresh : BOOLEAN, after : SUBSET Task]
      /\ cache'.after = task[t].after
  <2>1. PICK fresh \in BOOLEAN :
           cache' = [state |-> state, fresh |-> fresh, after |-> task[t].after]
    BY DEF Stores
  <2> QED BY <1>1, <2>1
<1>4. TypeOK'
  BY <1>2, <1>3 DEF Inv, TypeOK, Stores, Database
<1>5. \A u \in Task : Probing(u) => u = t
  BY <1>1 DEF Inv, ProbesAlone
<1>6. \A u \in Task : ~Probing(u)'
  BY <1>2, <1>5 DEF Probing
<1>7. ProbesAlone'
  BY <1>6 DEF ProbesAlone
<1>9. ASSUME NEW r \in Task, task'[r].kind = "refresh", At(r, "answered")' PROVE Current(r)'
  <2>1. r \in task[t].after /\ r \in task'[r].after
    <3>1. CASE r = t
      BY <1>1, <1>2, <3>1
    <3>2. CASE r # t
      <4>1. task[r].kind = "refresh" /\ At(r, "answered")
        BY <1>2, <1>9, <3>2 DEF At
      <4> QED BY <1>2, <3>2, <4>1, RefreshIsCurrent DEF Inv, Current
    <3> QED BY <3>1, <3>2
  <2> QED BY <1>3, <1>6, <2>1 DEF Current
<1>10. RefreshHolds'
  BY <1>9 DEF RefreshHolds, Current, Probing
<1> QED BY <1>4, <1>7, <1>10 DEF Inv

LEMMA ProbeEndsKeeps ==
    ASSUME Inv, NEW t \in Task, FindsNoSocket(t) \/ DaemonSilent(t) \/ Inspect(t)
    PROVE  Inv'
<1>1. CASE FindsNoSocket(t)
  BY <1>1, StoresKeeps DEF FindsNoSocket, Probing, At, State
<1>2. CASE DaemonSilent(t)
  BY <1>2, StoresKeeps DEF DaemonSilent, Probing, At, State
<1>3. CASE Inspect(t)
  <2> DEFINE state == IF PoolsSeen = {} \/ host # "whole" THEN "degraded" ELSE "ready"
  <2>1. state \in State
    BY DEF State
  <2>2. Probing(t) /\ Stores(t, state) /\ Unlocks
    BY <1>3 DEF Inspect, Probing, At
  <2> HIDE DEF state
  <2> QED BY <2>1, <2>2, StoresKeeps
<1> QED BY <1>1, <1>2, <1>3

LEMMA DaemonAnswersKeeps == ASSUME Inv, NEW t \in Task, DaemonAnswers(t) PROVE Inv'
<1>1. /\ task' \in [Task -> Request] /\ task'[t].pc = "inspect" /\ task'[t].kind = task[t].kind
      /\ task'[t].after = task[t].after /\ \A u \in Task \ {t} : task'[u] = task[u]
  BY GotoTyped DEF Inv, DaemonAnswers, Pc
<1>2. TypeOK'
  BY <1>1 DEF Inv, TypeOK, DaemonAnswers, Database
<1>3. Probing(t) /\ UNCHANGED <<cache, holder>>
  BY DEF DaemonAnswers, Probing, At, Lock
<1>4. ProbesAlone'
  BY <1>1, <1>3 DEF Inv, ProbesAlone, Probing
<1>6. ASSUME NEW r \in Task, task'[r].kind = "refresh", At(r, "answered")' PROVE Current(r)'
  <2>1. r # t /\ task[r].kind = "refresh" /\ At(r, "answered")
    BY <1>1, <1>6 DEF At
  <2>2. Current(r)
    BY <2>1, RefreshIsCurrent DEF Inv
  <2> QED BY <1>1, <1>3, <2>1, <2>2 DEF Current, Probing
<1>7. RefreshHolds'
  BY <1>6 DEF RefreshHolds, Current, Probing
<1> QED BY <1>2, <1>4, <1>7 DEF Inv

-----------------------------------------------------------------------------
(* The steps of the row.                                                   *)

\* A request that is not in the capability goes on or ends, and may write the row.
LEMMA GoesOnKeeps ==
    ASSUME Inv, NEW t \in Task,
           task[t].pc \in {"check", "answered", "capacity", "insert", "inserted"},
           Goto(t, "capacity") \/ Goto(t, "insert") \/ Goto(t, "inserted") \/ End(t),
           UNCHANGED <<cache, holder>>, rows' \in Nat
    PROVE  Inv'
<1>1. /\ task' \in [Task -> Request]
      /\ task'[t].pc \in {"idle", "capacity", "insert", "inserted"}
      /\ \A u \in Task \ {t} : task'[u] = task[u]
  BY GotoTyped, EndTyped DEF Inv, Pc
<1> QED BY <1>1, QuietKeeps

\* A refresh that finds a socket joins the queue for the probe.
LEMMA CheckKeeps == ASSUME Inv, NEW t \in Task, CheckRefresh(t) PROVE Inv'
<1>1. task[t] \in Request /\ task[t].pc = "check" /\ UNCHANGED <<cache, holder, rows>>
  BY DEF Inv, TypeOK, CheckRefresh, At, Database
<1>2. rows' \in Nat
  BY <1>1 DEF Inv, TypeOK
<1>3. CASE End(t)
  BY <1>1, <1>2, <1>3, GoesOnKeeps
<1>4. CASE ~End(t)
  <2> DEFINE r == [task[t] EXCEPT !.pc = "wait", !.row = rows > 0]
  <2>1. task' = [task EXCEPT ![t] = r]
    BY <1>4 DEF CheckRefresh, Inv, TypeOK, Request
  <2>2. r \in Request /\ r.pc = "wait"
    <3>1. (rows > 0) \in BOOLEAN
      OBVIOUS
    <3> QED BY <1>1, <3>1 DEF Request, Pc
  <2>3. /\ task' \in [Task -> Request] /\ task'[t].pc = "wait"
        /\ \A u \in Task \ {t} : task'[u] = task[u]
    BY <2>1, <2>2 DEF Inv, TypeOK
  <2> QED BY <1>1, <1>2, <2>3, QuietKeeps
<1> QED BY <1>3, <1>4

-----------------------------------------------------------------------------
(* The world changes: nothing that the invariant speaks of but the cache's *)
(* age.                                                                    *)
LEMMA WorldKeeps ==
    ASSUME Inv, UNCHANGED <<holder, rows, task>>,
           cache' = cache \/ (cache # None /\ cache' = [cache EXCEPT !.fresh = FALSE])
    PROVE  Inv'
<1>1. /\ cache' \in [state : State, fresh : BOOLEAN, after : SUBSET Task]
      /\ cache'.after = cache.after /\ (cache = None => cache' = None)
  <2>1. CASE cache' = cache
    BY <2>1 DEF Inv, TypeOK
  <2>2. CASE cache # None /\ cache' = [cache EXCEPT !.fresh = FALSE]
    BY <2>2 DEF Inv, TypeOK
  <2> QED BY <2>1, <2>2
<1>2. TypeOK'
  BY <1>1 DEF Inv, TypeOK
<1>3. ProbesAlone'
  BY DEF Inv, ProbesAlone, Probing
<1>4. RefreshHolds'
  BY <1>1 DEF Inv, RefreshHolds, At
<1> QED BY <1>2, <1>3, <1>4 DEF Inv

LEMMA InitInv == Init => Inv
<1> SUFFICES ASSUME Init PROVE Inv
  OBVIOUS
<1>1. None \in [state : State, fresh : BOOLEAN, after : SUBSET Task]
  BY DEF None, State
<1>2. Idle \in Request /\ Idle.pc = "idle"
  BY DEF Idle, Request, Pc, State
<1>3. \A t \in Task : At(t, "idle")
  BY <1>2 DEF Init, At
<1>4. TypeOK
  BY <1>1, <1>2 DEF Init, TypeOK
<1>5. ProbesAlone /\ RefreshHolds
  BY <1>3 DEF ProbesAlone, RefreshHolds, Probing, At
<1> QED BY <1>4, <1>5 DEF Inv

LEMMA NextKeeps == Inv /\ [Next]_vars => Inv'
<1> SUFFICES ASSUME Inv, [Next]_vars PROVE Inv'
  OBVIOUS
<1>1. ASSUME NEW t \in Task, BeginStatus(t) \/ BeginRefresh(t) \/ BeginNode(t) PROVE Inv'
  <2>1. CASE BeginStatus(t)
    BY <2>1, BeginKeeps DEF BeginStatus, Kind, Database
  <2>2. CASE BeginRefresh(t)
    BY <2>2, BeginKeeps DEF BeginRefresh, Kind, Lock, Database
  <2>3. CASE BeginNode(t)
    BY <2>3, BeginKeeps DEF BeginNode, Kind, Lock, Database
  <2> QED BY <1>1, <2>1, <2>2, <2>3
<1>2. ASSUME NEW t \in Task, Step(t) PROVE Inv'
  <2>1. CASE Served(t) \/ StartProbe(t)
    BY <2>1, ServedKeeps, StartProbeKeeps
  <2>2. CASE FindsNoSocket(t) \/ DaemonSilent(t) \/ Inspect(t) \/ DaemonAnswers(t)
    BY <2>2, ProbeEndsKeeps, DaemonAnswersKeeps
  <2>3. CASE CheckRefresh(t)
    BY <2>3, CheckKeeps
  <2>4. CASE \/ Respond(t) \/ CapacityFails(t) \/ CapacityKnown(t)
             \/ InsertRow(t) \/ InsertFails(t) \/ CommitRow(t) \/ RollbackRow(t)
    <3>1. rows' \in Nat /\ UNCHANGED <<cache, holder>>
      BY <2>4 DEF Inv, TypeOK, Respond, CapacityFails, CapacityKnown, InsertRow, InsertFails,
                  CommitRow, RollbackRow, Lock, Database
    <3>2. task[t].pc \in {"answered", "capacity", "insert", "inserted"}
      BY <2>4 DEF Respond, CapacityFails, CapacityKnown, InsertRow, InsertFails, CommitRow,
                  RollbackRow, At
    <3>3. Goto(t, "capacity") \/ Goto(t, "insert") \/ Goto(t, "inserted") \/ End(t)
      BY <2>4 DEF Respond, CapacityFails, CapacityKnown, InsertRow, InsertFails, CommitRow,
                  RollbackRow
    <3> QED BY <3>1, <3>2, <3>3, GoesOnKeeps
  <2> QED BY <1>2, <2>1, <2>2, <2>3, <2>4 DEF Step
<1>3. CASE HostChanges \/ CacheExpires \/ NameTaken
  <2>1. CacheExpires => cache # None
    BY DEF CacheExpires, None
  <2> QED BY <1>3, <2>1, WorldKeeps DEF HostChanges, CacheExpires, NameTaken, Lock, Database
<1>4. CASE UNCHANGED vars
  BY <1>4, WorldKeeps DEF vars
<1> QED BY <1>1, <1>2, <1>3, <1>4 DEF Next

-----------------------------------------------------------------------------
(* The lock of the cache: who waits for it is in its queue once, and whoever *)
(* holds it is a probe that is under way.                                  *)
Waiters == {t \in Task : At(t, "wait")}
Queued ==
    /\ waiting \in Seq(Task)
    /\ \A i \in 1..Len(waiting) : waiting[i] \in Waiters
    /\ \A t \in Waiters : \E i \in 1..Len(waiting) : waiting[i] = t
    /\ \A i, j \in 1..Len(waiting) : waiting[i] = waiting[j] => i = j
HeldByProbe == holder = NoTask \/ (holder \in Task /\ Probing(holder))

\* A queue without its element at i.
LEMMA RemoveAtMoves ==
    ASSUME NEW S, NEW s \in Seq(S), NEW i \in 1..Len(s)
    PROVE  /\ RemoveAt(s, i) \in Seq(S) /\ Len(RemoveAt(s, i)) = Len(s) - 1
           /\ \A j \in 1..(Len(s) - 1) : RemoveAt(s, i)[j] = IF j < i THEN s[j] ELSE s[j + 1]
<1> DEFINE a == SubSeq(s, 1, i - 1)
           b == SubSeq(s, i + 1, Len(s))
<1>1. /\ a \in Seq(S) /\ Len(a) = i - 1
      /\ \A j \in 1..(i - 1) : a[j] = s[j]
  OBVIOUS
<1>2. /\ b \in Seq(S) /\ Len(b) = Len(s) - i
      /\ \A j \in 1..(Len(s) - i) : b[j] = s[i + j]
  OBVIOUS
<1>3. RemoveAt(s, i) = a \o b
  BY DEF RemoveAt
<1> HIDE DEF a, b
<1>4. a \o b \in Seq(S) /\ Len(a \o b) = Len(s) - 1
  <2>1. a \o b \in Seq(S)
    BY <1>1, <1>2
  <2>2. Len(a \o b) = Len(a) + Len(b)
    BY <1>1, <1>2, ConcatProperties
  <2>3. Len(s) \in Nat
    OBVIOUS
  <2> QED BY <1>1, <1>2, <2>1, <2>2, <2>3
<1>5. ASSUME NEW j \in 1..(Len(s) - 1)
      PROVE  (a \o b)[j] = IF j < i THEN s[j] ELSE s[j + 1]
  <2>1. CASE j < i
    <3>1. j \in 1..(i - 1)
      BY <2>1
    <3> QED BY <1>1, <1>2, <2>1, <3>1
  <2>2. CASE ~(j < i)
    <3>1. j - (i - 1) \in 1..(Len(s) - i) /\ j - Len(a) = j - (i - 1)
      BY <1>1, <2>2
    <3>2. (a \o b)[j] = b[j - Len(a)]
      BY <1>1, <1>2, <2>2
    <3>3. b[j - (i - 1)] = s[i + (j - (i - 1))]
      BY <1>2, <3>1
    <3>4. i + (j - (i - 1)) = j + 1
      OBVIOUS
    <3> QED BY <2>2, <3>1, <3>2, <3>3, <3>4
  <2> QED BY <2>1, <2>2
<1> QED BY <1>3, <1>4, <1>5

LEMMA SameQueue ==
    ASSUME Queued, waiting' = waiting, Waiters' = Waiters
    PROVE  Queued'
BY DEF Queued

LEMMA JoinsQueue ==
    ASSUME Queued, NEW t \in Task \ Waiters, Waiters' = Waiters \cup {t},
           waiting' = Append(waiting, t)
    PROVE  Queued'
<1>1. /\ waiting' \in Seq(Task) /\ Len(waiting') = Len(waiting) + 1
      /\ \A i \in 1..Len(waiting) : waiting'[i] = waiting[i]
      /\ waiting'[Len(waiting) + 1] = t /\ Len(waiting) \in Nat
  BY DEF Queued
<1>2. \A i \in 1..Len(waiting) : waiting[i] # t
  BY DEF Queued
<1>3. \A i \in 1..Len(waiting') : i \in 1..Len(waiting) \/ i = Len(waiting) + 1
  BY <1>1
<1>4. \A i \in 1..Len(waiting') : waiting'[i] \in Waiters'
  BY <1>1, <1>3 DEF Queued
<1>5. ASSUME NEW u \in Waiters' PROVE \E i \in 1..Len(waiting') : waiting'[i] = u
  <2>1. CASE u = t
    BY <1>1, <2>1
  <2>2. CASE u # t
    <3>1. PICK i \in 1..Len(waiting) : waiting[i] = u
      BY <2>2 DEF Queued
    <3> QED BY <1>1, <3>1
  <2> QED BY <2>1, <2>2
<1>6. \A i, j \in 1..Len(waiting') : waiting'[i] = waiting'[j] => i = j
  BY <1>1, <1>2, <1>3 DEF Queued
<1> QED BY <1>1, <1>4, <1>5, <1>6 DEF Queued

LEMMA LeavesQueue ==
    ASSUME Queued, NEW t \in Task, Leave(t), Waiters' = Waiters \ {t}
    PROVE  Queued'
<1>1. PICK k \in 1..Len(waiting) : waiting[k] = t /\ waiting' = RemoveAt(waiting, k)
  BY DEF Leave
<1>2. /\ waiting' \in Seq(Task) /\ Len(waiting') = Len(waiting) - 1
      /\ \A j \in 1..(Len(waiting) - 1) :
            waiting'[j] = IF j < k THEN waiting[j] ELSE waiting[j + 1]
  <2>1. waiting \in Seq(Task)
    BY DEF Queued
  <2> QED BY <1>1, <2>1, RemoveAtMoves
<1> DEFINE old(j) == IF j < k THEN j ELSE j + 1
<1>3. /\ Len(waiting) \in Nat /\ waiting \in Seq(Task)
      /\ \A i \in 1..Len(waiting) : waiting[i] \in Task
  BY DEF Queued
<1>4. \A j \in 1..Len(waiting') : /\ old(j) \in 1..Len(waiting) /\ old(j) # k
                                  /\ waiting'[j] = waiting[old(j)]
  BY <1>1, <1>2, <1>3
<1>5. \A j \in 1..Len(waiting') : waiting'[j] # t
  BY <1>1, <1>3, <1>4 DEF Queued
<1>6. \A j \in 1..Len(waiting') : waiting'[j] \in Waiters'
  BY <1>4, <1>5 DEF Queued
<1>7. ASSUME NEW u \in Waiters' PROVE \E j \in 1..Len(waiting') : waiting'[j] = u
  <2>1. u # t /\ u \in Waiters
    OBVIOUS
  <2>2. PICK i \in 1..Len(waiting) : waiting[i] = u
    BY <2>1 DEF Queued
  <2>3. i # k
    BY <1>1, <2>1, <2>2
  <2>4. CASE i < k
    <3>1. i \in 1..Len(waiting')
      BY <1>1, <1>2, <1>3, <2>4
    <3> QED BY <1>2, <2>2, <2>4, <3>1
  <2>5. CASE i > k
    <3>1. i - 1 \in 1..Len(waiting') /\ ~(i - 1 < k) /\ (i - 1) + 1 = i
      BY <1>1, <1>2, <1>3, <2>5
    <3> QED BY <1>2, <2>2, <3>1
  <2> QED BY <1>1, <1>3, <2>3, <2>4, <2>5
<1>8. ASSUME NEW i \in 1..Len(waiting'), NEW j \in 1..Len(waiting'), waiting'[i] = waiting'[j]
      PROVE  i = j
  <2>1. /\ old(i) \in 1..Len(waiting) /\ old(j) \in 1..Len(waiting)
        /\ waiting[old(i)] = waiting[old(j)]
    BY <1>4, <1>8
  <2> HIDE DEF old
  <2>2. old(i) = old(j)
    BY <2>1 DEF Queued
  <2> USE DEF old
  <2> QED BY <1>1, <1>2, <1>3, <2>2
<1> QED BY <1>2, <1>6, <1>7, <1>8 DEF Queued

LEMMA StepQueued ==
    ASSUME Inv, Queued, HeldByProbe, NEW t \in Task, Step(t)
    PROVE  Queued' /\ HeldByProbe'
<1>1. CASE Served(t) \/ StartProbe(t)
  <2>1. Leave(t) /\ At(t, "wait") /\ holder = NoTask
    BY <1>1 DEF Served, StartProbe, MayProbe
  <2>2. /\ task'[t].pc \in {"answered", "daemon", "noSocket"}
        /\ \A u \in Task \ {t} : task'[u] = task[u]
    <3>1. CASE Served(t)
      BY <3>1 DEF Inv, TypeOK, Served, Known, Request
    <3>2. CASE StartProbe(t)
      BY <3>2 DEF Inv, TypeOK, StartProbe, Request
    <3> QED BY <1>1, <3>1, <3>2
  <2>3. Waiters' = Waiters \ {t}
    BY <2>2 DEF Waiters, At
  <2>4. Queued'
    BY <2>1, <2>3, LeavesQueue
  <2>5. HeldByProbe'
    <3>1. CASE Served(t)
      BY <2>1, <3>1 DEF HeldByProbe, Served
    <3>2. CASE StartProbe(t)
      BY <3>2 DEF Inv, TypeOK, Request, HeldByProbe, StartProbe, Probing
    <3> QED BY <1>1, <3>1, <3>2
  <2> QED BY <2>4, <2>5
<1>2. CASE FindsNoSocket(t) \/ DaemonSilent(t) \/ Inspect(t)
  <2>1. PICK state : Stores(t, state)
    BY <1>2 DEF FindsNoSocket, DaemonSilent, Inspect
  <2>2. /\ task'[t].pc = "answered" /\ \A u \in Task \ {t} : task'[u] = task[u]
        /\ waiting' = waiting
    BY <2>1 DEF Inv, TypeOK, Stores, Known, Request
  <2>3. ~At(t, "wait") /\ holder' = NoTask
    BY <1>2 DEF FindsNoSocket, DaemonSilent, Inspect, At, Unlocks
  <2>4. Waiters' = Waiters
    BY <2>2, <2>3 DEF Waiters, At
  <2> QED BY <2>2, <2>3, <2>4, SameQueue DEF HeldByProbe
<1>3. CASE DaemonAnswers(t)
  <2>1. /\ task'[t].pc = "inspect" /\ \A u \in Task \ {t} : task'[u] = task[u]
        /\ waiting' = waiting /\ holder' = holder /\ ~At(t, "wait")
    BY <1>3 DEF Inv, TypeOK, Request, DaemonAnswers, Goto, At, Lock
  <2>2. Waiters' = Waiters
    BY <2>1 DEF Waiters, At
  <2> QED BY <2>1, <2>2, SameQueue DEF HeldByProbe, Probing
<1>4. CASE CheckRefresh(t)
  <2>1. task[t].pc = "check" /\ holder' = holder
    BY <1>4 DEF CheckRefresh, At
  <2>2. CASE End(t) /\ waiting' = waiting
    <3>1. task'[t].pc = "idle" /\ \A u \in Task \ {t} : task'[u] = task[u]
      BY <2>2, EndTyped DEF Inv
    <3>2. Waiters' = Waiters
      BY <2>1, <3>1 DEF Waiters, At
    <3> QED BY <2>1, <2>2, <3>1, <3>2, SameQueue DEF HeldByProbe, Probing
  <2>3. CASE ~(End(t) /\ waiting' = waiting)
    <3>1. /\ waiting' = Append(waiting, t)
          /\ task' = [task EXCEPT ![t].pc = "wait", ![t].row = rows > 0]
      BY <1>4, <2>3 DEF CheckRefresh
    <3>2. task'[t].pc = "wait" /\ \A u \in Task \ {t} : task'[u] = task[u]
      BY <3>1 DEF Inv, TypeOK, Request
    <3>3. Waiters' = Waiters \cup {t} /\ t \notin Waiters
      BY <2>1, <3>2 DEF Waiters, At
    <3> QED BY <2>1, <3>1, <3>2, <3>3, JoinsQueue DEF HeldByProbe, Probing
  <2> QED BY <2>2, <2>3
<1>5. CASE \/ Respond(t) \/ CapacityFails(t) \/ CapacityKnown(t)
           \/ InsertRow(t) \/ InsertFails(t) \/ CommitRow(t) \/ RollbackRow(t)
  <2>1. /\ task[t].pc \in {"answered", "capacity", "insert", "inserted"}
        /\ UNCHANGED <<waiting, holder>>
    BY <1>5 DEF Respond, CapacityFails, CapacityKnown, InsertRow, InsertFails, CommitRow,
                RollbackRow, At, Lock
  <2>2. \/ Goto(t, "capacity") \/ Goto(t, "insert") \/ Goto(t, "inserted") \/ End(t)
    BY <1>5 DEF Respond, CapacityFails, CapacityKnown, InsertRow, InsertFails, CommitRow,
                RollbackRow
  <2>3. /\ task'[t].pc \in {"idle", "capacity", "insert", "inserted"}
        /\ \A u \in Task \ {t} : task'[u] = task[u]
    BY <2>2, GotoTyped, EndTyped DEF Inv, Pc
  <2>4. Waiters' = Waiters
    BY <2>1, <2>3 DEF Waiters, At
  <2> QED BY <2>1, <2>3, <2>4, SameQueue DEF HeldByProbe, Probing
<1> QED BY <1>1, <1>2, <1>3, <1>4, <1>5 DEF Step

LEMMA NextQueued == Inv /\ Queued /\ HeldByProbe /\ [Next]_vars => Queued' /\ HeldByProbe'
<1> SUFFICES ASSUME Inv, Queued, HeldByProbe, [Next]_vars PROVE Queued' /\ HeldByProbe'
  OBVIOUS
<1>1. ASSUME NEW t \in Task, BeginStatus(t) \/ BeginRefresh(t) \/ BeginNode(t)
      PROVE  Queued' /\ HeldByProbe'
  <2>1. PICK kind \in Kind, pc \in {"check", "wait", "capacity"}, row \in BOOLEAN : Begin(t, kind, pc, row)
    <3>1. CASE BeginStatus(t)
      BY <3>1 DEF BeginStatus, Kind
    <3>2. CASE BeginRefresh(t)
      BY <3>2 DEF BeginRefresh, Kind
    <3>3. CASE BeginNode(t)
      BY <3>3 DEF BeginNode, Kind
    <3> QED BY <1>1, <3>1, <3>2, <3>3
  <2>2. /\ At(t, "idle") /\ task'[t].pc = pc
        /\ \A u \in Task \ {t} : task'[u].pc = task[u].pc
    BY <2>1, BeginTyped DEF Inv, Pc
  <2>3. holder' = holder
    BY <1>1 DEF BeginStatus, BeginRefresh, BeginNode, Lock
  <2>4. HeldByProbe'
    BY <2>2, <2>3 DEF HeldByProbe, Probing, At
  <2>5. IF pc = "wait" THEN waiting' = Append(waiting, t) ELSE waiting' = waiting
    <3>1. CASE BeginStatus(t)
      <4>1. task'[t].pc = "wait" /\ waiting' = Append(waiting, t)
        BY <3>1 DEF BeginStatus, Begin, Idle
      <4> QED BY <2>2, <4>1
    <3>2. CASE BeginRefresh(t) \/ BeginNode(t)
      <4>1. task'[t].pc \in {"check", "capacity"} /\ waiting' = waiting
        BY <3>2 DEF BeginRefresh, BeginNode, Begin, Idle, Lock
      <4> QED BY <2>2, <4>1
    <3> QED BY <1>1, <3>1, <3>2
  <2>6. Queued'
    <3>1. CASE pc = "wait"
      <4>1. Waiters' = Waiters \cup {t} /\ t \notin Waiters
        BY <2>2, <3>1 DEF Waiters, At
      <4> QED BY <2>5, <3>1, <4>1, JoinsQueue
    <3>2. CASE pc # "wait"
      <4>1. Waiters' = Waiters
        BY <2>2, <3>2 DEF Waiters, At
      <4> QED BY <2>5, <3>2, <4>1, SameQueue
    <3> QED BY <3>1, <3>2
  <2> QED BY <2>4, <2>6
<1>2. ASSUME NEW t \in Task, Step(t) PROVE Queued' /\ HeldByProbe'
  BY <1>2, StepQueued
<1>3. CASE HostChanges \/ CacheExpires \/ NameTaken \/ UNCHANGED vars
  <2>1. UNCHANGED <<waiting, holder, task>>
    BY <1>3 DEF HostChanges, CacheExpires, NameTaken, Lock, vars
  <2> QED BY <2>1, SameQueue DEF HeldByProbe, Probing, Waiters, At
<1> QED BY <1>1, <1>2, <1>3 DEF Next

-----------------------------------------------------------------------------
(* The theorems.                                                           *)

\* What a refresh of the capability answers was probed after it was asked for, and
\* nobody gets an older answer from then on, whatever probes run across it
\* (LocalCapability.probe and invalidate).
THEOREM RefreshIsNeverStale == Spec => []RefreshHolds
<1>1. Init => Inv
  BY InitInv
<1>2. Inv /\ [Next]_vars => Inv'
  BY NextKeeps
<1>3. Inv => RefreshHolds
  BY DEF Inv
<1> QED BY <1>1, <1>2, <1>3, PTL DEF Spec

\* No wake-up of the cache's lock is lost, for any number of requests: who waits for it
\* waits for a probe that is under way, or the first of the queue may take it
\* (async with _lock, in get_local_capability).
THEOREM LockIsPassedOn == Spec => []NoLostWakeUp
<1>1. Init => Inv /\ Queued /\ HeldByProbe
  <2>1. Idle.pc = "idle"
    BY DEF Idle
  <2> QED BY <2>1, InitInv DEF Init, Queued, Waiters, HeldByProbe, At
<1>2. Inv /\ Queued /\ HeldByProbe /\ [Next]_vars => (Inv /\ Queued /\ HeldByProbe)'
  BY NextKeeps, NextQueued
<1>3. Inv /\ Queued /\ HeldByProbe => NoLostWakeUp
  <2> SUFFICES ASSUME Queued, HeldByProbe, NEW t \in Task, At(t, "wait"), holder = NoTask
               PROVE  \E u \in Task : At(u, "wait") /\ MayProbe(u)
    BY DEF NoLostWakeUp, HeldByProbe
  <2>1. PICK i \in 1..Len(waiting) : waiting[i] = t
    BY DEF Queued, Waiters
  <2>2. 1 \in 1..Len(waiting) /\ Head(waiting) = waiting[1]
    BY <2>1 DEF Queued
  <2>3. waiting[1] \in Task /\ waiting[1] \in Waiters
    BY <2>2 DEF Queued
  <2> QED BY <2>2, <2>3 DEF MayProbe, Waiters, At
<1> QED BY <1>1, <1>2, <1>3, PTL DEF Spec
=============================================================================
